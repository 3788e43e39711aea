SPECIFICATION FairSpec
CONSTANTS
  Cli = cli
  Nobody = nobody
  Spawned = {t1}
  HandlerOps <- AllOps
  SpawnOps <- AllOps
  NHandlers = 2
  MaxCalls = 2
  BodyLen = 2
  Trailing = 1
INVARIANTS TypeOK ExclusiveRead StreamExact OneFrameEach Replied NeverWedged
PROPERTIES PromiseKept Served
CHECK_DEADLOCK FALSE
