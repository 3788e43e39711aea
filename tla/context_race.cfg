SPECIFICATION Spec
CONSTANTS
  Cli = cli
  Nobody = nobody
  Spawned = {t1}
  HandlerOps <- RespOps
  SpawnOps <- RespOps
  NHandlers = 1
  MaxCalls = 2
  BodyLen = 1
  Trailing = 0
INVARIANT SingleFrame
CHECK_DEADLOCK FALSE
