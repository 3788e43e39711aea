SPECIFICATION FairSpec
CONSTANTS
  cli = cli
  srv = srv
  heart = heart
  d1 = d1
  d2 = d2
  d3 = d3
  d4 = d4
  Sides <- Both
  Servs <- Server
  Streamed <- Client
  Heart = heart
  Data = {d1, d2, d3, d4}
  Sends <- OneDown
  CmdLen <- ShortCmds
  HeadLen <- Heads
  BodyLen <- Bodys
  LenMod = 2
  MaxHeads = 0
  MaxBodys = 1
  QueueCap = 1
  PipeCap = 1
  BufCap = 3
  MaxTicks = 1
  MayStop = TRUE
  MayBreak = FALSE
INVARIANTS OneLateMessage NoHeartEcho RestsRight
PROPERTIES WindsDown Arrives
CHECK_DEADLOCK FALSE
