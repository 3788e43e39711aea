SPECIFICATION Spec
CONSTANTS
  cli = cli
  srv = srv
  heart = heart
  d1 = d1
  d2 = d2
  d3 = d3
  d4 = d4
  Sides <- Both
  Servs <- Server
  Streamed <- Server
  Heart = heart
  Data = {d1, d2, d3, d4}
  Sends <- FourUp
  CmdLen <- Cmds
  HeadLen <- Heads
  BodyLen <- Bodys
  LenMod = 2
  MaxHeads = 0
  MaxBodys = 0
  QueueCap = 2
  PipeCap = 1
  BufCap = 1
  MaxTicks = 0
  MayStop = FALSE
  MayBreak = TRUE
INVARIANTS TypeOK ExactFrames
PROPERTY LinkKept
CHECK_DEADLOCK FALSE
