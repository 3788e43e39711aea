SPECIFICATION FairSpec
CONSTANTS
  Conns = {c1, c2}
  None = none
  U16 = 8
  U32 = 16
  Given = c1
  Requests <- FewRequests
  ResHeads <- Heads
  ResBodies <- FewLens
  MaxOther = 5
  MaxHeads = 4
  ResMaxHeads = 4
  Build = "panic"
  MaxCalls = 3
INVARIANTS TypeOK Aligned LimitSound ResponseExact
PROPERTIES AwaitsEnd PromiseKept
CHECK_DEADLOCK FALSE
