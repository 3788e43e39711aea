SPECIFICATION Spec
CONSTANTS
  Conns = {c1, c2}
  None = none
  U16 = 8
  U32 = 16
  Given = c1
  Requests <- OddRequests
  ResHeads <- Zero
  ResBodies <- Zero
  MaxOther = 6
  MaxHeads = 4
  ResMaxHeads = 4
  Build = "wrap"
  MaxCalls = 1
INVARIANT LimitSound
CHECK_DEADLOCK FALSE
