SPECIFICATION FairSpec
CONSTANTS
  a = a
  b = b
  other = other
  None = None
  Ends <- MCEnds
  Others <- MCOthers
  Msgs <- MCMsgs
  From <- MCFrom
  To <- MCTo
  Ctrl <- MCCtrl
  TokenLen <- MCTokenLen
  Parts <- MCParts
  Accepted = {1, 2, 4}
  Stoppable <- MCStoppable
  Copies <- MCCopies
  DataMax = 1200
  PackMax = 1472
  BufLen = 1500
  OsMax = 65507
  U16 = 65536
  U32 = 1048576
INVARIANTS
  TypeOK
  Faithful
  RefusedForToken
  LoopHasSocket
  ClosedAfterRun
PROPERTIES
  KeepsReceiving
CHECK_DEADLOCK FALSE
