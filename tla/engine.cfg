SPECIFICATION FairSpec
CONSTANTS
  Users = {u1, u2}
  Clients = {c1, c2}
  Handlers = {h1, h2}
  k1 = k1
  Controls <- OnlyControl
  ControlOf <- AllOfOne
  AskedBy <- AllAskOne
  None = none
  AcceptErrors = TRUE
INVARIANTS TypeOK OneLateAtMost LimitUpToDate AllHandlersSeen SocketServed
PROPERTY KeepsAccepting
CHECK_DEADLOCK FALSE
