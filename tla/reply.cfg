SPECIFICATION Spec
CONSTANTS
  Tasks = {t1, t2, t3}
  MaxCalls = 5
  BodyLen = 2
  Trailing = 2
INVARIANTS
  TypeOK
  ExactUnlessShared
PROPERTIES
  SettledOnce
CHECK_DEADLOCK FALSE
