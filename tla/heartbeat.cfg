SPECIFICATION Spec
CONSTANTS
  Period = 40
  Timeout = 60
  SendWait = 6
  CheckWait = 10
  Pause = 1
  Delay = 1
INVARIANTS TypeOK HealthyStays SilenceDetected
