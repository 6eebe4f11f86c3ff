CONSTANTS
  Receivers = {r1, r2}
  NoReceiver = NoReceiver
  Keys = {1, 2}
  MaxFailures = 1
  Pullers = 1
  MaxAttempts = 2
  MaxReports = 1
  Requests = {"requeue", "reset", "restart", "disable", "forget"}
  Faults = {"reply", "answer", "host", "sigterm", "slow"}
  MaxTrouble = 2
SPECIFICATION LiveSpec
INVARIANTS OnePullEach ClaimIsPursued AckedIsHeld
PROPERTIES EveryObjectSettles
CHECK_DEADLOCK FALSE
