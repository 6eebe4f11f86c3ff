CONSTANTS
  Workers = {w1}
  NoWorker = NoWorker
  MaxRetries = 1
  Granules = {g1}
  Objects = {o1, o2}
  MaxInflight = 0
  ReuseIds = FALSE
  Reported = {"downloading"}
  Requests = {"add", "cancel", "retry", "requeue", "revoke", "remove", "purge", "reset", "retain", "delete", "status", "pause"}
SPECIFICATION LiveSpec
PROPERTIES NoWedgedLease AckedIsFinished ImplementsLifecycle
CHECK_DEADLOCK FALSE
