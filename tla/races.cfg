CONSTANTS
  Workers = {w1}
  NoWorker = NoWorker
  MaxRetries = 1
  Granules = {g1}
  Objects = {o1}
  MaxInflight = 0
  ReuseIds = FALSE
  Reported = {"downloading"}
  Requests = {"cancel", "retry", "revoke", "requeue"}
  Slots = {s1}
  Overlapping = {"event", "cancel", "retry", "requeue", "revoke", "ack", "beat", "lease"}
  MaxCounted = 1
SPECIFICATION RaceLiveSpec
INVARIANTS NeverUndercounted
PROPERTIES OwnerlessIsHealed
CHECK_DEADLOCK FALSE
