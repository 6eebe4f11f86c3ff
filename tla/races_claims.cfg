CONSTANTS
  Workers = {w1, w2}
  NoWorker = NoWorker
  MaxRetries = 1
  Granules = {g1}
  Objects = {o1, o2}
  MaxInflight = 0
  ReuseIds = FALSE
  Reported = {}
  Requests = {"cancel", "retry", "revoke", "requeue"}
  Slots = {s1}
  Overlapping = {"beat", "lease"}
  MaxCounted = 1
SPECIFICATION RaceSpec
SYMMETRY Symmetry
INVARIANTS LeaseDiscipline
CHECK_DEADLOCK FALSE
