CONSTANTS
  Workers = {w1}
  NoWorker = NoWorker
  MaxRetries = 2
  Granules = {g1, g2}
  Objects = {o1, o2}
  MaxInflight = 1
  ReuseIds = FALSE
  Reported = {"downloading", "downloaded", "processing", "processed", "uploading"}
  Requests = {"add", "cancel", "retry", "revoke", "pause", "status", "remove"}
SPECIFICATION Spec
SYMMETRY Symmetry
INVARIANTS InflightCapped
CHECK_DEADLOCK FALSE
