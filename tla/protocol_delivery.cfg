CONSTANTS
  Workers = {w1, w2}
  NoWorker = NoWorker
  MaxRetries = 1
  Granules = {g1}
  Objects = {o1, o2}
  MaxInflight = 0
  ReuseIds = FALSE
  Reported = {}
  Requests = {"requeue", "reset", "remove", "purge", "retain", "delete"}
SPECIFICATION Spec
SYMMETRY Symmetry
INVARIANTS DeliveredExactly DeliveryInv
CHECK_DEADLOCK FALSE
