CONSTANTS
  Workers = {1}
  Versions = {"v1", "v2"}
  First = "v1"
  Flaky = {}
  Targets = {"v2"}
  OperatorAsks = {"restart"}
  NoVersion = "-"
  Restart = "restart"
  CanaryCount = 1
  BatchPct = 50
  MaxRollouts = 2
  MaxStray = 1
  MaxParked = 1
  Requests = {"abort", "pause", "remove"}
  Faults = {"crash", "container", "install"}
SPECIFICATION LiveSpec
INVARIANTS OneActiveRollout
PROPERTIES RolloutSettles ResumedToTheEnd
CHECK_DEADLOCK FALSE
