CONSTANTS
  Workers = {1, 2}
  Versions = {"v1", "v2"}
  First = "v1"
  Flaky = {}
  Targets = {"v2"}
  OperatorAsks = {"restart"}
  NoVersion = "-"
  Restart = "restart"
  CanaryCount = 1
  BatchPct = 50
  MaxRollouts = 2
  MaxStray = 1
  MaxParked = 1
  Requests = {"abort", "pause", "remove"}
  Faults = {"crash", "container", "install"}
  Overlapping = {"start", "abort", "resume", "tick", "update", "beat"}
  MaxTroubles = 2
SPECIFICATION RaceSpec
INVARIANTS NobodyForgotten OneWaveAtATime AbortHolds
CHECK_DEADLOCK FALSE
