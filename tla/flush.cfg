CONSTANTS
  Items = 5
  MaxBatch = 2
  MaxBuffer = 3
SPECIFICATION LiveSpec
INVARIANTS OwedIsPending NoOvertaking
PROPERTIES EventuallyLands DrainTerminates
CHECK_DEADLOCK FALSE
