\* Two threads, two concurrent requests, one failure or kill of either process.
SPECIFICATION MCSpec
CONSTANTS
  r1 = r1
  r2 = r2
  d1 = d1
  d2 = d2
  d3 = d3
  n1 = n1
  x = x
  y = y
  c1 = c1
  c2 = c2
  t1 = t1
  t2 = t2
  Cleaner = Cleaner
  Null = Null
  Refs = {r1, r2}
  Digests = {d1, d2, d3}
  RefOf <- MCRefOf
  Needs <- MCNeeds
  Names = {n1}
  Contents = {x, y}
  Clients = {c1, c2}
  Tasks = {t1, t2}
  MaxRequests = 3
  MaxRuns = 2
  MaxTrouble = 1
INVARIANTS RowsAreBacked ReferencesHold RunsWhole VenvFits SidecarTruthful
PROPERTIES SweepSparesRuns EnsureEnds
CHECK_DEADLOCK FALSE
