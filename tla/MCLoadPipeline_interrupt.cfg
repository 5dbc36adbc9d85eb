SPECIFICATION Spec
CONSTANTS
  k1 = k1
  k2 = k2
  k3 = k3
  Keys = {k1, k2}
  NoRow = NoRow
  Datasets <- TwoVersions
  MaxBatches = 2
  MaxRuns = 2
  MaxAttempts = 1
  Window = 4
  Faults = {"abort"}
INVARIANT FailedRunsLeaveNothing
CHECK_DEADLOCK FALSE
