SPECIFICATION FairSpec
CONSTANTS
  k1 = k1
  k2 = k2
  k3 = k3
  Keys = {k1, k2, k3}
  NoRow = NoRow
  Datasets <- ThreeVersions
  MaxBatches = 2
  MaxRuns = 3
  MaxAttempts = 2
  Window = 4
  Faults = {"rejected", "timeout", "query"}
INVARIANT FailedRunsLeaveNothing
PROPERTY OkRunsAreVisible
PROPERTY IsAtomic
PROPERTY RunsEnd
CHECK_DEADLOCK FALSE
