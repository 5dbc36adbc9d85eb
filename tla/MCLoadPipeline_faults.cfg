SPECIFICATION Spec
CONSTANTS
  k1 = k1
  k2 = k2
  k3 = k3
  Keys = {k1, k2}
  NoRow = NoRow
  Datasets <- TwoVersions
  MaxBatches = 2
  MaxRuns = 2
  MaxAttempts = 2
  Window = 1
  Faults = {"rejected", "timeout", "late", "merge", "delete", "crash", "abort", "metadata"}
PROPERTY VerifiedLoadsAreExact
CHECK_DEADLOCK FALSE
