SPECIFICATION FairSpec
CONSTANTS
  MaxAttempts = 3
  Filters <- AllFilters
  TraceModes <- AllTraces
INVARIANT ReportIsWhatWasAsked
INVARIANT NoLockout
INVARIANT SecretsStayOut
INVARIANT NothingIsLeftOpen
PROPERTY AcquisitionEnds
CHECK_DEADLOCK FALSE
