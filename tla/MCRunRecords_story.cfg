SPECIFICATION Spec
CONSTANTS
  Stages <- SomeStages
  Steps <- SomeSteps
  MaxAttempts = 2
  Retention = 1
  MaxDay = 2
  MaxLosses = 1
INVARIANT FollowersSeeTheStory
INVARIANT DiagnosesSeeTheEvidence
INVARIANT EndedTimelinesAreSettled
INVARIANT BlameIsRight
PROPERTY TimelineMovesForward
CHECK_DEADLOCK FALSE
