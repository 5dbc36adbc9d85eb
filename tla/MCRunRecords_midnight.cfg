SPECIFICATION Spec
CONSTANTS
  Stages <- SomeStages
  Steps <- SomeSteps
  MaxAttempts = 1
  Retention = 1
  MaxDay = 1
  MaxLosses = 0
INVARIANT LogsAreFound
CHECK_DEADLOCK FALSE
