SPECIFICATION Spec
CONSTANTS
  Fraction = 2
  Context = 3
  Missing = Missing
  NoNumber = NoNumber
  Null = Null
  Text = Text
  Error = Error
  MaxDepth = 2
  Numbers = {0, 1, 2, 3, 4, 5, 6, 7, 8}
  Steps = {1, 2}
  Precisions = {1, 2, 3, 4}
  Numerals <- Amounts
  MaxRows = 3
  MaxMembers = 2
  AlwaysDenied <- Infrastructure
  KnownKeys <- SchemaKeys
  Protected <- Shielded
  Attempts = 2
  Inputs <- SomeInputs
INVARIANT CellsAreConverted
INVARIANT RowsAreAccountedFor
INVARIANT TransformsLoseNothing
INVARIANT ResultsAreCertain
INVARIANT SchedulesAreStandard
INVARIANT ConfigsMeanWhatTheySay
 
INVARIANT AssistantAnswersAreSound
CHECK_DEADLOCK FALSE
