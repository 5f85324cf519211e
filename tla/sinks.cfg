SPECIFICATION Spec
CONSTANTS
  Kinds = {"jpeg", "url", "generic"}
  Parts = 2
  Cap = 3
  RowGroup = 2
  MaxRecords = 5
  MaxFails = 2
INVARIANTS
  TypeOK
  PrefixRecovered
  FlushedSurvives
  LossCounted
  SpoilsOne
  CleanEndComplete
CHECK_DEADLOCK FALSE
