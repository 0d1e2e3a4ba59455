SPECIFICATION Spec
CONSTANTS
  MaxRecords = 5
  MaxBatch = 2
  RotateAt = 2
  MaxLives = 3
INVARIANTS
  OnlyNewestAreLost
  ClosedTraceValidates
  PairsOnceWhenSettled
PROPERTIES
  StaysReadable
CHECK_DEADLOCK FALSE
