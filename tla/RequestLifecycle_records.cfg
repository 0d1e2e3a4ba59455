SPECIFICATION Spec
CONSTANTS
  Requests = {r1, r2}
  MaxSteps = 3
  Chunk = 2
  Builds <- MCBuilds
SYMMETRY Symmetry
INVARIANTS
  FinishIsComplete
  TrackerFollowsEngine
  RecordsTellWhoRuns
CHECK_DEADLOCK FALSE
