SPECIFICATION Spec
CONSTANTS
  Requests = {r1, r2}
  MaxSteps = 3
  Builds <- AllBuilds
SYMMETRY Symmetry
INVARIANTS
  TypeOK
  LastRecordTells
  RowIsRight
  TrackerFollowsEngine
CHECK_DEADLOCK FALSE
