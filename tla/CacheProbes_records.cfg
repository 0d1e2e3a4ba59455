SPECIFICATION Spec
CONSTANTS
  Blocks = {b1, b2}
  Requests = {q1, q2}
  MaxStays = 3
  Builds <- AllBuilds
SYMMETRY Symmetry
INVARIANTS
  TypeOK
  ResidencyIsTrue
  HitsOfOneStay
CHECK_DEADLOCK FALSE
