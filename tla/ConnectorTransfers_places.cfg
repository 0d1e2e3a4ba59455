SPECIFICATION Spec
CONSTANTS
  Threads = {t1, t2}
  Layers = {l1}
  NoLayer = NoLayer
  Transfers = {x1, x2, x3}
  Raising = TRUE
  Interrupts = TRUE
SYMMETRY Symmetry
INVARIANTS TypeOK OnePlace
