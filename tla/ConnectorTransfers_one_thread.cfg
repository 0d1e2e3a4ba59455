SPECIFICATION FairSpec
CONSTANTS
  Threads = {t1}
  Layers = {l1, l2}
  NoLayer = NoLayer
  Transfers = {x1, x2}
  Raising = TRUE
  Interrupts = FALSE
INVARIANT EndsAfterArrival
PROPERTY TransfersClosed
