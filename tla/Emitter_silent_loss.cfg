SPECIFICATION Spec
CONSTANTS
  t1 = t1
  t2 = t2
  x1 = x1
  x2 = x2
  Threads <- MCThreads
  Transfers = {}
  NoTransfer = NoTransfer
  EventKinds <- GoodEvents
  Capacity = 2
  FlushRecords = 2
  MaxRecords <- Rec21
  Sampling = FALSE
  WriteMayFail = FALSE
INVARIANTS
  ShutdownKeepsAll
CHECK_DEADLOCK FALSE
