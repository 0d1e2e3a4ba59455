SPECIFICATION Spec
CONSTANTS
  t1 = t1
  t2 = t2
  x1 = x1
  x2 = x2
  Threads <- MCThreads
  Transfers = {x1}
  NoTransfer = NoTransfer
  EventKinds <- GoodEvents
  Capacity = 1
  FlushRecords = 2
  MaxRecords <- Rec22
  Sampling = FALSE
  WriteMayFail = FALSE
INVARIANTS
  EndHasStart
CHECK_DEADLOCK FALSE
