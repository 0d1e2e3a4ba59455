SPECIFICATION Spec
CONSTANTS
  t1 = t1
  t2 = t2
  x1 = x1
  x2 = x2
  Threads <- MCThreads
  Transfers = {}
  NoTransfer = NoTransfer
  EventKinds <- SomeBadEvents
  Capacity = 2
  FlushRecords = 2
  MaxRecords <- Rec31
  Sampling = FALSE
  WriteMayFail = TRUE
INVARIANTS
  TypeOK
  RingBounded
  FileOrder
  SizeTrigger
  RecordConservation
PROPERTIES
  KeepsLogPromise
CHECK_DEADLOCK FALSE
