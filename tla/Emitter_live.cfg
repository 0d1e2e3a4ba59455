SPECIFICATION ProbeSpec
CONSTANTS
  t1 = t1
  t2 = t2
  x1 = x1
  x2 = x2
  Threads <- MCThreads
  Transfers = {x1}
  NoTransfer = NoTransfer
  EventKinds <- NoEvents
  Capacity = 1
  FlushRecords = 2
  MaxRecords <- Rec21
  Sampling = TRUE
  WriteMayFail = FALSE
INVARIANTS
  AtMostOneEnd
  NoEndForSampledTransfer
PROPERTIES
  ProbeReturns
  BuffersDrain
  FlusherTerminates
CHECK_DEADLOCK FALSE
