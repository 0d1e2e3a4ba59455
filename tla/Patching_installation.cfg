SPECIFICATION FairSpec
CONSTANTS
  Threads = {t1, t2}
  Nobody = Nobody
  MaxEmitters = 2
  MaxCalls = 3
  MaxResets = 1
  RecursionLimit = 3
  Builds <- SomeBuilds
INVARIANTS
  TypeOK
  OneWriter
  LiveOutsideShutdown
  WrappedOnce
  FactoriesCoexist
PROPERTIES
  EveryCallReturns
CHECK_DEADLOCK FALSE
