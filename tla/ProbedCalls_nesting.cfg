SPECIFICATION Spec
CONSTANTS
  Threads = {t1, t2}
  Items = {i1}
  Inside <- EngineCalls
  MaxCalls = 4
  MaxDepth = 3
SYMMETRY Symmetry
INVARIANTS TypeOK ContextIsInnermost KindTellsCaller TransfersFollowCalls RecordsNeedReturn
CHECK_DEADLOCK FALSE
