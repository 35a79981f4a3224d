CONSTANTS
  Threads = {t1, t2}
  Handles = {h1, h2}
  States = {s1, s2}
  Futures = {f1}
  NoState = NoState
  TargetRows = 2
  MaxRows = 2
SPECIFICATION FairSpec
INVARIANTS
  IInv
  UniqueOwner
  OrphanClosed
PROPERTIES
  OrphanTasksEnd
  CallsReturn
CHECK_DEADLOCK FALSE
