CONSTANTS
  Clients = {c1, c2}
  Tasks = {t1, t2}
  NoThread = NoThread
  TargetRows = 3
  MaxInsert = 4
  MaxRows = 7
  MaxFails = 1
SPECIFICATION FairSpec
INVARIANTS
  IInv
  QueueInv
  ExactlyOnce
  LastIsFinal
  FailedOnlyWhenDrained
  NoLostWakeup
PROPERTIES
  StreamSpec
  CloseEndsTasks
  ReadyBatchIsTaken
CHECK_DEADLOCK FALSE
