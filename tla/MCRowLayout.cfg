CONSTANTS
  Clients = {c1}
  Tasks = {t1, t2}
  NoThread = NoThread
  Hidden = 3
  TargetRows = 3
  MaxInsert = 4
  MaxRows = 8
  MaxFails = 1
SPECIFICATION LayoutSpec
INVARIANTS
  RowMajor

\* A source whose rows are used up rightly stops.
CHECK_DEADLOCK FALSE
