CONSTANTS
  Models = {1, 2}
  MaxRuns = 4
SPECIFICATION Spec
INVARIANTS
  ScriptsDeliver
  ResultsCompare
  IInv
CHECK_DEADLOCK FALSE
