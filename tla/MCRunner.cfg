CONSTANTS
  Main = Main
  Handle = Handle
  NoThread = NoThread
  NumFeatures = 2
  FloatBytes = 4
  SizeMax = 63
  Files <- MCFiles
SPECIFICATION FairSpec
INVARIANTS
  NpyReadsInside
  InputAccepted
  CleanExit
  ExitTells
  IInv
PROPERTIES
  SessionSpec
  RunnerEnds
