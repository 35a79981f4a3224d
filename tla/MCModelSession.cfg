CONSTANTS
  Threads = {t1, t2}
  Handles = {h1}
  NoThread = NoThread
  NumFeatures = 2
  FloatBytes = 2
  SizeMax = 15
  Batches <- MCBatches
  BufferSizes = {0, 4}
SPECIFICATION Spec
SYMMETRY Symmetry
INVARIANTS
  MemorySafe
  RetrySucceeds
  RaceFree
  ErrorTells
  IInv
