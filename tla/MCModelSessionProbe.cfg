CONSTANTS
  Threads = {t1}
  Handles = {h1}
  NoThread = NoThread
  NumFeatures = 2
  FloatBytes = 2
  SizeMax = 15
  Batches <- MCBatches
  BufferSizes = {0, 4}
SPECIFICATION Spec
SYMMETRY Symmetry
INVARIANT ProbeRefused
