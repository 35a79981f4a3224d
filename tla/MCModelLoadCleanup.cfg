CONSTANTS
  Threads = {t1, t2}
  SizeMax = 63
  Algorithm = 7
  Packs <- MCPacks
  IntMax = 10
  MaxCreates = 3
  MaxInitFails = 2
SPECIFICATION Spec
SYMMETRY Symmetry
INVARIANT TemporariesCleared
