CONSTANTS
  Threads = {t1, t2, t3}
  SizeMax = 63
  Algorithm = 7
  Packs <- MCPacks
  IntMax = 10
  MaxCreates = 3
  MaxInitFails = 2
SPECIFICATION FairSpec
INVARIANTS
  ReadsInside
  LoadsGenuine
  GeneratedParses
  InitOnce
  SecretsCleared
  IInv
PROPERTY CreateReturns
