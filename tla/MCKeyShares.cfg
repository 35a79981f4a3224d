SPECIFICATION Spec

CONSTANTS
  WordBits = 4
  Size = 16
  Value <- MCValue
  Tokens <- MCTokens
  Masks <- MCMasks
  MaxShares = 3

INVARIANT KeyRestored
