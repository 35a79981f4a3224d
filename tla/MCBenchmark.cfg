CONSTANTS
  MaxWarmup = 3
  MaxRepeat = 4
SPECIFICATION Spec
INVARIANTS
  ResultTells
PROPERTIES
  ClientSpec
