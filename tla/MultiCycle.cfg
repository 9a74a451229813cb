SPECIFICATION Spec
CONSTANTS
  W = 4
  LowBits = 1
  Operands = {0, 1, 6, 7, 8, 15}
  Later = {0, 15}
INVARIANTS
  TypeOK
  ResultIsRight
PROPERTIES
  UnitIsFreed
