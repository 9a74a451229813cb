SPECIFICATION FairSpec
CONSTANTS
  N = 3
  Regs = {0, 1}
  Mtvec = 1
  Issued <- DataProgram
INVARIANTS
  TypeOK
  CommitsInOrder
  DiffTest
  BubbleBehindAccess
PROPERTIES
  KeepsCommitting
