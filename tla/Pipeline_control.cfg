SPECIFICATION Spec
CONSTANTS
  N = 3
  Regs = {0, 1}
  Mtvec = 1
  Issued <- ControlProgram
INVARIANTS
  CommitsInOrder
  DiffTest
  MemoryIsPrecise
  DeviceRequestHeld
