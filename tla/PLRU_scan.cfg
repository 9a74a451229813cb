SPECIFICATION Spec
CONSTANTS
  Remembered = 1
INVARIANTS
  ScanUsesAllWays
