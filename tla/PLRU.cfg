SPECIFICATION Spec
CONSTANTS
  Remembered = 2
INVARIANTS
  TypeOK
  RecentSurvive
