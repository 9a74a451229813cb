SPECIFICATION Spec
CONSTANTS
  NumWords = 4
  NumLines = 3
  MaxDelay = 2
INVARIANTS
  TypeOK
  BeatIsExpected
  RequestUnmodified
PROPERTIES
  RequestsAreServed
