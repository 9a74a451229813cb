SPECIFICATION FairSpec
CONSTANTS
  NumWays = 1
  NumSets = 2
  NumWords = 4
  Tags = {1, 2}
  IOTag = 0
  Values = {0, 1}
  InitValue = 0
  MaxQueue = 2
  Issued <- Program
INVARIANTS
  TypeOK
  ReadsMatchReference
  TransactionIsHeld
  BeatsAgree
PROPERTIES
  TasksAreAnswered
