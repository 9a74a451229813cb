SPECIFICATION Spec
CONSTANTS
  NumWays = 2
  NumSets = 1
  NumWords = 4
  Tags = {1, 2, 3}
  IOTag = 0
  Values = {0, 1}
  InitValue = 0
  Issued <- WatchOne
INVARIANTS
  TypeOK
  HitIsOneHot
  EvictedIsNowhere
  BusAgrees
  AcceptedIsAnswered
  UncachedIsNotResent
  CleanLineMatchesMemory
PROPERTIES
  RequestIsHeld
