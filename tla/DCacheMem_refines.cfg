SPECIFICATION FairSpec
CONSTANTS
  NumWays = 2
  NumSets = 1
  NumWords = 2
  Tags = {1, 2, 3}
  IOTag = 0
  Values = {0, 1}
  InitValue = 0
  Issued <- WatchOne
PROPERTIES
  ImplementsMemory
