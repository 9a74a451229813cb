SPECIFICATION FairSpec
CONSTANTS
  NumWays = 1
  NumSets = 2
  NumWords = 2
  Tags = {1, 2}
  IOTag = 0
  Values = {0, 1}
  InitValue = 0
  Issued <- WatchOne
PROPERTIES
  ImplementsMemory
