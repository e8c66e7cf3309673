CONSTANTS
  NumNodes = 3
  SizeRange = 4
  NumSketches <- CodeSketches
  MayFail = TRUE
  ReuseMerged = FALSE
  InitialGraphs <- AllGraphs
  MaxUpdates = 1
  MaxQueries = 2
SPECIFICATION Spec
INVARIANTS
  SoundForest
  NeverRequeried
  ProcessSurvives
PROPERTIES
  KeepsPromise
