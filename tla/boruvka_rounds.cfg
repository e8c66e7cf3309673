CONSTANTS
  NumNodes = 4
  SizeRange = 5
  NumSketches <- CodeSketches
  MayFail = TRUE
  ReuseMerged = FALSE
  InitialGraphs <- Shapes
  MaxUpdates = 0
  MaxQueries = 1
SPECIFICATION Spec
INVARIANTS
  TypeOK
  CorrectForest
  Restored
  BackupsComplete
  VerifierAgrees
  MergesIndependent
  EnoughSketches
