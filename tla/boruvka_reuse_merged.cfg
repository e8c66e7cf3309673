CONSTANTS
  NumNodes = 4
  SizeRange = 5
  NumSketches <- CodeSketches
  MayFail = FALSE
  ReuseMerged = TRUE
  InitialGraphs <- TwoPairs
  MaxUpdates = 1
  MaxQueries = 3
SPECIFICATION Spec
INVARIANT CorrectForest
