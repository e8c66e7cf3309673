CONSTANTS
  NumNodes = 3
  SizeRange = 4
  NumSketches <- CodeSketches
  MayFail = TRUE
  ReuseMerged = TRUE
  InitialGraphs <- AllGraphs
  MaxUpdates = 0
  MaxQueries = 2
SPECIFICATION FairSpec
PROPERTY Terminates
