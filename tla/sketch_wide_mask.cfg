CONSTANTS
  Ids <- Indices
  Sketches = {s1}
  NumBuckets = 1
  NumGuesses = 2
  IndexHash <- Checksums
  ColHashes <- AnyColumns
  IntBits = 2
  ColBits = 4
SPECIFICATION Spec
INVARIANT IsolatedFound
