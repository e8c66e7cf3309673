CONSTANTS
  Ids <- Indices
  Sketches = {s1, s2}
  NumBuckets = 2
  NumGuesses = 2
  IndexHash <- Checksums
  ColHashes <- TwoColumns
  IntBits = 4
  ColBits = 2
SPECIFICATION Spec
SYMMETRY Symmetry
INVARIANTS
  Linear
  IsolatedFound
PROPERTY ImplementsSampler
