CONSTANTS
  Readers = {r1}
  NumEdges = 3
  B = 18
  ShortReads = TRUE
  Polls = FALSE
SPECIFICATION Spec
INVARIANT AtMostOnce
