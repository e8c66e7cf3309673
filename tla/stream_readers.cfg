CONSTANTS
  Readers = {r1, r2, r3}
  NumEdges = 5
  B = 20
  ShortReads = FALSE
  Polls = FALSE
SPECIFICATION FairSpec
INVARIANTS
  StreamInv
  SeqInv
  AtMostOnce
  NothingLost
  FileOrder
PROPERTY ReadersEnd
