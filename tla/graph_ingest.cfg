CONSTANTS
  Nodes = {1, 2}
  Workers = {w1, w2}
  Inserters = {i1, i2}
  GutterSize = 1
  QueueCap = 3
  Spurious = TRUE
  ClientMay = {}
  MaxUpdates = 2
  MaxCalls = 2
  MaxGraphs = 1
SPECIFICATION FairSpec
INVARIANTS
  TypeOK
  QuerySeesStream
  EveryUpdateCounted
PROPERTIES
  CallsReturn
  BatchesDrain
