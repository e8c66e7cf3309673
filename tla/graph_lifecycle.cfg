CONSTANTS
  Nodes = {1, 2, 3}
  Workers = {w1, w2}
  Inserters = {i1, i2}
  GutterSize = 2
  QueueCap = 2
  Spurious = TRUE
  ClientMay = {}
  MaxUpdates = 3
  MaxCalls = 2
  MaxGraphs = 2
SPECIFICATION Spec
SYMMETRY Symmetry
INVARIANTS
  QuerySeesStream
  EveryUpdateCounted
  MemoryLive
  NoUncaughtException
  UnlockedIntact
  QuiescentQuery
  PausedPoolInv
