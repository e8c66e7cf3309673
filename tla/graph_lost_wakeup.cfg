CONSTANTS
  Nodes = {1, 2}
  Workers = {w1}
  Inserters = {i1}
  GutterSize = 2
  QueueCap = 2
  Spurious = TRUE
  ClientMay = {}
  MaxUpdates = 2
  MaxCalls = 2
  MaxGraphs = 1
SPECIFICATION FairSpec
PROPERTY CallsReturn
