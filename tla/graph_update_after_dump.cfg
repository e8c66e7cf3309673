CONSTANTS
  Nodes = {1, 2}
  Workers = {w1}
  Inserters = {i1}
  GutterSize = 2
  QueueCap = 2
  Spurious = FALSE
  ClientMay = {"update_while_paused"}
  MaxUpdates = 2
  MaxCalls = 2
  MaxGraphs = 1
SPECIFICATION Spec
INVARIANT QuerySeesStream
