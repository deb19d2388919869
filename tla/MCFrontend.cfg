SPECIFICATION Spec
CONSTANTS
  Nil = Nil
  Connectors <- MCConnectors
  NameOf <- MCNameOf
  TCP <- MCTCP
  Batches <- MCBatches
  Removable <- MCRemovable
  Panicky <- MCPanicky
  Conns = {1, 2, 3, 4}
  Via <- MCVia
  ChanSize = 2
INVARIANTS TypeOK ServedInOrder StopIsTotal
PROPERTIES NodeServes
CHECK_DEADLOCK FALSE
