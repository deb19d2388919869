SPECIFICATION Spec
CONSTANTS
  n1 = n1
  n2 = n2
  gate = gate
  auth = auth
  Absent = Absent
  Nodes <- TwoNodes
  Types <- TwoTypes
  Watchers <- FirstNode
  MaxStarts = 2
INVARIANTS TypeOK ViewIsPast RestartKeepsKey
PROPERTIES ViewConverges
CHECK_DEADLOCK FALSE
