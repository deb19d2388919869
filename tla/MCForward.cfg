SPECIFICATION Spec
CONSTANTS
  p1 = p1
  p2 = p2
  n1 = n1
  n2 = n2
  n3 = n3
  s1 = s1
  s2 = s2
  login = login
  play = play
  gate = gate
  game = game
  Absent = Absent
  Processes <- TwoProcesses
  Nodes <- ThreeNodes
  Home <- Together
  TypesOf <- Roles
  Types <- TwoTypes
  Kinds <- TwoKinds
  Route <- Routes
  Sessions <- TwoSessions
  GateOf <- FirstGate
  MaxMid = 1
  MaxCrashes = 1
INVARIANTS TypeOK RightClient NoStrayRequest
PROPERTIES ImplementsExchange RequestEnds
CHECK_DEADLOCK FALSE
