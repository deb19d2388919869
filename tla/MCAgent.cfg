SPECIFICATION Spec
CONSTANTS
  m1 = m1
  m2 = m2
  m3 = m3
  r1 = r1
  r2 = r2
  NoMsg = NoMsg
  Msgs <- ThreeMsgs
  Runners <- TwoRunners
  Backlog = 1
INVARIANTS TypeOK NoPanic OrderKept NothingLeft FewWaiting
PROPERTY NothingHangs
