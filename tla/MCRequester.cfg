SPECIFICATION Spec
CONSTANTS
  c1 = c1
  c2 = c2
  c3 = c3
  r1 = r1
  r2 = r2
  NoCall = NoCall
  Nobody = Nobody
  Calls <- ThreeCalls
  WaitCalls <- OneCall
  NestedCalls <- OneCall
  Panicky <- Second
  Silent <- Third
  Runners <- TwoRunners
  MidSpace = 4
  MaxAnswers = 2
INVARIANTS TypeOK Correlation WaitOnce TableExact
PROPERTIES CallsProceed
