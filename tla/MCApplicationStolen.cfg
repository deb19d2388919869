SPECIFICATION Spec
CONSTANTS
  q1 = q1
  q2 = q2
  q3 = q3
  c1 = c1
  c2 = c2
  r1 = r1
  r2 = r2
  Startup = Startup
  NoReq = NoReq
  Nobody = Nobody
  Reqs <- TwoReqs
  ShutdownReqs <- None
  Callers <- OneCaller
  Runners <- TwoRunners
PROPERTY ShutdownCloses
CHECK_DEADLOCK FALSE
