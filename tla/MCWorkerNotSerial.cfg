SPECIFICATION Spec
CONSTANTS
  p1 = p1
  p2 = p2
  r1 = r1
  r2 = r2
  s1 = s1
  s2 = s2
  t1 = t1
  t2 = t2
  t3 = t3
  NoTask = NoTask
  Posters <- OnePoster
  Runners <- TwoRunners
  Stoppers <- OneStopper
  Tasks <- ThreeTasks
  Panicking <- OnePanics
  Reentrant <- None
  Cap = 2
PROPERTY ImplementsSerialQueue
