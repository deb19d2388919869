SPECIFICATION Spec
CONSTANTS
  p1 = p1
  p2 = p2
  r1 = r1
  r2 = r2
  s1 = s1
  s2 = s2
  t1 = t1
  t2 = t2
  t3 = t3
  NoTask = NoTask
  Posters <- TwoPosters
  Runners <- TwoRunners
  Stoppers <- TwoStoppers
  Tasks <- ThreeTasks
  Panicking <- TwoPanic
  Reentrant <- TwoRepost
  Cap = 1
INVARIANTS TypeOK StopDrains CountersExact
PROPERTIES ImplementsTaskQueue WorkEnds
