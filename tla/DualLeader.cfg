\* Two processes, no failures: can both be in renewLoop at once?
CONSTANTS
  p1 = p1  p2 = p2  p3 = p3
  Procs = {p1, p2}
  LeaseDuration = 3
  RetryPeriod = 1
  MaxFailures = 0
  NoHolder = NoHolder
SPECIFICATION Spec
INVARIANT LeaderExclusivity
