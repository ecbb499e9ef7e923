\* Two processes that may crash, one failing HTTP call.
CONSTANTS
  p1 = p1  p2 = p2  p3 = p3
  Procs = {p1, p2}
  LeaseDuration = 3
  RetryPeriod = 1
  MaxFailures = 1
  NoHolder = NoHolder
SPECIFICATION Spec
INVARIANT TypeOK
PROPERTY FailoverEventually
