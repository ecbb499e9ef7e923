\* One key, two bodies, three mutations, one kill; writes do not fail.
CONSTANTS
  k1 = k1  v1 = v1  v2 = v2  Nil = Nil
  Keys = {k1}
  Values = {v1, v2}
  Absent = Nil
  MaxWrites = 3
  MaxCrashes = 1
  CanFailSync = FALSE
  Missing = Missing
  Truncated = Truncated
SPECIFICATION Spec
PROPERTY RestartKeepsAcked
