\* A watch client goes away while a writer is blocked on its full channel.
\* The stuck state is reported through WritesReturn, so the deadlock check
\* is off here.
CONSTANTS
  w1 = w1
  w2 = w2
  x1 = x1
  x2 = x2
  Writers = {w1}
  Watchers = {x1}
  Kinds <- MCKinds
  Names <- MCNames
  QueueCap = 1
  MaxWrites = 2
  CanDisconnect = TRUE
SPECIFICATION Spec
PROPERTY WritesReturn
CHECK_DEADLOCK FALSE
