\* Watch clients that read, go away and watch again; writers block on a
\* full channel until the watch goroutine drains it.  A disconnect while a
\* writer is blocked on the leaving watcher's channel stops the registry
\* for good (run watch_deadlock), so deadlock is not checked here.
CONSTANTS
  w1 = w1
  w2 = w2
  x1 = x1
  x2 = x2
  Writers = {w1, w2}
  Watchers = {x1, x2}
  Kinds <- MCKinds
  Names <- MCNames
  QueueCap = 1
  MaxWrites = 3
  CanDisconnect = TRUE
SPECIFICATION Spec
INVARIANT TypeOK
INVARIANT WatchFidelity
PROPERTY WatchStoreRefined
CHECK_DEADLOCK FALSE
