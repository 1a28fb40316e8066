\* two processes, three blocks in two buffers
SPECIFICATION Spec
CONSTANTS
  Procs = {p, q}
  Bufs = {b1, b2}
  Blocks = {n1, n2, n3}
  Values = {v, w}
  Nothing = Nothing
INVARIANTS OneBuffer NoMissedWakeup
PROPERTY IsBlockStore
CHECK_DEADLOCK FALSE
