\* two processes, the second may be killed; the counters wrap at 4
SPECIFICATION FairSpec
CONSTANTS
  Procs = {p, q}
  First = p
  Killable = {q}
  Bytes = {0, 1}
  Size = 2
  Wrap = 4
  MaxCount = 3
  Nothing = Nothing
INVARIANTS NotFreedInUse NoMissedWakeup
PROPERTIES IsChannel HangUp
CHECK_DEADLOCK FALSE
