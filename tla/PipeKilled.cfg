\* a writer is killed and finds the pipe full
SPECIFICATION FairSpec
CONSTANTS
  Procs = {p, q}
  First = p
  Killable = {q}
  Bytes = {0, 1}
  Size = 2
  Wrap = 4
  MaxCount = 3
  Nothing = Nothing
INVARIANT ReadersWoken
CHECK_DEADLOCK FALSE
