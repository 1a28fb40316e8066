\* two processes, three calls in all, one tree or the other
SPECIFICATION Spec
CONSTANTS
  Procs = {p, q}
  Inums = {1, 2, 3, 4}
  Root = 1
  Trees <- MCTrees
  Paths <- MCPaths
  MaxCalls = 3
INVARIANTS RefsExact LinksCover HeldLive DeadlockInPut
SYMMETRY Symmetry
CHECK_DEADLOCK FALSE
