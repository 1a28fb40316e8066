\* a put of a directory entry against unlink
SPECIFICATION Spec
CONSTANTS
  Procs = {p, q}
  Inums = {1, 2, 3, 4}
  Root = 1
  Trees <- MCTrees
  Paths <- MCPaths
  MaxCalls = 3
INVARIANT NoDeadlock
SYMMETRY Symmetry
CHECK_DEADLOCK FALSE
