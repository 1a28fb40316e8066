\* two puts of one inode without links, each of which sees the other
SPECIFICATION Spec
CONSTANTS
  Procs = {p, q}
  Inums = {1, 2, 3, 4}
  Root = 1
  Trees <- MCTrees
  Paths <- MCPaths
  MaxCalls = 3
INVARIANT LastPutFrees
SYMMETRY Symmetry
CHECK_DEADLOCK FALSE
