\* the parent of a current directory is removed and ".." looked up
SPECIFICATION Spec
CONSTANTS
  Procs = {p, q}
  Inums = {1, 2, 3, 4}
  Root = 1
  Trees <- MCTrees
  Paths <- MCPaths
  MaxCalls = 3
INVARIANT TypeThere
SYMMETRY Symmetry
CHECK_DEADLOCK FALSE
