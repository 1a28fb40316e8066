\* four calls on a directory in a directory: the freed inode is used again
SPECIFICATION Spec
CONSTANTS
  Procs = {p, q}
  Inums = {1, 2, 3, 4}
  Root = 1
  Trees <- MCTree
  Paths <- MCWays
  MaxCalls = 4
INVARIANT LinksAlways
SYMMETRY Symmetry
CHECK_DEADLOCK FALSE
