\* four addresses besides the main fiber
SPECIFICATION FibersSpec
CONSTANTS
  Fibers = {f1, f2, f3, f4}
  Main = main
  Null = null
INVARIANTS OneCycle NeverResumed
PROPERTY IsFiberQueue
