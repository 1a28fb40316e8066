\* SIGALRM inside FreeFinishedFibers
SPECIFICATION Spec
CONSTANTS
  Fibers = {f1, f2}
  Main = main
  Null = null
INVARIANT FreedUnused
