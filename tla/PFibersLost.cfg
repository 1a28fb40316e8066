\* SIGALRM inside FiberSpawn or FreeFinishedFibers
SPECIFICATION Spec
CONSTANTS
  Fibers = {f1, f2}
  Main = main
  Null = null
INVARIANT Listed
