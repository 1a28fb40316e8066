\* SIGALRM anywhere: a fiber that has returned is resumed
SPECIFICATION Spec
CONSTANTS
  Fibers = {f1, f2}
  Main = main
  Null = null
INVARIANT NeverAsserts
