\* SIGALRM between the assignment of CurrentFiber and the switch
SPECIFICATION Spec
CONSTANTS
  Fibers = {f1, f2}
  Main = main
  Null = null
INVARIANT OwnStacks
