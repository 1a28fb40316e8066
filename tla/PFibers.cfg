\* SIGALRM anywhere, two fibers beside main
SPECIFICATION FairSpec
CONSTANTS
  Fibers = {f1, f2}
  Main = main
  Null = null
INVARIANTS OwnContext NoneLost NoUseAfterFree
PROPERTY EveryFiberRuns
