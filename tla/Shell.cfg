\* three commands of every fate, two more lines of input
SPECIFICATION FairShell
CONSTANTS
  N = 3
  Cap = 1
  Lines = 2
INVARIANT WritersOnly
PROPERTY PromptComesBack
CHECK_DEADLOCK FALSE
