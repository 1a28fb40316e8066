\* a failed child reads the input of the shell
SPECIFICATION FairShell
CONSTANTS
  N = 3
  Cap = 1
  Lines = 1
PROPERTY PromptUnlessDeserted
CHECK_DEADLOCK FALSE
