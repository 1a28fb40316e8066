\* two files that execl refuses
SPECIFICATION FairSpec
CONSTANTS
  Dirs <- MCDirs
  Root = "root"
  Parent <- MCParent
  Programs <- MCPrograms
  Home <- MCHome
  K = 1
  Broken = {"p1"}
  Endless = {}
INVARIANT AtMostK
CHECK_DEADLOCK FALSE
