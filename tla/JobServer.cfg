\* four programs in three nested directories; the system ends
SPECIFICATION FairSpec
CONSTANTS
  Dirs <- MCDirs
  Root = "root"
  Parent <- MCParent
  Programs <- MCPrograms
  Home <- MCHome
  K = 2
  Broken = {"p3"}
  Endless = {"p2"}
INVARIANTS TokensExact AtMostKAndPaid RootLast
PROPERTY OthersRun
CHECK_DEADLOCK FALSE
