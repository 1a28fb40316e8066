\* three calls that update up to two blocks, two crashes
SPECIFICATION FairSpec
CONSTANTS
  Blocks = {b1, b2}
  Ops = {o1, o2, o3}
  MaxOpBlocks = 2
  LogSize = 6
  Behind = b1
  MaxCrashes = 2
PROPERTIES IsDurableFS BeginReturns
CHECK_DEADLOCK FALSE
