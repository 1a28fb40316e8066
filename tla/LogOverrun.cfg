\* three calls of one block each fill a log of three blocks, one of which is its header
SPECIFICATION Spec
CONSTANTS
  Blocks = {b1, b2, b3, b4}
  Ops = {o1, o2, o3}
  MaxOpBlocks = 1
  LogSize = 3
  Behind = b4
  MaxCrashes = 0
PROPERTY IsDurableFS
CHECK_DEADLOCK FALSE
