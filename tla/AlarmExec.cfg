\* exec leaves the alarm of the old program to the new one
SPECIFICATION AlarmSpec
CONSTANTS
  Intervals = {0, 1, 3}
  MaxDepth = 2
  MaxNested = 3
  NoFrame = null
PROPERTY OwnHandler
