\* one interval, no calls
SPECIFICATION AlarmSpec
CONSTANTS
  Intervals = {2}
  MaxDepth = 0
  MaxNested = 1
  NoFrame = null
INVARIANT Undisturbed
