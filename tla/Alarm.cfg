\* intervals that switch the alarm off, fire on each tick and on every third
SPECIFICATION AlarmSpec
CONSTANTS
  Intervals = {0, 1, 3}
  MaxDepth = 2
  MaxNested = 3
  NoFrame = null
INVARIANTS OneHandler RestoreNotInHandler
PROPERTY Spaced
