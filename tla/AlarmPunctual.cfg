\* main goes on at another esp than the handler interrupted
SPECIFICATION AlarmSpec
CONSTANTS
  Intervals = {0, 1, 3}
  MaxDepth = 2
  MaxNested = 3
  NoFrame = null
PROPERTY Punctual
