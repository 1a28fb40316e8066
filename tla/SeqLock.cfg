\* a reader that may stop anywhere, two writers that write three times and are fair
SPECIFICATION WriterFairSpec
CONSTANTS
  Readers = {r1}
  Writers = {w1, w2}
  Iterations = 3
INVARIANT AcceptedIsSnapshot
PROPERTIES IsMutex WritersFinish
