\* two readers, two writers, every thread fair
SPECIFICATION FairSpec
CONSTANTS
  Readers = {r1, r2}
  Writers = {w1, w2}
  Iterations = 2
  ReadCap = 1
INVARIANT NoTornRead
PROPERTIES IsReadersWriters WriterEnters
