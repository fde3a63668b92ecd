\* More writers than connections, and two readers beside them.
CONSTANTS
  Writers = {w1, w2, w3, w4}
  Readers = {r1, r2}
  PoolSize = 3
SPECIFICATION PoolSpec
INVARIANTS Conserved StuckOnlyByWriters
PROPERTIES CallsEnd
