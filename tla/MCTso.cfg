\* Two threads, a clock that is set back, crashes and failing flushes.
CONSTANTS
  Threads = {t1, t2}
  FlushInterval = 1
  MaxLogical = 2
  Horizon = 1
  MaxStepBack = 1
  MaxMs = 4
SYMMETRY ThreadSymmetry
SPECIFICATION TsoSpec
INVARIANTS TsoTypeOK OwnStampsAccepted
PROPERTIES StrictStamps StoredNeverRetreats
