\* Three runs, two of them cut short.
CONSTANTS
  ranker = ranker
  admin = admin
  s3 = s3
  a1 = a1
  a2 = a2
  a3 = a3
  u1 = u1
  x1 = x1
  d1 = d1
  Plans <- MCPlans
  Owner <- MCOwner
  Ranker = ranker
  SYSTEMS <- MCSystems
  ACCOUNTS = {a1, a2}
  FOLLOWS <- MCFollows
  MaxRuns = 3
  MaxFaults = 2
SPECIFICATION SeedFairSpec
INVARIANTS RecordedUsable DuplicatesExplained DoneComplete
PROPERTIES SeedConverges
CHECK_DEADLOCK FALSE
