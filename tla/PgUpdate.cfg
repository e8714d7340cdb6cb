SPECIFICATION PgSpec
CONSTANTS
  c1 = c1
  c2 = c2
  c3 = c3
  PgCall <- TheCalls
  Client = {k1, k2}
  Poison <- ThePoison
  Twins <- TheTwins
  FlushMax = 2
  FlushThreshold = 2
  MaxParallel = 1
  MaxRetries = 1
  MaxFaults = 0
  BothTables = FALSE
  PgOps <- TheOps
INVARIANT PgUpdatesSucceed
CHECK_DEADLOCK FALSE
