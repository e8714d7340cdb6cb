SPECIFICATION CallsSpec
CONSTANTS
  Client = {c1, c2}
  Org = {o1}
  Agent = {a1}
  MyOrg = o1
  MyAgent = a1
  MemoryId = {m1, m2, m3, m4, m5}
  Seeded = {m1, m2}
  Text = {x1, x2}
  Hash = {x1, x2}
  HashOf <- MCHashOf
  Meta <- MCMeta
  Similar <- MCSimilar
  Op = {"remember"}
  Strategy = {"exact"}
  NULL = NULL
  MaxVersion = 5
  MaxBatch = 1
CHECK_DEADLOCK FALSE
INVARIANTS DedupeKeepsMetadata
