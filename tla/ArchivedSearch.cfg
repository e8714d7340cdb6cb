SPECIFICATION MCSpec
CONSTANTS
  x1 = x1
  h1 = h1
  h2 = h2
  Org = {o1}
  Agent = {a1}
  MemoryId = {m1, m2, m3}
  Text = {x1, x2}
  Meta = {k1}
  Hash = {h1, h2}
  HashOf <- MCHashOf
  NULL = NULL
  MaxVersion = 2
  MaxBatch = 2
INVARIANT ArchivedNotSearchable
