SPECIFICATION MCSpec
CONSTANTS
  x1 = x1
  h1 = h1
  h2 = h2
  Org = {o1, o2}
  Agent = {a1}
  MemoryId = {m1, m2, m3, m4, m5}
  Text = {x1, x2}
  Meta = {k1}
  Hash = {h1, h2}
  HashOf <- MCHashOf
  NULL = NULL
  MaxVersion = 2
  MaxBatch = 2
SYMMETRY MCSymmetry
INVARIANTS TypeOK SearchCoversActive LineageSound LineageAcyclic AuditTrail
PROPERTIES TenantIsolation RowLifecycle
