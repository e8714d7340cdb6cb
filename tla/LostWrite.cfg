SPECIFICATION Spec
CONSTANTS
  w2 = w2
  w3 = w3
  NULL = NULL
  Writer = {w1}
  Direct = {}
  Compressor = {c1}
  Poison = {}
  KeyOf <- MCKeyOf
  Threshold = 2
  MaxBatch = 3
  MaxRetries = 1
  MaxBusy = 0
  Overlap = TRUE
CHECK_DEADLOCK FALSE
INVARIANTS NoLostWrites
