SPECIFICATION Spec
CONSTANTS
  w2 = w2
  w3 = w3
  NULL = NULL
  Writer = {w1, w2, w3}
  Direct = {u1}
  Compressor = {c1}
  Poison = {w1}
  KeyOf <- MCKeyOf
  Threshold = 2
  MaxBatch = 3
  MaxRetries = 1
  MaxBusy = 2
  Overlap = FALSE
CHECK_DEADLOCK FALSE
INVARIANTS TypeOK QueueIsAttended NoRowLostOrTwice NothingLeftOpen PeersSurvivePoison AckedIsDurable CompressIsAtomic
PROPERTIES EveryCallReturns ImplementsAtomicInserts
