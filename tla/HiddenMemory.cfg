SPECIFICATION Spec
CONSTANTS
  o1 = o1
  o2 = o2
  a1 = a1
  a2 = a2
  Scope <- MCOneScope
  Vec = {v1, v2}
  MaxBatch = 2
  MaxMemories = 4
SYMMETRY MCSymmetry
INVARIANT SearchSeesEveryMemory
