---------------------------- MODULE MCVectorIndex -----------------------------
(* Small instances of VectorIndex for TLC. *)
EXTENDS VectorIndex, TLC

CONSTANTS o1, o2, a1, a2

\* Two agents of one organization and one of another.
MCScope == {<<o1, a1>>, <<o1, a2>>, <<o2, a1>>}

\* A single tenant.
MCOneScope == {<<o1, a1>>}

MCSymmetry == Permutations(Vec)

================================================================================
