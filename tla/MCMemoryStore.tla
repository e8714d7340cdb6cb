---------------------------- MODULE MCMemoryStore -----------------------------
(* Small instances of MemoryStore for TLC, of which an initial state chooses    *)
(* one: two organizations with four memories, or one organization with a fifth, *)
(* which a summary of a summary takes.                                          *)
EXTENDS MemoryStore, TLC

CONSTANTS x1, h1, h2

VARIABLE world

\* Two texts that the hash tells apart: two summaries may be active at once.
MCHashOf == [x \in Text |-> IF x = x1 THEN h1 ELSE h2]

MCSymmetry == Permutations(MemoryId) \cup Permutations(Org)

Tenants(t) == {t[i].org : i \in DOMAIN t}

Edited(t) == {i \in DOMAIN t : t[i].version > 1}

\* The bounds: of "tenants" one id less, of "lineage" one organization that has
\* memories, of which one has been updated.
Bound ==
  CASE world = "tenants" -> issued' # MemoryId
    [] world = "lineage" -> Cardinality(Tenants(rows')) <= 1 /\ Cardinality(Edited(rows')) <= 1

MCInit == Init /\ world \in {"tenants", "lineage"}

MCNext == Next /\ Bound /\ UNCHANGED world

MCSpec == MCInit /\ [][MCNext]_<<storeVars, world>>

================================================================================
