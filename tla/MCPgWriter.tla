------------------------------- MODULE MCPgWriter ------------------------------
(* PgWriter for TLC: three calls over two clients, two with one content hash,   *)
(* and one whose row is one that no insert accepts, or goes well with theirs.   *)
EXTENDS PgWriter

CONSTANTS c1, c2, c3

TheCalls == {c1, c2, c3}
TheTwins == {c1, c2}
ThePoison == {c3}
TheOps ==
  [c \in TheCalls |-> CASE c = c1 -> {"remember"}
                        [] c = c2 -> {"compress"}
                        [] c = c3 -> {"remember", "update"}]

PgSpec == PgInit /\ [][PgNext]_pgVars /\ PgFairness
================================================================================
