---------------------------- MODULE MCInsertQueue -----------------------------
(* Small instances of InsertQueue for TLC. *)
EXTENDS InsertQueue

CONSTANTS w2, w3

\* Two concurrent writers remember the same text; no other row has a hash.
MCKeyOf == [w \in Writer |-> IF w \in {w2, w3} THEN "key" ELSE NULL]

================================================================================
