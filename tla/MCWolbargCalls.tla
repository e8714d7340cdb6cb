---------------------------- MODULE MCWolbargCalls ----------------------------
(* Small instances of WolbargCalls for TLC. *)
EXTENDS WolbargCalls, TLC

\* The texts normalize to different contents and are near duplicates.
MCHashOf == [x \in Text |-> x]

MCMeta == SUBSET Client

MCSimilar == Text \X Text

MCSymmetry == Permutations(Client)

================================================================================
