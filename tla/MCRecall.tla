-------------------------------- MODULE MCRecall -------------------------------
(* Recall for TLC: three texts, of which two are alike and one shares only its  *)
(* words with the query.                                                        *)
EXTENDS Recall

TheTexts == {"near", "nearer", "words"}
TheCloseness == [near |-> 3, nearer |-> 4, words |-> 0]
TheRelevance == [near |-> 1, nearer |-> 5, words |-> 3]
TheShared ==
  [t \in TheTexts |->
     [u \in TheTexts |-> IF t = u THEN 4 ELSE IF "words" \in {t, u} THEN 1 ELSE 2]]

RecallSpec == RecallInit /\ [][RecallNext]_recallVars
================================================================================
