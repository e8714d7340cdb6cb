----------------------------- MODULE AtomicInserts -----------------------------
(***************************************************************************)
(* What a caller of the SQLite storage provider is promised, whatever the   *)
(* coalescing of inserts, the transaction lock and the retries do           *)
(* (src/storage/providers/sqlite.ts): each write is answered once; it is    *)
(* answered "ok" if and only if it is in the database file, and a write     *)
(* that failed has left nothing there.  InsertQueue implements it.          *)
(***************************************************************************)
EXTENDS FiniteSets

CONSTANTS
  Client,   \* writes, each made once
  KeyOf,    \* the (organization, agent, hash) a write claims, or NULL
  NULL

VARIABLES
  stored,   \* writes that are in the database file
  answer    \* what each caller knows

vars == <<stored, answer>>

\* The unique index on active hashes.
Unique(S) == \A i, j \in S : KeyOf[i] = KeyOf[j] /\ KeyOf[i] # NULL => i = j

Waiting == {i \in Client : answer[i] = "waiting"}

Init ==
  /\ stored = {}
  /\ answer = [i \in Client |-> "none"]

Call(i) ==
  /\ answer[i] = "none"
  /\ answer' = [answer EXCEPT ![i] = "waiting"]
  /\ UNCHANGED stored

\* Some writes are stored together and answered, some are refused.
Serve(done, refused) ==
  /\ done \cap refused = {}
  /\ Unique(stored \cup done)
  /\ stored' = stored \cup done
  /\ answer' = [i \in Client |-> IF i \in done THEN "ok"
                                 ELSE IF i \in refused THEN "failed"
                                 ELSE answer[i]]

Next ==
  \/ \E i \in Client : Call(i)
  \/ \E done, refused \in SUBSET Waiting : Serve(done, refused)

ServeOne(i) ==
  \E done, refused \in SUBSET Waiting :
    i \in done \cup refused /\ Serve(done, refused)

Spec == Init /\ [][Next]_vars /\ \A i \in Client : WF_vars(ServeOne(i))

================================================================================
