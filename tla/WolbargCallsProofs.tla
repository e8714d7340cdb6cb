-------------------------- MODULE WolbargCallsProofs --------------------------
(***************************************************************************)
(* Proofs about WolbargCalls: whatever the calls of the facade know when   *)
(* they write, each write is a transaction of MemoryStore, so that its     *)
(* invariants hold of them, too; and what concurrent calls are promised of *)
(* compress(), row_version, expectedVersion and exact dedupe.              *)
(***************************************************************************)
EXTENDS WolbargCalls, MemoryStoreProofs, FiniteSetTheorems

\* createId() never runs out, a call is one of finitely many, and an insert may have a row.
Unlimited ==
  /\ ~IsFiniteSet(MemoryId)
  /\ IsFiniteSet(Seeded)
  /\ IsFiniteSet(Client)
  /\ 1 <= MaxBatch

CallRec ==
  [op : {"none", "remember", "update", "forget", "compress", "clear"},
   at : {"idle", "exact", "near", "upsert", "replace", "insert", "raced", "read", "write",
         "summarized"} \cup Answered,
   text : Text \cup {NULL}, dedupe : {"off", "exact", "near", "exact-or-near"},
   id : MemoryId \cup {NULL}, seen : SUBSET Client, merges : BOOLEAN,
   expect : Nat \cup {NULL}, ids : SUBSET MemoryId]

HaveText == {"exact", "near", "upsert", "replace", "insert", "raced", "summarized"}

Typed ==
  /\ calls \in [Client -> CallRec]
  /\ \A c \in Client : calls[c].at \in HaveText => calls[c].text \in Text

\* What a call refers to has been created, and its page is of its agent.
Refers ==
  \A c \in Client :
    /\ calls[c].id \in issued \cup {NULL}
    /\ calls[c].ids \subseteq issued
    /\ \A i \in calls[c].ids \cap DOMAIN rows : rows[i].org = MyOrg /\ rows[i].agent = MyAgent

CallsIInv == IInv /\ IsFiniteSet(issued) /\ Typed /\ Refers

--------------------------------------------------------------------------------
(* The records of the calls *)

Others(c) == \A d \in Client : d # c => calls'[d] = calls[d]

LEMMA GoesTo ==
  ASSUME calls \in [Client -> CallRec], NEW c \in Client, NEW at, Goto(c, at)
  PROVE  /\ calls'[c] = [calls[c] EXCEPT !.at = at] /\ Others(c)
         /\ calls' = [calls EXCEPT ![c] = [calls[c] EXCEPT !.at = at]]
BY DEF Goto, Others

LEMMA GotoAt ==
  ASSUME calls \in [Client -> CallRec], NEW c \in Client, NEW at, Goto(c, at)
  PROVE  calls'[c].at = at
<1>1. calls'[c] = [calls[c] EXCEPT !.at = at] /\ calls[c] \in CallRec
  BY GoesTo
<1> QED BY <1>1 DEF CallRec

LEMMA Becomes ==
  ASSUME calls \in [Client -> CallRec], NEW c \in Client, NEW r \in CallRec,
         calls' = [calls EXCEPT ![c] = r]
  PROVE  calls' \in [Client -> CallRec] /\ calls'[c] = r /\ Others(c)
BY DEF Others

LEMMA UnusedType == Unused \in CallRec
BY DEF Unused, CallRec

LEMMA FreshIsNew ==
  ASSUME Unlimited, IInv, IsFiniteSet(issued)
  PROVE  FreshId \in MemoryId /\ FreshId \notin issued
<1>1. \E i \in MemoryId : i \notin issued
  <2> SUFFICES ASSUME MemoryId \subseteq issued PROVE FALSE
    OBVIOUS
  <2>1. IsFiniteSet(MemoryId)
    BY FS_Subset
  <2> QED BY <2>1 DEF Unlimited
<1> QED BY <1>1 DEF FreshId

--------------------------------------------------------------------------------
(* Writes are transactions of the store *)

LEMMA NewRowInserts ==
  ASSUME Unlimited, IInv, IsFiniteSet(issued), NEW x \in Text, NEW m \in Meta,
         NEW h \in {NULL, HashOf[x]},
         InsertMemories([k \in {FreshId} |-> NewRow(MyOrg, MyAgent, x, m, h)])
  PROVE  Insert(MyOrg)
<1> DEFINE r == NewRow(MyOrg, MyAgent, x, m, h)
           new == [k \in {FreshId} |-> r]
           R == {NewRow(MyOrg, a, y, n, g) :
                   a \in Agent, y \in Text, n \in Meta, g \in Hash \cup {NULL}}
           T == {FreshId}
<1>1. T \in SUBSET (MemoryId \ issued) /\ T # {}
  BY FreshIsNew
<1>2. Cardinality(T) <= MaxBatch
  BY FS_Singleton, StoreAssumption DEF Unlimited
<1>3. r \in R
  BY CallsAssumption, StoreAssumption
<1>4. r.hash \in {NULL, HashOf[r.text]}
  BY DEF NewRow
<1> HIDE DEF r, R
<1>5. new \in [T -> R]
  BY <1>3
<1>6. new \in Inserts(MyOrg)
  <2> HIDE DEF new, T
  <2> QED BY <1>1, <1>2, <1>5 DEF Inserts, R
<1>7. \A i \in DOMAIN new : new[i].hash \in {NULL, HashOf[new[i].text]}
  BY <1>4
<1> QED BY <1>6, <1>7 DEF Insert, r

LEMMA WriteUpdates ==
  ASSUME NEW i, NEW x \in Text \cup {NULL}, NEW m \in Meta, NEW h \in Hash \cup {NULL},
         NEW v, UpdateMemory(MyOrg, i, x, m, h, v), IInv
  PROVE  Update(MyOrg)
<1>1. i \in Owned(MyOrg) /\ (v = NULL \/ v = rows[i].version) /\ rows[i].version < MaxVersion
  BY DEF UpdateMemory, CanUpdate
<1>2. rows[i].version \in Nat \ {0}
  BY <1>1 DEF Owned, IInv, TypeOK, Row
<1>3. v \in (1 .. MaxVersion) \cup {NULL}
  BY <1>1, <1>2, StoreAssumption
<1> QED BY <1>1, <1>3 DEF Update

LEMMA PageCompresses ==
  ASSUME Unlimited, CallsIInv, NEW c \in Client, NEW x \in Text,
         Compress(MyOrg, MyAgent, FreshId, x, {}, calls[c].ids)
  PROVE  CompressAgent(MyOrg)
<1> DEFINE ids == calls[c].ids \cap Scope(MyOrg, MyAgent)
<1>1. ArchiveTargets(MyOrg, ids) = ArchiveTargets(MyOrg, calls[c].ids)
  BY DEF ArchiveTargets, CallsIInv, Refers, Scope, Owned
<1>2. Compress(MyOrg, MyAgent, FreshId, x, {}, ids)
  BY <1>1 DEF Compress
<1>3. FreshId \in MemoryId
  BY FreshIsNew DEF CallsIInv
<1>4. {} \in Meta /\ MyAgent \in Agent /\ ids \in SUBSET Scope(MyOrg, MyAgent)
  BY CallsAssumption
<1> QED BY <1>2, <1>3, <1>4 DEF CompressAgent

\* The part of a step that concerns the store is a transaction of it, or nothing.
LEMMA CallsWrite ==
  ASSUME Unlimited, CallsIInv, [CallsNext]_callVars
  PROVE  [Next]_storeVars
<1>0. MyOrg \in Org /\ calls \in [Client -> CallRec]
  BY CallsAssumption DEF CallsIInv, Typed
<1>1. CASE UNCHANGED callVars
  BY <1>1 DEF callVars
<1> SUFFICES ASSUME NEW c \in Client,
                    \/ RememberCall(c) \/ LookupExact(c) \/ LookupNear(c) \/ Upsert(c)
                    \/ InsertNew(c) \/ LookupRaced(c)
                    \/ UpdateCall(c) \/ UpdateRead(c) \/ UpdateWrite(c)
                    \/ Forget(c)
                    \/ CompressCall(c) \/ CompressWrite(c)
                    \/ Clear(c)
             PROVE  [Next]_storeVars
  BY <1>1 DEF CallsNext
<1>2. CASE \/ RememberCall(c) \/ LookupExact(c) \/ LookupNear(c) \/ LookupRaced(c)
           \/ UpdateCall(c) \/ UpdateRead(c) \/ CompressCall(c)
  BY <1>2 DEF RememberCall, LookupExact, LookupNear, LookupRaced, UpdateCall, UpdateRead,
              CompressCall, Reject
<1>3. CASE Upsert(c)
  <2> DEFINE x == IF calls[c].at = "replace" THEN calls[c].text ELSE NULL
             m == calls[c].seen \cup {c}
             h == HashOf[calls[c].text]
  <2>1. UNCHANGED storeVars \/ UpdateMemory(MyOrg, calls[c].id, x, m, h, NULL)
    BY <1>3 DEF Upsert, Reject
  <2>2. calls[c].text \in Text /\ calls[c].seen \in SUBSET Client
    BY <1>0, <1>3 DEF Upsert, CallsIInv, Typed, HaveText, CallRec
  <2>3. x \in Text \cup {NULL} /\ m \in Meta /\ h \in Hash \cup {NULL}
    BY <2>2, CallsAssumption, StoreAssumption
  <2> HIDE DEF x, m, h
  <2> QED BY <1>0, <2>1, <2>3, WriteUpdates DEF Next, CallsIInv
<1>4. CASE InsertNew(c)
  <2> DEFINE x == calls[c].text
             h == IF calls[c].dedupe = "off" THEN NULL ELSE HashOf[x]
  <2>1. \/ UNCHANGED storeVars
        \/ InsertMemories([k \in {FreshId} |-> NewRow(MyOrg, MyAgent, x, {c}, h)])
    BY <1>4 DEF InsertNew
  <2>2. x \in Text /\ {c} \in Meta /\ h \in {NULL, HashOf[x]}
    BY <1>4, CallsAssumption DEF InsertNew, CallsIInv, Typed, HaveText
  <2> HIDE DEF x, h
  <2> QED BY <1>0, <2>1, <2>2, NewRowInserts DEF Next, CallsIInv
<1>5. CASE UpdateWrite(c)
  <2>1. \/ UNCHANGED storeVars
        \/ UpdateMemory(MyOrg, calls[c].id, calls[c].text, UpdatedMeta(c), NULL,
                        calls[c].expect)
    BY <1>5 DEF UpdateWrite, Reject
  <2>2. calls[c].text \in Text \cup {NULL} /\ calls[c].seen \in SUBSET Client
    BY <1>0 DEF CallRec
  <2>3. UpdatedMeta(c) \in Meta
    BY <2>2, CallsAssumption DEF UpdatedMeta
  <2> QED BY <1>0, <2>1, <2>2, <2>3, WriteUpdates DEF Next, CallsIInv
<1>6. CASE Forget(c)
  <2>1. \/ UNCHANGED storeVars
        \/ \E i \in issued : DeleteMemoryById(MyOrg, i)
        \/ DeleteMemoriesByFilter(MyOrg, MyAgent)
    BY <1>6 DEF Forget
  <2>2. issued \subseteq MemoryId /\ MyAgent \in Agent
    BY CallsAssumption DEF CallsIInv, IInv, TypeOK
  <2> QED BY <1>0, <2>1, <2>2 DEF Next, Delete, DeleteAgent
<1>7. CASE CompressWrite(c)
  <2>1. \/ UNCHANGED storeVars
        \/ Compress(MyOrg, MyAgent, FreshId, calls[c].text, {}, calls[c].ids)
    BY <1>7 DEF CompressWrite, Reject
  <2>2. calls[c].text \in Text
    BY <1>7 DEF CompressWrite, CallsIInv, Typed, HaveText
  <2> QED BY <1>0, <2>1, <2>2, PageCompresses DEF Next
<1>8. CASE Clear(c)
  BY <1>0, <1>8 DEF Clear, Next
<1> QED BY <1>2, <1>3, <1>4, <1>5, <1>6, <1>7, <1>8

\* What every step of the store leaves as it is.
StoreMoves ==
  /\ issued \subseteq issued'
  /\ DOMAIN rows' \cap issued \subseteq DOMAIN rows
  /\ LifecycleStep
  /\ \A i \in DOMAIN rows \cap DOMAIN rows' :
       rows[i].archived =>
         rows'[i].into = IF rows[i].into \in DOMAIN rows' THEN rows[i].into ELSE NULL

LEMMA StoreMovesOn ==
  ASSUME IInv, [Next]_storeVars
  PROVE  StoreMoves /\ IInv'
<1>1. LifecycleStep
  BY LifecycleEveryStep DEF IInv
<1>2. IInv'
  BY TypeOKStep, SearchCoversActiveStep, LineageSoundStep, LineageAcyclicStep, AuditTrailStep
     DEF IInv
<1>3. DOMAIN rows \subseteq issued /\ DOMAIN rows \subseteq MemoryId /\ NULL \notin DOMAIN rows
  BY StoreAssumption DEF IInv, TypeOK
<1>4. \A i \in DOMAIN rows : rows[i].into \in DOMAIN rows \cup {NULL}
  BY DEF IInv, LineageSound
<1>5. NULL \notin DOMAIN rows'
  BY <1>2, StoreAssumption DEF IInv, TypeOK
<1>6. ASSUME NEW N \in SUBSET MemoryId, Inserted(N)
      PROVE  StoreMoves
  BY <1>1, <1>4, <1>5, <1>6 DEF Inserted, StoreMoves
<1>7. ASSUME NEW i \in MemoryId, Rewritten(i)
      PROVE  StoreMoves
  BY <1>1, <1>4, <1>5, <1>7 DEF Rewritten, StoreMoves
<1>8. ASSUME NEW o, NEW a, NEW s, NEW gone \in SUBSET DOMAIN rows, Compressed(o, a, s, gone)
      PROVE  StoreMoves
  <2>1. /\ issued' = issued \cup {s} /\ DOMAIN rows' = DOMAIN rows \cup {s} /\ s \notin issued
        /\ \A i \in DOMAIN rows \ gone : rows'[i] = rows[i]
        /\ \A i \in gone : ~rows[i].archived
    BY <1>8 DEF Compressed
  <2> QED BY <1>1, <1>4, <1>5, <2>1 DEF StoreMoves
<1>9. ASSUME NEW gone, Deleted(gone)
      PROVE  StoreMoves
  BY <1>1, <1>3, <1>4, <1>5, <1>9 DEF Deleted, StoreMoves
<1>10. UNCHANGED storeVars => StoreMoves
  BY <1>1, <1>4, <1>5 DEF storeVars, StoreMoves
<1>11. StoreMoves
  <2>1. ASSUME NEW o \in Org, Insert(o) \/ Update(o) \/ CompressAgent(o)
        PROVE  StoreMoves
    BY <1>6, <1>7, <1>8, <2>1, InsertEffect, UpdateEffect, CompressEffect DEF IInv
  <2>2. ASSUME NEW o \in Org, Delete(o) \/ DeleteAgent(o) \/ ClearOrganization(o)
        PROVE  StoreMoves
    <3>1. PICK gone \in SUBSET Owned(o) : Deletes(gone)
      BY <2>2, DeleteShape DEF IInv
    <3> QED BY <1>9, <3>1, DeleteEffect DEF IInv
  <2> QED BY <1>10, <2>1, <2>2 DEF Next
<1> QED BY <1>2, <1>11

--------------------------------------------------------------------------------
(* What the calls know *)

At == {"idle", "exact", "near", "upsert", "replace", "insert", "raced", "read", "write",
       "summarized"} \cup Answered

\* Call c goes on with the record r, which fits what is stored.
Turns(c, r) ==
  /\ calls' = [calls EXCEPT ![c] = r]
  /\ r \in CallRec
  /\ r.at \in HaveText => r.text \in Text
  /\ r.id \in issued' \cup {NULL}
  /\ r.ids \subseteq issued'
  /\ \A i \in r.ids \cap DOMAIN rows' : rows'[i].org = MyOrg /\ rows'[i].agent = MyAgent

LEMMA PagesStay ==
  ASSUME CallsIInv, StoreMoves, NEW c \in Client
  PROVE  /\ calls[c].ids \subseteq issued' /\ calls[c].id \in issued' \cup {NULL}
         /\ \A i \in calls[c].ids \cap DOMAIN rows' :
              rows'[i].org = MyOrg /\ rows'[i].agent = MyAgent
BY DEF CallsIInv, Refers, StoreMoves, LifecycleStep

LEMMA TurnKeeps ==
  ASSUME CallsIInv, StoreMoves, IInv', IsFiniteSet(issued)', NEW c \in Client, NEW r, Turns(c, r)
  PROVE  CallsIInv'
<1>1. calls' \in [Client -> CallRec] /\ calls'[c] = r /\ Others(c)
  BY Becomes DEF Turns, CallsIInv, Typed
<1>2. Typed'
  BY <1>1 DEF Turns, CallsIInv, Typed, Others
<1>3. Refers'
  <2> SUFFICES ASSUME NEW d \in Client
               PROVE  /\ calls'[d].id \in issued' \cup {NULL}
                      /\ calls'[d].ids \subseteq issued'
                      /\ \A i \in calls'[d].ids \cap DOMAIN rows' :
                           rows'[i].org = MyOrg /\ rows'[i].agent = MyAgent
    BY DEF Refers
  <2>1. CASE d = c
    BY <1>1, <2>1 DEF Turns
  <2>2. CASE d # c
    BY <1>1, <2>2, PagesStay DEF Others
  <2> QED BY <2>1, <2>2
<1> QED BY <1>2, <1>3 DEF CallsIInv

LEMMA GotoTurns ==
  ASSUME CallsIInv, StoreMoves, NEW c \in Client, NEW at \in At, Goto(c, at),
         at \in HaveText => calls[c].text \in Text
  PROVE  \E r : Turns(c, r)
<1> DEFINE r == [calls[c] EXCEPT !.at = at]
<1>1. calls[c] \in CallRec
  BY DEF CallsIInv, Typed
<1>2. r \in CallRec /\ r.at = at /\ r.text = calls[c].text /\ r.id = calls[c].id
      /\ r.ids = calls[c].ids
  BY <1>1 DEF CallRec, At
<1>3. calls' = [calls EXCEPT ![c] = r]
  BY GoesTo DEF CallsIInv, Typed
<1> HIDE DEF r
<1>4. Turns(c, r)
  BY <1>2, <1>3, PagesStay DEF Turns
<1> QED BY <1>4

LEMMA FoundTurns ==
  ASSUME CallsIInv, UNCHANGED storeVars, StoreMoves, NEW c \in Client, NEW i \in DOMAIN rows,
         NEW at \in {"upsert", "replace"}, calls[c].text \in Text,
         calls' = [calls EXCEPT ![c].at = at, ![c].id = i, ![c].seen = rows[i].meta]
  PROVE  \E r : Turns(c, r)
<1> DEFINE m == rows[i].meta
           r == [calls[c] EXCEPT !.at = at, !.id = i, !.seen = m]
<1>1. calls[c] \in CallRec /\ calls \in [Client -> CallRec]
  BY DEF CallsIInv, Typed
<1>2. m \in SUBSET Client /\ i \in MemoryId /\ i \in issued'
  BY CallsAssumption DEF CallsIInv, IInv, TypeOK, Row, storeVars
<1>3. calls' = [calls EXCEPT ![c] = r]
  BY <1>1
<1> HIDE DEF m
<1>4. r \in CallRec /\ r.text = calls[c].text /\ r.id = i /\ r.ids = calls[c].ids
  BY <1>1, <1>2 DEF CallRec
<1> HIDE DEF r
<1>5. Turns(c, r)
  BY <1>2, <1>3, <1>4, PagesStay DEF Turns
<1> QED BY <1>5

LEMMA NewCallTurns ==
  ASSUME CallsIInv, StoreMoves, NEW c \in Client, NEW r \in CallRec,
         calls' = [calls EXCEPT ![c] = r], r.at \in HaveText => r.text \in Text,
         r.id \in issued \cup {NULL}, r.ids \subseteq Mine(rows), UNCHANGED rows \/ r.ids = {}
  PROVE  \E s : Turns(c, s)
<1>1. r.ids \subseteq issued' /\ r.id \in issued' \cup {NULL}
  BY DEF CallsIInv, IInv, TypeOK, Mine, Active, StoreMoves
<1>2. \A i \in r.ids \cap DOMAIN rows' : rows'[i].org = MyOrg /\ rows'[i].agent = MyAgent
  BY DEF Mine
<1>3. Turns(c, r)
  BY <1>1, <1>2 DEF Turns
<1> QED BY <1>3

Act(c) ==
  \/ RememberCall(c) \/ LookupExact(c) \/ LookupNear(c) \/ Upsert(c)
  \/ InsertNew(c) \/ LookupRaced(c)
  \/ UpdateCall(c) \/ UpdateRead(c) \/ UpdateWrite(c)
  \/ Forget(c)
  \/ CompressCall(c) \/ CompressWrite(c)
  \/ Clear(c)

LEMMA RememberTurns ==
  ASSUME Unlimited, CallsIInv, StoreMoves, NEW c \in Client,
         RememberCall(c) \/ LookupExact(c) \/ LookupNear(c) \/ Upsert(c) \/ LookupRaced(c)
  PROVE  \E r : Turns(c, r)
<1>0. calls[c].at \in HaveText => calls[c].text \in Text
  BY DEF CallsIInv, Typed
<1>1. CASE RememberCall(c)
  <2>1. PICK x \in Text, d \in Strategy :
          calls' = [calls EXCEPT ![c] =
                     [Unused EXCEPT !.op = "remember", !.text = x, !.dedupe = d,
                                    !.at = CASE d = "off" -> "insert"
                                             [] d = "near" -> "near"
                                             [] OTHER -> "exact"]]
    BY <1>1 DEF RememberCall
  <2> DEFINE a == CASE d = "off" -> "insert" [] d = "near" -> "near" [] OTHER -> "exact"
             r == [Unused EXCEPT !.op = "remember", !.text = x, !.dedupe = d, !.at = a]
  <2>2. a \in {"insert", "near", "exact"} /\ d \in {"off", "exact", "near", "exact-or-near"}
    BY CallsAssumption
  <2>3. calls' = [calls EXCEPT ![c] = r]
    BY <2>1
  <2> HIDE DEF a
  <2>4. r \in CallRec /\ r.text = x /\ r.id = NULL /\ r.ids = {}
    BY <2>2 DEF Unused, CallRec
  <2> HIDE DEF r
  <2> QED BY <2>3, <2>4, NewCallTurns
<1>2. CASE LookupExact(c)
  <2>1. CASE \E i \in SameHash(calls[c].text) : Found(c, i)
    BY <1>0, <1>2, <2>1, FoundTurns DEF LookupExact, Found, SameHash, Mine, Active, HaveText
  <2>2. CASE Goto(c, IF calls[c].dedupe = "exact" THEN "insert" ELSE "near")
    BY <1>0, <1>2, <2>2, GotoTurns DEF LookupExact, HaveText, At
  <2> QED BY <1>2, <2>1, <2>2 DEF LookupExact
<1>3. CASE LookupNear(c)
  <2>1. CASE \E i \in Nearby(calls[c].text) :
               calls' = [calls EXCEPT ![c].at = "replace", ![c].id = i, ![c].seen = rows[i].meta]
    BY <1>0, <1>3, <2>1, FoundTurns DEF LookupNear, Nearby, Mine, Active, HaveText
  <2>2. CASE Goto(c, "insert")
    BY <1>0, <1>3, <2>2, GotoTurns DEF LookupNear, HaveText, At
  <2> QED BY <1>3, <2>1, <2>2 DEF LookupNear
<1>4. CASE Upsert(c)
  <2>1. Goto(c, "updated") \/ Goto(c, "failed")
    BY <1>4 DEF Upsert, Reject
  <2> QED BY <2>1, GotoTurns DEF HaveText, At, Answered
<1>5. CASE LookupRaced(c)
  <2>1. CASE \E i \in SameHash(calls[c].text) : Found(c, i) /\ UNCHANGED storeVars
    BY <1>0, <1>5, <2>1, FoundTurns DEF LookupRaced, Found, SameHash, Mine, Active, HaveText
  <2>2. CASE Goto(c, "failed")
    BY <2>2, GotoTurns DEF HaveText, At, Answered
  <2> QED BY <1>5, <2>1, <2>2 DEF LookupRaced, Reject
<1> QED BY <1>1, <1>2, <1>3, <1>4, <1>5

\* The row that was inserted is the call's.
LEMMA CreatedTurns ==
  ASSUME Unlimited, CallsIInv, StoreMoves, NEW c \in Client, NEW ids \in SUBSET calls[c].ids,
         NEW at \in {"created", "compressed"}, FreshId \in issued', NEW r,
         r = [calls[c] EXCEPT !.at = at, !.id = FreshId, !.ids = ids],
         calls' = [calls EXCEPT ![c] = r]
  PROVE  Turns(c, r)
<1>1. calls[c] \in CallRec /\ FreshId \in MemoryId
  BY FreshIsNew DEF CallsIInv, Typed
<1>2. ids \in SUBSET MemoryId
  BY <1>1 DEF CallRec
<1>3. r \in CallRec /\ r.at = at /\ r.id = FreshId /\ r.ids = ids
  BY <1>1, <1>2 DEF CallRec, Answered
<1> QED BY <1>3, PagesStay DEF Turns, HaveText

LEMMA InsertNewTurns ==
  ASSUME Unlimited, CallsIInv, StoreMoves, NEW c \in Client, InsertNew(c)
  PROVE  \E r : Turns(c, r)
<1>0. calls[c] \in CallRec /\ (calls[c].at \in HaveText => calls[c].text \in Text)
  BY DEF CallsIInv, Typed
<1>1. CASE Goto(c, "raced")
  BY <1>0, <1>1, GotoTurns DEF InsertNew, HaveText, At
<1>2. CASE /\ issued' = issued \cup {FreshId}
           /\ calls' = [calls EXCEPT ![c].at = "created", ![c].id = FreshId]
  <2> DEFINE r == [calls[c] EXCEPT !.at = "created", !.id = FreshId, !.ids = calls[c].ids]
  <2>1. r = [calls[c] EXCEPT !.at = "created", !.id = FreshId]
    BY <1>0 DEF CallRec
  <2>2. calls' = [calls EXCEPT ![c] = r]
    BY <1>2, <2>1 DEF CallsIInv, Typed
  <2> HIDE DEF r
  <2>3. r = [calls[c] EXCEPT !.at = "created", !.id = FreshId, !.ids = calls[c].ids]
    BY DEF r
  <2> QED BY <1>2, <2>2, <2>3, CreatedTurns
<1> QED BY <1>1, <1>2 DEF InsertNew, InsertMemories

LEMMA UpdateTurns ==
  ASSUME Unlimited, CallsIInv, StoreMoves, NEW c \in Client,
         UpdateCall(c) \/ UpdateRead(c) \/ UpdateWrite(c)
  PROVE  \E r : Turns(c, r)
<1>0. calls[c] \in CallRec /\ calls \in [Client -> CallRec]
  BY DEF CallsIInv, Typed
<1>1. CASE UpdateCall(c)
  <2>1. PICK i \in issued, x \in Text \cup {NULL}, b \in BOOLEAN, cas \in BOOLEAN :
          calls' = [calls EXCEPT ![c] =
                     [Unused EXCEPT
                        !.op = "update", !.at = "read", !.text = x, !.id = i, !.merges = b,
                        !.expect = IF cas /\ i \in DOMAIN rows THEN rows[i].version
                                   ELSE NULL]]
    BY <1>1 DEF UpdateCall
  <2> DEFINE v == IF cas /\ i \in DOMAIN rows THEN rows[i].version ELSE NULL
             r == [Unused EXCEPT !.op = "update", !.at = "read", !.text = x, !.id = i,
                                 !.merges = b, !.expect = v]
  <2>2. v \in Nat \cup {NULL} /\ i \in MemoryId
    BY DEF CallsIInv, IInv, TypeOK, Row
  <2>3. calls' = [calls EXCEPT ![c] = r]
    BY <2>1
  <2> HIDE DEF v
  <2>4. r \in CallRec /\ r.at = "read" /\ r.id = i /\ r.ids = {}
    BY <2>2 DEF Unused, CallRec
  <2> HIDE DEF r
  <2> QED BY <2>3, <2>4, NewCallTurns DEF HaveText
<1>2. CASE UpdateRead(c)
  <2>1. CASE Goto(c, "failed")
    BY <2>1, GotoTurns DEF HaveText, At, Answered
  <2>2. CASE /\ calls[c].id \in DOMAIN rows
             /\ calls' = [calls EXCEPT ![c].at = "write", ![c].seen = rows[calls[c].id].meta]
    <3> DEFINE m == rows[calls[c].id].meta
               r == [calls[c] EXCEPT !.at = "write", !.seen = m]
    <3>1. m \in SUBSET Client
      BY <2>2, CallsAssumption DEF CallsIInv, IInv, TypeOK, Row
    <3>2. calls' = [calls EXCEPT ![c] = r]
      BY <1>0, <2>2
    <3> HIDE DEF m
    <3>3. r \in CallRec /\ r.at = "write" /\ r.id = calls[c].id /\ r.ids = calls[c].ids
      BY <1>0, <3>1 DEF CallRec
    <3> HIDE DEF r
    <3>4. Turns(c, r)
      BY <3>2, <3>3, PagesStay DEF Turns, HaveText
    <3> QED BY <3>4
  <2> QED BY <1>2, <2>1, <2>2 DEF UpdateRead
<1>3. CASE UpdateWrite(c)
  <2>1. Goto(c, "updated") \/ Goto(c, "failed")
    BY <1>3 DEF UpdateWrite, Reject
  <2> QED BY <2>1, GotoTurns DEF HaveText, At, Answered
<1> QED BY <1>1, <1>2, <1>3

LEMMA DeleteTurns ==
  ASSUME CallsIInv, StoreMoves, NEW c \in Client, Forget(c) \/ Clear(c)
  PROVE  \E r : Turns(c, r)
<1>1. PICK op \in {"forget", "clear"} :
        calls' = [calls EXCEPT ![c] = [Unused EXCEPT !.op = op, !.at = "done"]]
  BY DEF Forget, Clear
<1> DEFINE r == [Unused EXCEPT !.op = op, !.at = "done"]
<1>2. r \in CallRec /\ r.at = "done" /\ r.id = NULL /\ r.ids = {}
  BY DEF Unused, CallRec, Answered
<1>3. calls' = [calls EXCEPT ![c] = r]
  BY <1>1
<1> HIDE DEF r
<1> QED BY <1>2, <1>3, NewCallTurns DEF HaveText

LEMMA CompressTurns ==
  ASSUME Unlimited, CallsIInv, StoreMoves, NEW c \in Client, CompressCall(c) \/ CompressWrite(c)
  PROVE  \E r : Turns(c, r)
<1>0. calls[c] \in CallRec /\ calls \in [Client -> CallRec]
  BY DEF CallsIInv, Typed
<1>1. CASE CompressCall(c)
  <2>1. PICK ids \in SUBSET Mine(rows), x \in Text :
          calls' = [calls EXCEPT ![c] = [Unused EXCEPT
                     !.op = "compress", !.at = "summarized", !.text = x, !.ids = ids]]
    BY <1>1 DEF CompressCall
  <2> DEFINE r == [Unused EXCEPT !.op = "compress", !.at = "summarized", !.text = x,
                                 !.ids = ids]
  <2>2. ids \in SUBSET MemoryId
    BY DEF Mine, Active, CallsIInv, IInv, TypeOK
  <2>3. r \in CallRec /\ r.text = x /\ r.id = NULL /\ r.ids = ids
    BY <2>2 DEF Unused, CallRec
  <2>4. calls' = [calls EXCEPT ![c] = r] /\ rows' = rows
    BY <1>1, <2>1 DEF CompressCall, storeVars
  <2> HIDE DEF r
  <2> QED BY <2>3, <2>4, NewCallTurns
<1>2. CASE CompressWrite(c)
  <2>1. CASE Goto(c, "failed")
    BY <2>1, GotoTurns DEF HaveText, At, Answered
  <2>2. CASE /\ issued' = issued \cup {FreshId}
             /\ calls' = [calls EXCEPT ![c].at = "compressed", ![c].id = FreshId,
                                       ![c].ids = ArchiveTargets(MyOrg, @)]
    <3> DEFINE gone == ArchiveTargets(MyOrg, calls[c].ids)
               r == [calls[c] EXCEPT !.at = "compressed", !.id = FreshId, !.ids = gone]
    <3>1. calls' = [calls EXCEPT ![c] = r]
      BY <1>0, <2>2
    <3>2. gone \in SUBSET calls[c].ids
      BY DEF ArchiveTargets
    <3> HIDE DEF gone
    <3>3. r = [calls[c] EXCEPT !.at = "compressed", !.id = FreshId, !.ids = gone]
      OBVIOUS
    <3> HIDE DEF r
    <3> QED BY <2>2, <3>1, <3>2, <3>3, CreatedTurns
  <2> QED BY <1>2, <2>1, <2>2 DEF CompressWrite, Reject, Compress
<1> QED BY <1>1, <1>2

LEMMA CallTurns ==
  ASSUME Unlimited, CallsIInv, StoreMoves, NEW c \in Client, Act(c)
  PROVE  \E r : Turns(c, r)
BY RememberTurns, InsertNewTurns, UpdateTurns, DeleteTurns, CompressTurns DEF Act

\* A call returns one id at most.
LEMMA IssuedStep ==
  ASSUME Unlimited, CallsIInv, NEW c \in Client, Act(c)
  PROVE  IsFiniteSet(issued)'
<1>1. IsFiniteSet(issued \cup {FreshId})
  BY FS_AddElement DEF CallsIInv
<1>2. issued' = issued \/ issued' = issued \cup {FreshId}
  <2>1. CASE \/ RememberCall(c) \/ LookupExact(c) \/ LookupNear(c) \/ LookupRaced(c)
             \/ UpdateCall(c) \/ UpdateRead(c) \/ CompressCall(c)
    BY <2>1 DEF RememberCall, LookupExact, LookupNear, LookupRaced, UpdateCall, UpdateRead,
                CompressCall, Reject, storeVars
  <2>2. CASE Upsert(c) \/ UpdateWrite(c)
    BY <2>2 DEF Upsert, UpdateWrite, UpdateMemory, Reject, storeVars
  <2>3. CASE Forget(c) \/ Clear(c)
    BY <2>3 DEF Forget, Clear, DeleteMemoryById, DeleteMemoriesByFilter, ClearOrganization,
                DeleteRows, storeVars
  <2>4. CASE InsertNew(c) \/ CompressWrite(c)
    BY <2>4 DEF InsertNew, CompressWrite, InsertMemories, Compress, Reject, storeVars
  <2> QED BY <2>1, <2>2, <2>3, <2>4, <1>1 DEF Act
<1> QED BY <1>1, <1>2 DEF CallsIInv

LEMMA CallsInitially == Unlimited /\ CallsInit => CallsIInv
<1> SUFFICES ASSUME Unlimited, CallsInit PROVE CallsIInv
  OBVIOUS
<1>1. PICK S \in SUBSET Seeded :
        /\ issued = S
        /\ rows \in [S -> {NewRow(MyOrg, MyAgent, x, {}, HashOf[x]) : x \in Text}]
  BY DEF CallsInit
<1>2. IsFiniteSet(issued)
  BY <1>1, FS_Subset DEF Unlimited
<1>3. DOMAIN rows = S /\ issued = S /\ S \subseteq MemoryId
  BY <1>1, CallsAssumption
<1>4. \A i \in S : \E x \in Text : rows[i] = NewRow(MyOrg, MyAgent, x, {}, HashOf[x])
  BY <1>1
<1>5. \A i \in S : /\ rows[i] \in Row
                   /\ ~rows[i].archived /\ rows[i].into = NULL /\ rows[i].version = 1
  <2> SUFFICES ASSUME NEW i \in S
               PROVE  /\ rows[i] \in Row
                      /\ ~rows[i].archived /\ rows[i].into = NULL /\ rows[i].version = 1
    OBVIOUS
  <2>1. PICK x \in Text : rows[i] = NewRow(MyOrg, MyAgent, x, {}, HashOf[x])
    BY <1>4
  <2>2. HashOf[x] \in Hash \cup {NULL} /\ {} \in Meta
    BY CallsAssumption, StoreAssumption
  <2>3. NewRow(MyOrg, MyAgent, x, {}, HashOf[x]) \in Row
    BY <2>2, NewRowType, CallsAssumption
  <2> QED BY <2>1, <2>3 DEF NewRow
<1>6. /\ ann = [i \in S |-> rows[i].text] /\ fts = [i \in S |-> FtsOf(rows[i])]
      /\ history = Log(S, "created", NULL)
  BY <1>3 DEF CallsInit
<1>7. TypeOK
  <2>1. ann \in [S -> Text] /\ fts \in [S -> FtsEntry]
    BY <1>5, <1>6, FtsOfType DEF Row
  <2>2. history \subseteq Event
    BY <1>3, <1>6 DEF Log, Event
  <2>3. rows \in [S -> Row]
    BY <1>1, <1>5
  <2> QED BY <1>3, <2>1, <2>2, <2>3 DEF TypeOK
<1>8. SearchCoversActive
  BY <1>3, <1>6 DEF SearchCoversActive, Active
<1>9. LineageSound
  BY <1>3, <1>5 DEF LineageSound
<1>10. LineageAcyclic
  BY <1>3, <1>5, StoreAssumption DEF LineageAcyclic
<1>11. AuditTrail
  <2>1. \A e \in history : e.memory \in S /\ e.type = "created" /\ e.related = NULL
    BY <1>6 DEF Log
  <2>2. \A i \in S : [memory |-> i, type |-> "created", related |-> NULL] \in history
    BY <1>6 DEF Log
  <2>3. \A i \in S : [memory |-> i, type |-> "updated", related |-> NULL] \notin history
    BY <2>1
  <2>4. ASSUME NEW i \in S
        PROVE  ~(\E e \in history : e.memory = i /\ e.type = "archived") /\ ~(rows[i].version > 1)
    BY <1>5, <2>1
  <2>5. \A e, f \in history : ~(e.type = "archived" /\ f.type = "archived")
    BY <2>1
  <2> QED BY <1>3, <1>5, <2>1, <2>2, <2>3, <2>4, <2>5 DEF AuditTrail
<1>12. calls = [c \in Client |-> Unused]
  BY DEF CallsInit
<1>13. Typed /\ Refers
  BY <1>12, UnusedType DEF Typed, Refers, HaveText, Unused
<1> QED BY <1>2, <1>7, <1>8, <1>9, <1>10, <1>11, <1>13 DEF CallsIInv, IInv

LEMMA CallsStep ==
  ASSUME Unlimited, CallsIInv, [CallsNext]_callVars
  PROVE  StoreMoves /\ CallsIInv'
<1>1. StoreMoves /\ IInv'
  BY CallsWrite, StoreMovesOn DEF CallsIInv
<1>2. CASE UNCHANGED callVars
  BY <1>1, <1>2 DEF callVars, storeVars, CallsIInv, Typed, Refers
<1>3. ASSUME NEW c \in Client, Act(c)
      PROVE  CallsIInv'
  BY <1>1, <1>3, CallTurns, IssuedStep, TurnKeeps
<1> QED BY <1>1, <1>2, <1>3 DEF CallsNext, Act

\* The calls keep what they know true: the ids are of memories that were created and
\* what compress() has read is of its agent (wolbarg.ts).
THEOREM CallsInvariance ==
  ASSUME Unlimited
  PROVE  CallsSpec => []CallsIInv
<1>1. CallsInit => CallsIInv
  BY CallsInitially
<1>2. CallsIInv /\ [CallsNext]_callVars => CallsIInv'
  BY CallsStep
<1> QED BY <1>1, <1>2, PTL DEF CallsSpec

\* Concurrent calls of the facade, whatever they read before they write, keep the
\* store searchable, its lineage sound and acyclic and its audit table complete.
THEOREM CallsKeepStore ==
  ASSUME Unlimited
  PROVE  CallsSpec =>
           [](TypeOK /\ SearchCoversActive /\ LineageSound /\ LineageAcyclic /\ AuditTrail)
<1>1. CallsIInv =>
        TypeOK /\ SearchCoversActive /\ LineageSound /\ LineageAcyclic /\ AuditTrail
  BY DEF CallsIInv, IInv
<1> QED BY <1>1, CallsInvariance, PTL

\* Concurrent calls never bring a memory back from the archive or hide a change of it
\* from row_version, which is what expectedVersion relies on.
THEOREM CallsKeepLifecycle ==
  ASSUME Unlimited
  PROVE  CallsSpec => RowLifecycle
<1>1. CallsIInv /\ [CallsNext]_callVars => [LifecycleStep]_storeVars
  BY CallsStep DEF StoreMoves
<1>2. LifecycleStep =>
        \A i \in DOMAIN rows \cap DOMAIN rows' :
          /\ rows'[i].org = rows[i].org
          /\ rows'[i].agent = rows[i].agent
          /\ rows[i].archived => rows'[i].archived
          /\ \/ rows'[i].version > rows[i].version
             \/ /\ rows'[i].version = rows[i].version
                /\ rows'[i].text = rows[i].text
                /\ rows'[i].meta = rows[i].meta
                /\ rows'[i].hash = rows[i].hash
  BY DEF LifecycleStep, SameContent
<1> QED BY CallsInvariance, <1>1, <1>2, PTL DEF CallsSpec, RowLifecycle

--------------------------------------------------------------------------------
(* compress(): the sources of an answered call *)

\* Only the transaction of compress() answers with a summary.
LEMMA OnlyCompressAnswers ==
  ASSUME CallsIInv, NEW c \in Client, Act(c), calls'[c].at = "compressed"
  PROVE  /\ Compress(MyOrg, MyAgent, FreshId, calls[c].text, {}, calls[c].ids)
         /\ calls'[c].id = FreshId
         /\ calls'[c].ids = ArchiveTargets(MyOrg, calls[c].ids)
<1>0. calls[c] \in CallRec /\ calls \in [Client -> CallRec]
  BY DEF CallsIInv, Typed
<1>1. \A at : Goto(c, at) => at = "compressed"
  BY <1>0, GotoAt
<1>2. ~(RememberCall(c) \/ UpdateCall(c) \/ CompressCall(c))
  BY <1>0 DEF RememberCall, UpdateCall, CompressCall, Unused
<1>3. ~(LookupExact(c) \/ LookupNear(c) \/ LookupRaced(c) \/ UpdateRead(c))
  <2>1. \A i, m : \A at \in {"upsert", "replace", "write"} :
          /\ calls' # [calls EXCEPT ![c].at = at, ![c].id = i, ![c].seen = m]
          /\ calls' # [calls EXCEPT ![c].at = at, ![c].seen = m]
    BY <1>0 DEF CallRec
  <2> QED BY <1>1, <2>1 DEF LookupExact, LookupNear, LookupRaced, UpdateRead, Found, Reject
<1>4. ~(Upsert(c) \/ UpdateWrite(c) \/ InsertNew(c))
  BY <1>0, <1>1 DEF Upsert, UpdateWrite, InsertNew, Reject, CallRec
<1>5. ~(Forget(c) \/ Clear(c))
  BY <1>0 DEF Forget, Clear, Unused
<1>6. CompressWrite(c) /\ ~Reject(c)
  BY <1>1, <1>2, <1>3, <1>4, <1>5 DEF Act, Reject
<1> QED BY <1>0, <1>6 DEF CompressWrite, CallRec

\* What was archived stays archived, into the summary as long as there is one.
Sourced ==
  /\ \A c \in Client :
       calls[c].at = "compressed" =>
         \A i \in calls[c].ids \cap DOMAIN rows :
           /\ rows[i].archived
           /\ rows[i].into = IF calls[c].id \in DOMAIN rows THEN calls[c].id ELSE NULL
  /\ CompressedOnce

LEMMA SourcedStep ==
  ASSUME Unlimited, CallsIInv, Sourced, [CallsNext]_callVars
  PROVE  Sourced'
<1>0. StoreMoves /\ CallsIInv'
  BY CallsStep
<1>1. ASSUME NEW d \in Client, calls'[d] = calls[d], calls[d].at = "compressed",
             NEW i \in calls[d].ids \cap DOMAIN rows'
      PROVE  /\ rows'[i].archived
             /\ rows'[i].into = IF calls[d].id \in DOMAIN rows' THEN calls[d].id ELSE NULL
  <2>1. i \in DOMAIN rows /\ rows[i].archived
        /\ rows[i].into = IF calls[d].id \in DOMAIN rows THEN calls[d].id ELSE NULL
    BY <1>0, <1>1 DEF StoreMoves, CallsIInv, Refers, Sourced
  <2>2. rows'[i].archived
        /\ rows'[i].into = IF rows[i].into \in DOMAIN rows' THEN rows[i].into ELSE NULL
    BY <1>0, <1>1, <2>1 DEF StoreMoves, LifecycleStep
  <2>3. NULL \notin DOMAIN rows'
    BY <1>0, StoreAssumption DEF CallsIInv, IInv, TypeOK
  <2>4. calls[d].id \notin DOMAIN rows => calls[d].id \notin DOMAIN rows'
    BY <1>0, <2>3 DEF StoreMoves, CallsIInv, Refers
  <2> QED BY <2>1, <2>2, <2>3, <2>4
<1>2. CASE UNCHANGED callVars
  BY <1>2 DEF callVars, storeVars, Sourced, CompressedOnce
<1>3. ASSUME NEW c \in Client, Act(c)
      PROVE  Sourced'
  <2>1. Others(c)
    BY <1>0, <1>3, CallTurns, Becomes DEF Turns, CallsIInv, Typed
  <2>2. ASSUME calls'[c].at = "compressed"
        PROVE  /\ \A i \in calls'[c].ids \cap DOMAIN rows' :
                    /\ rows'[i].archived
                    /\ rows'[i].into = IF calls'[c].id \in DOMAIN rows' THEN calls'[c].id ELSE NULL
               /\ \A d \in Client \ {c} : calls[d].at = "compressed" =>
                    calls'[c].ids \cap calls[d].ids = {}
    <3> DEFINE gone == ArchiveTargets(MyOrg, calls[c].ids)
    <3>1. /\ Compress(MyOrg, MyAgent, FreshId, calls[c].text, {}, calls[c].ids)
          /\ calls'[c].id = FreshId /\ calls'[c].ids = gone
      BY <1>3, <2>2, OnlyCompressAnswers
    <3>2. gone \subseteq DOMAIN rows /\ \A i \in gone : ~rows[i].archived
      BY DEF ArchiveTargets, Owned
    <3>3. \A i \in gone : i \in issued /\ rows[i] \in Row
      BY <3>2 DEF CallsIInv, IInv, TypeOK
    <3>4. FreshId \notin issued
      BY FreshIsNew DEF CallsIInv
    <3>5. /\ FreshId \in DOMAIN rows'
          /\ \A i \in gone : rows'[i] = [rows[i] EXCEPT !.archived = TRUE, !.into = FreshId]
      BY <3>1, <3>2, <3>3, <3>4 DEF Compress, ArchivedInto, Merge
    <3>6. \A i \in gone : rows'[i].archived /\ rows'[i].into = FreshId
      BY <3>3, <3>5 DEF Row
    <3>7. \A d \in Client : calls[d].at = "compressed" => gone \cap calls[d].ids = {}
      BY <3>2 DEF Sourced
    <3> HIDE DEF gone
    <3> QED BY <3>1, <3>5, <3>6, <3>7
  <2>3. ASSUME NEW d \in Client, calls'[d].at = "compressed"
        PROVE  \A i \in calls'[d].ids \cap DOMAIN rows' :
                 /\ rows'[i].archived
                 /\ rows'[i].into = IF calls'[d].id \in DOMAIN rows' THEN calls'[d].id ELSE NULL
    <3>1. CASE d = c
      BY <2>2, <2>3, <3>1
    <3>2. CASE d # c
      BY <1>1, <2>1, <2>3, <3>2 DEF Others
    <3> QED BY <3>1, <3>2
  <2>4. ASSUME NEW d \in Client, NEW e \in Client, d # e,
               calls'[d].at = "compressed", calls'[e].at = "compressed"
        PROVE  calls'[d].ids \cap calls'[e].ids = {}
    <3>1. CASE d # c /\ e # c
      BY <2>1, <2>4, <3>1 DEF Others, Sourced, CompressedOnce
    <3>2. CASE d = c
      BY <2>1, <2>2, <2>4, <3>2 DEF Others
    <3>3. CASE e = c
      BY <2>1, <2>2, <2>4, <3>3 DEF Others
    <3> QED BY <3>1, <3>2, <3>3
  <2> QED BY <2>3, <2>4 DEF Sourced, CompressedOnce
<1> QED BY <1>2, <1>3 DEF CallsNext, Act

\* Two compress() calls that read overlapping pages never archive the same memory, and
\* a reported source leads to the summary of its call.
THEOREM CompressedAtMostOnce ==
  ASSUME Unlimited
  PROVE  CallsSpec => []CompressedOnce
<1>1. CallsInit => Sourced
  BY DEF CallsInit, Sourced, CompressedOnce, Unused
<1>2. CallsIInv /\ Sourced /\ [CallsNext]_callVars => Sourced'
  BY SourcedStep
<1>3. Sourced => CompressedOnce
  BY DEF Sourced
<1> QED BY CallsInvariance, <1>1, <1>2, <1>3, PTL DEF CallsSpec

--------------------------------------------------------------------------------
(* row_version: what an acknowledged update has written *)

\* No row that stays was written, and a row that is new was not there before.
Unwritten ==
  /\ \A i \in DOMAIN rows \cap DOMAIN rows' :
       rows'[i].version = rows[i].version /\ rows'[i].meta = rows[i].meta
  /\ \A i \in DOMAIN rows' \ DOMAIN rows : i \notin issued /\ rows'[i].version = 1

\* Call c has written its row, and no other.
Wrote(c) ==
  LET i == calls[c].id IN
  /\ calls'[c].at = "updated" /\ calls'[c].id = i
  /\ i \in DOMAIN rows /\ DOMAIN rows' = DOMAIN rows
  /\ \A j \in DOMAIN rows \ {i} : rows'[j] = rows[j]
  /\ rows'[i].version = rows[i].version + 1
  /\ calls[c].at = "write" => /\ rows'[i].meta = UpdatedMeta(c)
                              /\ calls[c].expect \in {NULL, rows[i].version}

LEMMA UpdateWrites ==
  ASSUME CallsIInv, NEW c \in Client, NEW x, NEW m, NEW h, NEW v,
         UpdateMemory(MyOrg, calls[c].id, x, m, h, v), Goto(c, "updated"),
         calls[c].at = "write" => m = UpdatedMeta(c) /\ v = calls[c].expect
  PROVE  Wrote(c)
<1> DEFINE i == calls[c].id
<1>1. i \in DOMAIN rows /\ v \in {NULL, rows[i].version}
  BY DEF UpdateMemory, CanUpdate, Owned
<1>2. rows' = Merge(rows, [k \in {i} |-> UpdatedRow(rows[i], x, m, h)])
  BY DEF UpdateMemory, Updated
<1>3. /\ DOMAIN rows' = DOMAIN rows
      /\ \A j \in DOMAIN rows \ {i} : rows'[j] = rows[j]
      /\ rows'[i] = UpdatedRow(rows[i], x, m, h)
  BY <1>1, <1>2 DEF Merge
<1>4. rows[i] \in Row
  BY <1>1 DEF CallsIInv, IInv, TypeOK
<1>5. rows'[i].version = rows[i].version + 1 /\ rows'[i].meta = m
  BY <1>3, <1>4 DEF UpdatedRow, Row
<1>6. calls'[c].at = "updated"
  BY GotoAt DEF CallsIInv, Typed
<1>7. calls'[c].id = i
  <2>1. calls[c] \in CallRec /\ calls'[c] = [calls[c] EXCEPT !.at = "updated"]
    BY GoesTo DEF CallsIInv, Typed
  <2> QED BY <2>1 DEF CallRec
<1> QED BY <1>1, <1>3, <1>5, <1>6, <1>7 DEF Wrote

LEMMA InsertsOrDeletes ==
  ASSUME Unlimited, CallsIInv, NEW c \in Client,
         InsertNew(c) \/ Forget(c) \/ Clear(c) \/ CompressWrite(c)
  PROVE  Unwritten
<1>0. \A i \in DOMAIN rows : i \in issued /\ rows[i] \in Row
  BY DEF CallsIInv, IInv, TypeOK
<1>1. FreshId \notin issued
  BY FreshIsNew DEF CallsIInv
<1>2. UNCHANGED storeVars => Unwritten
  BY DEF storeVars, Unwritten
<1>3. ASSUME NEW x, NEW m, NEW h,
             InsertMemories([k \in {FreshId} |-> NewRow(MyOrg, MyAgent, x, m, h)])
      PROVE  Unwritten
  BY <1>0, <1>1, <1>3 DEF InsertMemories, Merge, NewRow, Unwritten
<1>4. ASSUME NEW gone, DeleteRows(gone)
      PROVE  Unwritten
  <2>1. rows' = Survivors(gone)
    BY <1>4 DEF DeleteRows
  <2> QED BY <1>0, <2>1 DEF Survivors, Unwritten, Row
<1>5. ASSUME NEW x, Compress(MyOrg, MyAgent, FreshId, x, {}, calls[c].ids)
      PROVE  Unwritten
  <2> DEFINE gone == ArchiveTargets(MyOrg, calls[c].ids)
             r == NewRow(MyOrg, MyAgent, x, {}, HashOf[x])
             all == Merge(rows, [k \in {FreshId} |-> r])
  <2>1. rows' = [i \in DOMAIN all |->
                   IF i \in gone THEN [all[i] EXCEPT !.archived = TRUE, !.into = FreshId]
                   ELSE all[i]]
    BY <1>5 DEF Compress, ArchivedInto
  <2>2. /\ DOMAIN all = DOMAIN rows \cup {FreshId} /\ all[FreshId] = r
        /\ \A i \in DOMAIN rows : all[i] = rows[i]
    BY <1>0, <1>1 DEF Merge
  <2>3. FreshId \notin gone
    BY <1>0, <1>1 DEF ArchiveTargets, Owned
  <2>4. r.version = 1
    BY DEF NewRow
  <2> HIDE DEF gone, r, all
  <2>5. rows'[FreshId].version = 1 /\ DOMAIN rows' = DOMAIN rows \cup {FreshId}
    BY <2>1, <2>2, <2>3, <2>4
  <2>6. \A i \in DOMAIN rows : rows'[i].version = rows[i].version /\ rows'[i].meta = rows[i].meta
    BY <1>0, <2>1, <2>2 DEF Row
  <2> QED BY <1>1, <2>5, <2>6 DEF Unwritten
<1>6. CASE InsertNew(c)
  <2> DEFINE h == IF calls[c].dedupe = "off" THEN NULL ELSE HashOf[calls[c].text]
  <2>1. \/ UNCHANGED storeVars
        \/ InsertMemories([k \in {FreshId} |-> NewRow(MyOrg, MyAgent, calls[c].text, {c}, h)])
    BY <1>6 DEF InsertNew
  <2> HIDE DEF h
  <2> QED BY <1>2, <1>3, <2>1
<1>7. CASE Forget(c) \/ Clear(c)
  BY <1>2, <1>4, <1>7
     DEF Forget, Clear, DeleteMemoryById, DeleteMemoriesByFilter, ClearOrganization
<1>8. CASE CompressWrite(c)
  BY <1>2, <1>5, <1>8 DEF CompressWrite, Reject
<1> QED BY <1>6, <1>7, <1>8

\* A call that acts has no answer yet, and gets "updated" exactly by its one UPDATE.
LEMMA WritesCounted ==
  ASSUME Unlimited, CallsIInv, NEW c \in Client, Act(c)
  PROVE  /\ calls[c].at \notin Answered
         /\ (Wrote(c) \/ (Unwritten /\ calls'[c].at # "updated"))
<1>0. calls[c] \in CallRec /\ calls \in [Client -> CallRec]
  BY DEF CallsIInv, Typed
<1>1. calls[c].at \notin Answered
  BY DEF Act, RememberCall, LookupExact, LookupNear, Upsert, InsertNew, LookupRaced, UpdateCall,
         UpdateRead, UpdateWrite, Forget, CompressCall, CompressWrite, Clear, Start, Answered
<1> SUFFICES Wrote(c) \/ (Unwritten /\ calls'[c].at # "updated")
  BY <1>1
<1>2. \A at : Goto(c, at) => calls'[c].at = at
  BY <1>0, GotoAt
<1>3. UNCHANGED storeVars => Unwritten
  BY DEF storeVars, Unwritten
<1>4. CASE RememberCall(c) \/ UpdateCall(c) \/ CompressCall(c)
  <2>1. calls'[c].at # "updated"
    BY <1>0, <1>4 DEF RememberCall, UpdateCall, CompressCall, Unused
  <2> QED BY <1>3, <1>4, <2>1 DEF RememberCall, UpdateCall, CompressCall
<1>5. CASE LookupExact(c) \/ LookupNear(c) \/ LookupRaced(c) \/ UpdateRead(c)
  <2>1. \A i, m : \A at \in {"upsert", "replace", "write"} :
          /\ calls' = [calls EXCEPT ![c].at = at, ![c].id = i, ![c].seen = m]
             => calls'[c].at = at
          /\ calls' = [calls EXCEPT ![c].at = at, ![c].seen = m] => calls'[c].at = at
    BY <1>0 DEF CallRec
  <2>2. calls'[c].at # "updated"
    BY <1>2, <1>5, <2>1 DEF LookupExact, LookupNear, LookupRaced, UpdateRead, Found, Reject
  <2> QED
    BY <1>3, <1>5, <2>2 DEF LookupExact, LookupNear, LookupRaced, UpdateRead, Reject
<1>6. CASE InsertNew(c) \/ Forget(c) \/ Clear(c) \/ CompressWrite(c)
  <2>1. \A i, s : /\ calls' # [calls EXCEPT ![c].at = "created", ![c].id = i]
                              \/ calls'[c].at = "created"
                  /\ calls' # [calls EXCEPT ![c].at = "compressed", ![c].id = i, ![c].ids = s]
                              \/ calls'[c].at = "compressed"
    BY <1>0 DEF CallRec
  <2>2. CompressWrite(c) => calls'[c].at # "updated"
    <3>1. calls' = [calls EXCEPT ![c].at = "compressed", ![c].id = FreshId,
                                 ![c].ids = ArchiveTargets(MyOrg, @)]
          => calls'[c].at = "compressed"
      BY <1>0 DEF CallRec
    <3> QED BY <1>2, <3>1 DEF CompressWrite, Reject
  <2>3. Forget(c) \/ Clear(c) => calls'[c].at # "updated"
    BY <1>0 DEF Forget, Clear, Unused
  <2>4. InsertNew(c) => calls'[c].at # "updated"
    BY <1>2, <2>1 DEF InsertNew
  <2> QED BY <1>6, <2>2, <2>3, <2>4, InsertsOrDeletes
<1>7. CASE Upsert(c) \/ UpdateWrite(c)
  <2>1. CASE Reject(c)
    BY <1>2, <1>3, <2>1 DEF Reject
  <2>2. CASE Upsert(c) /\ ~Reject(c)
    <3>1. Wrote(c)
      BY <2>2, UpdateWrites DEF Upsert
    <3> QED BY <3>1
  <2>3. CASE UpdateWrite(c) /\ ~Reject(c)
    <3>1. Wrote(c)
      BY <2>3, UpdateWrites DEF UpdateWrite
    <3> QED BY <3>1
  <2> QED BY <1>7, <2>1, <2>2, <2>3
<1> QED BY <1>4, <1>5, <1>6, <1>7 DEF Act

LEMMA ActingAlone ==
  ASSUME Unlimited, CallsIInv, StoreMoves, NEW c \in Client, Act(c)
  PROVE  Others(c)
BY CallTurns, Becomes DEF Turns, CallsIInv, Typed

Updaters(i) == {c \in Client : calls[c].at = "updated" /\ calls[c].id = i}

LEMMA VersionStep ==
  ASSUME Unlimited, CallsIInv, VersionCountsUpdates, [CallsNext]_callVars
  PROVE  VersionCountsUpdates'
<1>0. StoreMoves /\ CallsIInv'
  BY CallsStep
<1>1. CASE UNCHANGED callVars
  BY <1>1 DEF callVars, storeVars, VersionCountsUpdates
<1>2. ASSUME NEW c \in Client, Act(c), NEW i \in DOMAIN rows'
      PROVE  rows'[i].version = 1 + Cardinality(Updaters(i)')
  <2>1. Others(c) /\ calls[c].at # "updated"
    BY <1>0, <1>2, ActingAlone, WritesCounted DEF Answered
  <2>2. /\ \A k \in DOMAIN rows : rows[k].version = 1 + Cardinality(Updaters(k))
        /\ \A k \in DOMAIN rows : rows[k].version \in Nat
    BY DEF VersionCountsUpdates, Updaters, CallsIInv, IInv, TypeOK, Row
  <2>3. calls'[c].at # "updated" => Updaters(i)' = Updaters(i)
    BY <2>1 DEF Updaters, Others
  <2>4. CASE Unwritten /\ calls'[c].at # "updated"
    <3>1. CASE i \in DOMAIN rows
      BY <2>2, <2>3, <2>4, <3>1 DEF Unwritten
    <3>2. CASE i \notin DOMAIN rows
      <4>1. i \notin issued /\ i # NULL /\ rows'[i].version = 1
        BY <1>0, <1>2, <2>4, <3>2, StoreAssumption DEF Unwritten, CallsIInv, IInv, TypeOK
      <4>2. Updaters(i) = {}
        BY <4>1 DEF Updaters, CallsIInv, Refers
      <4>3. Cardinality({}) = 0
        BY FS_EmptySet
      <4> QED BY <2>3, <2>4, <4>1, <4>2, <4>3
    <3> QED BY <3>1, <3>2
  <2>5. CASE Wrote(c)
    <3>1. i \in DOMAIN rows
      BY <1>2, <2>5 DEF Wrote
    <3>2. CASE i = calls[c].id
      <4>1. Updaters(i)' = Updaters(i) \cup {c} /\ c \notin Updaters(i)
        BY <2>1, <2>5, <3>2 DEF Wrote, Updaters, Others
      <4>2. IsFiniteSet(Updaters(i))
        BY FS_Subset DEF Updaters, Unlimited
      <4>3. Cardinality(Updaters(i)') = Cardinality(Updaters(i)) + 1
        BY <4>1, <4>2, FS_AddElement
      <4>4. Cardinality(Updaters(i)) \in Nat
        BY <4>2, FS_CardinalityType
      <4>5. rows'[i].version = rows[i].version + 1
        BY <2>5, <3>2 DEF Wrote
      <4> QED BY <2>2, <3>1, <4>3, <4>4, <4>5
    <3>3. CASE i # calls[c].id
      <4>1. Updaters(i)' = Updaters(i)
        BY <2>1, <2>5, <3>3 DEF Wrote, Updaters, Others
      <4> QED BY <2>2, <2>5, <3>1, <3>3, <4>1 DEF Wrote
    <3> QED BY <3>2, <3>3
  <2> QED BY <1>0, <1>2, <2>4, <2>5, WritesCounted
<1> QED BY <1>1, <1>2 DEF CallsNext, Act, VersionCountsUpdates, Updaters

\* row_version counts the acknowledged updates and upserts of a memory, each once,
\* whatever calls fail, race or read too early (wolbarg.ts, sqlite.ts).
THEOREM VersionsCount ==
  ASSUME Unlimited
  PROVE  CallsSpec => []VersionCountsUpdates
<1>1. CallsInit => VersionCountsUpdates
  <2> SUFFICES ASSUME CallsInit, NEW i \in DOMAIN rows
               PROVE  rows[i].version = 1 + Cardinality(Updaters(i))
    BY DEF VersionCountsUpdates, Updaters
  <2>1. rows[i].version = 1
    BY DEF CallsInit, NewRow
  <2>2. Updaters(i) = {}
    BY DEF CallsInit, Unused, Updaters
  <2> QED BY <2>1, <2>2, FS_EmptySet
<1>2. CallsIInv /\ VersionCountsUpdates /\ [CallsNext]_callVars => VersionCountsUpdates'
  BY VersionStep
<1> QED BY CallsInvariance, <1>1, <1>2, PTL DEF CallsSpec

--------------------------------------------------------------------------------
(* expectedVersion *)

\* A call that expects a version has not seen a later one, and knows the metadata of
\* its row as long as the version is the one it expects.
Seen(c) ==
  /\ calls[c].at \in {"read", "write"} \cup Answered
  /\ calls[c].id \in DOMAIN rows /\ calls[c].at \in {"read", "write"} =>
       rows[calls[c].id].version >= calls[c].expect
  /\ /\ calls[c].id \in DOMAIN rows
     /\ calls[c].at = "write"
     /\ rows[calls[c].id].version = calls[c].expect
     => calls[c].seen = rows[calls[c].id].meta

AllSeen == \A c \in Client : calls[c].expect # NULL => Seen(c)

\* Only update() expects a version.
LEMMA OnlyUpdateExpects ==
  ASSUME CallsIInv, AllSeen, NEW c \in Client, Act(c), calls'[c].expect # NULL
  PROVE  UpdateCall(c) \/ UpdateRead(c) \/ UpdateWrite(c)
<1>0. calls[c] \in CallRec /\ calls \in [Client -> CallRec]
  BY DEF CallsIInv, Typed
<1>1. CASE calls[c].at \in {"read", "write"}
  BY <1>1 DEF Act, RememberCall, LookupExact, LookupNear, Upsert, InsertNew, LookupRaced, Forget,
              CompressCall, CompressWrite, Clear, Start
<1>2. CASE calls[c].expect = NULL
  <2>1. \A at : Goto(c, at) => calls'[c].expect = NULL
    <3> SUFFICES ASSUME NEW at, Goto(c, at) PROVE calls'[c].expect = NULL
      OBVIOUS
    <3>1. calls'[c] = [calls[c] EXCEPT !.at = at]
      BY <1>0, GoesTo
    <3> QED BY <1>0, <1>2, <3>1 DEF CallRec
  <2>2. \A at, i, m :
          /\ calls' = [calls EXCEPT ![c].at = at, ![c].id = i, ![c].seen = m]
             => calls'[c].expect = NULL
          /\ calls' = [calls EXCEPT ![c].at = at, ![c].id = i] => calls'[c].expect = NULL
    BY <1>0, <1>2 DEF CallRec
  <2>3. calls' = [calls EXCEPT ![c].at = "compressed", ![c].id = FreshId,
                               ![c].ids = ArchiveTargets(MyOrg, @)]
        => calls'[c].expect = NULL
    BY <1>0, <1>2 DEF CallRec
  <2>4. ~(RememberCall(c) \/ CompressCall(c) \/ Forget(c) \/ Clear(c))
    BY <1>0 DEF RememberCall, CompressCall, Forget, Clear, Unused
  <2>5. ~(LookupExact(c) \/ LookupNear(c) \/ LookupRaced(c))
    BY <2>1, <2>2 DEF LookupExact, LookupNear, LookupRaced, Found, Reject
  <2>6. ~(Upsert(c) \/ InsertNew(c) \/ CompressWrite(c))
    BY <2>1, <2>2, <2>3 DEF Upsert, InsertNew, CompressWrite, Reject
  <2> QED BY <2>4, <2>5, <2>6 DEF Act
<1>3. calls[c].expect # NULL => calls[c].at \notin Answered /\ Seen(c)
  BY DEF AllSeen, Act, RememberCall, LookupExact, LookupNear, Upsert, InsertNew, LookupRaced,
         UpdateCall, UpdateRead, UpdateWrite, Forget, CompressCall, CompressWrite, Clear, Start,
         Answered
<1> QED BY <1>1, <1>2, <1>3 DEF Seen

LEMMA AllSeenStep ==
  ASSUME Unlimited, CallsIInv, AllSeen, [CallsNext]_callVars
  PROVE  AllSeen'
<1>0. StoreMoves /\ CallsIInv'
  BY CallsStep
<1>1. ASSUME NEW d \in Client, calls'[d] = calls[d], calls[d].expect # NULL
      PROVE  Seen(d)'
  <2> DEFINE i == calls[d].id
  <2>1. Seen(d) /\ calls[d].expect \in Nat
    BY <1>1 DEF AllSeen, CallsIInv, Typed, CallRec
  <2>2. ASSUME i \in DOMAIN rows'
        PROVE  /\ i \in DOMAIN rows
               /\ rows[i].version \in Nat /\ rows'[i].version \in Nat
               /\ rows'[i].version > rows[i].version \/ SameContent(i)
    <3>1. i \in issued
      BY <1>0, <2>2, StoreAssumption DEF CallsIInv, Refers, IInv, TypeOK
    <3>2. i \in DOMAIN rows
      BY <1>0, <2>2, <3>1 DEF StoreMoves
    <3>3. rows[i] \in Row /\ rows'[i] \in Row
      BY <1>0, <2>2, <3>2 DEF CallsIInv, IInv, TypeOK
    <3> QED BY <1>0, <2>2, <3>2, <3>3 DEF StoreMoves, LifecycleStep, Row
  <2> QED BY <1>1, <2>1, <2>2 DEF Seen, SameContent
<1>2. CASE UNCHANGED callVars
  BY <1>1, <1>2 DEF callVars, AllSeen
<1>3. ASSUME NEW c \in Client, UpdateCall(c), calls'[c].expect # NULL
      PROVE  Seen(c)'
  <2>1. PICK i \in issued, x \in Text \cup {NULL}, b \in BOOLEAN, cas \in BOOLEAN :
          calls' = [calls EXCEPT ![c] =
                     [Unused EXCEPT
                        !.op = "update", !.at = "read", !.text = x, !.id = i, !.merges = b,
                        !.expect = IF cas /\ i \in DOMAIN rows THEN rows[i].version
                                   ELSE NULL]]
    BY <1>3 DEF UpdateCall
  <2>2. calls'[c].at = "read" /\ calls'[c].id = i
        /\ calls'[c].expect \in {NULL, rows[i].version}
    BY <2>1 DEF Unused, CallsIInv, Typed
  <2>3. rows' = rows
    BY <1>3 DEF UpdateCall, storeVars
  <2>4. i \in DOMAIN rows => rows[i].version \in Nat
    BY DEF CallsIInv, IInv, TypeOK, Row
  <2> QED BY <1>3, <2>2, <2>3, <2>4 DEF Seen
<1>4. ASSUME NEW c \in Client, UpdateRead(c), calls'[c].expect # NULL
      PROVE  Seen(c)'
  <2>1. calls[c] \in CallRec /\ calls \in [Client -> CallRec] /\ rows' = rows
    BY <1>4 DEF CallsIInv, Typed, UpdateRead, storeVars
  <2>2. CASE Goto(c, "failed")
    BY <2>1, <2>2, GotoAt DEF Seen, Answered
  <2>3. CASE /\ calls[c].id \in DOMAIN rows
             /\ calls' = [calls EXCEPT ![c].at = "write", ![c].seen = rows[calls[c].id].meta]
    <3>1. /\ calls'[c].at = "write" /\ calls'[c].seen = rows[calls[c].id].meta
          /\ calls'[c].id = calls[c].id /\ calls'[c].expect = calls[c].expect
      BY <2>1, <2>3 DEF CallRec
    <3>2. rows[calls[c].id].version >= calls[c].expect
      BY <1>4, <2>3, <3>1 DEF AllSeen, Seen, UpdateRead
    <3> QED BY <2>1, <3>1, <3>2 DEF Seen
  <2> QED BY <1>4, <2>2, <2>3 DEF UpdateRead
<1>5. ASSUME NEW c \in Client, UpdateWrite(c)
      PROVE  Seen(c)'
  <2>1. calls'[c].at \in {"updated", "failed"}
    BY <1>5, GotoAt DEF UpdateWrite, Reject, CallsIInv, Typed
  <2> QED BY <2>1 DEF Seen, Answered
<1>6. ASSUME NEW c \in Client, Act(c)
      PROVE  AllSeen'
  <2>1. Others(c)
    BY <1>0, <1>6, ActingAlone
  <2> SUFFICES ASSUME NEW d \in Client, calls'[d].expect # NULL
               PROVE  Seen(d)'
    BY DEF AllSeen
  <2>2. CASE d # c
    BY <1>1, <2>1, <2>2 DEF Others
  <2>3. CASE d = c
    BY <1>3, <1>4, <1>5, <1>6, <2>3, OnlyUpdateExpects
  <2> QED BY <2>2, <2>3
<1> QED BY <1>2, <1>6 DEF CallsNext, Act

CasStep ==
  \A c \in Client, i \in DOMAIN rows \cap DOMAIN rows' :
    /\ calls[c].expect # NULL
    /\ calls[c].at # calls'[c].at
    => rows[i].meta \subseteq rows'[i].meta

LEMMA CasEveryStep ==
  ASSUME Unlimited, CallsIInv, AllSeen, [CallsNext]_callVars
  PROVE  [CasStep]_callVars
<1>0. StoreMoves
  BY CallsStep
<1> SUFFICES ASSUME NEW c \in Client, Act(c), calls[c].expect # NULL,
                    NEW i \in DOMAIN rows \cap DOMAIN rows'
             PROVE  rows[i].meta \subseteq rows'[i].meta
  <2>1. ASSUME NEW d \in Client, Act(d), NEW c \in Client, calls[c].at # calls'[c].at
        PROVE  Act(c)
    BY <1>0, <2>1, ActingAlone DEF Others
  <2> QED BY <2>1 DEF CallsNext, Act, CasStep
<1>1. CASE Unwritten
  BY <1>1 DEF Unwritten
<1>2. CASE Wrote(c)
  <2>1. calls[c].at \in {"read", "write"} /\ Seen(c)
    BY WritesCounted DEF AllSeen, Seen
  <2>2. calls[c].at # "read"
    <3> SUFFICES ASSUME calls[c].at = "read" PROVE FALSE
      OBVIOUS
    <3>1. UpdateRead(c)
      BY DEF Act, RememberCall, LookupExact, LookupNear, Upsert, InsertNew, LookupRaced,
             UpdateCall, UpdateWrite, Forget, CompressCall, CompressWrite, Clear, Start
    <3>2. rows' = rows
      BY <3>1 DEF UpdateRead, storeVars
    <3>3. rows[calls[c].id].version \in Nat
      BY <1>2 DEF Wrote, CallsIInv, IInv, TypeOK, Row
    <3> QED BY <1>2, <3>2, <3>3 DEF Wrote
  <2>3. CASE i = calls[c].id
    <3>1. rows'[i].meta = UpdatedMeta(c) /\ calls[c].seen = rows[i].meta
      BY <1>2, <2>1, <2>2, <2>3 DEF Wrote, Seen
    <3> QED BY <3>1 DEF UpdatedMeta
  <2>4. CASE i # calls[c].id
    BY <1>2, <2>4 DEF Wrote
  <2> QED BY <2>3, <2>4
<1> QED BY <1>1, <1>2, WritesCounted

\* An update with expectedVersion drops no metadata key another call added, whatever
\* was written between its read and its UPDATE: the version in the WHERE clause
\* rejects a write of what is no longer true (wolbarg.ts, sqlite.ts).
THEOREM CasIsSafe ==
  ASSUME Unlimited
  PROVE  CallsSpec => CasLosesNothing
<1>1. CallsInit => AllSeen
  BY DEF CallsInit, AllSeen, Unused
<1>2. CallsIInv /\ AllSeen /\ [CallsNext]_callVars => AllSeen' /\ [CasStep]_callVars
  BY AllSeenStep, CasEveryStep
<1>3. CasStep => \A c \in Client, i \in DOMAIN rows \cap DOMAIN rows' :
                   /\ calls[c].expect # NULL
                   /\ calls[c].at # calls'[c].at
                   => rows[i].meta \subseteq rows'[i].meta
  BY DEF CasStep
<1> QED BY CallsInvariance, <1>1, <1>2, <1>3, PTL DEF CallsSpec, CasLosesNothing

--------------------------------------------------------------------------------
(* Exact dedupe *)

\* Row i is an active memory of the agent of the calls, with hash h.
Holds(i, h) ==
  /\ i \in DOMAIN rows /\ ~rows[i].archived
  /\ rows[i].org = MyOrg /\ rows[i].agent = MyAgent /\ rows[i].hash = h

LEMMA SameHashDef ==
  ASSUME NEW x, NEW i
  PROVE  i \in SameHash(x) <=> Holds(i, HashOf[x])
BY DEF SameHash, Mine, Active, Holds

\* The index stays unique: what was written fitted, and the rest can only leave it.
LEMMA UniqueStep ==
  ASSUME Unlimited, CallsIInv, UniqueActiveHash(rows), NEW c \in Client, Act(c)
  PROVE  UniqueActiveHash(rows')
<1>0. DOMAIN rows \subseteq MemoryId /\ \A i \in DOMAIN rows : rows[i] \in Row
  BY DEF CallsIInv, IInv, TypeOK
<1>1. UNCHANGED storeVars => UniqueActiveHash(rows')
  BY DEF storeVars
<1>2. \A new : Fits(new) /\ rows' = Merge(rows, new) => UniqueActiveHash(rows')
  BY DEF Fits
<1>3. ASSUME NEW gone, DeleteRows(gone)
      PROVE  UniqueActiveHash(rows')
  <2>1. /\ DOMAIN rows' = DOMAIN rows \ gone
        /\ \A i \in DOMAIN rows' :
             rows'[i] = [rows[i] EXCEPT !.into = IF @ \in gone THEN NULL ELSE @]
    BY <1>3 DEF DeleteRows, Survivors
  <2>2. \A i \in DOMAIN rows' :
          /\ rows'[i].org = rows[i].org /\ rows'[i].agent = rows[i].agent
          /\ rows'[i].hash = rows[i].hash /\ rows'[i].archived = rows[i].archived
    BY <1>0, <2>1 DEF Row
  <2> QED BY <2>1, <2>2 DEF UniqueActiveHash, Active
<1>4. ASSUME NEW x, Compress(MyOrg, MyAgent, FreshId, x, {}, calls[c].ids)
      PROVE  UniqueActiveHash(rows')
  <2> DEFINE gone == ArchiveTargets(MyOrg, calls[c].ids)
             all == Merge(rows, [k \in {FreshId} |-> NewRow(MyOrg, MyAgent, x, {}, HashOf[x])])
  <2>1. UniqueActiveHash(all)
    BY <1>4 DEF Compress, Fits
  <2>2. rows' = [i \in DOMAIN all |->
                   IF i \in gone THEN [all[i] EXCEPT !.archived = TRUE, !.into = FreshId]
                   ELSE all[i]]
    BY <1>4 DEF Compress, ArchivedInto
  <2>3. \A i \in gone : all[i] \in Row \/ i = FreshId
    BY <1>0 DEF ArchiveTargets, Owned, Merge
  <2>4. FreshId \notin gone
    BY <1>0, FreshIsNew DEF ArchiveTargets, Owned, CallsIInv, IInv, TypeOK
  <2> HIDE DEF gone, all
  <2>5. \A i \in gone \cap DOMAIN all : rows'[i].archived
    BY <2>2, <2>3, <2>4 DEF Row
  <2>6. \A i \in Active(rows') : i \in Active(all) /\ rows'[i] = all[i]
    BY <2>2, <2>5 DEF Active
  <2> QED BY <2>1, <2>6 DEF UniqueActiveHash
<1>5. CASE \/ RememberCall(c) \/ LookupExact(c) \/ LookupNear(c) \/ LookupRaced(c)
           \/ UpdateCall(c) \/ UpdateRead(c) \/ CompressCall(c)
  BY <1>1, <1>5 DEF RememberCall, LookupExact, LookupNear, LookupRaced, UpdateCall, UpdateRead,
                    CompressCall, Reject
<1>6. CASE Upsert(c) \/ UpdateWrite(c)
  BY <1>1, <1>2, <1>6 DEF Upsert, UpdateWrite, UpdateMemory, Reject
<1>7. CASE InsertNew(c)
  BY <1>1, <1>2, <1>7 DEF InsertNew, InsertMemories
<1>8. CASE Forget(c) \/ Clear(c)
  BY <1>1, <1>3, <1>8
     DEF Forget, Clear, DeleteMemoryById, DeleteMemoriesByFilter, ClearOrganization
<1>9. CASE CompressWrite(c)
  BY <1>1, <1>4, <1>9 DEF CompressWrite, Reject
<1> QED BY <1>5, <1>6, <1>7, <1>8, <1>9 DEF Act

\* The merge of an exact match leaves every hash where it is, and it fits.
LEMMA UpsertKeepsHashes ==
  ASSUME CallsIInv, UniqueActiveHash(rows), NEW c \in Client, NEW x \in Text,
         calls[c].text = x, Holds(calls[c].id, HashOf[x]), calls[c].at = "upsert", Upsert(c)
  PROVE  Goto(c, "updated") /\ \A y : SameHash(y)' = SameHash(y)
<1> DEFINE i == calls[c].id
           m == calls[c].seen \cup {c}
           r == UpdatedRow(rows[i], NULL, m, HashOf[x])
<1>1. i \in DOMAIN rows /\ rows[i] \in Row /\ rows[i].hash = HashOf[x] /\ HashOf[x] # NULL
  BY StoreAssumption DEF Holds, CallsIInv, IInv, TypeOK
<1>2. /\ r.hash = rows[i].hash /\ r.archived = rows[i].archived
      /\ r.org = rows[i].org /\ r.agent = rows[i].agent
  BY <1>1 DEF UpdatedRow, Row
<1>3. Updated(i, NULL, m, HashOf[x]) = [k \in {i} |-> r]
  BY DEF Updated
<1>4. \/ UpdateMemory(MyOrg, i, NULL, m, HashOf[x], NULL) /\ Goto(c, "updated")
      \/ ~Fits([k \in {i} |-> r])
  BY <1>1, <1>3 DEF Upsert
<1> HIDE DEF r
<1> DEFINE t == Merge(rows, [k \in {i} |-> r])
<1>5. /\ DOMAIN t = DOMAIN rows
      /\ \A j \in DOMAIN rows :
           /\ t[j].hash = rows[j].hash /\ t[j].archived = rows[j].archived
           /\ t[j].org = rows[j].org /\ t[j].agent = rows[j].agent
  BY <1>1, <1>2 DEF Merge
<1>6. Fits([k \in {i} |-> r])
  <2> HIDE DEF t
  <2>1. UniqueActiveHash(t)
    BY <1>5 DEF UniqueActiveHash, Active
  <2> QED BY <2>1 DEF Fits, t
<1>7. rows' = t /\ Goto(c, "updated")
  BY <1>3, <1>4, <1>6 DEF UpdateMemory
<1> HIDE DEF t
<1>8. ASSUME NEW y
      PROVE  SameHash(y)' = SameHash(y)
  BY <1>5, <1>7 DEF SameHash, Mine, Active
<1> QED BY <1>7, <1>8

LEMMA InsertTakesHash ==
  ASSUME Unlimited, CallsIInv, UniqueActiveHash(rows), NEW c \in Client, NEW x \in Text,
         calls[c].text = x, calls[c].dedupe = "exact", InsertNew(c)
  PROVE  \/ Goto(c, "raced") /\ UNCHANGED storeVars /\ SameHash(x) # {}
         \/ /\ calls' = [calls EXCEPT ![c].at = "created", ![c].id = FreshId]
            /\ SameHash(x) = {}
            /\ \A y : SameHash(y)' = SameHash(y) \cup
                        (IF HashOf[y] = HashOf[x] THEN {FreshId} ELSE {})
<1> DEFINE r == NewRow(MyOrg, MyAgent, x, {c}, HashOf[x])
           t == Merge(rows, [k \in {FreshId} |-> r])
<1>1. FreshId \notin DOMAIN rows /\ HashOf[x] # NULL
  BY FreshIsNew, StoreAssumption DEF CallsIInv, IInv, TypeOK
<1>2. /\ r.org = MyOrg /\ r.agent = MyAgent /\ r.hash = HashOf[x] /\ ~r.archived
  BY DEF NewRow
<1>3. \/ /\ rows' = t /\ UniqueActiveHash(t)
         /\ calls' = [calls EXCEPT ![c].at = "created", ![c].id = FreshId]
      \/ ~UniqueActiveHash(t) /\ Goto(c, "raced") /\ UNCHANGED storeVars
  BY DEF InsertNew, InsertMemories, Fits
<1> HIDE DEF r
<1>4. DOMAIN t = DOMAIN rows \cup {FreshId} /\ t[FreshId] = r
      /\ \A i \in DOMAIN rows : t[i] = rows[i]
  BY <1>1 DEF Merge
<1> HIDE DEF t
<1>5. CASE UniqueActiveHash(t)
  <2>1. SameHash(x) = {}
    BY <1>1, <1>2, <1>4, <1>5 DEF SameHash, Mine, UniqueActiveHash, Active
  <2>2. ASSUME NEW y, rows' = t
        PROVE  SameHash(y)' = SameHash(y) \cup
                 (IF HashOf[y] = HashOf[x] THEN {FreshId} ELSE {})
    BY <1>1, <1>2, <1>4, <2>2 DEF SameHash, Mine, Active
  <2> QED BY <1>3, <1>5, <2>1, <2>2
<1>6. CASE ~UniqueActiveHash(t)
  <2>1. SameHash(x) # {}
    BY <1>1, <1>2, <1>4, <1>6 DEF SameHash, Mine, UniqueActiveHash, Active
  <2> QED BY <1>3, <1>6, <2>1
<1> QED BY <1>5, <1>6

\* A call has an operation once it has begun.
Begun == \A c \in Client : calls[c].at = "idle" <=> calls[c].op = "none"

\* What a remember() with exact dedupe knows of the rows with its hash.
Progress(c) ==
  LET x == calls[c].text IN
  /\ calls[c].at \in {"exact", "insert", "raced", "upsert", "created", "updated"}
  /\ calls[c].at = "raced" => SameHash(x) # {}
  /\ calls[c].at \in {"upsert", "created", "updated"} => SameHash(x) = {calls[c].id}

DedupeInv ==
  /\ UniqueActiveHash(rows)
  /\ Begun
  /\ OnlyExact => \A c \in Client : calls[c].op # "none" => Progress(c)

Continues(c) ==
  /\ calls'[c].op = calls[c].op /\ calls'[c].text = calls[c].text
  /\ calls'[c].dedupe = calls[c].dedupe /\ calls'[c].at # "idle"

LEMMA CallContinues ==
  ASSUME CallsIInv, NEW c \in Client, Act(c)
  PROVE  \/ calls[c].at # "idle" /\ Continues(c)
         \/ /\ calls[c].at = "idle"
            /\ calls'[c].at # "idle" /\ calls'[c].op # "none"
            /\ calls'[c].op = "remember" /\ calls'[c].dedupe = "exact" =>
                 RememberCall(c) /\ calls'[c].at = "exact"
<1>0. calls[c] \in CallRec /\ calls \in [Client -> CallRec]
  BY DEF CallsIInv, Typed
<1>1. ASSUME NEW at, at # "idle", Goto(c, at)
      PROVE  Continues(c)
  <2>1. calls'[c] = [calls[c] EXCEPT !.at = at]
    BY <1>0, <1>1, GoesTo
  <2> QED BY <1>0, <1>1, <2>1 DEF CallRec, Continues
<1>2. \A i, m : \A at \in {"upsert", "replace", "write", "created"} :
        /\ calls' = [calls EXCEPT ![c].at = at, ![c].id = i, ![c].seen = m] => Continues(c)
        /\ calls' = [calls EXCEPT ![c].at = at, ![c].seen = m] => Continues(c)
        /\ calls' = [calls EXCEPT ![c].at = at, ![c].id = i] => Continues(c)
  BY <1>0 DEF CallRec, Continues
<1>3. calls' = [calls EXCEPT ![c].at = "compressed", ![c].id = FreshId,
                             ![c].ids = ArchiveTargets(MyOrg, @)]
      => Continues(c)
  BY <1>0 DEF CallRec, Continues
<1>4. CASE RememberCall(c)
  <2>1. PICK x \in Text, d \in Strategy :
          calls' = [calls EXCEPT ![c] =
                     [Unused EXCEPT !.op = "remember", !.text = x, !.dedupe = d,
                                    !.at = CASE d = "off" -> "insert"
                                             [] d = "near" -> "near"
                                             [] OTHER -> "exact"]]
    BY <1>4 DEF RememberCall
  <2> DEFINE a == CASE d = "off" -> "insert" [] d = "near" -> "near" [] OTHER -> "exact"
  <2>2. a \in {"insert", "near", "exact"} /\ (d = "exact" => a = "exact")
    OBVIOUS
  <2>3. calls' = [calls EXCEPT ![c] = [Unused EXCEPT !.op = "remember", !.text = x,
                                                     !.dedupe = d, !.at = a]]
    BY <2>1
  <2> HIDE DEF a
  <2>4. calls'[c].op = "remember" /\ calls'[c].dedupe = d /\ calls'[c].at = a
    BY <1>0, <2>3 DEF Unused
  <2> QED BY <1>4, <2>2, <2>4 DEF RememberCall, Start
<1>5. CASE UpdateCall(c) \/ CompressCall(c) \/ Forget(c) \/ Clear(c)
  <2>1. calls'[c].op \in {"update", "compress", "forget", "clear"} /\ calls'[c].at # "idle"
    BY <1>0, <1>5 DEF UpdateCall, CompressCall, Forget, Clear, Unused
  <2> QED BY <1>5, <2>1 DEF UpdateCall, CompressCall, Forget, Clear, Start
<1>6. CASE LookupExact(c) \/ LookupNear(c) \/ LookupRaced(c) \/ UpdateRead(c)
  <2>1. calls[c].at # "idle"
    BY <1>6 DEF LookupExact, LookupNear, LookupRaced, UpdateRead
  <2>2. LookupExact(c) \/ LookupRaced(c) => Continues(c)
    BY <1>1, <1>2 DEF LookupExact, LookupRaced, Found, Reject
  <2>3. LookupNear(c) => Continues(c)
    BY <1>1, <1>2 DEF LookupNear
  <2>4. UpdateRead(c) => Continues(c)
    BY <1>1, <1>2 DEF UpdateRead
  <2> QED BY <1>6, <2>1, <2>2, <2>3, <2>4
<1>7. CASE Upsert(c) \/ UpdateWrite(c) \/ InsertNew(c) \/ CompressWrite(c)
  <2>1. calls[c].at # "idle"
    BY <1>7 DEF Upsert, UpdateWrite, InsertNew, CompressWrite
  <2>2. Upsert(c) \/ UpdateWrite(c) => Continues(c)
    BY <1>1 DEF Upsert, UpdateWrite, Reject
  <2>3. InsertNew(c) \/ CompressWrite(c) => Continues(c)
    BY <1>1, <1>2, <1>3 DEF InsertNew, CompressWrite, Reject
  <2> QED BY <1>7, <2>1, <2>2, <2>3
<1> QED BY <1>4, <1>5, <1>6, <1>7 DEF Act

\* One step of a remember() with exact dedupe.
LEMMA ExactProgress ==
  ASSUME Unlimited, CallsIInv, UniqueActiveHash(rows), NEW c \in Client, Act(c),
         calls[c].dedupe = "exact", Progress(c)
  PROVE  /\ Progress(c)'
         /\ \/ \A y : SameHash(y)' = SameHash(y)
            \/ \E x : /\ SameHash(x) = {}
                      /\ \A y : SameHash(y)' = SameHash(y) \cup
                                  (IF HashOf[y] = HashOf[x] THEN {FreshId} ELSE {})
<1>0. calls[c] \in CallRec /\ calls \in [Client -> CallRec]
  BY DEF CallsIInv, Typed
<1>1. calls[c].at \in {"exact", "insert", "raced", "upsert"}
  BY WritesCounted DEF Progress, Answered
<1>2. PICK x \in Text : calls[c].text = x
  BY <1>1 DEF CallsIInv, Typed, HaveText
<1>3. calls'[c].text = x
  BY <1>1, <1>2, CallContinues DEF Continues
<1>4. LookupExact(c) \/ InsertNew(c) \/ LookupRaced(c) \/ Upsert(c)
  BY <1>1 DEF Act, RememberCall, LookupNear, UpdateCall, UpdateRead, UpdateWrite, Forget,
              CompressCall, CompressWrite, Clear, Start
<1>5. UNCHANGED storeVars => \A y : SameHash(y)' = SameHash(y)
  BY DEF storeVars, SameHash, Mine, Active
<1>6. \A at : Goto(c, at) => calls'[c].at = at /\ calls'[c].id = calls[c].id
  <2> SUFFICES ASSUME NEW at, Goto(c, at)
               PROVE  calls'[c].at = at /\ calls'[c].id = calls[c].id
    OBVIOUS
  <2>1. calls'[c] = [calls[c] EXCEPT !.at = at]
    BY <1>0, GoesTo
  <2> QED BY <1>0, <2>1 DEF CallRec
<1>7. ASSUME NEW i \in SameHash(x), Found(c, i), UNCHANGED storeVars
      PROVE  Progress(c)'
  <2>1. calls'[c].at = "upsert" /\ calls'[c].id = i
    BY <1>0, <1>7 DEF Found, CallRec
  <2>2. SameHash(x) = {i}
    BY <1>7, StoreAssumption DEF SameHash, Mine, UniqueActiveHash, Active
  <2> QED BY <1>3, <1>5, <1>7, <2>1, <2>2 DEF Progress
<1>8. CASE LookupExact(c)
  <2>1. Goto(c, "insert") => Progress(c)'
    BY <1>3, <1>6 DEF Progress
  <2>2. UNCHANGED storeVars /\ (Goto(c, "insert") \/ \E i \in SameHash(x) : Found(c, i))
    BY <1>2, <1>8 DEF LookupExact
  <2> QED BY <1>5, <1>7, <2>1, <2>2
<1>9. CASE LookupRaced(c)
  <2>1. SameHash(x) # {}
    BY <1>2, <1>9 DEF Progress, LookupRaced
  <2> QED BY <1>2, <1>5, <1>7, <1>9, <2>1 DEF LookupRaced
<1>10. CASE InsertNew(c)
  <2>1. CASE Goto(c, "raced") /\ UNCHANGED storeVars /\ SameHash(x) # {}
    BY <1>3, <1>5, <1>6, <2>1 DEF Progress
  <2>2. CASE /\ calls' = [calls EXCEPT ![c].at = "created", ![c].id = FreshId]
             /\ SameHash(x) = {}
             /\ \A y : SameHash(y)' = SameHash(y) \cup
                         (IF HashOf[y] = HashOf[x] THEN {FreshId} ELSE {})
    <3>1. calls'[c].at = "created" /\ calls'[c].id = FreshId
      BY <1>0, <2>2 DEF CallRec
    <3>2. SameHash(x)' = {FreshId}
      BY <2>2
    <3> QED BY <1>3, <2>2, <3>1, <3>2 DEF Progress
  <2> QED BY <1>2, <1>10, <2>1, <2>2, InsertTakesHash
<1>11. CASE Upsert(c)
  <2>1. calls[c].at = "upsert" /\ SameHash(x) = {calls[c].id}
    BY <1>1, <1>2, <1>11 DEF Progress, Upsert
  <2>2. Holds(calls[c].id, HashOf[x])
    BY <2>1, SameHashDef
  <2>3. Goto(c, "updated") /\ \A y : SameHash(y)' = SameHash(y)
    BY <1>2, <1>11, <2>1, <2>2, UpsertKeepsHashes
  <2> QED BY <1>3, <1>6, <2>1, <2>3 DEF Progress
<1> QED BY <1>4, <1>8, <1>9, <1>10, <1>11

LEMMA DedupeStep ==
  ASSUME Unlimited, CallsIInv, DedupeInv, [CallsNext]_callVars
  PROVE  DedupeInv'
<1>0. StoreMoves
  BY CallsStep
<1>1. CASE UNCHANGED callVars
  BY <1>1 DEF callVars, storeVars, DedupeInv, UniqueActiveHash, Active, Begun, OnlyExact,
              Progress, SameHash, Mine
<1>2. ASSUME NEW c \in Client, Act(c)
      PROVE  DedupeInv'
  <2>1. Others(c)
    BY <1>0, <1>2, ActingAlone
  <2>2. UniqueActiveHash(rows')
    BY <1>2, UniqueStep DEF DedupeInv
  <2>3. Begun'
    BY <1>2, <2>1, CallContinues DEF DedupeInv, Begun, Others, Continues
  <2>4. ASSUME OnlyExact'
        PROVE  OnlyExact
    BY <1>2, <2>1, <2>4, CallContinues DEF DedupeInv, Begun, OnlyExact, Others, Continues
  <2>5. ASSUME OnlyExact', NEW d \in Client, calls'[d].op # "none"
        PROVE  Progress(d)'
    <3>1. /\ OnlyExact
          /\ \A e \in Client : calls[e].op # "none" => Progress(e)
      BY <2>4, <2>5 DEF DedupeInv
    <3>2. \A e \in Client : calls[e].op = "remember" => Progress(e)
      BY <3>1
    <3>3. CASE calls[c].at = "idle"
      <4>1. RememberCall(c) /\ calls'[c].at = "exact"
        BY <1>2, <2>5, <3>3, CallContinues DEF OnlyExact
      <4>2. \A y : SameHash(y)' = SameHash(y)
        BY <4>1 DEF RememberCall, storeVars, SameHash, Mine, Active
      <4>3. CASE d = c
        BY <4>1, <4>3 DEF Progress
      <4>4. CASE d # c
        <5>1. calls'[d] = calls[d] /\ Progress(d)
          BY <2>1, <2>5, <3>1, <4>4 DEF Others
        <5> QED BY <4>2, <5>1 DEF Progress
      <4> QED BY <4>3, <4>4
    <3>4. CASE calls[c].at # "idle"
      <4>1. calls[c].op # "none" /\ calls[c].dedupe = "exact" /\ Progress(c)
        BY <3>1, <3>4 DEF DedupeInv, Begun, OnlyExact
      <4>2. /\ Progress(c)'
            /\ \/ \A y : SameHash(y)' = SameHash(y)
               \/ \E x : /\ SameHash(x) = {}
                         /\ \A y : SameHash(y)' = SameHash(y) \cup
                                     (IF HashOf[y] = HashOf[x] THEN {FreshId} ELSE {})
        BY <1>2, <4>1, ExactProgress DEF DedupeInv
      <4>3. CASE d # c
        <5>1. calls'[d] = calls[d] /\ Progress(d)
          BY <2>1, <2>5, <3>1, <4>3 DEF Others
        <5>2. CASE \A y : SameHash(y)' = SameHash(y)
          BY <5>1, <5>2 DEF Progress
        <5>3. ASSUME NEW x, SameHash(x) = {},
                     \A y : SameHash(y)' = SameHash(y) \cup
                              (IF HashOf[y] = HashOf[x] THEN {FreshId} ELSE {})
              PROVE  Progress(d)'
          <6>1. \A y : HashOf[y] = HashOf[x] => SameHash(y) = {}
            BY <5>3 DEF SameHash
          <6>2. \A y : SameHash(y) # {} => SameHash(y)' = SameHash(y)
            BY <5>3, <6>1
          <6> QED BY <5>1, <6>2 DEF Progress
        <5> QED BY <4>2, <5>2, <5>3
      <4> QED BY <4>2, <4>3
    <3> QED BY <3>3, <3>4
  <2> QED BY <2>2, <2>3, <2>5 DEF DedupeInv
<1> QED BY <1>1, <1>2 DEF CallsNext, Act

\* As long as all calls are remember() with exact dedupe, none of them fails and each
\* answer leads to the one active row with its hash, whatever inserts race: who loses
\* against the unique index finds the winner's row (wolbarg.ts).
THEOREM ExactDedupeServes ==
  ASSUME Unlimited
  PROVE  CallsSpec => []DedupeServesEveryCall
<1>1. CallsInit => DedupeInv
  BY DEF CallsInit, DedupeInv, Begun, OnlyExact, Unused
<1>2. CallsIInv /\ DedupeInv /\ [CallsNext]_callVars => DedupeInv'
  BY DedupeStep
<1>3. ASSUME CallsIInv, DedupeInv
      PROVE  DedupeServesEveryCall
  <2> SUFFICES ASSUME OnlyExact, NEW c \in Client, calls[c].at \in Answered
               PROVE  /\ calls[c].at # "failed"
                      /\ calls[c].at \in {"created", "updated"} =>
                           SameHash(calls[c].text) = {calls[c].id}
    BY DEF DedupeServesEveryCall, Answered
  <2>1. calls[c].op # "none"
    BY <1>3 DEF DedupeInv, Begun, Answered
  <2>2. Progress(c)
    BY <1>3, <2>1 DEF DedupeInv
  <2> QED BY <2>2 DEF Progress
<1>4. CallsIInv /\ DedupeInv => DedupeServesEveryCall
  BY <1>3
<1> QED BY CallsInvariance, <1>1, <1>2, <1>4, PTL DEF CallsSpec

================================================================================
