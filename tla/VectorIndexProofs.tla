--------------------------- MODULE VectorIndexProofs ---------------------------
(***************************************************************************)
(* Proofs about VectorIndex, for any number of memories: an entry that is  *)
(* joined to a memory is that memory's, whatever was rolled back and       *)
(* whichever rowid was used again, and what hides an embedding is known.   *)
(* Both need to know what a rollback of compress() would leave behind.     *)
(***************************************************************************)
EXTENDS VectorIndex, WellFoundedInduction, TLAPS

Shape ==
  /\ compress = [at |-> compress.at, scope |-> compress.scope, ids |-> compress.ids,
                 archived |-> compress.archived, mem |-> compress.mem,
                 blob |-> compress.blob]
  /\ compress.at \in {"idle", "read", "inserted", "archived"}
  /\ compress.at # "archived" => compress.archived = {}

\* There is a last rowid.
Rowids(m) == DOMAIN m \subseteq Nat /\ \E last \in Nat : \A r \in DOMAIN m : r <= last

\* The entries of t that would be joined to memories of m are those of b.
Agrees(t, m, b) == \A r \in DOMAIN t \cap DOMAIN m : r \in DOMAIN b /\ t[r] = b[r]

\* Also what compress() has written so far touches no memory that was there before.
Own ==
  /\ Rowids(mem)
  /\ Agrees(index, mem, blob)
  /\ ~Free => /\ Rowids(compress.mem)
              /\ Agrees(index, compress.mem, compress.blob)
              /\ Agrees(blob, compress.mem, compress.blob)

\* The index, dirty or not, misses what is known to be lost, and a rollback brings back
\* the archived embeddings at most.
Hidden ==
  /\ DOMAIN blob \ DOMAIN index \subseteq lost
  /\ compress.archived \cap DOMAIN blob = {}
  /\ ~Free => /\ DOMAIN compress.blob \ DOMAIN index \subseteq lost \cup compress.archived
              /\ DOMAIN compress.blob \subseteq DOMAIN blob \cup compress.archived

IndexIInv == Shape /\ Own /\ Hidden

--------------------------------------------------------------------------------
(* Tables *)

LEMMA UpsertedDef ==
  ASSUME NEW t, NEW new
  PROVE  /\ DOMAIN Upserted(t, new) = DOMAIN t \cup DOMAIN new
         /\ \A r \in DOMAIN new : Upserted(t, new)[r] = new[r]
         /\ \A r \in DOMAIN t \ DOMAIN new : Upserted(t, new)[r] = t[r]
BY DEF Upserted

LEMMA WithoutRows ==
  ASSUME NEW t, NEW gone
  PROVE  /\ DOMAIN Without(t, gone) = DOMAIN t \ gone
         /\ \A r \in DOMAIN t \ gone : Without(t, gone)[r] = t[r]
BY DEF Without, Restrict

\* A bounded set of rowids has a greatest member.
LEMMA GreatestExists ==
  ASSUME NEW S \in SUBSET Nat, 0 \in S, NEW b \in Nat, \A x \in S : x <= b
  PROVE  /\ Max(S) \in S
         /\ \A x \in S : Max(S) >= x
<1> DEFINE T == {n \in Nat : \A x \in S : x <= n}
<1>1. T \subseteq Nat /\ T # {}
  OBVIOUS
<1>2. PICK n \in T : \A k \in T : ~(<<k, n>> \in OpToRel(<, Nat))
  BY <1>1, NatLessThanWellFounded, WFMin
<1>3. \A k \in T : ~(k < n)
  BY <1>1, <1>2 DEF OpToRel
<1>4. n \in S
  <2>1. SUFFICES ASSUME n \notin S PROVE FALSE
    OBVIOUS
  <2>2. n # 0 /\ n \in Nat
    BY <2>1
  <2>3. n - 1 \in T
    BY <2>1, <2>2
  <2> QED BY <1>3, <2>2, <2>3
<1>5. \E m \in S : \A x \in S : m >= x
  BY <1>4
<1> HIDE DEF T
<1> QED BY <1>5 DEF Max

\* The rowid SQLite gives next is no memory's.
LEMMA NextIsNew ==
  ASSUME Rowids(mem)
  PROVE  /\ NextRowid \in Nat /\ NextRowid \notin DOMAIN mem
         /\ \A r \in DOMAIN mem : r < NextRowid
<1> DEFINE S == DOMAIN mem \cup {0}
<1>1. S \in SUBSET Nat /\ 0 \in S
  BY DEF Rowids
<1>2. PICK last \in Nat : \A x \in S : x <= last
  BY DEF Rowids
<1>3. PICK g \in S : NextRowid = g + 1 /\ \A x \in S : g >= x
  <2>1. Max(S) \in S /\ \A x \in S : Max(S) >= x
    BY <1>1, <1>2, GreatestExists
  <2> QED BY <2>1 DEF NextRowid
<1> HIDE DEF S
<1>5. \A x \in S : x < NextRowid /\ x \in Nat
  BY <1>1, <1>3
<1>6. NextRowid \in Nat
  BY <1>1, <1>3
<1> QED BY <1>5, <1>6 DEF S

LEMMA NewRowsAgree ==
  ASSUME NEW t, NEW m, NEW b, NEW n, NEW new, Agrees(t, m, b),
         DOMAIN n \subseteq DOMAIN m \cup DOMAIN new
  PROVE  Agrees(Upserted(t, new), n, Upserted(b, new))
BY DEF Agrees, Upserted

LEMMA GoneRowsAgree ==
  ASSUME NEW t, NEW m, NEW b, NEW n, NEW gone, Agrees(t, m, b), DOMAIN n \subseteq DOMAIN m
  PROVE  /\ Agrees(Without(t, gone), n, Without(b, gone))
         /\ Agrees(Without(t, gone), n, b)
         /\ DOMAIN n \cap gone = {} => Agrees(t, n, Without(b, gone))
BY WithoutRows DEF Agrees, Without, Restrict

\* Fewer rowids, or finitely many more, still have a last one.
LEMMA FewerRowids ==
  ASSUME NEW m, NEW n, Rowids(m), DOMAIN n \subseteq DOMAIN m
  PROVE  Rowids(n)
BY DEF Rowids

--------------------------------------------------------------------------------
(* Inserts and updates *)

LEMMA BatchOfNewRows ==
  ASSUME Rowids(mem), NEW emb \in Batches
  PROVE  /\ DOMAIN emb \cap DOMAIN mem = {}
         /\ DOMAIN emb \subseteq Nat /\ \E last \in Nat : \A r \in DOMAIN emb : r <= last
<1>1. PICK k \in 1 .. MaxBatch : emb \in [NextRowid .. NextRowid + k - 1 -> Vec]
  BY DEF Batches
<1>2. k \in Nat /\ NextRowid \in Nat /\ \A r \in DOMAIN mem : r < NextRowid /\ r \in Nat
  BY <1>1, NextIsNew, IndexAssumption DEF Rowids
<1>3. DOMAIN emb = NextRowid .. NextRowid + k - 1
  BY <1>1
<1> HIDE DEF NextRowid
<1>4. \A r \in DOMAIN emb : r \in Nat /\ NextRowid <= r /\ r <= NextRowid + k
  BY <1>2, <1>3
<1>5. NextRowid + k \in Nat
  BY <1>2
<1>6. DOMAIN emb \cap DOMAIN mem = {}
  <2> SUFFICES ASSUME NEW r \in DOMAIN emb, r \in DOMAIN mem PROVE FALSE
    OBVIOUS
  <2> QED BY <1>2, <1>4
<1> QED BY <1>4, <1>5, <1>6

\* Rows for memories that were there before, or are there now, or never will be.
LEMMA WritesKeep ==
  ASSUME IndexIInv, NEW emb, Index(emb), Free, UNCHANGED compress,
         \/ UNCHANGED <<mem, blob>>  /\ DOMAIN emb \cap DOMAIN mem = {}
         \/ /\ blob' = Upserted(blob, emb) /\ Rowids(mem')
            /\ DOMAIN mem' \subseteq DOMAIN mem \cup DOMAIN emb
  PROVE  IndexIInv'
<1>1. index' = Upserted(index, emb) /\ lost' = lost \ DOMAIN emb
  BY DEF Index
<1>2. Shape' /\ Free'
  BY DEF IndexIInv, Shape, Free
<1>3. Own'
  <2>1. CASE UNCHANGED <<mem, blob>>  /\ DOMAIN emb \cap DOMAIN mem = {}
    <3>1. Agrees(index', mem, blob)
      BY <1>1, <2>1 DEF Agrees, Upserted, IndexIInv, Own
    <3> QED BY <1>2, <2>1, <3>1 DEF IndexIInv, Own
  <2>2. CASE /\ blob' = Upserted(blob, emb) /\ Rowids(mem')
             /\ DOMAIN mem' \subseteq DOMAIN mem \cup DOMAIN emb
    <3>1. Agrees(index', mem', blob')
      BY <1>1, <2>2, NewRowsAgree DEF IndexIInv, Own
    <3> QED BY <1>2, <2>2, <3>1 DEF Own
  <2> QED BY <2>1, <2>2
<1>4. Hidden'
  <2>1. DOMAIN index' = DOMAIN index \cup DOMAIN emb
    BY <1>1, UpsertedDef
  <2>2. DOMAIN blob' \subseteq DOMAIN blob \cup DOMAIN emb
    BY UpsertedDef
  <2>3. compress'.archived = {}
    BY DEF IndexIInv, Shape, Free
  <2> QED BY <1>1, <1>2, <2>1, <2>2, <2>3 DEF IndexIInv, Hidden
<1> QED BY <1>2, <1>3, <1>4 DEF IndexIInv

LEMMA RememberKeeps ==
  ASSUME IndexIInv, NEW s \in Scope, Remember(s)
  PROVE  IndexIInv'
<1>1. PICK emb \in Batches : Insert(s, emb)
  BY DEF Remember
<1>2. DOMAIN mem' = DOMAIN mem \cup DOMAIN emb /\ Rowids(mem)
  BY <1>1, UpsertedDef DEF Insert, IndexIInv, Own
<1>3. Rowids(mem')
  <2>1. PICK k \in Nat : \A r \in DOMAIN emb : r <= k
    BY <1>2, BatchOfNewRows
  <2>2. PICK l \in Nat : \A r \in DOMAIN mem : r <= l
    BY <1>2 DEF Rowids
  <2>3. DOMAIN mem' \subseteq Nat
    BY <1>2, BatchOfNewRows DEF Rowids
  <2>4. k + l \in Nat /\ \A r \in DOMAIN mem' : r <= k + l
    BY <1>2, <2>1, <2>2, <2>3
  <2> QED BY <2>3, <2>4 DEF Rowids
<1> QED BY <1>1, <1>2, <1>3, WritesKeep DEF Insert, Remember

LEMMA RememberFailsKeeps ==
  ASSUME IndexIInv, RememberFails
  PROVE  IndexIInv'
<1>1. PICK emb \in Batches : Index(emb)
  BY DEF RememberFails
<1>2. DOMAIN emb \cap DOMAIN mem = {}
  BY BatchOfNewRows DEF IndexIInv, Own
<1> QED BY <1>1, <1>2, WritesKeep DEF RememberFails

LEMMA UpdateKeeps ==
  ASSUME IndexIInv, NEW r \in DOMAIN mem, NEW v \in Vec, Update(r, v)
  PROVE  IndexIInv'
BY WritesKeep DEF Update, IndexIInv, Own

--------------------------------------------------------------------------------
(* Deletions *)

LEMMA ForgetKeeps ==
  ASSUME IndexIInv, NEW r \in DOMAIN mem, Forget(r)
  PROVE  IndexIInv'
<1>1. /\ mem' = Without(mem, {r}) /\ blob' = Without(blob, {r}) /\ index' = Without(index, {r})
      /\ lost' = lost \ {r} /\ compress' = compress /\ Free
  BY DEF Forget, Unindex
<1>2. Shape' /\ Free'
  BY <1>1 DEF IndexIInv, Shape, Free
<1>3. /\ DOMAIN mem' = DOMAIN mem \ {r} /\ DOMAIN blob' = DOMAIN blob \ {r}
      /\ DOMAIN index' = DOMAIN index \ {r}
  BY <1>1, WithoutRows
<1>4. Rowids(mem')
  BY <1>3, FewerRowids DEF IndexIInv, Own
<1>5. Agrees(index', mem', blob')
  BY <1>1, <1>3, GoneRowsAgree DEF IndexIInv, Own
<1>6. Hidden'
  BY <1>1, <1>2, <1>3 DEF IndexIInv, Hidden
<1> QED BY <1>2, <1>4, <1>5, <1>6 DEF IndexIInv, Own

LEMMA ForgetAgentKeeps ==
  ASSUME IndexIInv, NEW s \in Scope, ForgetAgent(s)
  PROVE  IndexIInv'
<1> DEFINE gone == {r \in DOMAIN mem : mem[r].scope = s}
<1>1. /\ mem' = Without(mem, gone) /\ blob' = Without(blob, gone) /\ index' = index
      /\ lost' = lost \ gone /\ compress' = compress /\ Free
  BY DEF ForgetAgent, Drop
<1> HIDE DEF gone
<1>2. Shape' /\ Free'
  BY <1>1 DEF IndexIInv, Shape, Free
<1>3. DOMAIN mem' = DOMAIN mem \ gone /\ DOMAIN blob' = DOMAIN blob \ gone
  BY <1>1, WithoutRows
<1>4. Rowids(mem')
  BY <1>3, FewerRowids DEF IndexIInv, Own
<1>5. Agrees(index', mem', blob')
  <2>1. DOMAIN mem' \subseteq DOMAIN mem /\ DOMAIN mem' \cap gone = {}
    BY <1>3
  <2> QED BY <1>1, <2>1, GoneRowsAgree DEF IndexIInv, Own
<1>6. Hidden'
  BY <1>1, <1>2, <1>3 DEF IndexIInv, Hidden
<1> QED BY <1>2, <1>4, <1>5, <1>6 DEF IndexIInv, Own

\* The index is emptied, and whatever of others it held is lost.
LEMMA ClearKeeps ==
  ASSUME IndexIInv, NEW org, Clear(org)
  PROVE  IndexIInv'
<1> DEFINE gone == {r \in DOMAIN mem : mem[r].scope[1] = org}
<1>1. /\ mem' = Without(mem, gone) /\ blob' = Without(blob, gone) /\ index' = << >>
      /\ lost' = DOMAIN blob \ gone /\ compress' = compress /\ Free
  BY DEF Clear, Drop
<1> HIDE DEF gone
<1>2. Shape' /\ Free'
  BY <1>1 DEF IndexIInv, Shape, Free
<1>3. DOMAIN mem' = DOMAIN mem \ gone /\ DOMAIN blob' = DOMAIN blob \ gone
  BY <1>1, WithoutRows
<1>4. Rowids(mem')
  BY <1>3, FewerRowids DEF IndexIInv, Own
<1>5. DOMAIN index' = {}
  BY <1>1
<1>6. Agrees(index', mem', blob')
  BY <1>5 DEF Agrees
<1>7. Hidden'
  BY <1>1, <1>2, <1>3, <1>5 DEF IndexIInv, Hidden
<1> QED BY <1>2, <1>4, <1>6, <1>7 DEF IndexIInv, Own

--------------------------------------------------------------------------------
(* compress() *)

LEMMA CompressReadKeeps ==
  ASSUME IndexIInv, NEW s \in Scope, CompressRead(s)
  PROVE  IndexIInv'
<1>1. PICK rs : compress' = [Idle EXCEPT !.at = "read", !.scope = s, !.ids = Ids(rs)]
  BY DEF CompressRead
<1>2. UNCHANGED <<mem, blob, index, lost>>
  BY DEF CompressRead
<1>3. compress' = [at |-> "read", scope |-> s, ids |-> Ids(rs), archived |-> {},
                   mem |-> << >>, blob |-> << >>]
  BY <1>1 DEF Idle
<1> QED BY <1>2, <1>3 DEF IndexIInv, Shape, Own, Hidden, Free, Agrees, Rowids

LEMMA CompressInsertKeeps ==
  ASSUME IndexIInv, CompressInsert
  PROVE  IndexIInv'
<1>1. PICK v \in Vec : Insert(compress.scope, One(NextRowid, v))
  BY DEF CompressInsert
<1> DEFINE emb == One(NextRowid, v)
<1>2. DOMAIN emb = {NextRowid} /\ NextRowid \notin DOMAIN mem /\ NextRowid \in Nat
      /\ \A r \in DOMAIN mem : r < NextRowid
  BY NextIsNew DEF One, IndexIInv, Own
<1>3. /\ blob' = Upserted(blob, emb) /\ index' = Upserted(index, emb)
      /\ lost' = lost \ {NextRowid} /\ DOMAIN mem' = DOMAIN mem \cup {NextRowid}
  BY <1>1, <1>2, UpsertedDef DEF Insert, Index
<1>4. /\ compress.at = "read"
      /\ compress' = [compress EXCEPT !.at = "inserted", !.mem = mem, !.blob = blob]
  BY DEF CompressInsert
<1>5. /\ compress'.at = "inserted" /\ compress'.archived = {} /\ compress'.mem = mem
      /\ compress'.blob = blob /\ Shape'
  BY <1>4 DEF IndexIInv, Shape
<1> HIDE DEF emb
<1>6. Rowids(mem) /\ Agrees(index, mem, blob)
  BY DEF IndexIInv, Own
<1>7. Rowids(mem')
  BY <1>2, <1>3, <1>6 DEF Rowids
<1>8. Agrees(index', mem', blob')
  <2>1. DOMAIN mem' \subseteq DOMAIN mem \cup DOMAIN emb
    BY <1>2, <1>3
  <2> QED BY <1>3, <1>6, <2>1, NewRowsAgree
<1>9. Agrees(index', mem, blob) /\ Agrees(blob', mem, blob)
  BY <1>2, <1>3, <1>6 DEF Agrees, Upserted
<1>10. Own'
  BY <1>5, <1>6, <1>7, <1>8, <1>9 DEF Own
<1>11. Hidden'
  <2>1. /\ DOMAIN index' = DOMAIN index \cup {NextRowid}
        /\ DOMAIN blob' = DOMAIN blob \cup {NextRowid}
    BY <1>2, <1>3, UpsertedDef
  <2>2. DOMAIN blob \ DOMAIN index \subseteq lost
    BY DEF IndexIInv, Hidden
  <2> QED BY <1>3, <1>5, <2>1, <2>2 DEF Hidden
<1> QED BY <1>5, <1>10, <1>11 DEF IndexIInv

LEMMA CompressArchiveKeeps ==
  ASSUME IndexIInv, CompressArchive
  PROVE  IndexIInv'
<1> DEFINE rs == {r \in DOMAIN mem : mem[r].id \in compress.ids /\ ~mem[r].archived}
<1>1. /\ compress.at = "inserted" /\ DOMAIN mem' = DOMAIN mem /\ Archived(rs)
      /\ compress' = [compress EXCEPT !.at = "archived", !.archived = rs]
      /\ lost' = lost
  BY DEF CompressArchive
<1> HIDE DEF rs
<1>2. /\ compress'.at = "archived" /\ compress'.archived = rs /\ compress'.mem = compress.mem
      /\ compress'.blob = compress.blob /\ Shape'
  BY <1>1 DEF IndexIInv, Shape
<1>3. /\ DOMAIN blob' = DOMAIN blob \ rs /\ DOMAIN index' = DOMAIN index \ rs
      /\ \A r \in DOMAIN blob' : blob'[r] = blob[r]
      /\ \A r \in DOMAIN index' : index'[r] = index[r]
  <2>1. CASE rs = {}
    BY <1>1, <2>1 DEF Archived
  <2>2. CASE rs # {}
    BY <1>1, <2>2 DEF Archived, Unindex, Without, Restrict
  <2> QED BY <2>1, <2>2
<1>4. ~Free /\ ~Free' /\ compress.archived = {}
  BY <1>1, <1>2 DEF Free, IndexIInv, Shape
<1>5. Rowids(mem')
  BY <1>1 DEF IndexIInv, Own, Rowids
<1>6. Agrees(index', mem', blob')
  BY <1>1, <1>3 DEF IndexIInv, Own, Agrees
<1>7. Agrees(index', compress'.mem, compress'.blob) /\ Agrees(blob', compress'.mem, compress'.blob)
  BY <1>2, <1>3, <1>4 DEF IndexIInv, Own, Agrees
<1>8. Rowids(compress'.mem)
  BY <1>2, <1>4 DEF IndexIInv, Own
<1>9. Hidden'
  BY <1>1, <1>2, <1>3, <1>4 DEF IndexIInv, Hidden
<1> QED BY <1>2, <1>5, <1>6, <1>7, <1>8, <1>9 DEF IndexIInv, Own

LEMMA IdleKeeps ==
  ASSUME compress' = Idle, Rowids(mem'), Agrees(index', mem', blob'),
         DOMAIN blob' \ DOMAIN index' \subseteq lost'
  PROVE  IndexIInv'
<1>1. compress' = [at |-> "idle", scope |-> CHOOSE s \in Scope : TRUE, ids |-> {},
                   archived |-> {}, mem |-> << >>, blob |-> << >>]
  BY DEF Idle
<1> DEFINE scope == CHOOSE s \in Scope : TRUE
<1> HIDE DEF scope
<1>2. Shape' /\ Free' /\ compress'.archived = {}
  BY <1>1 DEF Shape, Free
<1> QED BY <1>2 DEF IndexIInv, Own, Hidden

LEMMA CompressEndKeeps ==
  ASSUME IndexIInv, CompressCommit \/ CompressRollback
  PROVE  IndexIInv'
<1>1. CASE CompressCommit
  <2>1. /\ compress' = Idle /\ lost' = lost \ compress.archived
        /\ UNCHANGED <<mem, blob, index>>
    BY <1>1 DEF CompressCommit
  <2> QED BY <2>1, IdleKeeps DEF IndexIInv, Own, Hidden
<1>2. CASE CompressRollback
  <2>1. /\ ~Free /\ compress' = Idle /\ lost' = lost \cup compress.archived
        /\ mem' = compress.mem /\ blob' = compress.blob /\ index' = index
    BY <1>2 DEF CompressRollback, Free
  <2> QED BY <2>1, IdleKeeps DEF IndexIInv, Own, Hidden
<1> QED BY <1>1, <1>2

--------------------------------------------------------------------------------
(* Reading *)

LEMMA SearchKeeps ==
  ASSUME IndexIInv, Search
  PROVE  IndexIInv'
<1>1. index' = blob /\ lost' = {} /\ UNCHANGED <<mem, blob, compress>>
  BY DEF Search
<1>2. Shape' /\ Free' = Free
  BY <1>1 DEF IndexIInv, Shape, Free
<1>3. Own'
  BY <1>1, <1>2 DEF IndexIInv, Own, Agrees
<1>4. Hidden'
  BY <1>1, <1>2 DEF IndexIInv, Hidden
<1> QED BY <1>2, <1>3, <1>4 DEF IndexIInv

LEMMA ReopenKeeps ==
  ASSUME IndexIInv, Reopen
  PROVE  IndexIInv'
<1>1. /\ index' = blob' /\ lost' = {} /\ compress' = Idle
      /\ \/ Free /\ mem' = mem
         \/ ~Free /\ mem' = compress.mem
  BY DEF Reopen
<1>2. Rowids(mem')
  BY <1>1 DEF IndexIInv, Own
<1>3. Agrees(index', mem', blob')
  BY <1>1 DEF Agrees
<1> QED BY <1>1, <1>2, <1>3, IdleKeeps

--------------------------------------------------------------------------------
(* The invariant *)

LEMMA IndexInitially == Init => IndexIInv
<1> SUFFICES ASSUME Init PROVE IndexIInv
  OBVIOUS
<1>1. /\ DOMAIN mem = {} /\ DOMAIN blob = {} /\ DOMAIN index = {} /\ compress = Idle
  BY DEF Init
<1> DEFINE scope == CHOOSE s \in Scope : TRUE
<1>2. compress = [at |-> "idle", scope |-> scope, ids |-> {}, archived |-> {},
                  mem |-> << >>, blob |-> << >>]
  BY <1>1 DEF Idle
<1> HIDE DEF scope
<1>3. Shape /\ Free /\ compress.archived = {}
  BY <1>2 DEF Shape, Free
<1> QED BY <1>1, <1>3 DEF IndexIInv, Own, Hidden, Rowids, Agrees

LEMMA IndexStepping == IndexIInv /\ [Next]_vars => IndexIInv'
<1> SUFFICES ASSUME IndexIInv, [Next]_vars PROVE IndexIInv'
  OBVIOUS
<1>1. CASE UNCHANGED vars
  BY <1>1 DEF vars, IndexIInv, Shape, Own, Hidden, Free, Agrees, Rowids
<1>2. CASE \E s \in Scope : Remember(s) \/ ForgetAgent(s) \/ CompressRead(s) \/ Clear(s[1])
  BY <1>2, RememberKeeps, ForgetAgentKeeps, CompressReadKeeps, ClearKeeps
<1>3. CASE \E r \in DOMAIN mem : Forget(r) \/ \E v \in Vec : Update(r, v)
  BY <1>3, ForgetKeeps, UpdateKeeps
<1>4. CASE RememberFails \/ Search \/ Reopen
  BY <1>4, RememberFailsKeeps, SearchKeeps, ReopenKeeps
<1>5. CASE CompressInsert \/ CompressArchive \/ CompressCommit \/ CompressRollback
  BY <1>5, CompressInsertKeeps, CompressArchiveKeeps, CompressEndKeeps
<1> QED BY <1>1, <1>2, <1>3, <1>4, <1>5 DEF Next

\* The inductive invariant holds in every reachable state.
THEOREM IndexInvariance == Spec => []IndexIInv
BY IndexInitially, IndexStepping, PTL DEF Spec

\* searchVectorsWithMemories joins hits to memories by rowid alone: a hit is never scored
\* with the embedding of another memory, though rowids are used again.
THEOREM HitsCorrect == Spec => []HitsAreTheirOwn
<1>1. IndexIInv => HitsAreTheirOwn
  BY DEF IndexIInv, Own, Agrees, HitsAreTheirOwn, Searched
<1> QED BY <1>1, IndexInvariance, PTL

\* The index loses a stored embedding by a clear or a compress that rolls back, and not
\* otherwise (deleteEmbeddingsForScope, archiveMemories).
THEOREM HiddenAreKnown == Spec => []OnlyClearAndRollbackHide
<1>1. IndexIInv => OnlyClearAndRollbackHide
  BY DEF IndexIInv, Hidden, OnlyClearAndRollbackHide, Searched
<1> QED BY <1>1, IndexInvariance, PTL

================================================================================
