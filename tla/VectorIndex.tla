----------------------------- MODULE VectorIndex ------------------------------
(***************************************************************************)
(* The vector index in memory that recall searches where sqlite-vec is     *)
(* missing (vectorBackend "blob" of src/storage/providers/sqlite.ts,       *)
(* InMemoryVectorIndex of src/utils/vector-index.ts).                      *)
(*                                                                         *)
(* The embeddings are rows of memory_embeddings_blob and belong to the     *)
(* transaction that writes them; the index is a copy in the process that   *)
(* every write changes as well, and that a search reads again from the     *)
(* table when it is marked dirty.  A rollback restores the table only.     *)
(* Entries are found by rowid, and SQLite gives the rowids of deleted last *)
(* rows to the next ones.  The lock of the connection lets one transaction *)
(* write at a time; searches take no lock and run inside an open one.      *)
(***************************************************************************)
EXTENDS Naturals, FiniteSets, FiniteSetsExt, Functions

CONSTANTS
  Scope,        \* pairs <<organization, agent>>
  Vec,          \* embeddings
  MaxBatch,     \* bound on the rows of one insert
  MaxMemories   \* bound on the memories ever created

ASSUME IndexAssumption ==
  /\ MaxBatch \in Nat
  /\ MaxMemories \in Nat

VARIABLES
  mem,       \* memories by rowid, as the connection sees them
  blob,      \* memory_embeddings_blob
  index,     \* memoryIndex
  dirty,     \* memoryIndexDirty
  created,   \* how many memories have been created
  compress,  \* the call of compress(), with what a rollback restores
  lost       \* history: rowids whose entry the index may be missing

vars == <<mem, blob, index, dirty, created, compress, lost>>

Row == [id: 1 .. MaxMemories, scope: Scope, archived: BOOLEAN]

Rowid == 1 .. MaxMemories

\* The table t with the entries of new added or replaced.
Upserted(t, new) ==
  [r \in DOMAIN t \cup DOMAIN new |-> IF r \in DOMAIN new THEN new[r] ELSE t[r]]

One(r, v) == [k \in {r} |-> v]

Without(t, gone) == Restrict(t, DOMAIN t \ gone)

Active(s) == {r \in DOMAIN mem : mem[r].scope = s /\ ~mem[r].archived}

Ids(rs) == {mem[r].id : r \in rs}

Idle == [at |-> "idle", scope |-> CHOOSE s \in Scope : TRUE, ids |-> {},
         archived |-> {}, mem |-> << >>, blob |-> << >>]

\* writeTxMutex: the transaction of compress() is not open.
Free == compress.at \in {"idle", "read"}

\* max(rowid) + 1
NextRowid == Max(DOMAIN mem \cup {0}) + 1

--------------------------------------------------------------------------------
(* insertEmbedding and insertEmbeddingsBatch: the rows of a function emb go to *)
(* the table and the index, which counts as clean from here, whatever had      *)
(* marked it dirty.                                                            *)

\* Faulty variant: the table alone gets the rows.
Index_Forgotten(emb) == index' = index /\ dirty' = FALSE /\ lost' = lost \ DOMAIN emb

Index(emb) == index' = Upserted(index, emb) /\ dirty' = FALSE /\ lost' = lost \ DOMAIN emb

Insert(s, emb) ==
  /\ mem' = Upserted(mem, [r \in DOMAIN emb |->
                              [id |-> created + 1 + r - NextRowid, scope |-> s,
                               archived |-> FALSE]])
  /\ blob' = Upserted(blob, emb)
  /\ created' = created + Cardinality(DOMAIN emb)
  /\ Index(emb)

Batches ==
  UNION {[NextRowid .. NextRowid + n - 1 -> Vec] :
           n \in {k \in 1 .. MaxBatch : created + k <= MaxMemories}}

Remember(s) ==
  /\ Free
  /\ \E emb \in Batches : Insert(s, emb)
  /\ UNCHANGED compress

\* A later chunk of the batch violates a constraint: the table is rolled back.
RememberFails ==
  /\ Free
  /\ \E emb \in Batches : Index(emb)
  /\ UNCHANGED <<mem, blob, created, compress>>

\* updateMemory with a text: deleteEmbedding, then insertEmbedding.
Update(r, v) ==
  /\ Free
  /\ blob' = Upserted(blob, One(r, v))
  /\ Index(One(r, v))
  /\ UNCHANGED <<mem, created, compress>>

--------------------------------------------------------------------------------
(* The deletions *)

\* deleteEmbedding of the rows rs.
Unindex(rs) ==
  /\ blob' = Without(blob, rs)
  /\ index' = Without(index, rs)
  /\ dirty' = TRUE

\* forget one memory.
Forget(r) ==
  /\ Free
  /\ mem' = Without(mem, {r})
  /\ Unindex({r})
  /\ lost' = lost \ {r}
  /\ UNCHANGED <<created, compress>>

\* DELETE of the embeddings of a scope, then of its memories.
Drop(gone) == mem' = Without(mem, gone) /\ blob' = Without(blob, gone)

\* forget an agent: deleteEmbeddingsForScope leaves the entries in the index.
ForgetAgent(s) ==
  /\ Free
  /\ LET gone == {r \in DOMAIN mem : mem[r].scope = s}
     IN  Drop(gone) /\ lost' = lost \ gone
  /\ dirty' = TRUE
  /\ UNCHANGED <<index, created, compress>>

\* clear: deleteEmbeddingsForScope empties the index of every organization.
Clear(org) ==
  /\ Free
  /\ LET gone == {r \in DOMAIN mem : mem[r].scope[1] = org}
     IN  Drop(gone) /\ lost' = DOMAIN blob \ gone
  /\ index' = << >>
  /\ dirty' = TRUE
  /\ UNCHANGED <<created, compress>>

--------------------------------------------------------------------------------
(* compress: it reads the active memories, waits for the summary, and opens a  *)
(* transaction that inserts the summary and archives the memories.  Searches   *)
(* run between its steps.                                                      *)

CompressRead(s) ==
  /\ compress.at = "idle"
  /\ \E rs \in SUBSET Active(s) :
       /\ Cardinality(rs) >= 2
       /\ compress' = [Idle EXCEPT !.at = "read", !.scope = s, !.ids = Ids(rs)]
  /\ UNCHANGED <<mem, blob, index, dirty, created, lost>>

CompressInsert ==
  /\ compress.at = "read"
  /\ created < MaxMemories
  /\ \E v \in Vec : Insert(compress.scope, One(NextRowid, v))
  /\ compress' = [compress EXCEPT !.at = "inserted", !.mem = mem, !.blob = blob]

\* Faulty variant: the archived rows keep their embeddings' entries.
Archived_Indexed(rs) == blob' = Without(blob, rs) /\ UNCHANGED <<index, dirty>>

Archived(rs) == IF rs = {} THEN UNCHANGED <<blob, index, dirty>> ELSE Unindex(rs)

\* archiveMemories: the rows that are still there and active.
CompressArchive ==
  /\ compress.at = "inserted"
  /\ LET rs == {r \in DOMAIN mem : mem[r].id \in compress.ids /\ ~mem[r].archived}
     IN  /\ mem' = [r \in DOMAIN mem |-> [mem[r] EXCEPT !.archived = @ \/ r \in rs]]
         /\ Archived(rs)
         /\ compress' = [compress EXCEPT !.at = "archived", !.archived = rs]
  /\ UNCHANGED <<created, lost>>

\* Two memories at least: COMMIT.
CompressCommit ==
  /\ compress.at = "archived"
  /\ Cardinality(compress.archived) >= 2
  /\ compress' = Idle
  /\ lost' = lost \ compress.archived
  /\ UNCHANGED <<mem, blob, index, dirty, created>>

\* "compress lost a concurrency race": ROLLBACK restores the tables alone.
CompressRollback ==
  /\ compress.at = "archived"
  /\ Cardinality(compress.archived) < 2
  /\ mem' = compress.mem
  /\ blob' = compress.blob
  /\ lost' = lost \cup compress.archived
  /\ compress' = Idle
  /\ UNCHANGED <<index, dirty, created>>

--------------------------------------------------------------------------------
(* Reading *)

\* hydrateMemoryIndex in the first search after the index became dirty.
Search ==
  /\ dirty
  /\ index' = blob
  /\ dirty' = FALSE
  /\ lost' = {}
  /\ UNCHANGED <<mem, blob, created, compress>>

\* The process starts again: open() and the hydration of ensureVectorSchema().
Reopen ==
  /\ IF Free THEN UNCHANGED <<mem, blob>>
             ELSE mem' = compress.mem /\ blob' = compress.blob
  /\ index' = blob'
  /\ dirty' = TRUE
  /\ lost' = {}
  /\ compress' = Idle
  /\ UNCHANGED created

Init ==
  /\ mem = << >>
  /\ blob = << >>
  /\ index = << >>
  /\ dirty \in BOOLEAN
  /\ created = 0
  /\ compress = Idle
  /\ lost = {}

Next ==
  \/ \E s \in Scope : Remember(s) \/ ForgetAgent(s) \/ CompressRead(s)
  \/ \E s \in Scope : Clear(s[1])
  \/ \E r \in DOMAIN mem : Forget(r) \/ \E v \in Vec : Update(r, v)
  \/ RememberFails \/ Search \/ Reopen
  \/ CompressInsert \/ CompressArchive \/ CompressCommit \/ CompressRollback

Spec == Init /\ [][Next]_vars

--------------------------------------------------------------------------------
(* Properties *)

\* What a search that starts now looks through.
Searched == IF dirty THEN blob ELSE index

\* A hit is scored with the embedding of the memory it is joined to, whatever
\* was rolled back and whichever rowid was used again: searchVectorsWithMemories
\* trusts the rowid alone.
HitsAreTheirOwn ==
  \A r \in DOMAIN Searched \cap DOMAIN mem :
    r \in DOMAIN blob /\ Searched[r] = blob[r]

\* The clear of an organization and a compress that rolls back are the only ways
\* for the index to lose a stored embedding, and a search of a dirty index finds
\* them all again.
OnlyClearAndRollbackHide == DOMAIN blob \ DOMAIN Searched \subseteq lost

\* What insertEmbedding and deleteEmbedding are written for ("Keep the hot
\* in-memory ANN index incremental"): outside of a transaction a search looks
\* through the embedding of every active memory.
SearchSeesEveryMemory ==
  Free => \A r \in DOMAIN mem : mem[r].archived \/ r \in DOMAIN Searched

================================================================================
