------------------------------ MODULE MemoryStore ------------------------------
(***************************************************************************)
(* The durable state of the SQLite storage provider and the transactions   *)
(* that change it (src/storage/providers/sqlite.ts, SQL in src/sql).       *)
(*                                                                         *)
(* A table is a function from the keys of its rows.  `rows' is the table   *)
(* memories, `ann' the embedding of each indexed memory (the text it was   *)
(* computed from stands for the vector), `fts' the keyword index and       *)
(* `history' the audit table.  Every action is one committed transaction:  *)
(* a transaction that throws is rolled back and changes nothing, so it is  *)
(* no step here.  What happens while a transaction is open is the subject  *)
(* of InsertQueue.                                                         *)
(***************************************************************************)
EXTENDS Naturals, FiniteSets, Functions

CONSTANTS
  Org,          \* organizations (tenants) sharing the database file
  Agent,        \* agents of an organization
  MemoryId,     \* the ids createId() may return
  Text,         \* memory contents
  Meta,         \* metadata objects
  Hash,         \* values of hashMemoryContent
  HashOf,       \* hashMemoryContent: texts equal after normalization collide
  NULL,         \* SQL NULL / undefined
  MaxVersion,   \* bound on row_version (the code has none)
  MaxBatch      \* bound on the rows of one coalesced insert (96 in the code)

ASSUME StoreAssumption ==
  /\ HashOf \in [Text -> Hash]
  /\ NULL \notin MemoryId \cup Text \cup Hash \cup Nat
  /\ MaxVersion \in Nat
  /\ MaxBatch \in Nat

VARIABLES
  rows,      \* memories
  ann,       \* memory_embeddings (vec0) or memory_embeddings_blob
  fts,       \* memories_fts
  history,   \* memory_history, without ids and times
  issued     \* ids createId() has returned: it never repeats one

storeVars == <<rows, ann, fts, history, issued>>

--------------------------------------------------------------------------------
(* Tables *)

Row == [org: Org, agent: Agent, text: Text, meta: Meta, hash: Hash \cup {NULL},
        archived: BOOLEAN, into: MemoryId \cup {NULL}, version: Nat \ {0}]

FtsEntry == [org: Org, agent: Agent, text: Text]

Event == [memory: MemoryId, type: {"created", "updated", "archived", "compressed"},
          related: MemoryId \cup {NULL}]

\* The table t with the rows of new added or replaced.
Merge(t, new) ==
  [k \in DOMAIN t \cup DOMAIN new |-> IF k \in DOMAIN new THEN new[k] ELSE t[k]]

\* The table t without the rows of gone.
Without(t, gone) == Restrict(t, DOMAIN t \ gone)

NewRow(o, a, x, m, h) ==
  [org |-> o, agent |-> a, text |-> x, meta |-> m, hash |-> h,
   archived |-> FALSE, into |-> NULL, version |-> 1]

FtsOf(r) == [org |-> r.org, agent |-> r.agent, text |-> r.text]

Log(memories, type, related) ==
  {[memory |-> i, type |-> type, related |-> related] : i \in memories}

Active(t) == {i \in DOMAIN t : ~t[i].archived}

Owned(o) == {i \in DOMAIN rows : rows[i].org = o}

\* Faulty variant: the agent's name is looked up in every organization.
Scope_AnyOrg(o, a) == {i \in DOMAIN rows : rows[i].agent = a}

Scope(o, a) == {i \in Owned(o) : rows[i].agent = a}

\* idx_memories_org_agent_hash_active: the partial unique index.
UniqueActiveHash(t) ==
  \A i, j \in Active(t) :
    /\ t[i].org = t[j].org
    /\ t[i].agent = t[j].agent
    /\ t[i].hash = t[j].hash
    /\ t[i].hash # NULL
    => i = j

--------------------------------------------------------------------------------
(* insertMemoryImmediate and insertMemoriesBatch: all of the rows or none. *)

Fits(new) == UniqueActiveHash(Merge(rows, new))

InsertMemories(new) ==
  /\ DOMAIN new \cap issued = {}
  /\ Fits(new)
  /\ rows' = Merge(rows, new)
  /\ ann' = Merge(ann, [i \in DOMAIN new |-> new[i].text])
  /\ fts' = Merge(fts, [i \in DOMAIN new |-> FtsOf(new[i])])
  /\ history' = history \cup Log(DOMAIN new, "created", NULL)
  /\ issued' = issued \cup DOMAIN new

--------------------------------------------------------------------------------
(* updateMemory(id, text?, metadata, hash?, expectedVersion?).  Metadata is   *)
(* always written, the facade passes an embedding exactly when it passes a    *)
(* text, and an archived row is updated like an active one.                   *)

\* Faulty variant: the version only counts changes of the text.
UpdatedRow_VersionOfText(r, x, m, h) ==
  [r EXCEPT !.text = IF x = NULL THEN @ ELSE x,
            !.meta = m,
            !.hash = IF h # NULL THEN h ELSE IF x # NULL THEN HashOf[x] ELSE @,
            !.version = IF x = NULL THEN @ ELSE @ + 1]

UpdatedRow(r, x, m, h) ==
  [r EXCEPT !.text = IF x = NULL THEN @ ELSE x,
            !.meta = m,
            !.hash = IF h # NULL THEN h ELSE IF x # NULL THEN HashOf[x] ELSE @,
            !.version = @ + 1]

\* Faulty variant: the new text is stored with the old embedding.
Reembedded_Stale(i, x) == ann

Reembedded(i, x) == IF x = NULL THEN ann ELSE Merge(ann, [k \in {i} |-> x])

Rekeyed(i, x) ==
  IF x = NULL THEN fts
  ELSE Merge(fts, [k \in {i} |-> [FtsOf(rows[i]) EXCEPT !.text = x]])

\* The row updateMemory would write, when its guards let it.
CanUpdate(o, i, v) ==
  /\ i \in Owned(o)
  /\ v # NULL => rows[i].version = v
  /\ rows[i].version < MaxVersion

Updated(i, x, m, h) == [k \in {i} |-> UpdatedRow(rows[i], x, m, h)]

UpdateMemory(o, i, x, m, h, v) ==
  /\ CanUpdate(o, i, v)
  /\ Fits(Updated(i, x, m, h))
  /\ rows' = Merge(rows, Updated(i, x, m, h))
  /\ ann' = Reembedded(i, x)
  /\ fts' = Rekeyed(i, x)
  /\ history' = history \cup Log({i}, "updated", NULL)
  /\ UNCHANGED issued

--------------------------------------------------------------------------------
(* The transaction of compress(): insert the summary, archive the sources     *)
(* that are still active, roll back unless two of them were.                  *)

\* Faulty variant: a source archived by an earlier compress is taken again.
ArchiveTargets_Again(o, ids) == ids \cap Owned(o)

\* The rows UPDATE ... WHERE archived = 0 changes.
ArchiveTargets(o, ids) == {i \in ids \cap Owned(o) : ~rows[i].archived}

ArchivedInto(t, ids, s) ==
  [i \in DOMAIN t |-> IF i \in ids
                      THEN [t[i] EXCEPT !.archived = TRUE, !.into = s]
                      ELSE t[i]]

\* Faulty variant: a summary, as a memory that is remembered, is merged into one that
\* has its content, and an archived one counts.
Compress_Deduplicated(o, a, s, x, m, ids) ==
  LET gone == ArchiveTargets(o, ids)
  IN  /\ s \in Scope(o, a) \ gone
      /\ rows[s].hash = HashOf[x]
      /\ \E i, j \in gone : i # j
      /\ rows' = ArchivedInto(rows, gone, s)
      /\ ann' = Without(ann, gone)
      /\ fts' = Without(fts, gone)
      /\ history' = history \cup Log(gone, "archived", s)
                            \cup UNION {Log({s}, "compressed", i) : i \in gone}
      /\ UNCHANGED issued

Compress(o, a, s, x, m, ids) ==
  LET summary == [k \in {s} |-> NewRow(o, a, x, m, HashOf[x])]
      gone    == ArchiveTargets(o, ids)
  IN  /\ s \notin issued
      /\ Fits(summary)
      /\ \E i, j \in gone : i # j
      /\ rows' = ArchivedInto(Merge(rows, summary), gone, s)
      /\ ann' = Merge(Without(ann, gone), [k \in {s} |-> x])
      /\ fts' = Merge(Without(fts, gone), [k \in {s} |-> FtsOf(summary[s])])
      /\ history' = history \cup Log({s}, "created", NULL)
                            \cup Log(gone, "archived", s)
                            \cup UNION {Log({s}, "compressed", i) : i \in gone}
      /\ issued' = issued \cup {s}

--------------------------------------------------------------------------------
(* deleteMemoryById, deleteMemoriesByFilter({agent}) and clearOrganization.   *)
(* The foreign keys do the rest: history goes with its memory, and a source   *)
(* whose summary goes has compressed_into set to NULL.                        *)

\* Faulty variant: compressed_into is left dangling.
Survivors_Dangling(gone) == Without(rows, gone)

Survivors(gone) ==
  [i \in DOMAIN rows \ gone |->
    [rows[i] EXCEPT !.into = IF @ \in gone THEN NULL ELSE @]]

DeleteRows(gone) ==
  /\ rows' = Survivors(gone)
  /\ ann' = Without(ann, gone)
  /\ history' = {e \in history : e.memory \notin gone}
  /\ UNCHANGED issued

\* Faulty variant: the keyword index keeps the deleted memory.
DeleteMemoryById_KeepsFts(o, i) == i \in Owned(o) /\ DeleteRows({i}) /\ UNCHANGED fts

DeleteMemoryById(o, i) ==
  /\ i \in Owned(o)
  /\ DeleteRows({i})
  /\ fts' = Without(fts, {i})

DeleteMemoriesByFilter(o, a) ==
  /\ DeleteRows(Scope(o, a))
  /\ fts' = Without(fts, {i \in DOMAIN fts : fts[i].org = o /\ fts[i].agent = a})

ClearOrganization(o) ==
  /\ DeleteRows(Owned(o))
  /\ fts' = Without(fts, {i \in DOMAIN fts : fts[i].org = o})

--------------------------------------------------------------------------------
Init ==
  /\ rows = << >>
  /\ ann = << >>
  /\ fts = << >>
  /\ history = {}
  /\ issued = {}

\* What one call of the facade may insert for organization o: new ids, and
\* either no hash (dedupe off, batches, ingest) or the hash of the text.
Inserts(o) ==
  UNION {[S -> {NewRow(o, a, x, m, h) :
                  a \in Agent, x \in Text, m \in Meta, h \in Hash \cup {NULL}}] :
           S \in {T \in SUBSET (MemoryId \ issued) : T # {} /\ Cardinality(T) <= MaxBatch}}

Insert(o) ==
  \E new \in Inserts(o) :
    /\ \A i \in DOMAIN new : new[i].hash \in {NULL, HashOf[new[i].text]}
    /\ InsertMemories(new)

\* The hash is passed alone by a dedupe merge, which read it with the row.
Update(o) ==
  \E i \in Owned(o), x \in Text \cup {NULL}, m \in Meta,
     h \in Hash \cup {NULL}, v \in (1 .. MaxVersion) \cup {NULL} :
       UpdateMemory(o, i, x, m, h, v)

CompressAgent(o) ==
  \E a \in Agent, s \in MemoryId, x \in Text, m \in Meta :
    \E ids \in SUBSET Scope(o, a) : Compress(o, a, s, x, m, ids)

Delete(o) == \E i \in MemoryId : DeleteMemoryById(o, i)

DeleteAgent(o) == \E a \in Agent : DeleteMemoriesByFilter(o, a)

Next ==
  \E o \in Org :
    \/ Insert(o)
    \/ Update(o)
    \/ CompressAgent(o)
    \/ Delete(o)
    \/ DeleteAgent(o)
    \/ ClearOrganization(o)

Spec == Init /\ [][Next]_storeVars

--------------------------------------------------------------------------------
(* Properties *)

\* Every table holds rows of its schema, and only of memories once created.
TypeOK ==
  /\ rows \in [DOMAIN rows -> Row]
  /\ ann \in [DOMAIN ann -> Text]
  /\ fts \in [DOMAIN fts -> FtsEntry]
  /\ history \subseteq Event
  /\ issued \subseteq MemoryId
  /\ DOMAIN rows \subseteq issued
  /\ DOMAIN ann \subseteq DOMAIN rows
  /\ DOMAIN fts \subseteq DOMAIN rows

\* What recall searches agrees with what is stored: each active memory is in the
\* vector index and in the keyword index, and whatever an index holds carries the
\* current text and tenant of its memory, after any sequence of transactions
\* (insertEmbedding, upsertFts, deleteEmbedding, deleteFts in sqlite.ts).
SearchCoversActive ==
  /\ Active(rows) \subseteq DOMAIN ann \cap DOMAIN fts
  /\ \A i \in DOMAIN ann : ann[i] = rows[i].text
  /\ \A i \in DOMAIN fts : fts[i] = FtsOf(rows[i])

\* An archived memory leads to its summary: compressed_into names a memory of the
\* same agent that was made from it, or it is NULL and the summary was deleted.
LineageSound ==
  \A i \in DOMAIN rows :
    LET s == rows[i].into IN
    /\ s # NULL => /\ rows[i].archived
                   /\ s \in DOMAIN rows
                   /\ rows[s].org = rows[i].org
                   /\ rows[s].agent = rows[i].agent
                   /\ [memory |-> i, type |-> "archived", related |-> s] \in history
                   /\ [memory |-> s, type |-> "compressed", related |-> i] \in history
    /\ rows[i].archived /\ s = NULL =>
         \E e \in history : /\ e.memory = i
                            /\ e.type = "archived"
                            /\ e.related \in issued \ DOMAIN rows

\* Summaries of summaries never close a cycle, so that following compressed_into
\* ends: every set of memories has one that leads out of the set.
LineageAcyclic ==
  \A S \in SUBSET DOMAIN rows : S # {} => \E i \in S : rows[i].into \notin S

\* The audit table tells the life of each memory: it was created, it was archived
\* at most once and exactly if it is archived, and it was updated exactly if its
\* version moved; events of deleted memories are gone (ON DELETE CASCADE).
AuditTrail ==
  /\ \A e \in history : e.memory \in DOMAIN rows
  /\ \A i \in DOMAIN rows :
       /\ [memory |-> i, type |-> "created", related |-> NULL] \in history
       /\ rows[i].archived <=> \E e \in history : e.memory = i /\ e.type = "archived"
       /\ rows[i].version > 1 <=>
            [memory |-> i, type |-> "updated", related |-> NULL] \in history
  /\ \A e, f \in history :
       e.memory = f.memory /\ e.type = "archived" /\ f.type = "archived" => e = f

\* No transaction touches two organizations: of all but one, the memories, index
\* entries and history stay as they were, whoever has agents of the same name.
Entries(i) ==
  <<rows[i], IF i \in DOMAIN ann THEN ann[i] ELSE NULL,
    IF i \in DOMAIN fts THEN fts[i] ELSE NULL, {e \in history : e.memory = i}>>

TenantIsolation ==
  [][\E o \in Org : \A i \in DOMAIN rows \cup DOMAIN rows' :
       \/ i \in DOMAIN rows \cap DOMAIN rows' /\ Entries(i)' = Entries(i)
       \/ /\ i \in DOMAIN rows => rows[i].org = o
          /\ i \in DOMAIN rows' => rows'[i].org = o]_storeVars

\* A memory keeps its tenant and agent, never comes back from the archive, and
\* shows every change of its text, metadata or hash in row_version, which is what
\* an expectedVersion check relies on.
RowLifecycle ==
  [][\A i \in DOMAIN rows \cap DOMAIN rows' :
       /\ rows'[i].org = rows[i].org
       /\ rows'[i].agent = rows[i].agent
       /\ rows[i].archived => rows'[i].archived
       /\ \/ rows'[i].version > rows[i].version
          \/ /\ rows'[i].version = rows[i].version
             /\ rows'[i].text = rows[i].text
             /\ rows'[i].meta = rows[i].meta
             /\ rows'[i].hash = rows[i].hash]_storeVars

\* Archived memories are out of both search indexes (the comment of
\* archiveMemories: "Drop from ANN + FTS so recall never resurfaces archived
\* rows").  update() of an archived memory puts it back.
ArchivedNotSearchable ==
  \A i \in DOMAIN rows : rows[i].archived => i \notin DOMAIN ann \cup DOMAIN fts

================================================================================
