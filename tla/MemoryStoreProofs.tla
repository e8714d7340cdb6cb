-------------------------- MODULE MemoryStoreProofs ---------------------------
(***************************************************************************)
(* Proofs about MemoryStore, for every value of its constants: the tables   *)
(* keep their schema and the named invariants hold in every reachable       *)
(* state.  TypeOK /\ SearchCoversActive /\ LineageSound /\ LineageAcyclic   *)
(* /\ AuditTrail is inductive as it stands.                                 *)
(***************************************************************************)
EXTENDS MemoryStore, TLAPS

--------------------------------------------------------------------------------
(* Tables *)

\* What putting rows into a table returns.
LEMMA MergeDef ==
  ASSUME NEW t, NEW new
  PROVE  /\ DOMAIN Merge(t, new) = DOMAIN t \cup DOMAIN new
         /\ \A k \in DOMAIN new : Merge(t, new)[k] = new[k]
         /\ \A k \in DOMAIN t \ DOMAIN new : Merge(t, new)[k] = t[k]
         /\ Merge(t, new) = [k \in DOMAIN Merge(t, new) |-> Merge(t, new)[k]]
BY DEF Merge

\* What taking rows out of a table returns.
LEMMA WithoutDef ==
  ASSUME NEW t, NEW gone
  PROVE  /\ DOMAIN Without(t, gone) = DOMAIN t \ gone
         /\ \A k \in DOMAIN t \ gone : Without(t, gone)[k] = t[k]
         /\ Without(t, gone) = [k \in DOMAIN Without(t, gone) |-> Without(t, gone)[k]]
BY DEF Without, Restrict

\* A table keeps the type of its rows when rows of that type are merged into it.
LEMMA MergeType ==
  ASSUME NEW T, NEW t, NEW new, t \in [DOMAIN t -> T], new \in [DOMAIN new -> T]
  PROVE  Merge(t, new) \in [DOMAIN Merge(t, new) -> T]
BY DEF Merge

\* A table keeps the type of its rows when rows are taken out.
LEMMA WithoutType ==
  ASSUME NEW T, NEW t, NEW gone, t \in [DOMAIN t -> T]
  PROVE  Without(t, gone) \in [DOMAIN Without(t, gone) -> T]
BY DEF Without, Restrict

\* The row an insert or a compress adds is a row of the schema.
LEMMA NewRowType ==
  ASSUME NEW o \in Org, NEW a \in Agent, NEW x \in Text, NEW m \in Meta,
         NEW h \in Hash \cup {NULL}
  PROVE  NewRow(o, a, x, m, h) \in Row
BY DEF NewRow, Row

\* The row an update writes over a row is a row of the schema.
LEMMA UpdatedRowType ==
  ASSUME NEW r \in Row, NEW x \in Text \cup {NULL}, NEW m \in Meta,
         NEW h \in Hash \cup {NULL}
  PROVE  UpdatedRow(r, x, m, h) \in Row
<1> DEFINE text == IF x = NULL THEN r.text ELSE x
           hash == IF h # NULL THEN h ELSE IF x # NULL THEN HashOf[x] ELSE r.hash
<1>1. text \in Text
  BY DEF Row
<1>2. hash \in Hash \cup {NULL}
  BY StoreAssumption DEF Row
<1>3. r.version + 1 \in Nat \ {0}
  BY DEF Row
<1>4. UpdatedRow(r, x, m, h) =
        [r EXCEPT !.text = text, !.meta = m, !.hash = hash, !.version = r.version + 1]
  BY DEF UpdatedRow
<1> HIDE DEF text, hash
<1> QED
  BY <1>1, <1>2, <1>3, <1>4 DEF Row

\* The keyword entry of a row is an entry of the keyword index.
LEMMA FtsOfType ==
  ASSUME NEW r \in Row
  PROVE  FtsOf(r) \in FtsEntry
BY DEF FtsOf, Row, FtsEntry

\* The events one statement logs for a set of memories are rows of the audit table.
LEMMA LogType ==
  ASSUME NEW S \in SUBSET MemoryId, NEW related \in MemoryId \cup {NULL},
         NEW type \in {"created", "updated", "archived", "compressed"}
  PROVE  Log(S, type, related) \subseteq Event
BY DEF Log, Event

--------------------------------------------------------------------------------
(* Type correctness *)

\* An insert, single or batched, keeps the tables of their types.
LEMMA InsertTypeOK ==
  ASSUME TypeOK, NEW o \in Org, Insert(o)
  PROVE  TypeOK'
<1>1. PICK new \in Inserts(o) : InsertMemories(new)
  BY DEF Insert
<1>2. /\ DOMAIN new \in SUBSET MemoryId
      /\ \A i \in DOMAIN new : new[i] \in Row
      /\ new \in [DOMAIN new -> Row]
  BY <1>1, NewRowType DEF Inserts
<1>3. rows' \in [DOMAIN rows' -> Row]
  BY <1>1, <1>2, MergeType DEF InsertMemories, TypeOK
<1>4. ann' \in [DOMAIN ann' -> Text]
  <2>1. [i \in DOMAIN new |-> new[i].text] \in [DOMAIN new -> Text]
    BY <1>2 DEF Row
  <2> QED
    BY <1>1, <2>1, MergeType DEF InsertMemories, TypeOK
<1>5. fts' \in [DOMAIN fts' -> FtsEntry]
  <2>1. [i \in DOMAIN new |-> FtsOf(new[i])] \in [DOMAIN new -> FtsEntry]
    BY <1>2, FtsOfType
  <2> QED
    BY <1>1, <2>1, MergeType DEF InsertMemories, TypeOK
<1>6. history' \subseteq Event
  BY <1>1, <1>2, LogType DEF InsertMemories, TypeOK
<1>7. /\ DOMAIN rows' = DOMAIN rows \cup DOMAIN new
      /\ DOMAIN ann' = DOMAIN ann \cup DOMAIN new
      /\ DOMAIN fts' = DOMAIN fts \cup DOMAIN new
  <2>1. /\ rows' = Merge(rows, new)
        /\ ann' = Merge(ann, [i \in DOMAIN new |-> new[i].text])
        /\ fts' = Merge(fts, [i \in DOMAIN new |-> FtsOf(new[i])])
    BY <1>1 DEF InsertMemories
  <2> QED
    BY <2>1 DEF Merge
<1> QED
  BY <1>1, <1>2, <1>3, <1>4, <1>5, <1>6, <1>7 DEF InsertMemories, TypeOK

\* An update, of an active or an archived memory, keeps the tables of their types.
LEMMA UpdateTypeOK ==
  ASSUME TypeOK, NEW o \in Org, Update(o)
  PROVE  TypeOK'
<1>1. PICK i \in Owned(o), x \in Text \cup {NULL}, m \in Meta, h \in Hash \cup {NULL},
           v \in (1 .. MaxVersion) \cup {NULL} : UpdateMemory(o, i, x, m, h, v)
  BY DEF Update
<1>2. i \in DOMAIN rows /\ i \in MemoryId /\ rows[i] \in Row
  BY DEF Owned, TypeOK
<1>3. /\ rows' \in [DOMAIN rows' -> Row]
      /\ DOMAIN rows' = DOMAIN rows
  <2>1. Updated(i, x, m, h) \in [{i} -> Row]
    BY <1>2, UpdatedRowType DEF Updated
  <2>2. rows' = Merge(rows, Updated(i, x, m, h))
    BY <1>1 DEF UpdateMemory
  <2>3. DOMAIN Updated(i, x, m, h) = {i}
    BY DEF Updated
  <2>4. rows \in [DOMAIN rows -> Row]
    BY DEF TypeOK
  <2>5. Merge(rows, Updated(i, x, m, h)) \in [DOMAIN rows' -> Row]
    BY <2>1, <2>2, <2>3, <2>4, MergeType
  <2> QED
    BY <1>2, <2>2, <2>3, <2>5 DEF Merge
<1>4. ann' \in [DOMAIN ann' -> Text] /\ DOMAIN ann' \subseteq DOMAIN ann \cup {i}
  <2>1. CASE x = NULL
    BY <1>1, <2>1 DEF UpdateMemory, Reembedded, TypeOK
  <2>2. CASE x \in Text
    <3>1. [k \in {i} |-> x] \in [{i} -> Text]
      BY <2>2
    <3>2. ann' = Merge(ann, [k \in {i} |-> x])
      BY <1>1, <2>2, StoreAssumption DEF UpdateMemory, Reembedded
    <3> QED
      BY <3>1, <3>2, MergeType, MergeDef DEF TypeOK
  <2> QED
    BY <2>1, <2>2
<1>5. fts' \in [DOMAIN fts' -> FtsEntry] /\ DOMAIN fts' \subseteq DOMAIN fts \cup {i}
  <2>1. CASE x = NULL
    BY <1>1, <2>1 DEF UpdateMemory, Rekeyed, TypeOK
  <2>2. CASE x \in Text
    <3> DEFINE entry == [FtsOf(rows[i]) EXCEPT !.text = x]
    <3>1. [k \in {i} |-> entry] \in [{i} -> FtsEntry]
      BY <1>2, <2>2, FtsOfType DEF FtsEntry
    <3>2. fts' = Merge(fts, [k \in {i} |-> entry])
      BY <1>1, <2>2, StoreAssumption DEF UpdateMemory, Rekeyed
    <3> QED
      BY <3>1, <3>2, MergeType, MergeDef DEF TypeOK
  <2> QED
    BY <2>1, <2>2
<1>6. history' \subseteq Event
  BY <1>1, <1>2, LogType DEF UpdateMemory, TypeOK
<1> QED
  BY <1>1, <1>2, <1>3, <1>4, <1>5, <1>6 DEF UpdateMemory, TypeOK

\* Archiving rows into a summary keeps them rows of the schema.
LEMMA ArchivedIntoType ==
  ASSUME NEW t, t \in [DOMAIN t -> Row], NEW ids, NEW s \in MemoryId
  PROVE  /\ ArchivedInto(t, ids, s) \in [DOMAIN t -> Row]
         /\ DOMAIN ArchivedInto(t, ids, s) = DOMAIN t
<1>1. ASSUME NEW i \in DOMAIN t
      PROVE  [t[i] EXCEPT !.archived = TRUE, !.into = s] \in Row
  BY DEF Row
<1> QED
  BY <1>1 DEF ArchivedInto

\* The transaction of compress() keeps the tables of their types.
LEMMA CompressTypeOK ==
  ASSUME TypeOK, NEW o \in Org, CompressAgent(o)
  PROVE  TypeOK'
<1>0. PICK a \in Agent, s \in MemoryId, x \in Text, m \in Meta :
        \E ids \in SUBSET Scope(o, a) : Compress(o, a, s, x, m, ids)
  BY DEF CompressAgent
<1>1. PICK ids \in SUBSET Scope(o, a) : Compress(o, a, s, x, m, ids)
  BY <1>0
<1> DEFINE summary == [k \in {s} |-> NewRow(o, a, x, m, HashOf[x])]
           gone    == ArchiveTargets(o, ids)
<1>2. /\ rows' = ArchivedInto(Merge(rows, summary), gone, s)
      /\ ann' = Merge(Without(ann, gone), [k \in {s} |-> x])
      /\ fts' = Merge(Without(fts, gone), [k \in {s} |-> FtsOf(summary[s])])
      /\ history' = history \cup Log({s}, "created", NULL)
                            \cup Log(gone, "archived", s)
                            \cup UNION {Log({s}, "compressed", i) : i \in gone}
      /\ issued' = issued \cup {s}
  BY <1>1 DEF Compress
<1>3. summary \in [{s} -> Row] /\ DOMAIN summary = {s}
  BY StoreAssumption, NewRowType
<1>4. gone \in SUBSET MemoryId
  BY DEF ArchiveTargets, Owned, TypeOK
<1> HIDE DEF summary, gone
<1>5. rows' \in [DOMAIN rows' -> Row] /\ DOMAIN rows' = DOMAIN rows \cup {s}
  <2>1. rows \in [DOMAIN rows -> Row]
    BY DEF TypeOK
  <2>2. DOMAIN Merge(rows, summary) = DOMAIN rows \cup {s}
    BY <1>3 DEF Merge
  <2>3. Merge(rows, summary) \in [DOMAIN Merge(rows, summary) -> Row]
    BY <1>3, <2>1, MergeType
  <2> QED
    BY <1>2, <2>2, <2>3, ArchivedIntoType
<1>6. /\ ann' \in [DOMAIN ann' -> Text]
      /\ DOMAIN ann' \subseteq DOMAIN ann \cup {s}
  <2>1. Without(ann, gone) \in [DOMAIN Without(ann, gone) -> Text]
    BY WithoutType DEF TypeOK
  <2>2. [k \in {s} |-> x] \in [{s} -> Text] /\ DOMAIN [k \in {s} |-> x] = {s}
    OBVIOUS
  <2>3. Merge(Without(ann, gone), [k \in {s} |-> x]) \in [DOMAIN ann' -> Text]
    BY <1>2, <2>1, <2>2, MergeType
  <2> QED
    BY <1>2, <2>2, <2>3 DEF Merge, Without, Restrict
<1>7. /\ fts' \in [DOMAIN fts' -> FtsEntry]
      /\ DOMAIN fts' \subseteq DOMAIN fts \cup {s}
  <2> DEFINE new == [k \in {s} |-> FtsOf(summary[s])]
  <2>1. Without(fts, gone) \in [DOMAIN Without(fts, gone) -> FtsEntry]
    BY WithoutType DEF TypeOK
  <2>2. new \in [{s} -> FtsEntry] /\ DOMAIN new = {s}
    BY <1>3, FtsOfType
  <2>3. fts' = Merge(Without(fts, gone), new)
    BY <1>2
  <2> HIDE DEF new
  <2>4. Merge(Without(fts, gone), new) \in [DOMAIN fts' -> FtsEntry]
    BY <2>1, <2>2, <2>3, MergeType
  <2> QED
    BY <2>2, <2>3, <2>4 DEF Merge, Without, Restrict
<1>8. history' \subseteq Event
  <2>1. Log({s}, "created", NULL) \subseteq Event
    BY LogType
  <2>2. Log(gone, "archived", s) \subseteq Event
    BY <1>4, LogType
  <2>3. \A i \in gone : Log({s}, "compressed", i) \subseteq Event
    BY <1>4, LogType
  <2> QED
    BY <1>2, <2>1, <2>2, <2>3 DEF TypeOK
<1> QED
  BY <1>2, <1>5, <1>6, <1>7, <1>8 DEF TypeOK

\* The rows a delete leaves, for the three ways to delete.
LEMMA SurvivorsType ==
  ASSUME NEW gone, rows \in [DOMAIN rows -> Row]
  PROVE  /\ Survivors(gone) \in [DOMAIN rows \ gone -> Row]
         /\ DOMAIN Survivors(gone) = DOMAIN rows \ gone
<1>1. ASSUME NEW i \in DOMAIN rows
      PROVE  [rows[i] EXCEPT !.into = IF @ \in gone THEN NULL ELSE @] \in Row
  BY DEF Row
<1> QED
  BY <1>1 DEF Survivors

\* The three ways to delete remove rows of one organization with all their entries:
\* the keyword index, where two of them look for tenant and agent, holds the tenant
\* and the agent of the memory.
Deletes(gone) == DeleteRows(gone) /\ fts' = Without(fts, gone)

\* Each way to delete is Deletes(gone) for some memories of the organization.
LEMMA DeleteShape ==
  ASSUME TypeOK, SearchCoversActive, NEW o \in Org,
         Delete(o) \/ DeleteAgent(o) \/ ClearOrganization(o)
  PROVE  \E gone \in SUBSET Owned(o) : Deletes(gone)
<1>1. CASE Delete(o)
  <2>1. PICK i \in MemoryId : i \in Owned(o) /\ DeleteRows({i}) /\ fts' = Without(fts, {i})
    BY <1>1 DEF Delete, DeleteMemoryById
  <2> QED
    BY <2>1 DEF Deletes
<1>2. CASE DeleteAgent(o)
  <2>1. PICK a \in Agent : DeleteMemoriesByFilter(o, a)
    BY <1>2 DEF DeleteAgent
  <2>2. {i \in DOMAIN fts : fts[i].org = o /\ fts[i].agent = a}
          = Scope(o, a) \cap DOMAIN fts
    BY DEF TypeOK, SearchCoversActive, Scope, Owned, FtsOf
  <2>3. fts' = Without(fts, Scope(o, a) \cap DOMAIN fts)
    BY <2>1, <2>2 DEF DeleteMemoriesByFilter
  <2>4. fts' = Without(fts, Scope(o, a))
    BY <2>3 DEF Without, Restrict
  <2>5. Scope(o, a) \subseteq Owned(o)
    BY DEF Scope
  <2> QED
    BY <2>1, <2>4, <2>5 DEF Deletes, DeleteMemoriesByFilter
<1>3. CASE ClearOrganization(o)
  <2>1. {i \in DOMAIN fts : fts[i].org = o} = Owned(o) \cap DOMAIN fts
    BY DEF TypeOK, SearchCoversActive, Owned, FtsOf
  <2>2. fts' = Without(fts, Owned(o) \cap DOMAIN fts)
    BY <1>3, <2>1 DEF ClearOrganization
  <2>3. fts' = Without(fts, Owned(o))
    BY <2>2 DEF Without, Restrict
  <2> QED
    BY <1>3, <2>3 DEF Deletes, ClearOrganization
<1> QED
  BY <1>1, <1>2, <1>3

\* Deleting memories keeps the tables of their types.
LEMMA DeleteTypeOK ==
  ASSUME TypeOK, NEW o \in Org, NEW gone \in SUBSET Owned(o), Deletes(gone)
  PROVE  TypeOK'
<1>1. /\ rows' = Survivors(gone)
      /\ ann' = Without(ann, gone)
      /\ fts' = Without(fts, gone)
      /\ history' \subseteq history
      /\ issued' = issued
  BY DEF Deletes, DeleteRows
<1>2. rows' \in [DOMAIN rows' -> Row] /\ DOMAIN rows' = DOMAIN rows \ gone
  BY <1>1, SurvivorsType DEF TypeOK
<1>3. ann' \in [DOMAIN ann' -> Text] /\ DOMAIN ann' = DOMAIN ann \ gone
  BY <1>1, WithoutType, WithoutDef DEF TypeOK
<1>4. fts' \in [DOMAIN fts' -> FtsEntry] /\ DOMAIN fts' = DOMAIN fts \ gone
  BY <1>1, WithoutType, WithoutDef DEF TypeOK
<1> QED
  BY <1>1, <1>2, <1>3, <1>4 DEF TypeOK

--------------------------------------------------------------------------------
(* The search indexes agree with the rows *)

\* An insert indexes each of its memories, with its text.
LEMMA InsertSearchCoversActive ==
  ASSUME TypeOK, SearchCoversActive, NEW o \in Org, Insert(o)
  PROVE  SearchCoversActive'
<1>1. PICK new : InsertMemories(new)
  BY DEF Insert
<1> DEFINE texts   == [i \in DOMAIN new |-> new[i].text]
           entries == [i \in DOMAIN new |-> FtsOf(new[i])]
<1>2. rows' = Merge(rows, new) /\ ann' = Merge(ann, texts) /\ fts' = Merge(fts, entries)
  BY <1>1 DEF InsertMemories
<1>3. /\ DOMAIN texts = DOMAIN new /\ \A i \in DOMAIN new : texts[i] = new[i].text
      /\ DOMAIN entries = DOMAIN new /\ \A i \in DOMAIN new : entries[i] = FtsOf(new[i])
  OBVIOUS
<1> HIDE DEF texts, entries
<1>4. /\ DOMAIN rows' = DOMAIN rows \cup DOMAIN new
      /\ DOMAIN ann' = DOMAIN ann \cup DOMAIN new
      /\ DOMAIN fts' = DOMAIN fts \cup DOMAIN new
      /\ \A i \in DOMAIN new : /\ rows'[i] = new[i]
                               /\ ann'[i] = new[i].text
                               /\ fts'[i] = FtsOf(new[i])
  BY <1>2, <1>3 DEF Merge
<1>5. /\ \A i \in DOMAIN rows \ DOMAIN new : rows'[i] = rows[i]
      /\ \A i \in DOMAIN ann \ DOMAIN new : ann'[i] = ann[i]
      /\ \A i \in DOMAIN fts \ DOMAIN new : fts'[i] = fts[i]
  BY <1>2, <1>3 DEF Merge
<1>6. DOMAIN ann \subseteq DOMAIN rows /\ DOMAIN fts \subseteq DOMAIN rows
  BY DEF TypeOK
<1> QED
  BY <1>4, <1>5, <1>6 DEF SearchCoversActive, Active, FtsOf

\* An update replaces the text in the row and in both indexes, or in none.
LEMMA UpdateSearchCoversActive ==
  ASSUME TypeOK, SearchCoversActive, NEW o \in Org, Update(o)
  PROVE  SearchCoversActive'
<1>1. PICK i \in Owned(o), x \in Text \cup {NULL}, m \in Meta, h \in Hash \cup {NULL},
           v \in (1 .. MaxVersion) \cup {NULL} : UpdateMemory(o, i, x, m, h, v)
  BY DEF Update
<1>2. i \in DOMAIN rows /\ rows[i] \in Row
  BY DEF Owned, TypeOK
<1>3. /\ DOMAIN rows' = DOMAIN rows
      /\ \A j \in DOMAIN rows \ {i} : rows'[j] = rows[j]
      /\ rows'[i] = UpdatedRow(rows[i], x, m, h)
  <2>1. rows' = Merge(rows, Updated(i, x, m, h))
    BY <1>1 DEF UpdateMemory
  <2>2. DOMAIN Updated(i, x, m, h) = {i}
        /\ Updated(i, x, m, h)[i] = UpdatedRow(rows[i], x, m, h)
    BY DEF Updated
  <2> QED
    BY <1>2, <2>1, <2>2 DEF Merge
<1>4. /\ rows'[i].text = IF x = NULL THEN rows[i].text ELSE x
      /\ rows'[i].org = rows[i].org
      /\ rows'[i].agent = rows[i].agent
      /\ rows'[i].archived = rows[i].archived
  BY <1>2, <1>3 DEF UpdatedRow, Row
<1>5. CASE x = NULL
  <2>1. ann' = ann /\ fts' = fts
    BY <1>1, <1>5 DEF UpdateMemory, Reembedded, Rekeyed
  <2>2. \A j \in DOMAIN rows : /\ FtsOf(rows'[j]) = FtsOf(rows[j])
                               /\ rows'[j].text = rows[j].text
                               /\ rows'[j].archived = rows[j].archived
    BY <1>3, <1>4, <1>5 DEF FtsOf
  <2> QED
    BY <1>3, <2>1, <2>2 DEF SearchCoversActive, Active, TypeOK
<1>6. CASE x # NULL
  <2> DEFINE entry == [FtsOf(rows[i]) EXCEPT !.text = x]
  <2>1. ann' = Merge(ann, [k \in {i} |-> x]) /\ fts' = Merge(fts, [k \in {i} |-> entry])
    BY <1>1, <1>6 DEF UpdateMemory, Reembedded, Rekeyed
  <2>2. entry = FtsOf(rows'[i])
    BY <1>4, <1>6 DEF FtsOf
  <2> HIDE DEF entry
  <2>3. /\ DOMAIN ann' = DOMAIN ann \cup {i} /\ DOMAIN fts' = DOMAIN fts \cup {i}
        /\ ann'[i] = x /\ fts'[i] = entry
        /\ \A j \in DOMAIN ann \ {i} : ann'[j] = ann[j]
        /\ \A j \in DOMAIN fts \ {i} : fts'[j] = fts[j]
    BY <2>1 DEF Merge
  <2>4. \A j \in DOMAIN rows \ {i} : FtsOf(rows'[j]) = FtsOf(rows[j])
    BY <1>3
  <2> QED
    BY <1>2, <1>3, <1>4, <1>6, <2>2, <2>3, <2>4 DEF SearchCoversActive, Active, TypeOK
<1> QED
  BY <1>5, <1>6

\* A compress takes out of the indexes what it archives, and indexes the summary.
LEMMA CompressSearchCoversActive ==
  ASSUME TypeOK, SearchCoversActive, NEW o \in Org, CompressAgent(o)
  PROVE  SearchCoversActive'
<1>0. PICK a \in Agent, s \in MemoryId, x \in Text, m \in Meta :
        \E ids \in SUBSET Scope(o, a) : Compress(o, a, s, x, m, ids)
  BY DEF CompressAgent
<1>1. PICK ids \in SUBSET Scope(o, a) : Compress(o, a, s, x, m, ids)
  BY <1>0
<1> DEFINE new     == NewRow(o, a, x, m, HashOf[x])
           summary == [k \in {s} |-> new]
           gone    == ArchiveTargets(o, ids)
<1>2. /\ rows' = ArchivedInto(Merge(rows, summary), gone, s)
      /\ ann' = Merge(Without(ann, gone), [k \in {s} |-> x])
      /\ fts' = Merge(Without(fts, gone), [k \in {s} |-> FtsOf(new)])
      /\ s \notin issued
  BY <1>1 DEF Compress
<1>3. gone \subseteq DOMAIN rows /\ s \notin gone
  BY <1>2 DEF ArchiveTargets, Owned, TypeOK
<1>4. new.text = x /\ ~new.archived
  BY DEF NewRow
<1> HIDE DEF new, gone
<1>5. /\ DOMAIN rows' = DOMAIN rows \cup {s}
      /\ rows'[s] = new
      /\ \A i \in DOMAIN rows \ gone : rows'[i] = rows[i] \/ i = s
      /\ \A i \in gone : rows'[i] = [rows[i] EXCEPT !.archived = TRUE, !.into = s]
  BY <1>2, <1>3 DEF ArchivedInto, Merge, TypeOK
<1>6. \A i \in gone : rows'[i].archived
  <2>1. \A i \in gone : rows[i] \in Row
    BY <1>3 DEF TypeOK
  <2> QED
    BY <1>5, <2>1 DEF Row
<1>7. /\ DOMAIN ann' = (DOMAIN ann \ gone) \cup {s}
      /\ DOMAIN fts' = (DOMAIN fts \ gone) \cup {s}
      /\ ann'[s] = x
      /\ fts'[s] = FtsOf(new)
      /\ \A i \in DOMAIN ann \ gone : ann'[i] = ann[i] \/ i = s
      /\ \A i \in DOMAIN fts \ gone : fts'[i] = fts[i] \/ i = s
  BY <1>2 DEF Merge, Without, Restrict
<1>8. \A i \in DOMAIN rows \ gone : FtsOf(rows'[i]) = FtsOf(rows[i]) \/ i = s
  BY <1>5
<1>9. s \notin DOMAIN rows /\ DOMAIN ann \subseteq DOMAIN rows
      /\ DOMAIN fts \subseteq DOMAIN rows
  BY <1>2 DEF TypeOK
<1>10. Active(rows)' \subseteq DOMAIN ann' \cap DOMAIN fts'
  BY <1>5, <1>6, <1>7 DEF SearchCoversActive, Active
<1>11. \A i \in DOMAIN ann' : ann'[i] = rows'[i].text
  BY <1>3, <1>4, <1>5, <1>7, <1>9 DEF SearchCoversActive
<1>12. \A i \in DOMAIN fts' : fts'[i] = FtsOf(rows'[i])
  BY <1>3, <1>5, <1>7, <1>8, <1>9 DEF SearchCoversActive
<1> QED
  BY <1>10, <1>11, <1>12 DEF SearchCoversActive

\* A delete takes the same memories out of the rows and of the indexes.
LEMMA DeleteSearchCoversActive ==
  ASSUME TypeOK, SearchCoversActive, NEW gone, Deletes(gone)
  PROVE  SearchCoversActive'
<1>1. /\ rows' = Survivors(gone)
      /\ ann' = Without(ann, gone)
      /\ fts' = Without(fts, gone)
  BY DEF Deletes, DeleteRows
<1>2. ASSUME NEW i \in DOMAIN rows \ gone
      PROVE  /\ rows'[i].text = rows[i].text
             /\ rows'[i].archived = rows[i].archived
             /\ FtsOf(rows'[i]) = FtsOf(rows[i])
  <2>1. rows'[i] = [rows[i] EXCEPT !.into = IF @ \in gone THEN NULL ELSE @]
    BY <1>1, <1>2 DEF Survivors
  <2>2. rows[i] \in Row
    BY <1>2 DEF TypeOK
  <2> QED
    BY <2>1, <2>2 DEF FtsOf, Row
<1>3. DOMAIN rows' = DOMAIN rows \ gone
  BY <1>1 DEF Survivors
<1>4. /\ DOMAIN ann' = DOMAIN ann \ gone
      /\ DOMAIN fts' = DOMAIN fts \ gone
      /\ \A i \in DOMAIN ann \ gone : ann'[i] = ann[i]
      /\ \A i \in DOMAIN fts \ gone : fts'[i] = fts[i]
  BY <1>1 DEF Without, Restrict
<1> QED
  BY <1>2, <1>3, <1>4 DEF SearchCoversActive, Active, TypeOK

--------------------------------------------------------------------------------
(* What each action does to the rows and to their history, as far as lineage and *)
(* audit depend on it.                                                           *)

Created(i) == [memory |-> i, type |-> "created", related |-> NULL]
Changed(i) == [memory |-> i, type |-> "updated", related |-> NULL]
ArchivedBy(i, s) == [memory |-> i, type |-> "archived", related |-> s]
MadeOf(s, i) == [memory |-> s, type |-> "compressed", related |-> i]

SameContent(i) ==
  /\ rows'[i].version = rows[i].version
  /\ rows'[i].text = rows[i].text
  /\ rows'[i].meta = rows[i].meta
  /\ rows'[i].hash = rows[i].hash

Inserted(N) ==
  /\ N \cap issued = {}
  /\ DOMAIN rows' = DOMAIN rows \cup N
  /\ \A i \in DOMAIN rows : rows'[i] = rows[i]
  /\ \A i \in N : ~rows'[i].archived /\ rows'[i].into = NULL /\ rows'[i].version = 1
  /\ history' = history \cup {Created(i) : i \in N}
  /\ issued' = issued \cup N

\* An insert is Inserted(N) for a set N of new ids.
LEMMA InsertEffect ==
  ASSUME TypeOK, NEW o \in Org, Insert(o)
  PROVE  \E N \in SUBSET MemoryId : Inserted(N)
<1>1. PICK new \in Inserts(o) : InsertMemories(new)
  BY DEF Insert
<1>2. /\ DOMAIN new \in SUBSET MemoryId
      /\ \A i \in DOMAIN new : ~new[i].archived /\ new[i].into = NULL /\ new[i].version = 1
  BY <1>1 DEF Inserts, NewRow
<1>3. /\ DOMAIN new \cap issued = {}
      /\ rows' = Merge(rows, new)
      /\ history' = history \cup {Created(i) : i \in DOMAIN new}
      /\ issued' = issued \cup DOMAIN new
  BY <1>1 DEF InsertMemories, Log, Created
<1>4. DOMAIN new \cap DOMAIN rows = {}
  BY <1>3 DEF TypeOK
<1>5. Inserted(DOMAIN new)
  BY <1>2, <1>3, <1>4 DEF Merge, Inserted
<1> QED
  BY <1>2, <1>5

Rewritten(i) ==
  /\ i \in DOMAIN rows
  /\ DOMAIN rows' = DOMAIN rows
  /\ \A j \in DOMAIN rows \ {i} : rows'[j] = rows[j]
  /\ rows'[i].org = rows[i].org
  /\ rows'[i].agent = rows[i].agent
  /\ rows'[i].archived = rows[i].archived
  /\ rows'[i].into = rows[i].into
  /\ rows'[i].version = rows[i].version + 1
  /\ history' = history \cup {Changed(i)}
  /\ issued' = issued

\* An update is Rewritten(i) for one memory i.
LEMMA UpdateEffect ==
  ASSUME TypeOK, NEW o \in Org, Update(o)
  PROVE  \E i \in MemoryId : Rewritten(i)
<1>1. PICK i \in Owned(o), x \in Text \cup {NULL}, m \in Meta, h \in Hash \cup {NULL},
           v \in (1 .. MaxVersion) \cup {NULL} : UpdateMemory(o, i, x, m, h, v)
  BY DEF Update
<1>2. i \in DOMAIN rows /\ i \in MemoryId /\ rows[i] \in Row
  BY DEF Owned, TypeOK
<1>3. /\ rows' = Merge(rows, Updated(i, x, m, h))
      /\ history' = history \cup {Changed(i)}
      /\ issued' = issued
  BY <1>1 DEF UpdateMemory, Log, Changed
<1>4. /\ DOMAIN rows' = DOMAIN rows
      /\ \A j \in DOMAIN rows \ {i} : rows'[j] = rows[j]
      /\ rows'[i] = UpdatedRow(rows[i], x, m, h)
  BY <1>2, <1>3 DEF Merge, Updated
<1>5. /\ rows'[i].org = rows[i].org
      /\ rows'[i].agent = rows[i].agent
      /\ rows'[i].archived = rows[i].archived
      /\ rows'[i].into = rows[i].into
      /\ rows'[i].version = rows[i].version + 1
  BY <1>2, <1>4 DEF UpdatedRow, Row
<1> QED
  BY <1>2, <1>3, <1>4, <1>5 DEF Rewritten

Compressed(o, a, s, gone) ==
  /\ s \in MemoryId \ issued
  /\ gone \subseteq Scope(o, a)
  /\ \A i \in gone : ~rows[i].archived
  /\ DOMAIN rows' = DOMAIN rows \cup {s}
  /\ rows'[s].org = o
  /\ rows'[s].agent = a
  /\ ~rows'[s].archived
  /\ rows'[s].into = NULL
  /\ rows'[s].version = 1
  /\ \A i \in DOMAIN rows \ gone : rows'[i] = rows[i]
  /\ \A i \in gone : /\ rows'[i].org = rows[i].org
                     /\ rows'[i].agent = rows[i].agent
                     /\ SameContent(i)
                     /\ rows'[i].archived
                     /\ rows'[i].into = s
  /\ history' = history \cup {Created(s)} \cup {ArchivedBy(i, s) : i \in gone}
                        \cup {MadeOf(s, i) : i \in gone}
  /\ issued' = issued \cup {s}

\* A compress is Compressed(o, a, s, gone) for a new summary s of the active gone.
LEMMA CompressEffect ==
  ASSUME TypeOK, NEW o \in Org, CompressAgent(o)
  PROVE  \E a \in Agent, s \in MemoryId, gone \in SUBSET DOMAIN rows :
           Compressed(o, a, s, gone)
<1>0. PICK a \in Agent, s \in MemoryId, x \in Text, m \in Meta :
        \E ids \in SUBSET Scope(o, a) : Compress(o, a, s, x, m, ids)
  BY DEF CompressAgent
<1>1. PICK ids \in SUBSET Scope(o, a) : Compress(o, a, s, x, m, ids)
  BY <1>0
<1> DEFINE new     == NewRow(o, a, x, m, HashOf[x])
           summary == [k \in {s} |-> new]
           gone    == ArchiveTargets(o, ids)
<1>2. /\ rows' = ArchivedInto(Merge(rows, summary), gone, s)
      /\ s \notin issued
      /\ issued' = issued \cup {s}
  BY <1>1 DEF Compress
<1>3. history' = history \cup {Created(s)} \cup {ArchivedBy(i, s) : i \in gone}
                         \cup {MadeOf(s, i) : i \in gone}
  <2>1. history' = history \cup Log({s}, "created", NULL) \cup Log(gone, "archived", s)
                           \cup UNION {Log({s}, "compressed", i) : i \in gone}
    BY <1>1 DEF Compress
  <2>2. /\ Log({s}, "created", NULL) = {Created(s)}
        /\ Log(gone, "archived", s) = {ArchivedBy(i, s) : i \in gone}
        /\ \A i \in gone : Log({s}, "compressed", i) = {MadeOf(s, i)}
    BY DEF Log, Created, ArchivedBy, MadeOf
  <2> HIDE DEF gone
  <2>3. UNION {Log({s}, "compressed", i) : i \in gone} = UNION {{MadeOf(s, i)} : i \in gone}
    BY <2>2
  <2>4. UNION {{MadeOf(s, i)} : i \in gone} = {MadeOf(s, i) : i \in gone}
    OBVIOUS
  <2> QED
    BY <2>1, <2>2, <2>3, <2>4
<1>4. /\ gone \subseteq Scope(o, a)
      /\ gone \subseteq DOMAIN rows
      /\ \A i \in gone : ~rows[i].archived
      /\ s \notin DOMAIN rows
  BY <1>2 DEF ArchiveTargets, Scope, Owned, TypeOK
<1>5. /\ new.org = o /\ new.agent = a /\ ~new.archived /\ new.into = NULL
      /\ new.version = 1
  BY DEF NewRow
<1> HIDE DEF new, gone
<1>6. /\ DOMAIN rows' = DOMAIN rows \cup {s}
      /\ rows'[s] = new
      /\ \A i \in DOMAIN rows \ gone : rows'[i] = rows[i]
      /\ \A i \in gone : rows'[i] = [rows[i] EXCEPT !.archived = TRUE, !.into = s]
  BY <1>2, <1>4 DEF ArchivedInto, Merge
<1>7. ASSUME NEW i \in gone
      PROVE  /\ rows'[i].org = rows[i].org
             /\ rows'[i].agent = rows[i].agent
             /\ SameContent(i)
             /\ rows'[i].archived
             /\ rows'[i].into = s
  <2>1. rows[i] \in Row
    BY <1>4, <1>7 DEF TypeOK
  <2> QED
    BY <1>6, <1>7, <2>1 DEF Row, SameContent
<1>8. Compressed(o, a, s, gone)
  BY <1>2, <1>3, <1>4, <1>5, <1>6, <1>7 DEF Compressed
<1> QED
  BY <1>4, <1>8

Deleted(gone) ==
  /\ DOMAIN rows' = DOMAIN rows \ gone
  /\ \A i \in DOMAIN rows \ gone :
       /\ rows'[i].org = rows[i].org
       /\ rows'[i].agent = rows[i].agent
       /\ SameContent(i)
       /\ rows'[i].archived = rows[i].archived
       /\ rows'[i].into = IF rows[i].into \in gone THEN NULL ELSE rows[i].into
  /\ history' = {e \in history : e.memory \notin gone}
  /\ issued' = issued

\* A delete is Deleted(gone).
LEMMA DeleteEffect ==
  ASSUME TypeOK, NEW gone, Deletes(gone)
  PROVE  Deleted(gone)
<1>1. /\ rows' = Survivors(gone)
      /\ history' = {e \in history : e.memory \notin gone}
      /\ issued' = issued
  BY DEF Deletes, DeleteRows
<1>2. ASSUME NEW i \in DOMAIN rows \ gone
      PROVE  /\ rows'[i].org = rows[i].org
             /\ rows'[i].agent = rows[i].agent
             /\ SameContent(i)
             /\ rows'[i].archived = rows[i].archived
             /\ rows'[i].into = IF rows[i].into \in gone THEN NULL ELSE rows[i].into
  <2>1. rows'[i] = [rows[i] EXCEPT !.into = IF @ \in gone THEN NULL ELSE @]
    BY <1>1, <1>2 DEF Survivors
  <2>2. rows[i] \in Row
    BY <1>2 DEF TypeOK
  <2> QED
    BY <2>1, <2>2 DEF Row, SameContent
<1>3. DOMAIN rows' = DOMAIN rows \ gone
  BY <1>1 DEF Survivors
<1> QED
  BY <1>1, <1>2, <1>3 DEF Deleted

--------------------------------------------------------------------------------
(* Lineage ends *)

\* Every step keeps LineageAcyclic: a new memory points nowhere, and the sources of a
\* summary point to it.
LEMMA LineageAcyclicStep ==
  ASSUME TypeOK, SearchCoversActive, LineageAcyclic, [Next]_storeVars
  PROVE  LineageAcyclic'
<1> SUFFICES ASSUME NEW S \in SUBSET DOMAIN rows', S # {}
             PROVE  \E i \in S : rows'[i].into \notin S
  BY DEF LineageAcyclic
<1>0. \A T \in SUBSET DOMAIN rows : T # {} => \E i \in T : rows[i].into \notin T
  BY DEF LineageAcyclic
<1>1. ASSUME NEW o \in Org, Insert(o)
      PROVE  \E i \in S : rows'[i].into \notin S
  <2>1. PICK N \in SUBSET MemoryId : Inserted(N)
    BY <1>1, InsertEffect
  <2>2. CASE S \cap N = {}
    BY <1>0, <2>1, <2>2 DEF Inserted
  <2>3. CASE S \cap N # {}
    <3>1. NULL \notin S
      BY <2>1, StoreAssumption DEF TypeOK, Inserted
    <3> QED
      BY <2>1, <2>3, <3>1 DEF Inserted
  <2> QED
    BY <2>2, <2>3
<1>2. ASSUME NEW o \in Org, Update(o)
      PROVE  \E i \in S : rows'[i].into \notin S
  <2>1. PICK j \in MemoryId : Rewritten(j)
    BY <1>2, UpdateEffect
  <2>2. \A i \in DOMAIN rows : rows'[i].into = rows[i].into
    BY <2>1 DEF Rewritten
  <2> QED
    BY <1>0, <2>1, <2>2 DEF Rewritten
<1>3. ASSUME NEW o \in Org, CompressAgent(o)
      PROVE  \E i \in S : rows'[i].into \notin S
  <2>1. PICK a \in Agent, s \in MemoryId, gone \in SUBSET DOMAIN rows :
          Compressed(o, a, s, gone)
    BY <1>3, CompressEffect
  <2>2. CASE s \in S
    <3>1. NULL \notin S
      BY <2>1, StoreAssumption DEF TypeOK, Compressed
    <3> QED
      BY <2>1, <2>2, <3>1 DEF Compressed
  <2>3. CASE s \notin S /\ S \cap gone # {}
    BY <2>1, <2>3 DEF Compressed
  <2>4. CASE s \notin S /\ S \cap gone = {}
    BY <1>0, <2>1, <2>4 DEF Compressed
  <2> QED
    BY <2>2, <2>3, <2>4
<1>4. ASSUME NEW gone, Deletes(gone)
      PROVE  \E i \in S : rows'[i].into \notin S
  <2>1. Deleted(gone)
    BY <1>4, DeleteEffect
  <2>2. S \subseteq DOMAIN rows \ gone
    BY <2>1 DEF Deleted
  <2>3. PICK i \in S : rows[i].into \notin S
    BY <1>0, <2>2
  <2>4. NULL \notin S
    BY <2>2, StoreAssumption DEF TypeOK
  <2> QED
    BY <2>1, <2>2, <2>3, <2>4 DEF Deleted
<1>5. CASE UNCHANGED storeVars
  BY <1>0, <1>5 DEF storeVars
<1> QED
  BY <1>1, <1>2, <1>3, <1>4, <1>5, DeleteShape DEF Next

--------------------------------------------------------------------------------
(* The audit table *)

\* Every step keeps AuditTrail: each change of a row logs the event that explains it.
LEMMA AuditTrailStep ==
  ASSUME TypeOK, SearchCoversActive, AuditTrail, [Next]_storeVars
  PROVE  AuditTrail'
<1>0. DOMAIN rows \subseteq issued /\ \A i \in DOMAIN rows : rows[i].version \in Nat \ {0}
  BY DEF TypeOK, Row
<1>1. ASSUME NEW o \in Org, Insert(o)
      PROVE  AuditTrail'
  <2>1. PICK N \in SUBSET MemoryId : Inserted(N)
    BY <1>1, InsertEffect
  <2>2. N \cap DOMAIN rows = {}
    BY <1>0, <2>1 DEF Inserted
  <2>3. \A e \in history' : e.memory \in DOMAIN rows'
    BY <2>1 DEF AuditTrail, Inserted, Created
  <2>4. ASSUME NEW i \in DOMAIN rows'
        PROVE  /\ Created(i) \in history'
               /\ rows'[i].archived <=>
                    \E e \in history' : e.memory = i /\ e.type = "archived"
               /\ rows'[i].version > 1 <=> Changed(i) \in history'
    <3>0. /\ \A k : Changed(k) \in history' <=> Changed(k) \in history
          /\ \A e : e \in history' /\ e.type = "archived"
                      <=> e \in history /\ e.type = "archived"
          /\ history \subseteq history'
      <4>1. \A k : Created(k).type = "created" /\ Changed(k).type = "updated"
        BY DEF Created, Changed
      <4>2. \A e : e \in history' <=> e \in history \/ \E k \in N : e = Created(k)
        BY <2>1 DEF Inserted
      <4> QED
        BY <4>1, <4>2
    <3>1. CASE i \in N
      <4>1. \A e \in history : e.memory # i
        BY <2>2, <3>1 DEF AuditTrail
      <4>2. Changed(i) \notin history
        BY <4>1 DEF Changed
      <4>3. Created(i) \in history'
        BY <2>1, <3>1 DEF Inserted
      <4> QED
        BY <2>1, <3>0, <3>1, <4>1, <4>2, <4>3 DEF Inserted
    <3>2. CASE i \in DOMAIN rows
      <4>1. rows'[i] = rows[i]
        BY <2>1, <3>2 DEF Inserted
      <4>2. /\ Created(i) \in history
            /\ rows[i].archived <=> \E e \in history : e.memory = i /\ e.type = "archived"
            /\ rows[i].version > 1 <=> Changed(i) \in history
        BY <3>2 DEF AuditTrail, Created, Changed
      <4> QED
        BY <3>0, <4>1, <4>2
    <3> QED
      BY <2>1, <3>1, <3>2 DEF Inserted
  <2>5. \A e, f \in history' :
          e.memory = f.memory /\ e.type = "archived" /\ f.type = "archived" => e = f
    BY <2>1 DEF AuditTrail, Inserted, Created
  <2> QED
    BY <2>3, <2>4, <2>5 DEF AuditTrail, Created, Changed
<1>2. ASSUME NEW o \in Org, Update(o)
      PROVE  AuditTrail'
  <2>1. PICK j \in MemoryId : Rewritten(j)
    BY <1>2, UpdateEffect
  <2>2. \A e \in history' : e.memory \in DOMAIN rows'
    BY <2>1 DEF AuditTrail, Rewritten, Changed
  <2>3. ASSUME NEW i \in DOMAIN rows'
        PROVE  /\ Created(i) \in history'
               /\ rows'[i].archived <=>
                    \E e \in history' : e.memory = i /\ e.type = "archived"
               /\ rows'[i].version > 1 <=> Changed(i) \in history'
    <3>1. i \in DOMAIN rows
      BY <2>1 DEF Rewritten
    <3>2. Created(i) \in history'
      BY <2>1, <3>1 DEF AuditTrail, Rewritten, Created
    <3>3. rows'[i].archived <=> \E e \in history' : e.memory = i /\ e.type = "archived"
      <4>1. \A e : e \in history' /\ e.type = "archived"
                     <=> e \in history /\ e.type = "archived"
        BY <2>1 DEF Rewritten, Changed
      <4>2. rows'[i].archived = rows[i].archived
        BY <2>1, <3>1 DEF Rewritten
      <4>3. rows[i].archived <=> \E e \in history : e.memory = i /\ e.type = "archived"
        BY <3>1 DEF AuditTrail
      <4> QED
        BY <4>1, <4>2, <4>3
    <3>4. CASE i = j
      <4>1. rows'[i].version > 1
        BY <1>0, <2>1, <3>1, <3>4 DEF Rewritten
      <4> QED
        BY <2>1, <3>2, <3>3, <3>4, <4>1 DEF Rewritten
    <3>5. CASE i # j
      BY <2>1, <3>1, <3>2, <3>3, <3>5 DEF AuditTrail, Rewritten, Changed
    <3> QED
      BY <3>4, <3>5
  <2>4. \A e, f \in history' :
          e.memory = f.memory /\ e.type = "archived" /\ f.type = "archived" => e = f
    BY <2>1 DEF AuditTrail, Rewritten, Changed
  <2> QED
    BY <2>2, <2>3, <2>4 DEF AuditTrail, Created, Changed
<1>3. ASSUME NEW o \in Org, CompressAgent(o)
      PROVE  AuditTrail'
  <2>1. PICK a \in Agent, s \in MemoryId, gone \in SUBSET DOMAIN rows :
          Compressed(o, a, s, gone)
    BY <1>3, CompressEffect
  <2>2. s \notin DOMAIN rows /\ s \notin gone
    BY <1>0, <2>1 DEF Compressed
  <2>3. \A e \in history' : \/ e \in history
                            \/ e = Created(s)
                            \/ \E i \in gone : e = ArchivedBy(i, s) \/ e = MadeOf(s, i)
    BY <2>1 DEF Compressed
  <2>4. \A e \in history' : e.memory \in DOMAIN rows'
    <3>1. /\ Created(s).memory = s
          /\ \A i \in gone : ArchivedBy(i, s).memory = i /\ MadeOf(s, i).memory = s
      BY DEF Created, ArchivedBy, MadeOf
    <3> QED
      BY <2>1, <2>3, <3>1 DEF AuditTrail, Compressed
  <2>5. \A e \in history' : e.type = "archived" =>
          e \in history \/ \E i \in gone : e = ArchivedBy(i, s)
    BY <2>3 DEF Created, MadeOf
  <2>6. \A e \in history : e.type = "archived" => e.memory \in DOMAIN rows \ gone
    <3>1. \A e \in history : e.type = "archived" =>
            e.memory \in DOMAIN rows /\ rows[e.memory].archived
      BY DEF AuditTrail
    <3>2. \A i \in gone : ~rows[i].archived
      BY <2>1 DEF Compressed
    <3> QED
      BY <3>1, <3>2
  <2>7. ASSUME NEW i \in DOMAIN rows'
        PROVE  /\ Created(i) \in history'
               /\ rows'[i].archived <=>
                    \E e \in history' : e.memory = i /\ e.type = "archived"
               /\ rows'[i].version > 1 <=> Changed(i) \in history'
    <3>1. \A k : Changed(k) \in history' <=> Changed(k) \in history
      <4>1. /\ \A k : Changed(k).type = "updated"
            /\ Created(s).type # "updated"
            /\ \A k : ArchivedBy(k, s).type # "updated" /\ MadeOf(s, k).type # "updated"
        BY DEF Changed, Created, ArchivedBy, MadeOf
      <4> QED
        BY <2>1, <2>3, <4>1 DEF Compressed
    <3>2. CASE i = s
      <4>1. ~ \E e \in history' : e.memory = i /\ e.type = "archived"
        BY <2>2, <2>5, <2>6, <3>2 DEF ArchivedBy
      <4>2. Changed(i) \notin history
        BY <2>2, <3>2 DEF AuditTrail, Changed
      <4> QED
        BY <2>1, <3>1, <3>2, <4>1, <4>2 DEF Compressed
    <3>3. CASE i \in gone
      <4>1. ArchivedBy(i, s) \in history'
        BY <2>1, <3>3 DEF Compressed
      <4>2. ArchivedBy(i, s).memory = i /\ ArchivedBy(i, s).type = "archived"
        BY DEF ArchivedBy
      <4>3. rows'[i].archived /\ rows'[i].version = rows[i].version /\ i \in DOMAIN rows
        BY <2>1, <3>3 DEF Compressed, SameContent
      <4>4. Created(i) \in history /\ (rows[i].version > 1 <=> Changed(i) \in history)
        BY <4>3 DEF AuditTrail, Created, Changed
      <4>5. Created(i) \in history'
        BY <2>1, <4>4 DEF Compressed
      <4> QED
        BY <3>1, <4>1, <4>2, <4>3, <4>4, <4>5
    <3>4. CASE i \in DOMAIN rows \ gone
      <4>1. rows'[i] = rows[i] /\ i \in DOMAIN rows
        BY <2>1, <3>4 DEF Compressed
      <4>2. /\ Created(i) \in history
            /\ rows[i].archived <=> \E e \in history : e.memory = i /\ e.type = "archived"
            /\ rows[i].version > 1 <=> Changed(i) \in history
        BY <4>1 DEF AuditTrail, Created, Changed
      <4>3. \A e \in history' : e.memory = i /\ e.type = "archived" => e \in history
        BY <2>5, <3>4 DEF ArchivedBy
      <4>4. history \subseteq history'
        BY <2>1 DEF Compressed
      <4> QED
        BY <3>1, <4>1, <4>2, <4>3, <4>4
    <3> QED
      BY <2>1, <3>2, <3>3, <3>4 DEF Compressed
  <2>8. ASSUME NEW e \in history', NEW f \in history', e.memory = f.memory,
               e.type = "archived", f.type = "archived"
        PROVE  e = f
    <3>1. \A i \in gone : ArchivedBy(i, s).memory = i
      BY DEF ArchivedBy
    <3>2. CASE e \in history /\ f \in history
      BY <2>8, <3>2 DEF AuditTrail
    <3>3. CASE e \notin history \/ f \notin history
      BY <2>5, <2>6, <2>8, <3>1, <3>3
    <3> QED
      BY <3>2, <3>3
  <2> QED
    BY <2>4, <2>7, <2>8 DEF AuditTrail, Created, Changed
<1>4. ASSUME NEW gone, Deletes(gone)
      PROVE  AuditTrail'
  <2>1. Deleted(gone)
    BY <1>4, DeleteEffect
  <2>2. \A e : e \in history' <=> e \in history /\ e.memory \notin gone
    BY <2>1 DEF Deleted
  <2>3. ASSUME NEW i \in DOMAIN rows'
        PROVE  /\ Created(i) \in history'
               /\ rows'[i].archived <=>
                    \E e \in history' : e.memory = i /\ e.type = "archived"
               /\ rows'[i].version > 1 <=> Changed(i) \in history'
    <3>1. /\ i \in DOMAIN rows \ gone
          /\ rows'[i].archived = rows[i].archived
          /\ rows'[i].version = rows[i].version
      BY <2>1 DEF Deleted, SameContent
    <3>2. Created(i).memory = i /\ Changed(i).memory = i
      BY DEF Created, Changed
    <3>3. /\ Created(i) \in history
          /\ rows[i].archived <=> \E e \in history : e.memory = i /\ e.type = "archived"
          /\ rows[i].version > 1 <=> Changed(i) \in history
      BY <3>1 DEF AuditTrail, Created, Changed
    <3> QED
      BY <2>2, <3>1, <3>2, <3>3
  <2>4. \A e \in history' : e.memory \in DOMAIN rows'
    BY <2>1, <2>2 DEF AuditTrail, Deleted
  <2> QED
    BY <2>2, <2>3, <2>4 DEF AuditTrail, Created, Changed
<1>5. CASE UNCHANGED storeVars
  BY <1>5 DEF storeVars, AuditTrail
<1> QED
  BY <1>1, <1>2, <1>3, <1>4, <1>5, DeleteShape DEF Next

--------------------------------------------------------------------------------
(* Lineage leads to the summary *)

\* The two conjuncts of LineageSound: the summary s of i is there, or it was deleted.
LeadsTo(i, s) ==
  /\ rows[i].archived
  /\ s \in DOMAIN rows
  /\ rows[s].org = rows[i].org
  /\ rows[s].agent = rows[i].agent
  /\ ArchivedBy(i, s) \in history
  /\ MadeOf(s, i) \in history

SummaryLost(i) ==
  \E e \in history : /\ e.memory = i
                     /\ e.type = "archived"
                     /\ e.related \in issued \ DOMAIN rows

\* Every step keeps LineageSound.
LEMMA LineageSoundStep ==
  ASSUME TypeOK, SearchCoversActive, LineageSound, [Next]_storeVars
  PROVE  LineageSound'
<1> SUFFICES ASSUME NEW i \in DOMAIN rows'
             PROVE  /\ rows'[i].into # NULL => LeadsTo(i, rows[i].into)'
                    /\ rows'[i].archived /\ rows'[i].into = NULL => SummaryLost(i)'
  BY DEF LineageSound, LeadsTo, SummaryLost, ArchivedBy, MadeOf
<1> DEFINE Kept == /\ rows'[i].into # NULL => LeadsTo(i, rows[i].into)'
                   /\ rows'[i].archived /\ rows'[i].into = NULL => SummaryLost(i)'
<1>0. /\ DOMAIN rows \subseteq issued
      /\ i \in DOMAIN rows =>
           /\ rows[i].into # NULL => LeadsTo(i, rows[i].into)
           /\ rows[i].archived /\ rows[i].into = NULL => SummaryLost(i)
  BY DEF TypeOK, LineageSound, LeadsTo, SummaryLost, ArchivedBy, MadeOf
<1>1. ASSUME NEW o \in Org, Insert(o)
      PROVE  Kept
  <2>1. PICK N \in SUBSET MemoryId : Inserted(N)
    BY <1>1, InsertEffect
  <2>2. CASE i \in N
    BY <2>1, <2>2 DEF Inserted
  <2>3. CASE i \in DOMAIN rows
    BY <1>0, <2>1, <2>3 DEF Inserted, LeadsTo, SummaryLost
  <2> QED
    BY <2>1, <2>2, <2>3 DEF Inserted
<1>2. ASSUME NEW o \in Org, Update(o)
      PROVE  Kept
  <2>1. PICK j \in MemoryId : Rewritten(j)
    BY <1>2, UpdateEffect
  <2>2. /\ DOMAIN rows' = DOMAIN rows
        /\ \A k \in DOMAIN rows : /\ rows'[k].org = rows[k].org
                                  /\ rows'[k].agent = rows[k].agent
                                  /\ rows'[k].archived = rows[k].archived
                                  /\ rows'[k].into = rows[k].into
        /\ history \subseteq history'
        /\ issued' = issued
    BY <2>1 DEF Rewritten
  <2> QED
    BY <1>0, <2>2 DEF LeadsTo, SummaryLost
<1>3. ASSUME NEW o \in Org, CompressAgent(o)
      PROVE  Kept
  <2>1. PICK a \in Agent, s \in MemoryId, gone \in SUBSET DOMAIN rows :
          Compressed(o, a, s, gone)
    BY <1>3, CompressEffect
  <2>2. CASE i = s
    BY <2>1, <2>2 DEF Compressed
  <2>3. CASE i \in gone
    <3>1. rows'[i].into = s /\ rows'[i].archived
      BY <2>1, <2>3 DEF Compressed
    <3>2. rows[i].org = o /\ rows[i].agent = a
      BY <2>1, <2>3 DEF Compressed, Scope, Owned
    <3>3. s # NULL
      BY <2>1, StoreAssumption DEF Compressed
    <3>4. LeadsTo(i, s)'
      BY <2>1, <2>3, <3>1, <3>2 DEF Compressed, LeadsTo
    <3> QED
      BY <3>1, <3>3, <3>4
  <2>4. CASE i \in DOMAIN rows \ gone
    <3>1. rows'[i] = rows[i]
      BY <2>1, <2>4 DEF Compressed
    <3>2. \A k \in DOMAIN rows : /\ k \in DOMAIN rows'
                                 /\ rows'[k].org = rows[k].org
                                 /\ rows'[k].agent = rows[k].agent
      BY <2>1 DEF Compressed
    <3>3. history \subseteq history' /\ issued' \ DOMAIN rows' = issued \ DOMAIN rows
      BY <1>0, <2>1 DEF Compressed
    <3> QED
      BY <1>0, <2>4, <3>1, <3>2, <3>3 DEF LeadsTo, SummaryLost
  <2> QED
    BY <2>1, <2>2, <2>3, <2>4 DEF Compressed
<1>4. ASSUME NEW gone, Deletes(gone)
      PROVE  Kept
  <2>1. Deleted(gone)
    BY <1>4, DeleteEffect
  <2>2. /\ i \in DOMAIN rows \ gone
        /\ rows'[i].archived = rows[i].archived
        /\ rows'[i].into = IF rows[i].into \in gone THEN NULL ELSE rows[i].into
    BY <2>1 DEF Deleted
  <2>3. \A e : e \in history' <=> e \in history /\ e.memory \notin gone
    BY <2>1 DEF Deleted
  <2>4. \A k : ArchivedBy(i, k).memory = i /\ MadeOf(k, i).memory = k
               /\ ArchivedBy(i, k).type = "archived" /\ ArchivedBy(i, k).related = k
    BY DEF ArchivedBy, MadeOf
  <2>5. CASE rows[i].into = NULL
    <3>1. rows'[i].into = NULL
      BY <2>2, <2>5
    <3>2. issued \ DOMAIN rows \subseteq issued' \ DOMAIN rows'
      BY <2>1 DEF Deleted
    <3> QED
      BY <1>0, <2>2, <2>3, <2>5, <3>1, <3>2 DEF SummaryLost
  <2>6. CASE rows[i].into # NULL
    <3>1. LeadsTo(i, rows[i].into)
      BY <1>0, <2>2, <2>6
    <3>2. ArchivedBy(i, rows[i].into) \in history'
      BY <2>2, <2>3, <2>4, <3>1 DEF LeadsTo
    <3>3. CASE rows[i].into \in gone
      <4>1. rows[i].into \in issued' \ DOMAIN rows'
        BY <1>0, <2>1, <3>1, <3>3 DEF Deleted, LeadsTo
      <4>2. SummaryLost(i)'
        BY <2>4, <3>2, <4>1 DEF SummaryLost
      <4> QED
        BY <2>2, <3>3, <4>2
    <3>4. CASE rows[i].into \notin gone
      <4>1. rows'[i].into = rows[i].into /\ rows[i].into \in DOMAIN rows'
        BY <2>1, <2>2, <3>1, <3>4 DEF Deleted, LeadsTo
      <4>2. MadeOf(rows[i].into, i) \in history'
        BY <2>3, <2>4, <3>1, <3>4 DEF LeadsTo
      <4>3. LeadsTo(i, rows[i].into)'
        BY <2>1, <2>2, <3>1, <3>2, <3>4, <4>1, <4>2 DEF LeadsTo, Deleted
      <4> QED
        BY <2>6, <4>1, <4>3
    <3> QED
      BY <3>3, <3>4
  <2> QED
    BY <2>5, <2>6
<1>5. CASE UNCHANGED storeVars
  BY <1>0, <1>5 DEF storeVars, LeadsTo, SummaryLost
<1>6. CASE Next
  <2>1. PICK o \in Org : \/ Insert(o)
                        \/ Update(o)
                        \/ CompressAgent(o)
                        \/ Delete(o) \/ DeleteAgent(o) \/ ClearOrganization(o)
    BY <1>6 DEF Next
  <2>2. CASE Delete(o) \/ DeleteAgent(o) \/ ClearOrganization(o)
    <3>1. PICK gone \in SUBSET Owned(o) : Deletes(gone)
      BY <2>2, DeleteShape
    <3> QED
      BY <1>4, <3>1
  <2> QED
    BY <1>1, <1>2, <1>3, <2>1, <2>2
<1> QED
  BY <1>5, <1>6

--------------------------------------------------------------------------------
(* The inductive invariant and the theorems *)

IInv ==
  /\ TypeOK
  /\ SearchCoversActive
  /\ LineageSound
  /\ LineageAcyclic
  /\ AuditTrail

\* The empty database satisfies the inductive invariant.
LEMMA InitIInv == Init => IInv
BY DEF Init, IInv, TypeOK, SearchCoversActive, LineageSound, LineageAcyclic, AuditTrail,
       Active

\* Every transaction keeps the tables of their types.
LEMMA TypeOKStep ==
  ASSUME TypeOK, SearchCoversActive, [Next]_storeVars
  PROVE  TypeOK'
<1>1. CASE UNCHANGED storeVars
  BY <1>1 DEF storeVars, TypeOK
<1> QED
  BY <1>1, InsertTypeOK, UpdateTypeOK, CompressTypeOK, DeleteTypeOK, DeleteShape DEF Next

\* Every transaction keeps the search indexes in agreement with the rows.
LEMMA SearchCoversActiveStep ==
  ASSUME TypeOK, SearchCoversActive, [Next]_storeVars
  PROVE  SearchCoversActive'
<1>1. CASE UNCHANGED storeVars
  BY <1>1 DEF storeVars, SearchCoversActive, Active
<1> QED
  BY <1>1, InsertSearchCoversActive, UpdateSearchCoversActive, CompressSearchCoversActive,
     DeleteSearchCoversActive, DeleteShape DEF Next

\* The inductive invariant holds in every reachable state.
THEOREM Invariance == Spec => []IInv
<1>1. IInv /\ [Next]_storeVars => IInv'
  BY TypeOKStep, SearchCoversActiveStep, LineageSoundStep, LineageAcyclicStep,
     AuditTrailStep DEF IInv
<1> QED
  BY InitIInv, <1>1, PTL DEF Spec

\* Every table keeps its schema, whatever transactions commit in whatever order.
THEOREM TypeCorrect == Spec => []TypeOK
BY Invariance, PTL DEF IInv

\* Recall's two indexes always cover the active memories, with current texts.
THEOREM SearchCorrect == Spec => []SearchCoversActive
BY Invariance, PTL DEF IInv

\* An archived memory always leads to the summary made from it, unless that was deleted.
THEOREM LineageCorrect == Spec => []LineageSound
BY Invariance, PTL DEF IInv

\* Following compressed_into always ends.
THEOREM LineageEnds == Spec => []LineageAcyclic
BY Invariance, PTL DEF IInv

\* The audit table always tells the life of each memory.
THEOREM AuditCorrect == Spec => []AuditTrail
BY Invariance, PTL DEF IInv

--------------------------------------------------------------------------------
(* What a step may do to a row *)

LifecycleStep ==
  \A i \in DOMAIN rows \cap DOMAIN rows' :
    /\ rows'[i].org = rows[i].org
    /\ rows'[i].agent = rows[i].agent
    /\ rows[i].archived => rows'[i].archived
    /\ rows'[i].version > rows[i].version \/ SameContent(i)

\* Every step is a LifecycleStep: an update raises the version of the row it writes,
\* and nothing else changes the content of a row that stays.
LEMMA LifecycleEveryStep ==
  ASSUME TypeOK, SearchCoversActive, [Next]_storeVars
  PROVE  LifecycleStep
<1>1. ASSUME NEW o \in Org, Insert(o)
      PROVE  LifecycleStep
  BY <1>1, InsertEffect DEF Inserted, LifecycleStep, SameContent
<1>2. ASSUME NEW o \in Org, Update(o)
      PROVE  LifecycleStep
  <2>1. PICK j \in MemoryId : Rewritten(j)
    BY <1>2, UpdateEffect
  <2>2. rows[j].version \in Nat /\ rows'[j].version > rows[j].version
    BY <2>1 DEF Rewritten, TypeOK, Row
  <2>3. \A i \in DOMAIN rows : SameContent(i) \/ rows'[i].version > rows[i].version
    BY <2>1, <2>2 DEF Rewritten, SameContent
  <2>4. \A i \in DOMAIN rows : /\ rows'[i].org = rows[i].org
                               /\ rows'[i].agent = rows[i].agent
                               /\ rows'[i].archived = rows[i].archived
    BY <2>1 DEF Rewritten
  <2> QED
    BY <2>3, <2>4 DEF LifecycleStep
<1>3. ASSUME NEW o \in Org, CompressAgent(o)
      PROVE  LifecycleStep
  <2>1. PICK a \in Agent, s \in MemoryId, gone \in SUBSET DOMAIN rows :
          Compressed(o, a, s, gone)
    BY <1>3, CompressEffect
  <2>2. \A i \in DOMAIN rows \ gone : SameContent(i)
    BY <2>1 DEF Compressed, SameContent
  <2> QED
    BY <2>1, <2>2 DEF Compressed, LifecycleStep
<1>4. ASSUME NEW gone, Deletes(gone)
      PROVE  LifecycleStep
  BY <1>4, DeleteEffect DEF Deleted, LifecycleStep
<1>5. CASE UNCHANGED storeVars
  BY <1>5 DEF storeVars, LifecycleStep, SameContent
<1> QED
  BY <1>1, <1>2, <1>3, <1>4, <1>5, DeleteShape DEF Next

\* A memory keeps its tenant and agent, stays archived once it is, and shows every
\* change of its content in row_version.
THEOREM LifecycleCorrect == Spec => RowLifecycle
<1>1. IInv /\ [Next]_storeVars => [LifecycleStep]_storeVars
  BY LifecycleEveryStep DEF IInv
<1>2. LifecycleStep =>
        \A i \in DOMAIN rows \cap DOMAIN rows' :
          /\ rows'[i].org = rows[i].org
          /\ rows'[i].agent = rows[i].agent
          /\ rows[i].archived => rows'[i].archived
          /\ \/ rows'[i].version > rows[i].version
             \/ /\ rows'[i].version = rows[i].version
                /\ rows'[i].text = rows[i].text
                /\ rows'[i].meta = rows[i].meta
                /\ rows'[i].hash = rows[i].hash
  BY DEF LifecycleStep, SameContent
<1> QED
  BY Invariance, <1>1, <1>2, PTL DEF Spec, RowLifecycle

--------------------------------------------------------------------------------
(***************************************************************************)
(* Proof that no transaction of MemoryStore touches two organizations.     *)
(* The one effect that could reach across is ON DELETE SET NULL of         *)
(* compressed_into: it needs LineageSound, by which a summary belongs to   *)
(* the organization of its sources.                                        *)
(***************************************************************************)

\* Entry i of a table is what it was.
SameEntry(t, u, i) == (i \in DOMAIN t <=> i \in DOMAIN u) /\ (i \in DOMAIN t => u[i] = t[i])

SameEvents(i) == \A e : e.memory = i => (e \in history <=> e \in history')

\* A memory that a step leaves alone, with its index entries and its history.
Kept(i) ==
  /\ i \in DOMAIN rows \cap DOMAIN rows' /\ rows'[i] = rows[i]
  /\ SameEntry(ann, ann', i)
  /\ SameEntry(fts, fts', i)
  /\ SameEvents(i)

Of(i, o) == /\ i \in DOMAIN rows => rows[i].org = o
            /\ i \in DOMAIN rows' => rows'[i].org = o

\* Every memory is left alone or belongs to o.
TouchesOnly(o) == \A i \in DOMAIN rows \cup DOMAIN rows' : Kept(i) \/ Of(i, o)

LEMMA KeptEntries ==
  ASSUME NEW i, Kept(i)
  PROVE  Entries(i)' = Entries(i)
<1>1. {e \in history' : e.memory = i} = {e \in history : e.memory = i}
  BY DEF Kept, SameEvents
<1>2. (IF i \in DOMAIN ann' THEN ann'[i] ELSE NULL) = IF i \in DOMAIN ann THEN ann[i] ELSE NULL
  BY DEF Kept, SameEntry
<1>3. (IF i \in DOMAIN fts' THEN fts'[i] ELSE NULL) = IF i \in DOMAIN fts THEN fts[i] ELSE NULL
  BY DEF Kept, SameEntry
<1>4. rows'[i] = rows[i]
  BY DEF Kept
<1> QED BY <1>1, <1>2, <1>3, <1>4 DEF Entries

\* Rows put into a table, or taken out, leave the others alone.
LEMMA MergeKeeps ==
  ASSUME NEW t, NEW new, NEW i, i \notin DOMAIN new
  PROVE  SameEntry(t, Merge(t, new), i)
BY DEF Merge, SameEntry

LEMMA WithoutKeeps ==
  ASSUME NEW t, NEW gone, NEW i, i \notin gone
  PROVE  SameEntry(t, Without(t, gone), i)
BY DEF Without, Restrict, SameEntry

LEMMA LogKeeps ==
  ASSUME NEW S, NEW type, NEW related, NEW i, i \notin S
  PROVE  \A e \in Log(S, type, related) : e.memory # i
BY DEF Log

LEMMA InsertTouches ==
  ASSUME TypeOK, NEW o \in Org, Insert(o)
  PROVE  TouchesOnly(o)
<1>1. PICK new \in Inserts(o) : InsertMemories(new)
  BY DEF Insert
<1>2. \A i \in DOMAIN new : new[i].org = o
  BY <1>1 DEF Inserts, NewRow
<1>3. /\ rows' = Merge(rows, new)
      /\ ann' = Merge(ann, [i \in DOMAIN new |-> new[i].text])
      /\ fts' = Merge(fts, [i \in DOMAIN new |-> FtsOf(new[i])])
      /\ history' = history \cup Log(DOMAIN new, "created", NULL)
      /\ DOMAIN new \cap DOMAIN rows = {}
  BY <1>1 DEF InsertMemories, TypeOK
<1>4. ASSUME NEW i \in DOMAIN rows', i \in DOMAIN new
      PROVE  Of(i, o)
  BY <1>2, <1>3, <1>4 DEF Merge, Of
<1>5. ASSUME NEW i \in DOMAIN rows \cup DOMAIN rows', i \notin DOMAIN new
      PROVE  Kept(i)
  <2>1. i \in DOMAIN rows \cap DOMAIN rows' /\ rows'[i] = rows[i]
    BY <1>3, <1>5 DEF Merge
  <2>2. SameEntry(ann, ann', i) /\ SameEntry(fts, fts', i)
    BY <1>3, <1>5, MergeKeeps
  <2>3. SameEvents(i)
    BY <1>3, <1>5, LogKeeps DEF SameEvents
  <2> QED BY <2>1, <2>2, <2>3 DEF Kept
<1>6. DOMAIN rows' = DOMAIN rows \cup DOMAIN new
  BY <1>3 DEF Merge
<1> QED BY <1>4, <1>5, <1>6 DEF TouchesOnly

LEMMA UpdateTouches ==
  ASSUME TypeOK, NEW o \in Org, Update(o)
  PROVE  TouchesOnly(o)
<1>1. PICK i \in Owned(o), x \in Text \cup {NULL}, m \in Meta, h \in Hash \cup {NULL},
           v \in (1 .. MaxVersion) \cup {NULL} : UpdateMemory(o, i, x, m, h, v)
  BY DEF Update
<1>2. i \in DOMAIN rows /\ rows[i] \in Row /\ rows[i].org = o
  BY DEF Owned, TypeOK
<1>3. /\ rows' = Merge(rows, Updated(i, x, m, h))
      /\ ann' = Reembedded(i, x)
      /\ fts' = Rekeyed(i, x)
      /\ history' = history \cup Log({i}, "updated", NULL)
      /\ DOMAIN Updated(i, x, m, h) = {i}
      /\ Updated(i, x, m, h)[i].org = o
  BY <1>1, <1>2 DEF UpdateMemory, Updated, UpdatedRow, Row
<1>4. Of(i, o) /\ DOMAIN rows' = DOMAIN rows
  BY <1>2, <1>3 DEF Merge, Of
<1>5. ASSUME NEW j \in DOMAIN rows, j # i
      PROVE  Kept(j)
  <2>1. j \in DOMAIN rows \cap DOMAIN rows' /\ rows'[j] = rows[j]
    BY <1>3, <1>4, <1>5 DEF Merge
  <2>2. SameEntry(ann, ann', j)
    BY <1>3, <1>5, MergeKeeps DEF Reembedded, SameEntry
  <2>3. SameEntry(fts, fts', j)
    BY <1>3, <1>5, MergeKeeps DEF Rekeyed, SameEntry
  <2>4. SameEvents(j)
    BY <1>3, <1>5, LogKeeps DEF SameEvents
  <2> QED BY <2>1, <2>2, <2>3, <2>4 DEF Kept
<1> QED BY <1>4, <1>5 DEF TouchesOnly

LEMMA CompressTouches ==
  ASSUME TypeOK, NEW o \in Org, CompressAgent(o)
  PROVE  TouchesOnly(o)
<1>1. PICK a \in Agent, s \in MemoryId, x \in Text, m \in Meta :
        \E ids \in SUBSET Scope(o, a) : Compress(o, a, s, x, m, ids)
  BY DEF CompressAgent
<1>2. PICK ids \in SUBSET Scope(o, a) : Compress(o, a, s, x, m, ids)
  BY <1>1
<1> DEFINE new     == NewRow(o, a, x, m, HashOf[x])
           summary == [k \in {s} |-> new]
           gone    == ArchiveTargets(o, ids)
<1>3. /\ rows' = ArchivedInto(Merge(rows, summary), gone, s)
      /\ ann' = Merge(Without(ann, gone), [k \in {s} |-> x])
      /\ fts' = Merge(Without(fts, gone), [k \in {s} |-> FtsOf(summary[s])])
      /\ history' = history \cup Log({s}, "created", NULL) \cup Log(gone, "archived", s)
                            \cup UNION {Log({s}, "compressed", i) : i \in gone}
      /\ s \notin DOMAIN rows
  BY <1>2 DEF Compress, TypeOK
<1>4. /\ \A i \in gone : i \in DOMAIN rows /\ rows[i].org = o /\ rows[i] \in Row
      /\ new.org = o
  BY DEF ArchiveTargets, Owned, TypeOK, NewRow
<1> HIDE DEF new, gone
<1>5. /\ DOMAIN rows' = DOMAIN rows \cup {s}
      /\ rows'[s] = new \/ s \in gone
      /\ \A i \in DOMAIN rows \ gone : rows'[i] = rows[i]
      /\ \A i \in gone : rows'[i] = [rows[i] EXCEPT !.archived = TRUE, !.into = s]
  BY <1>3, <1>4 DEF ArchivedInto, Merge
<1>6. s \notin gone
  BY <1>3, <1>4
<1>7. Of(s, o) /\ \A i \in gone : Of(i, o)
  BY <1>3, <1>4, <1>5, <1>6 DEF Of, Row
<1>8. ASSUME NEW i \in DOMAIN rows, i \notin gone, i # s
      PROVE  Kept(i)
  <2>1. i \in DOMAIN rows \cap DOMAIN rows' /\ rows'[i] = rows[i]
    BY <1>5, <1>8
  <2>2. SameEntry(ann, ann', i)
    <3>1. SameEntry(ann, Without(ann, gone), i)
      BY <1>8, WithoutKeeps
    <3>2. SameEntry(Without(ann, gone), ann', i)
      BY <1>3, <1>8, MergeKeeps
    <3> QED BY <3>1, <3>2 DEF SameEntry
  <2>3. SameEntry(fts, fts', i)
    <3>1. SameEntry(fts, Without(fts, gone), i)
      BY <1>8, WithoutKeeps
    <3>2. SameEntry(Without(fts, gone), fts', i)
      BY <1>3, <1>8, MergeKeeps
    <3> QED BY <3>1, <3>2 DEF SameEntry
  <2>4. SameEvents(i)
    <3>1. /\ \A e \in Log({s}, "created", NULL) : e.memory # i
          /\ \A e \in Log(gone, "archived", s) : e.memory # i
          /\ \A k \in gone : \A e \in Log({s}, "compressed", k) : e.memory # i
      BY <1>8 DEF Log
    <3>2. \A e \in UNION {Log({s}, "compressed", k) : k \in gone} : e.memory # i
      BY <3>1
    <3> QED BY <1>3, <3>1, <3>2 DEF SameEvents
  <2> QED BY <2>1, <2>2, <2>3, <2>4 DEF Kept
<1> QED BY <1>5, <1>7, <1>8 DEF TouchesOnly

LEMMA DeleteTouches ==
  ASSUME TypeOK, LineageSound, NEW o \in Org, NEW gone \in SUBSET Owned(o), Deletes(gone)
  PROVE  TouchesOnly(o)
<1>1. /\ rows' = Survivors(gone)
      /\ ann' = Without(ann, gone)
      /\ fts' = Without(fts, gone)
      /\ history' = {e \in history : e.memory \notin gone}
  BY DEF Deletes, DeleteRows
<1>2. \A i \in gone : rows[i].org = o /\ i \in MemoryId
  BY DEF Owned, TypeOK
<1>3. DOMAIN rows' = DOMAIN rows \ gone
  BY <1>1 DEF Survivors
<1>4. ASSUME NEW i \in DOMAIN rows \ gone
      PROVE  rows'[i] = [rows[i] EXCEPT !.into = IF @ \in gone THEN NULL ELSE @]
  BY <1>1 DEF Survivors
<1>5. \A i \in DOMAIN rows : rows[i] \in Row
  BY DEF TypeOK
<1>6. ASSUME NEW i \in DOMAIN rows \ gone, rows[i].into \in gone
      PROVE  Of(i, o)
  <2>1. rows[i].into # NULL
    BY <1>2, <1>6, StoreAssumption
  <2>2. rows[i].org = o
    BY <1>2, <1>6, <2>1 DEF LineageSound
  <2> QED BY <1>4, <1>5, <2>2 DEF Of, Row
<1>7. ASSUME NEW i \in DOMAIN rows \ gone, rows[i].into \notin gone
      PROVE  Kept(i)
  <2>1. rows'[i] = rows[i]
    BY <1>4, <1>5, <1>7 DEF Row
  <2>2. SameEntry(ann, ann', i) /\ SameEntry(fts, fts', i)
    BY <1>1, WithoutKeeps
  <2>3. SameEvents(i)
    BY <1>1 DEF SameEvents
  <2> QED BY <1>3, <2>1, <2>2, <2>3 DEF Kept
<1>8. \A i \in gone : Of(i, o)
  BY <1>2, <1>3 DEF Of
<1> QED BY <1>3, <1>6, <1>7, <1>8 DEF TouchesOnly

\* No transaction touches two organizations: of all but one, the memories, index
\* entries and history stay as they were (the organization clauses of src/sql).
THEOREM TenantsAreIsolated == Spec => TenantIsolation
<1>1. IInv /\ [Next]_storeVars => (\E o \in Org : TouchesOnly(o)) \/ UNCHANGED storeVars
  BY InsertTouches, UpdateTouches, CompressTouches, DeleteTouches, DeleteShape
     DEF Next, IInv
<1>2. ASSUME NEW o \in Org, TouchesOnly(o)
      PROVE  \A i \in DOMAIN rows \cup DOMAIN rows' :
               \/ i \in DOMAIN rows \cap DOMAIN rows' /\ Entries(i)' = Entries(i)
               \/ /\ i \in DOMAIN rows => rows[i].org = o
                  /\ i \in DOMAIN rows' => rows'[i].org = o
  BY <1>2, KeptEntries DEF TouchesOnly, Kept, Of
<1>3. IInv /\ [Next]_storeVars =>
        [\E o \in Org : \A i \in DOMAIN rows \cup DOMAIN rows' :
           \/ i \in DOMAIN rows \cap DOMAIN rows' /\ Entries(i)' = Entries(i)
           \/ /\ i \in DOMAIN rows => rows[i].org = o
              /\ i \in DOMAIN rows' => rows'[i].org = o]_storeVars
  BY <1>1, <1>2
<1> QED
  BY Invariance, <1>3, PTL DEF Spec, TenantIsolation

================================================================================
