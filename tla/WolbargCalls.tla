----------------------------- MODULE WolbargCalls -----------------------------
(***************************************************************************)
(* The write calls of the facade (src/core/wolbarg.ts) made concurrently    *)
(* by the tasks of one process: remember() with its dedupe strategies,      *)
(* update(), forget(), compress() and clear().                              *)
(*                                                                         *)
(* A call reads, awaits a model or the store, and writes what it computed   *)
(* from the rows it read.  Each write is one transaction of MemoryStore.    *)
(* The write mutex that dedupe takes covers one storage call, which the     *)
(* store's own lock makes atomic already, so that it orders nothing here.   *)
(***************************************************************************)
EXTENDS MemoryStore

CONSTANTS
  Client,       \* calls, each made once
  MyOrg,        \* the organization of the instance
  MyAgent,      \* the agent the calls are about
  Op,           \* which calls are made
  Strategy,     \* dedupe: "off", "exact", "near", "exact-or-near"
  Seeded,       \* memories that may have been remembered before
  Similar       \* pairs of texts whose embeddings reach nearThreshold

ASSUME CallsAssumption ==
  /\ MyOrg \in Org
  /\ MyAgent \in Agent
  /\ Op \subseteq {"remember", "update", "forget", "compress", "clear"}
  /\ Strategy \subseteq {"off", "exact", "near", "exact-or-near"}
  /\ Seeded \subseteq MemoryId
  /\ Similar \subseteq Text \X Text
  /\ Meta = SUBSET Client
  /\ MaxVersion \in Nat

VARIABLE calls   \* what each call knows and where it waits

callVars == <<storeVars, calls>>

\* A metadata object stands for its keys; call c brings the key c.
Unused ==
  [op |-> "none", at |-> "idle", text |-> NULL, dedupe |-> "off", id |-> NULL,
   seen |-> {}, merges |-> FALSE, expect |-> NULL, ids |-> {}]

\* createId(): any id never returned before, they are interchangeable.
FreshId == CHOOSE i \in MemoryId : i \notin issued

Mine(t) == {i \in Active(t) : t[i].org = MyOrg /\ t[i].agent = MyAgent}

Start(c, op) == calls[c].at = "idle" /\ op \in Op

Goto(c, at) == calls' = [calls EXCEPT ![c].at = at]

\* The call fails and the transaction it tried, if any, is rolled back.
Reject(c) == Goto(c, "failed") /\ UNCHANGED storeVars

--------------------------------------------------------------------------------
(* remember() *)

RememberCall(c) ==
  /\ Start(c, "remember")
  /\ \E x \in Text, d \in Strategy :
       calls' = [calls EXCEPT ![c] =
                  [Unused EXCEPT !.op = "remember", !.text = x, !.dedupe = d,
                                 !.at = CASE d = "off" -> "insert"
                                          [] d = "near" -> "near"
                                          [] OTHER -> "exact"]]
  /\ UNCHANGED storeVars

\* The row found is what the call goes on with: its id and its metadata.
Found(c, i) ==
  calls' = [calls EXCEPT ![c].at = "upsert", ![c].id = i, ![c].seen = rows[i].meta]

SameHash(x) == {i \in Mine(rows) : rows[i].hash = HashOf[x]}

LookupExact(c) ==
  /\ calls[c].at = "exact"
  /\ \/ \E i \in SameHash(calls[c].text) : Found(c, i)
     \/ /\ SameHash(calls[c].text) = {}
        /\ Goto(c, IF calls[c].dedupe = "exact" THEN "insert" ELSE "near")
  /\ UNCHANGED storeVars

\* findNearDuplicate(): by the vector index, then rows that are active.  A near
\* match also replaces the text.
Nearby(x) == {i \in Mine(rows) \cap DOMAIN ann : <<x, ann[i]>> \in Similar}

LookupNear(c) ==
  /\ calls[c].at = "near"
  /\ \/ \E i \in Nearby(calls[c].text) :
          calls' = [calls EXCEPT ![c].at = "replace", ![c].id = i,
                                 ![c].seen = rows[i].meta]
     \/ Nearby(calls[c].text) = {} /\ Goto(c, "insert")
  /\ UNCHANGED storeVars

\* updateMemory() with the metadata merged when the row was read.
Upsert(c) ==
  LET i == calls[c].id
      x == IF calls[c].at = "replace" THEN calls[c].text ELSE NULL
      m == calls[c].seen \cup {c}
      h == HashOf[calls[c].text]
  IN  /\ calls[c].at \in {"upsert", "replace"}
      /\ \/ UpdateMemory(MyOrg, i, x, m, h, NULL) /\ Goto(c, "updated")
         \/ /\ i \in DOMAIN rows => ~Fits(Updated(i, x, m, h))
            /\ Reject(c)

\* insertMemory(); a violation of the unique index leads to another lookup.
InsertNew(c) ==
  LET x   == calls[c].text
      h   == IF calls[c].dedupe = "off" THEN NULL ELSE HashOf[x]
      new == [k \in {FreshId} |-> NewRow(MyOrg, MyAgent, x, {c}, h)]
  IN  /\ calls[c].at = "insert"
      /\ \/ /\ InsertMemories(new)
            /\ calls' = [calls EXCEPT ![c].at = "created", ![c].id = FreshId]
         \/ /\ ~Fits(new)
            /\ Goto(c, "raced")
            /\ UNCHANGED storeVars

\* Faulty variant: the violation of the unique index is rethrown.
LookupRaced_Rethrow(c) == calls[c].at = "raced" /\ Reject(c)

LookupRaced(c) ==
  /\ calls[c].at = "raced"
  /\ \/ \E i \in SameHash(calls[c].text) : Found(c, i) /\ UNCHANGED storeVars
     \/ SameHash(calls[c].text) = {} /\ Reject(c)

--------------------------------------------------------------------------------
(* update(), with or without the version the caller has seen *)

UpdateCall(c) ==
  /\ Start(c, "update")
  /\ \E i \in issued, x \in Text \cup {NULL}, b, cas \in BOOLEAN :
       calls' = [calls EXCEPT ![c] =
                  [Unused EXCEPT
                     !.op = "update", !.at = "read", !.text = x, !.id = i, !.merges = b,
                     !.expect = IF cas /\ i \in DOMAIN rows THEN rows[i].version
                                ELSE NULL]]
  /\ UNCHANGED storeVars

UpdateRead(c) ==
  /\ calls[c].at = "read"
  /\ UNCHANGED storeVars
  /\ IF calls[c].id \in DOMAIN rows
     THEN calls' = [calls EXCEPT ![c].at = "write",
                                 ![c].seen = rows[calls[c].id].meta]
     ELSE Goto(c, "failed")

UpdatedMeta(c) == calls[c].seen \cup (IF calls[c].merges THEN {c} ELSE {})

\* Faulty variant: the version is compared before the await and not in the UPDATE.
UpdateWrite_CheckedEarly(c) ==
  LET i == calls[c].id
  IN  /\ calls[c].at = "write"
      /\ \/ /\ UpdateMemory(MyOrg, i, calls[c].text, UpdatedMeta(c), NULL, NULL)
            /\ Goto(c, "updated")
         \/ i \notin DOMAIN rows /\ Reject(c)

\* MemoryNotFoundError, VersionConflictError, or a UNIQUE violation.
UpdateWrite(c) ==
  LET i == calls[c].id
      x == calls[c].text
      v == calls[c].expect
  IN  /\ calls[c].at = "write"
      /\ \/ /\ UpdateMemory(MyOrg, i, x, UpdatedMeta(c), NULL, v)
            /\ Goto(c, "updated")
         \/ /\ i \in DOMAIN rows =>
                 \/ v # NULL /\ v # rows[i].version
                 \/ ~Fits(Updated(i, x, UpdatedMeta(c), NULL))
            /\ Reject(c)

--------------------------------------------------------------------------------
(* forget(), compress() and clear() *)

Forget(c) ==
  /\ Start(c, "forget")
  /\ \/ \E i \in issued :
          \/ DeleteMemoryById(MyOrg, i)
          \/ i \notin DOMAIN rows /\ UNCHANGED storeVars
     \/ DeleteMemoriesByFilter(MyOrg, MyAgent)
  /\ calls' = [calls EXCEPT ![c] = [Unused EXCEPT !.op = "forget", !.at = "done"]]

\* listMemories(limit >= 2): any page of at least two active memories.
CompressCall(c) ==
  /\ Start(c, "compress")
  /\ UNCHANGED storeVars
  /\ \E ids \in SUBSET Mine(rows), x \in Text :
       /\ Cardinality(ids) >= 2
       /\ calls' = [calls EXCEPT ![c] = [Unused EXCEPT
                      !.op = "compress", !.at = "summarized", !.text = x, !.ids = ids]]

CompressWrite(c) ==
  LET x == calls[c].text
      summary == [k \in {FreshId} |-> NewRow(MyOrg, MyAgent, x, {}, HashOf[x])]
  IN  /\ calls[c].at = "summarized"
      /\ \/ /\ Compress(MyOrg, MyAgent, FreshId, x, {}, calls[c].ids)
            /\ calls' = [calls EXCEPT ![c].at = "compressed", ![c].id = FreshId,
                                      ![c].ids = ArchiveTargets(MyOrg, @)]
         \/ /\ \/ ~Fits(summary)
               \/ Cardinality(ArchiveTargets(MyOrg, calls[c].ids)) < 2
            /\ Reject(c)

Clear(c) ==
  /\ Start(c, "clear")
  /\ ClearOrganization(MyOrg)
  /\ calls' = [calls EXCEPT ![c] = [Unused EXCEPT !.op = "clear", !.at = "done"]]

--------------------------------------------------------------------------------
\* Memories remembered with dedupe before the calls begin.
CallsInit ==
  /\ \E S \in SUBSET Seeded :
       /\ issued = S
       /\ rows \in [S -> {NewRow(MyOrg, MyAgent, x, {}, HashOf[x]) : x \in Text}]
  /\ UniqueActiveHash(rows)
  /\ ann = [i \in DOMAIN rows |-> rows[i].text]
  /\ fts = [i \in DOMAIN rows |-> FtsOf(rows[i])]
  /\ history = Log(DOMAIN rows, "created", NULL)
  /\ calls = [c \in Client |-> Unused]

CallsNext ==
  \E c \in Client :
    \/ RememberCall(c) \/ LookupExact(c) \/ LookupNear(c) \/ Upsert(c)
    \/ InsertNew(c) \/ LookupRaced(c)
    \/ UpdateCall(c) \/ UpdateRead(c) \/ UpdateWrite(c)
    \/ Forget(c)
    \/ CompressCall(c) \/ CompressWrite(c)
    \/ Clear(c)

CallsSpec == CallsInit /\ [][CallsNext]_callVars

--------------------------------------------------------------------------------
(* Properties *)

Answered == {"created", "updated", "done", "compressed", "failed"}

\* Each acknowledged update or upsert of a memory is counted by its row_version,
\* once, and a failed one is not: no call writes and fails, or is applied twice.
VersionCountsUpdates ==
  \A i \in DOMAIN rows :
    rows[i].version =
      1 + Cardinality({c \in Client : calls[c].at = "updated" /\ calls[c].id = i})

\* A write with expectedVersion never drops a metadata key that another call
\* added, whatever was written between its read and its UPDATE.
CasLosesNothing ==
  [][\A c \in Client, i \in DOMAIN rows \cap DOMAIN rows' :
       /\ calls[c].expect # NULL
       /\ calls[c].at # calls'[c].at
       => rows[i].meta \subseteq rows'[i].meta]_callVars

\* While all calls are remember() with exact dedupe, none fails, and an answer
\* leads to the one active row that holds its text: a lost insert race becomes an
\* upsert of the winner's row.
OnlyExact ==
  \A c \in Client : calls[c].op # "none" =>
    calls[c].op = "remember" /\ calls[c].dedupe = "exact"

DedupeServesEveryCall ==
  OnlyExact =>
    \A c \in Client :
      /\ calls[c].at # "failed"
      /\ calls[c].at \in {"created", "updated"} =>
           SameHash(calls[c].text) = {calls[c].id}

\* Two compress() calls never archive the same memory, and what one reports as
\* archived points to its summary as long as both are there.
CompressedOnce ==
  /\ \A c, d \in Client :
       /\ calls[c].at = "compressed"
       /\ calls[d].at = "compressed"
       /\ c # d
       => calls[c].ids \cap calls[d].ids = {}
  /\ \A c \in Client :
       calls[c].at = "compressed" =>
         \A i \in calls[c].ids \cap DOMAIN rows :
           rows[i].into = IF calls[c].id \in DOMAIN rows THEN calls[c].id ELSE NULL

\* A remember() that was answered has its metadata in the row it was merged into
\* ("SQLite read-modify-write (dedupe upsert)", wolbarg.ts).
DedupeKeepsMetadata ==
  \A c \in Client :
    /\ calls[c].op = "remember"
    /\ calls[c].at \in {"created", "updated"}
    /\ calls[c].id \in DOMAIN rows
    => c \in rows[calls[c].id].meta

================================================================================
