-------------------------------- MODULE PgSchema -------------------------------
(***************************************************************************)
(* How instances of PostgresStorageProvider (src/storage/providers/        *)
(* postgres.ts) open one database at once: runMigrations() with the        *)
(* backfill of content_hash, pgvector or the blob table, the dimensions of *)
(* the embeddings, and the caches that the instances of a process share.   *)
(* An action is one query, or a stretch of queries whose order to those of *)
(* others does not matter; there is no transaction around them.            *)
(* A query whose error the code swallows may fail (a timeout, a broken     *)
(* connection); one whose error it passes on ends the open(), like a crash.*)
(* Left out: stored keyword columns, the HNSW index, TLS and pool options, *)
(* and failures of DDL that swallows its errors.                           *)
(***************************************************************************)
EXTENDS Naturals, Sequences

CONSTANTS
  Instance,       \* the providers
  ProcessOf,      \* the process of each
  ModelOf,        \* the dimensions of the embedding model that each is used with
  OldText,        \* the texts of the memories of an old database, the oldest first
  NewText,        \* the texts that updates write
  MaxPgEdits,     \* bound on the updates
  MaxPgUpsets     \* bound on the crashes and the queries that fail in silence

ASSUME PgSchemaAssumption ==
  /\ MaxPgEdits \in Nat /\ MaxPgUpsets \in Nat
  /\ \A i \in Instance : ModelOf[i] \in Nat \ {0}
  /\ Len(OldText) \in Nat /\ DOMAIN OldText = 1 .. Len(OldText)
  /\ "none" \notin NewText /\ \A m \in DOMAIN OldText : OldText[m] # "none"

VARIABLES
  database,       \* version, recorded dimensions, embedding tables with theirs
  pgMemories,     \* the active memories: text and content_hash
  usable,         \* the type "vector" of pgvector is on the search path
  statics,        \* pgvectorByConn and vectorSchemaReady of each process
  instances,      \* the open() of each instance, and its fields
  pgEdits, pgUpsets,
  overtaken,      \* history: memories that were updated while a backfill had them listed
  replaced,       \* history: texts that updates replaced
  lost,           \* history: texts whose hash a failing query left unwritten
  upgraded,       \* history: a backfill came to its end
  ahead           \* history: an instance found no dimensions when another was ahead

schemaVars == <<database, pgMemories, usable, statics, instances, pgEdits, pgUpsets,
                overtaken, replaced, lost, upgraded, ahead>>

CurrentVersion == 5
Unhashed == "none"

Asleep == [at |-> "closed", pgvector |-> FALSE, dims |-> 0, list |-> {}, seen |-> {}]
Forgetful == [pgvector |-> "unknown", ready |-> {}]

OpenAt(i, step) == instances[i].at = step
GoesTo(i, step) == instances' = [instances EXCEPT ![i].at = step]

Others(i) == Instance \ {i}

schemaHistory == <<overtaken, replaced, lost, upgraded, ahead>>
schemaCounts == <<usable, pgEdits, pgUpsets>>

\* A process crashes, or a query fails and the code goes on as if it had found or done
\* nothing.
Upset ==
  /\ pgUpsets < MaxPgUpsets
  /\ pgUpsets' = pgUpsets + 1
  /\ UNCHANGED <<usable, pgEdits>>

--------------------------------------------------------------------------------
(* runMigrations() *)

OpenStarts(i) ==
  /\ OpenAt(i, "closed")
  /\ GoesTo(i, "version")
  /\ UNCHANGED <<database, pgMemories, statics, schemaCounts, schemaHistory>>

\* The fast path of a current schema.
ReadVersion(i) ==
  /\ OpenAt(i, "version")
  /\ GoesTo(i, IF database.version = CurrentVersion THEN "pgvector" ELSE "tables")
  /\ UNCHANGED <<database, pgMemories, statics, schemaCounts, schemaHistory>>

\* No version is found: the slow path.
ReadVersionFails(i) ==
  /\ OpenAt(i, "version") /\ Upset
  /\ GoesTo(i, "tables")
  /\ UNCHANGED <<database, pgMemories, statics, schemaHistory>>

\* CREATE TABLE IF NOT EXISTS, and the unique index on active hashes.
CreateTables(i) ==
  /\ OpenAt(i, "tables")
  /\ GoesTo(i, "backfill")
  /\ UNCHANGED <<database, pgMemories, statics, schemaCounts, schemaHistory>>

\* Two CREATE TABLE IF NOT EXISTS at once: one may fail, and open() with it.
CreateTablesFails(i) ==
  /\ OpenAt(i, "tables")
  /\ \E j \in Others(i) : OpenAt(j, "tables")
  /\ instances' = [instances EXCEPT ![i] = Asleep]
  /\ UNCHANGED <<database, pgMemories, statics, schemaCounts, schemaHistory>>

\* Faulty variant: only a database without any version is filled.
NeedsHashBackfill_OnlyFresh == database.version = 0

NeedsHashBackfill == database.version < 3

\* The memories without a hash, with their texts.
UnhashedMemories ==
  {[memory |-> m, text |-> pgMemories[m].text] :
     m \in {n \in DOMAIN pgMemories : pgMemories[n].hash = Unhashed}}

BackfillStarts(i, list) ==
  /\ OpenAt(i, "backfill")
  /\ instances' = [instances EXCEPT
       ![i] = [@ EXCEPT !.at = "hash", !.seen = {}, !.list = list]]
  /\ UNCHANGED <<database, pgMemories, statics>>

\* The version is read again, then they are.
ListUnhashed(i) ==
  /\ BackfillStarts(i, IF NeedsHashBackfill THEN UnhashedMemories ELSE {})
  /\ UNCHANGED <<schemaCounts, schemaHistory>>

\* The second query of the version fails: none is taken for an old one.
RereadVersionFails(i) ==
  /\ BackfillStarts(i, UnhashedMemories) /\ Upset
  /\ UNCHANGED schemaHistory

\* The query of the memories fails: none is taken to be without a hash.
ListUnhashedFails(i) ==
  /\ NeedsHashBackfill
  /\ BackfillStarts(i, {}) /\ Upset
  /\ lost' = lost \cup {e.text : e \in UnhashedMemories}
  /\ UNCHANGED <<overtaken, replaced, upgraded, ahead>>

HashTaken(m, hash) == \E n \in DOMAIN pgMemories \ {m} : pgMemories[n].hash = hash

\* The list is visited from the newest memory to the oldest.
NextUnhashed(list) == CHOOSE e \in list : \A d \in list : d.memory <= e.memory

Visits(i) ==
  /\ OpenAt(i, "hash") /\ instances[i].list # {}
  /\ LET next == NextUnhashed(instances[i].list)
     IN  instances' = [instances EXCEPT
           ![i].list = @ \ {next}, ![i].seen = @ \cup {next.text}]
  /\ UNCHANGED <<database, statics>>

\* UPDATE memories SET content_hash: NULL for an older duplicate; refused by the
\* unique index, in silence, if another memory has the hash.
BackfillHash(i) ==
  /\ Visits(i)
  /\ LET next == NextUnhashed(instances[i].list)
         m == next.memory
     IN  pgMemories' = [pgMemories EXCEPT ![m].hash =
           IF next.text \in instances[i].seen THEN Unhashed
           ELSE IF HashTaken(m, next.text) THEN @ ELSE next.text]
  /\ UNCHANGED <<schemaCounts, schemaHistory>>

\* The update fails for another reason, and the text counts as seen.
BackfillHashFails(i) ==
  /\ Visits(i) /\ Upset
  /\ lost' = lost \cup ({NextUnhashed(instances[i].list).text} \ instances[i].seen)
  /\ UNCHANGED <<pgMemories, overtaken, replaced, upgraded, ahead>>

BackfillEnds(i) ==
  /\ OpenAt(i, "hash") /\ instances[i].list = {}
  /\ GoesTo(i, "pgvector")
  /\ upgraded' = TRUE
  /\ UNCHANGED <<pgMemories, statics, overtaken, replaced, lost, ahead>>

SetSchemaVersion(i) ==
  /\ BackfillEnds(i)
  /\ database' = [database EXCEPT !.version = CurrentVersion]
  /\ UNCHANGED schemaCounts

\* open() goes on over a database that still has its old version, or none.
SetSchemaVersionFails(i) ==
  /\ BackfillEnds(i) /\ Upset
  /\ UNCHANGED database

--------------------------------------------------------------------------------
(* Embeddings *)

\* tryEnablePgvector: the answer is remembered for the process. Any failure is taken
\* for "no": two CREATE EXTENSION at once are enough for one.
TryEnablePgvector(i, answer) ==
  LET cached == statics[ProcessOf[i]].pgvector
  IN  /\ \/ /\ answer = IF cached = "unknown" THEN usable ELSE cached = "yes"
            /\ UNCHANGED schemaCounts
         \/ cached = "unknown" /\ ~answer /\ Upset
      /\ statics' = [statics EXCEPT ![ProcessOf[i]].pgvector = IF answer THEN "yes" ELSE "no"]

\* CREATE TABLE IF NOT EXISTS memory_embeddings or memory_embeddings_blob: the table
\* that is there keeps its dimensions.
WithTable(pgvector, dims) ==
  LET name == IF pgvector THEN "vector" ELSE "blob"
  IN  [database EXCEPT !.tables[name] = IF @ = 0 THEN dims ELSE @]

\* open() goes on.
EnablePgvector(i) ==
  /\ OpenAt(i, "pgvector")
  /\ \E answer \in BOOLEAN :
       /\ TryEnablePgvector(i, answer)
       /\ instances' = [instances EXCEPT ![i].at = "dims", ![i].pgvector = answer]
  /\ UNCHANGED <<database, pgMemories, schemaHistory>>

\* open() comes to its end: no dimensions are recorded yet, or the tables are made
\* sure of, once in a process for these dimensions; after that it takes pgvector for granted.
OpenEnds(i) ==
  LET dims == database.dims
      ready == dims \in statics[ProcessOf[i]].ready
  IN  /\ OpenAt(i, "dims")
      /\ instances' = [instances EXCEPT ![i].at = "opened", ![i].pgvector = @ \/ ready]
      /\ database' = IF dims = 0 \/ ready THEN database
                     ELSE WithTable(instances[i].pgvector, dims)
      /\ statics' = [statics EXCEPT ![ProcessOf[i]].ready = @ \cup ({dims} \ {0})]
      /\ UNCHANGED <<pgMemories, schemaCounts, schemaHistory>>

\* boot() takes the recorded dimensions, or asks the model.
ChooseDimensions(i) ==
  /\ OpenAt(i, "opened")
  /\ instances' = [instances EXCEPT
       ![i].at = "chosen", ![i].dims = IF database.dims # 0 THEN database.dims ELSE ModelOf[i]]
  /\ UNCHANGED <<database, pgMemories, statics, schemaCounts, schemaHistory>>

\* Another model has begun to use the database, and its dimensions are not recorded.
OthersAhead(i) ==
  \/ \E j \in Others(i) : /\ instances[j].at \in {"first", "record"}
                          /\ instances[j].dims # instances[i].dims
  \/ database.tables["vector"] \notin {0, instances[i].dims}

\* Faulty variant: the recorded dimensions are not compared.
SameDimensions_Unchecked(i) == TRUE

SameDimensions(i) == database.dims \in {0, instances[i].dims}

\* ensureVectorSchema() begins: the dimensions recorded by now must be the same.
EnsureVectorSchema(i) ==
  /\ OpenAt(i, "chosen") /\ SameDimensions(i)
  /\ \E answer \in BOOLEAN :
       /\ TryEnablePgvector(i, answer)
       /\ instances' = [instances EXCEPT
            ![i].at = IF database.dims = 0 THEN "first" ELSE "later",
            ![i].pgvector = answer]
  /\ ahead' = (ahead \/ (database.dims = 0 /\ OthersAhead(i)))
  /\ UNCHANGED <<database, pgMemories, overtaken, replaced, lost, upgraded>>

\* "Embedding dimensions mismatch": boot() closes the storage.
DimensionsMismatch(i) ==
  /\ OpenAt(i, "chosen") /\ ~SameDimensions(i)
  /\ instances' = [instances EXCEPT ![i] = Asleep]
  /\ UNCHANGED <<database, pgMemories, statics, schemaCounts, schemaHistory>>

EnsureVectorTables(i) ==
  /\ instances[i].at \in {"first", "later"}
  /\ database' = WithTable(instances[i].pgvector, instances[i].dims)
  /\ GoesTo(i, IF OpenAt(i, "first") THEN "record" ELSE "booted")
  /\ UNCHANGED <<pgMemories, statics, schemaCounts, schemaHistory>>

SetEmbeddingDimensions(i) ==
  /\ OpenAt(i, "record")
  /\ database' = [database EXCEPT !.dims = instances[i].dims]
  /\ GoesTo(i, "booted")
  /\ UNCHANGED <<pgMemories, statics, schemaCounts, schemaHistory>>

--------------------------------------------------------------------------------
(* Use, close and crash *)

TableOf(i) == IF instances[i].pgvector THEN "vector" ELSE "blob"

\* The instance can store an embedding of its model.
CanEmbed(i) ==
  /\ OpenAt(i, "booted") /\ instances[i].dims = ModelOf[i]
  /\ database.tables[TableOf(i)] # 0
  /\ instances[i].pgvector => database.tables["vector"] = ModelOf[i]

\* insertMemory(), unless another active memory has the hash.
PgRemember(i) ==
  /\ CanEmbed(i) /\ pgEdits < MaxPgEdits
  /\ \E t \in NewText :
       /\ \A n \in DOMAIN pgMemories : pgMemories[n].hash # t
       /\ pgMemories' = Append(pgMemories, [text |-> t, hash |-> t])
  /\ pgEdits' = pgEdits + 1
  /\ UNCHANGED <<database, usable, statics, instances, pgUpsets, schemaHistory>>

\* updateMemory() with a new text, refused if another active memory has its hash;
\* deleteEmbedding() lets it succeed only if both embedding tables exist.
PgUpdateText(i, m) ==
  /\ CanEmbed(i) /\ pgEdits < MaxPgEdits
  /\ \A kind \in {"vector", "blob"} : database.tables[kind] # 0
  /\ \E t \in NewText :
       /\ ~HashTaken(m, t)
       /\ pgMemories' = [pgMemories EXCEPT ![m] = [text |-> t, hash |-> t]]
  /\ pgEdits' = pgEdits + 1
  /\ replaced' = replaced \cup {pgMemories[m].text}
  /\ overtaken' =
       IF \E j \in Instance : \E e \in instances[j].list : e.memory = m
       THEN overtaken \cup {m} ELSE overtaken
  /\ UNCHANGED <<database, usable, statics, instances, pgUpsets, lost, upgraded, ahead>>

ClosePool(i) ==
  /\ OpenAt(i, "booted")
  /\ instances' = [instances EXCEPT ![i] = Asleep]
  /\ UNCHANGED <<database, pgMemories, statics, schemaCounts, schemaHistory>>

CrashProcess(p) ==
  /\ Upset
  /\ \E i \in Instance : ProcessOf[i] = p /\ ~OpenAt(i, "closed")
  /\ statics' = [statics EXCEPT ![p] = Forgetful]
  /\ instances' = [i \in Instance |-> IF ProcessOf[i] = p THEN Asleep ELSE instances[i]]
  /\ UNCHANGED <<database, pgMemories, schemaHistory>>

\* A new database, or one of version 2, with the table of the extension, and that of
\* the time before the extension, too.
SchemaInit ==
  /\ usable \in BOOLEAN
  /\ \/ /\ database = [version |-> 0, dims |-> 0, tables |-> [vector |-> 0, blob |-> 0]]
        /\ pgMemories = << >>
     \/ \E i \in Instance, names \in SUBSET {"vector", "blob"} :
          /\ (IF usable THEN "vector" ELSE "blob") \in names
          /\ usable \/ "vector" \notin names
          /\ database = [version |-> 2, dims |-> ModelOf[i],
                         tables |-> [n \in {"vector", "blob"} |->
                                       IF n \in names THEN ModelOf[i] ELSE 0]]
          /\ pgMemories = [m \in DOMAIN OldText |-> [text |-> OldText[m], hash |-> Unhashed]]
  /\ statics = [p \in {ProcessOf[i] : i \in Instance} |-> Forgetful]
  /\ instances = [i \in Instance |-> Asleep]
  /\ pgEdits = 0 /\ pgUpsets = 0
  /\ overtaken = {} /\ replaced = {} /\ lost = {} /\ upgraded = FALSE /\ ahead = FALSE

SchemaNext ==
  \/ \E i \in Instance :
       \/ OpenStarts(i) \/ ReadVersion(i) \/ CreateTables(i) \/ CreateTablesFails(i)
       \/ ListUnhashed(i) \/ BackfillHash(i) \/ SetSchemaVersion(i)
       \/ ReadVersionFails(i) \/ RereadVersionFails(i) \/ ListUnhashedFails(i)
       \/ BackfillHashFails(i) \/ SetSchemaVersionFails(i)
       \/ EnablePgvector(i) \/ OpenEnds(i)
       \/ ChooseDimensions(i) \/ EnsureVectorSchema(i) \/ DimensionsMismatch(i)
       \/ EnsureVectorTables(i) \/ SetEmbeddingDimensions(i)
       \/ ClosePool(i) \/ PgRemember(i)
       \/ \E m \in DOMAIN pgMemories : PgUpdateText(i, m)
  \/ \E i \in Instance : CrashProcess(ProcessOf[i])

--------------------------------------------------------------------------------
(* Properties *)

\* Once the version says that a database is upgraded, by however many processes at
\* once and after whatever crashes, some memory is found by the hash of each text,
\* unless the one that had it was updated to another (its older duplicates have none)
\* or a query that should have listed or hashed it failed, in silence and for good.
\* No hash is used twice, and none is that of another text, unless the memory was
\* updated by one process while another had it listed for the backfill, which writes
\* the hash of the text that it read.
HashesTellTexts ==
  /\ \A m \in DOMAIN pgMemories \ overtaken :
       pgMemories[m].hash \in {Unhashed, pgMemories[m].text}
  /\ \A m, n \in DOMAIN pgMemories :
       m # n /\ pgMemories[m].hash # Unhashed => pgMemories[m].hash # pgMemories[n].hash
  /\ database.version = CurrentVersion =>
       \A m \in DOMAIN pgMemories \ overtaken :
         \/ \E n \in DOMAIN pgMemories : pgMemories[n].hash = pgMemories[m].text
         \/ pgMemories[m].text \in replaced \cup lost

\* An instance that has booted agrees with the database on the dimensions, and has the
\* table that it writes to, for vectors of that length, whatever its process had
\* cached; unless it found no dimensions recorded when another model had begun to use
\* the database, which nothing prevents: the table is created before the dimensions are
\* recorded, by a process that may be slow or be killed in between.
VectorTablesFit ==
  \A i \in Instance :
    OpenAt(i, "booted") /\ ~ahead =>
      /\ instances[i].dims = database.dims
      /\ database.tables[TableOf(i)] # 0
      /\ instances[i].pgvector => database.tables["vector"] = instances[i].dims

================================================================================
