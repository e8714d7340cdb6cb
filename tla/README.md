# A verification of wolbarg

Wolbarg is an SDK that gives agents a shared semantic memory: `remember`,
`recall`, `update`, `forget` and `compress` over SQLite or Postgres. This
directory holds TLA+ models of its code (version 0.6.0), the TLC configurations
that check them and TLAPS proofs about them. Paths below are relative to the
repository root; `sqlite.ts` is `src/storage/providers/sqlite.ts`, `wolbarg.ts`
is `src/core/wolbarg.ts`.

    tlc -workers 2 -config MemoryStore.cfg MCMemoryStore
    tlapm MemoryStoreProofs.tla

`PROJECT.json` is the index: components, runs, the source lines of every
definition, known disagreements between code and documentation, hazards,
theorems.

## 1. The system

| Component | State | Operations | What is hard | What makes it correct |
|---|---|---|---|---|
| SQLite storage, tables (`sqlite.ts`, `src/sql`, `src/schema`) | `memories`, embeddings, FTS table, history | insert, insert batch, update (with compare-and-set), archive, delete one / agent / organization | four tables per transaction, foreign keys with SET NULL and CASCADE, deletions that select by scope | indexes and history agree with the memories; tenants are apart; lineage is sound |
| SQLite storage, writers (`sqlite.ts` 444-521, 1052-1088, `src/storage/sqlite/transaction.ts`, `AsyncMutex`) | insert queue, flush flags, write lock, open transaction and savepoints | `insertMemory`, flush, `withTransaction`, `BEGIN IMMEDIATE` retries, `close` | interleaving at each `await`, AsyncLocalStorage context carried by callbacks, busy retries, poison rows | every call is answered once and truthfully |
| SQLite storage, vector index in memory (`src/utils/vector-index.ts`) | entries by rowid, dirty flag | upsert, remove, clear, hydrate, search | a rollback does not reach it; rowids are used again | a hit is scored with its own memory's embedding; no memory is hidden |
| Facade, write calls (`wolbarg.ts`) | the values a call read before an `await` | remember with dedupe, update, forget, compress, clear | stale reads, races for the unique hash, models awaited between read and write | no lost update, no double archive |
| Facade, lifecycle (`wolbarg.ts`) | shared boot promise, open providers | ready, close, checkpoint, rollback, export, import | close during boot, failure half-way | the old database is open again after a failure |
| Checkpoints and transfer (`sqliteCheckpointProvider.ts`, `src/memory/transfer.ts`) | files | create, delete, rollback, export, import | a crash between removing and copying; the WAL beside the copied file | the open database is what the calls that returned promise |
| SQLite storage, migrations (`sqlite.ts` 1090-1330) | the schema of the file, its version | open, upgrade | a crash between two statements, and the rerun | an upgrade that ends is complete |
| Postgres storage (`postgres.ts`, `src/storage/postgres/concurrency.ts`) | insert queue, parallel flushes, pool, ambient client | as SQLite, plus NOTIFY | retries of transactions; a flush in the context of another call; a statement that fails aborts its transaction | an acknowledged row is committed; every call ends |
| Change events (`src/subscribe`) | LISTEN client, reconnection, handlers | subscribe, unsubscribe, disconnect, close | late events of an old client | the subscriber is connected again; no connection is leaked |
| Embedding cache (`src/embedding`) | entries in memory (L1), pending writes and touches, in-flight requests | get, set, flush | write-behind on a connection in use; two clocks for one entry | entries reach the table; none is served too long |
| Telemetry (`src/telemetry`, `sqliteTelemetryProvider.ts`) | bounded queue, open promise | emit, query, flush, close | overflow, close while flushing | events are written in order, or dropped for a reason; close ends |
| Facade, recall (`wolbarg.ts` 1286-1640) with retrieval, keyword scoring | what the call has read | recall | four reads at different moments; scores of different scale | what is returned fits; the better match comes first |
| Metadata filters (`src/filters`) | none | match, compile to SQLite, compile to Postgres | three languages, NULL, kinds of values | the three agree |
| Chunking (`src/chunking`) | none | windows, merging, hard splits | boundaries | no text is lost, no phrase cut by every window |
| HTTP requests (`src/utils/backoff.ts`, `src/embedding/index.ts`, `src/llm/index.ts`) | attempt, clock, abort signal | request, fallback of `embedBatch` | deadline, delay and cancellation | attempts and time are bounded |
| Adapters (rerank, OCR, vision, ingest parsers), configuration, CLI, errors, types | none | | | |

The facade calls the storage provider, which owns the one connection of a
process to the SQLite file. The processes that share the file meet in SQLite's
write lock only. Tasks of one process interleave at each `await`: a task that
has read a row and awaits a model comes back to a store that others changed. The
embedding cache writes through the same connection as the storage.

## 2. The models

| Module | Models | Abstracts |
|---|---|---|
| `MemoryStore` | the four tables and every transaction on them, one action each | text stands for its embedding; history without ids and times |
| `InsertQueue` | how concurrent writers share the connection; one action is what the event loop runs between two awaits | a row is a fact stored or not, with the unique key it claims |
| `AtomicInserts` | abstract: what a writer is promised | implemented by `InsertQueue` |
| `WolbargCalls` | concurrent facade calls over `MemoryStore` (it EXTENDS it: each write is one of its transactions) | metadata stands for its set of keys, each call brings one |
| `VectorIndex` | the blob backend's index in memory next to the table it copies | an embedding is a value |
| `EmbeddingCache` | L1, write-behind, TTL and eviction under `embed` and `embedBatch`, with transactions, close and rollback of the storage | two keys; a value is when it was made |
| `TelemetryQueue` | queue, flush, remembered `open()` and `close()`, one action between two awaits | an event is its number |
| `Migration` | the statements of an upgrade, each followed by a crash or not | a text is its hash |
| `Lifecycle` | boot, close, checkpoint, rollback, export, import: one action per file operation | a database is its set of memories, main file and WAL apart |
| `PgWriter` | transactions on a pool of clients, the insert queue, retries | as in `InsertQueue` |
| `PgSchema` | several processes that open and upgrade one Postgres database, and agree on embedding tables and dimensions | a text is its hash |
| `PgListener` | the LISTEN connection in all its states, old connections included | events have no content |
| `Recall` | one `recall()` with writers between its reads | scores are integers over a scale; similarity and relevance are given |
| `Filters` | two comparisons under not, and, or, in three languages | a value is a kind and a number |
| `Chunking` | windows, merging and hard splits of every strategy | a character is blank or not; where pieces end is chosen |
| `HttpRetry` | `request()` of the embedding and the LLM provider | responses are their status |
| `MCComponents` | the eleven modules above, for TLC | `part` says which component runs |
| other `MC*` | instances for TLC | |
| `MemoryStoreProofs`, `VectorIndexProofs` | theorems about these modules | |
| `WolbargCallsProofs` | theorems about `WolbargCalls`, from those about `MemoryStore` | |
| `InsertQueueProofs` | theorems about `InsertQueue`: its queue, its transactions and `AtomicInserts` | |
| `PostgresProofs` | theorems about `PgListener`, `PgSchema` and `PgWriter` | |
| `SqliteFileProofs` | theorems about `Lifecycle` and `Migration` | |
| `QueueProofs` | theorems about `TelemetryQueue`, `EmbeddingCache` and `HttpRetry` | |
| `RecallProofs` | theorems about `Filters`, `Recall` and `Chunking` | |

**MemoryStore.** `rows`, `ann`, `fts` and `history` are the tables; `issued`
remembers which ids `createId` has returned. `InsertMemories` stands for
`insertMemoryImmediate` and `insertMemoriesBatch` with their embedding, keyword
and history rows; `UpdateMemory` for `updateMemory` (an archived row is updated
like an active one, as in the code); `Compress` for the transaction of
`compress()`, insert and archive and the rollback when fewer than two sources
were active; `DeleteMemoryById`, `DeleteMemoriesByFilter` and
`ClearOrganization` for the deletions, with what the foreign keys do. `Fits` is
the partial unique index on active hashes. The hash of a summary, and that of a
text update, is always computed; a dedupe merge passes its own. The code deletes
embeddings by a subquery on `memories` and keyword entries by the organization
and agent stored in the entry; so does the model, which is why the deletions are
correct only if the entries name the right scope.

**InsertQueue.** `queue`, `scheduled` (`insertFlushScheduled`), `flush`
(`insertFlushInFlight` and the local variables of `flushInsertQueue`), `lock`
(the chain of `writeTxMutex`), `stack` (what is open on the connection) and
`spCounter` are the provider's fields. `immediates` are pending `setImmediate`
callbacks, each with the AsyncLocalStorage context in which it was scheduled:
TRUE if inside a transaction. `rows` is what the connection sees, `durable` what
is committed. A flush goes through `FlushEnter` (up to the lock, or through
SAVEPOINT and the inserts if its context says that it is nested), `FlushBegin`,
`FlushEnd`, and `FlushYield` between batches. `Direct` stands for all writes
that open a transaction of their own; `Compressor` for `compress()`, whose
summary goes through the queue while it holds the lock. `ROLLBACK TO` leaves its
savepoint open and COMMIT ends everybody's savepoints, as in SQLite.

**WolbargCalls.** `calls[c]` is what call `c` has read and where it awaits.
Dedupe (`LookupExact`, `LookupNear`, `Upsert`, `InsertNew`, `LookupRaced`)
follows `rememberOne` branch by branch. The write mutex that dedupe takes covers
a single storage call, and the storage's own lock makes that atomic already, so
it has no action. Ids are interchangeable, so a fresh one is chosen
deterministically.

**VectorIndex.** `mem` and `blob` are the tables by rowid, `index` and `dirty`
the index. A transaction of `compress()` is open between `CompressInsert` and
its end; searches run in between and see its changes, writers wait.
`RememberFails` is a batch of which a chunk was inserted before a later chunk
was refused. `Reopen` is a restart, also in the middle of the transaction.
`lost` is a history variable, read by one property alone.

**EmbeddingCache.** `L1` is `L1Cache`, `pendingSets` and `pendingTouches` are the
maps of the store, `stored` the table and `conn` whether the connection is open
and the prepared statements are its own. `Lookup` and `Answer` are the two
halves of `embedOne` and `embedBatch` around the request to the model. `Persist`
is one turn of `flushPending`: `FlushBusy` when a memory transaction is open on
the shared connection (BEGIN fails and the entries are put back), `FlushStale`
when the statements belong to a closed connection, `Flush` when it succeeds.

**TelemetryQueue.** `flushing` is `runFlush` and the batch it has taken,
`openPromise` the remembered promise of `open()`. A queue that overflows drops
its oldest event while a batch is on its way. A failed `open()` is remembered
as well, so that everything later fails; `query()` and a flush within `close()`
open the provider again.

**Migration.** `step` walks through `runMigrations` for a file of version 2, 3
or 4, with `rest` for what a loop has still to do. `UpgradeCrash` ends it
anywhere and a later `BeginUpgrade` starts over from what the file holds.

**Lifecycle.** `disk` has the database, the snapshot with its temporary copy and
metadata, the bundle and the staged import. `facade` follows `boot()` and
`close()`; `transfer` a rollback or an import, `saver` a checkpoint or an export;
`sync` names the one that is between two file operations of one synchronous
stretch, where nothing but a crash comes between. `Checkpointed` takes a reader
of another process into account, who holds the WAL back.

**PgWriter.** `clients` is the pool with the transaction open on each client,
`pgWork` the statements that wait on it: a transaction is a sequence of
statements of which each may be overtaken by another client's. `FlushOn` runs a
flush on the client of the call that scheduled it. `pgTimer` and `pgKicks` are
the pending timer and `setImmediate` callbacks with their context. A failing
statement aborts its transaction, and COMMIT of an aborted one is a rollback
that reports success.

**PgSchema.** `instances` follows `open()` and `ensureVectorSchema()` of each
instance query by query, `statics` are the caches that the instances of a process
share (`pgvectorByConn`, `vectorSchemaReady`), `database` the recorded version and
dimensions and the embedding tables. There is no transaction around an upgrade, so
the queries of two processes interleave and a crash may come after any of them;
`list` holds what the backfill of `content_hash` has read and not yet written. A
query whose error the code swallows may fail as long as `Upset` is enabled: both of
the version, the listing, an update of a hash, the recording of the version, CREATE
EXTENSION; the answer of the last is remembered for the process. `usable` is pgvector, which is outside of the code.

**PgListener.** `links` holds every connection ever opened with its state,
`client` is `this.client` of `PostgresSubscribeListener`. An old connection may emit
its `end` when a new one is already held, and one that was given back dispatches
what it still receives until then.

**Recall.** `stage` follows the awaits of `recall()`; `semantic`, `keyword`,
`byId` are what it has read. A vector search of Postgres is one statement
(`SearchJoined`). That of SQLite searches the index (`SearchVectors`), reads the rows
of the hits after an `await` (`ReadHits`), and starts again with four times the hits
when too few are left (`asked`, `nearest`). `UpdateText`, `UpdateMetadata`, `Archive` and
`ForgetRow` are the writes of others in between. The channel says which backend
gives the keyword scores: SQLite FTS, Postgres `ts_rank`, the BM25 corpus, none.

**Filters**, **Chunking.** Pure functions over enumerated inputs: an initial
state picks a filter, or a document and options, and the property compares the
three languages, or looks at the chunks, there. A string is known by its place in
the order of strings and by its characters, which decide what `includes` finds and
what `LIKE` matches. A document is its text and its pieces
in their order, between which one blank stands, or two for paragraphs and sections.
The loops over places and pieces are recursive functions of where they go on.

**HttpRetry.** Time passes in ticks; `request.timer` is the timeout of an
attempt or the delay after HTTP 429, `request.elapsed` the time since
`startedAt`. `RateLimited` checks attempts and deadline, then sleeps.

## 3. What is checked

All passing runs together fire every disjunct of their next-state relations.

| Run | States | Shows |
|---|---|---|
| `MemoryStore` | 33,339 (symmetry) | `SearchCoversActive`, `LineageSound`, `LineageAcyclic`, `AuditTrail`, `TenantIsolation`, `RowLifecycle` |
| `InsertQueue` | 47,492 | the queue is attended, no row is lost or stored twice, poison rows fail alone, nothing stays open, acknowledged rows are durable, compress is atomic, each call returns, `ImplementsAtomicInserts` |
| `Components` | 546,530 | eleven components, see below |
| `WolbargCalls` | 901,735 (symmetry) | versions count updates, CAS keeps concurrent keys, a lost insert race becomes an upsert, no memory is archived twice |
| `VectorIndex` | 227,038 (symmetry) | hits are scored with their own embedding, only two operations hide a memory |
| `ArchivedSearch` | violation | updating an archived memory puts it back into the search indexes |
| `CompressDeadlock` | violation | `remember` and `compress` can wait for each other for ever |
| `LostWrite` | violation | an acknowledged `remember` can be rolled back with somebody's `compress` |
| `DedupeMerge` | violation | two dedupe merges of one row: one loses its metadata |
| `HiddenMemory` | violation | a `compress` that rolls back can hide an active memory |
| `KeywordRank` | violation | on SQLite the worse keyword match gets the higher score |
| `PgUpdate` | violation | on Postgres no `update` of a memory succeeds when one embedding table exists |

`Components` checks in one run what share no state; an initial state chooses the
component (`part`) and the others rest, so its states are the sum:

| Part | States | Property | Says |
|---|---|---|---|
| cache | 118,214 | `WrittenOrOnTheWay`, `AgeBound` | no write-behind is lost to a busy connection, a stale statement or a restart; a vector is served for at most twice its TTL |
| telemetry | 1,642 | `TelemetryInOrder`, `TelemetryCloseReturns` | events are written once and in order, or dropped by overflow or with a failed batch; `close()` ends |
| migration | 720 | `UpgradeSurvivesCrashes` | an upgrade that ends has left every table complete |
| lifecycle | 62,392 | `DatabaseAsPromised`, `CheckpointsAreWhole` | the open database is the one the calls promise; a listed checkpoint is whole |
| postgres | 47,617 | `PgAckedIsStored`, `PgCallsReturn` | an acknowledged row is committed, or its carrier will commit it, unless another call failed in the very transaction that carried it; every call ends |
| listener | 229 | `ListenersAreHeld`, `SubscriberHears` | no connection is leaked or dispatched next to another, but for one that is about to end; subscribers hear again |
| recall | 139,678 | `OnlyFittingReturned`, `BetterInBothComesFirst` | what is returned fitted; the memory better in both senses is not behind |
| filters | 4,624 | `FiltersAgree` | JavaScript, SQLite and Postgres select the same rows |
| chunking | 3,720 | `PhrasesSurvive` | no character lost, no chunk too long, no phrase cut by every window |
| schema | 166,286 | `HashesTellTexts`, `VectorTablesFit` | after any upgrade some memory is found by each text's hash; an instance has the embedding table it writes to |
| http | 1,408 | `RetriesAreBounded` | attempts and time are bounded; nothing is sent after a cancellation |

The seven violations are disagreements between the code and what its comments and
tests say; `PROJECT.json` quotes the lines under "findings".

*CompressDeadlock* and *LostWrite* share a cause. `compress()` awaits, inside
its transaction, an insert that goes through the queue. If the flush that takes
it was scheduled by another task, the flush has no transaction context and waits
for the lock that `compress()` holds. If it was scheduled by `compress()`, rows
of other tasks that joined the queue are stored inside the transaction of
`compress()`, and are answered before it ends. So the run `InsertQueue` sets
`Overlap` to FALSE: compress starts only when no insert or callback is pending,
and no insert starts while one runs. Its properties are claims about everything
else: coalescing, direct writes, retries and compress in sequence with inserts.
The two violation runs set `Overlap` to TRUE.

*Exceptions in the properties.* Some promises hold except in moments where the
code leaves a gap. The property names the gap, and the model reaches it:

- `DatabaseAsPromised`: `import` removes the target and then renames (the comment
  at transfer.ts:319 says "atomic swap"), `rollback` removes and then copies. A
  crash in between, or a rollback whose copy fails, leaves no database. Whatever
  fails earlier leads back to the old one.
- `UpgradeSurvivesCrashes`: a crash between copying the history and dropping the
  old table makes every later open fail; one between dropping and renaming loses
  the history; one between the unique index and the version makes later opens
  fail if there are duplicates; one between the version and the rebuilt keyword
  index leaves the index incomplete.
- `PgAckedIsStored`: a flush runs on the client of the call that scheduled it, so
  a row may be acknowledged inside the transaction of another call. It is lost when
  a statement of another call then fails there, as on SQLite (*LostWrite*). The
  history variable `pgTaken` ties each lost row to the failure in the very
  transaction that carried it; nothing else is excused. A row that rides in a
  transaction which goes well is stored.
- `HashesTellTexts`: a memory that is updated through one process while another
  still has it listed for the backfill gets the hash of its old text, so that
  dedupe finds it for a text that it no longer has. A text whose memory was updated to
  another has no hash left for its older duplicates. And when the listing or an update of
  the backfill fails, the code goes on and records the new version (postgres.ts:1818,
  :1831): the text never gets a hash.
- `ListenersAreHeld`: within the reconnection delay `subscribe()` may open a
  connection before the one given back has ended; until then an event may be
  delivered by both. (After `close()` nobody is subscribed any more.)
- `VectorTablesFit`: `ensureVectorSchema` reads the recorded dimensions, creates
  the table and then records them. Two models that are first at once, or a model
  that follows one killed between the last two steps, leave a table of one length
  and a record of another. (`open()` takes pgvector for granted the second time,
  postgres.ts:436; `ensureVectorSchema` sets that right before anything is stored.
  It does not look whether pgvector is usable in fact: a process whose CREATE EXTENSION
  failed once stays with the blob table, next to one that uses the vector table.)
- `SubscriberHears`: when the first LISTEN is refused, nobody tries again; a
  connection that breaks while the backend waits to reconnect is not noticed.
- `FiltersAgree` compares values of the kinds the filter is about. Outside of
  that the languages differ: SQLite has no boolean to bind, Postgres casts to
  numeric and fails on other text. Of `contains` it says that the three agree unless
  `LIKE` finds a wildcard in the operand (the code does not escape `%` and `_`) or, on
  SQLite, a letter that differs from the value's in its case only (SQLite ignores it,
  `includes` does not). Then SQL selects more, and `listMemories` returns it; a filter
  without negation never loses a row that `recall()` keeps.
- `BetterInBothComesFirst` leaves out the `sqlite` channel, which is `KeywordRank`.
- `RetriesAreBounded` grants one delay past the deadline: `Retry-After` may ask
  for 120 s though `maxElapsedMs` is the "Wall-clock budget in ms across all
  attempts" (backoff.ts:12), and the sleep does not look at the caller's signal.

*Other things the models showed.* Keyword-only hits bypass the
similarity threshold, and the limit of the keyword search is applied before the
filters, so that fewer rows than `topK` may come back though more fit. The `bm25`
channel sees the oldest `min(2 * fetchK, 2000)` memories only. A reranker that
names unknown documents empties the answer. With an overlap, a text of more than
one chunk falls back to sliding windows whatever the strategy. The write-behind
of the cache retries in a microtask while a memory transaction is open, so that
no other callback of the process runs meanwhile. A batch that was cancelled while
its body is read is reported as "non-JSON". A dedupe upsert whose row was
forgotten since the lookup fails on a null row (wolbarg.ts:1101).

Two smaller things the models made visible: the JSDoc of `subscribe` lists a
`clear` event, which `clear()` does not emit; and the threshold path
(sqlite.ts:450) leaves a callback pending while it lowers the flag, so that a
second one may be pending next to it: harmless, the later one finds the queue
empty or a flush in flight.

### Bounds

- `MemoryStore`: two texts with different hashes, versions up to 2, batches up to 2,
  in two worlds of which an initial state chooses one (`world`). "tenants" has two
  organizations with an agent of the same name and four memories; isolation needs two
  tenants. "lineage" has one organization, five memories and at most one that
  was updated: two sources, their summary, a fourth memory and the summary of
  both, which needs a fifth id and, as summaries are active side by side with what they
  are not made of, a second hash. Two versions tell whether an update was counted.
  Nothing in an action looks at more than two rows at once except the sets of
  sources and of deleted rows.
- `InsertQueue`: three inserts (one poison, two that collide on a hash), one
  direct write, one compress; threshold 2 and batch 3 in place of 24 and 96, so
  that both the threshold flush and the scheduled one happen, and batches of one
  and of several; one retry and two busy answers, so that a BEGIN succeeds at
  once, succeeds after a retry and fails.
- `WolbargCalls`: three calls of any kind, two seeded memories, five ids, two
  texts that are near duplicates with different hashes. Three calls allow a
  read, an interfering write and a second one that hides it.
- `VectorIndex`: three scopes in two organizations, two embeddings, four
  memories in the run. Reuse of a rowid takes two creations, a compress that
  loses its race three.
- `Components`: per part the least at which the hard case happens. Cache: two
  keys, room for one entry in the table, three instants with a TTL of one, one
  restart. Telemetry: a queue of two and four events, so that an overflow meets a
  batch on its way. Migration: three memories, two with one hash, one archived,
  two crashes (one in the rerun). Lifecycle: one write after the seed, one crash.
  Postgres: three calls, two clients, one flush in parallel, one deadlock; two
  rows with one hash, and a third whose insert is refused or goes well, so that it
  may be carried by the transaction of either. Listener: eight connections, two
  subscriptions, two troubles. Recall: three memories with three texts, one write
  between the reads, `topK` of two. Filters: two fields, values of six kinds,
  all operations; strings of one or two characters and the list `["b"]`, that contain
  one another as such, by a wildcard, or but for the case of a letter. Chunking: texts up to seven characters, sizes below, at and
  above the clamp, overlaps up to it. Schema: two
  processes with models of different dimensions, three old memories, two of one
  text, one write, one crash or query that fails in silence, with and without pgvector. HTTP: two retries, a deadline of three
  ticks, delays that end before and after it, three texts.
- `MaxVersion`, `MaxBatch`, `MaxMemories`, `MaxBusy`, `MaxTime`, `MaxReopen`,
  `MaxEvents`, `MaxCrashes`, `MaxWrites`, `MaxKills`, `MaxFaults`, `MaxLinks`,
  `MaxTrouble`, `MaxSubscriptions`, `MaxPgEdits`, `MaxPgUpsets`, `MaxRecallWrites`, `MaxLength` and `MaxTexts`
  are bounds of the models. `MaxVersion` stops updates, and in `WolbargCalls` it is never reached.
- `CHECK_DEADLOCK FALSE` is set where every call is made once and the system
  really stops.

### Fairness

In `InsertQueue`: weak fairness of each callback that is due
(`ScheduledFlush`, the steps of a flush, the steps of a transaction that holds
the lock). The event loop runs every callback whose promise has settled and
every `setImmediate`, and `AsyncMutex` is a chain of promises, first come first
served. No call has to be made. `BeginRetry` is a bounded number of sleeps and
needs none: `BeginFails` and `Begin` are steps of the same fair actions. The
actions are disabled by `Entering` for one step only, since a flush opens its
transaction without giving up the thread. `AtomicInserts!ServeOne` has weak
fairness, which the refinement shows to be implied.

In `Components`: telemetry, weak fairness of the flush and of `close()`, which
are chains of promises on a local database; nothing has to be emitted. Postgres,
weak fairness of "a statement that waits is answered" and of pending timers: the
server answers (a statement timeout ends what would wait longer), but no call has
to be made. Listener, weak fairness of the server's answers and of the
reconnection timer, not of failures.

## 4. What is proved

The theorems hold for every value of the constants that meets the assumptions
named below. Each component has one inductive invariant, a step lemma per action
or effect, and theorems that follow from it.

| Module | Theorems | Assumptions |
|---|---|---|
| `MemoryStoreProofs` | `TypeCorrect`, `SearchCorrect`, `LineageCorrect`, `LineageEnds`, `AuditCorrect`, `LifecycleCorrect`, `TenantsAreIsolated` | `StoreAssumption` |
| `WolbargCallsProofs` | `CallsKeepStore`, `CallsKeepLifecycle`, `CompressedAtMostOnce`, `VersionsCount`, `CasIsSafe`, `ExactDedupeServes` | the same, `CallsAssumption`, `Unlimited` |
| `InsertQueueProofs` | `QueueTypes`, `QueueAttended`, `RowsAreKept` | `QueueAssumption` |
| | `NothingIsLeftOpen`, `AckedAreDurable`, `CompressesAtomically`, `PeersSurvive`, `InsertsAreAtomic` | the same, `~Overlap` |
| `VectorIndexProofs` | `HitsCorrect`, `HiddenAreKnown` | `IndexAssumption` |
| `PostgresProofs` | `AnsweredRowsAreKept` | `PgAssumption`: finitely many clients; `Nobody` is neither call nor client |
| | `TablesFitWhatIsWritten`, `UpgradedTextsAreFound` | `PgSchemaAssumption` |
| | `ListenersHeld` | the bounds of the model are natural numbers |
| `SqliteFileProofs` | `DatabaseIsAsPromised`, `ListedCheckpointsAreWhole` | the bounds are natural numbers |
| | `UpgradeIsRepeatable` | `MigrationAssumption`: finitely many memories, which `UpdatedAt` orders |
| `QueueProofs` | `TelemetryKeepsOrder` | the queue holds an event |
| | `CachedVectorsAge`, `NothingIsForgotten` | `CacheAssumption` |
| | `RetriesBounded` | retries and times are natural numbers, and there is a longest delay |
| `RecallProofs` | `OneFilterOneMeaning` | `FilterAssumption`: the kinds of JSON values a filter may hold |
| | `OnlyWhatFitsIsReturned` | `RecallAssumption`: finitely many memories, a positive scale |
| | `BetterComesFirst` | the same, no keyword scores of SQLite, both weights positive |
| | `ChunksKeepPhrases` | `ChunkingAssumption`: options are natural numbers, the least size is above 1 |

**MemoryStore.** The inductive invariant is

    IInv == TypeOK /\ SearchCoversActive /\ LineageSound
                   /\ LineageAcyclic /\ AuditTrail

`TypeOK` is not inductive by itself. It says that no keyword entry outlives its
memory; deletion by scope selects entries by the scope they name, so that it
needs `SearchCoversActive`, which says that they name their memory's.
`RowLifecycle` needs the type of the versions. `StoreAssumption` says that the
hash is a function of the text, NULL is no other value and the bounds are natural
numbers.

The argument reduces the disjuncts of `Next` to four effects on the tables,
`Inserted`, `Rewritten`, `Compressed` and `Deleted`, each with a lemma saying
which action has which effect. Each invariant then has one lemma per effect,
with one step per conjunct. For `LineageAcyclic` the interesting effect is
`Compressed`: the summary is new, so a set of memories that has it has a member,
the summary itself, that leads nowhere; a set without it loses edges into it.

`TenantsAreIsolated` needs `LineageSound`: deleting a summary sets
`compressed_into` of its sources to NULL, which stays within the organization
only because a summary belongs to the organization of its sources.

**WolbargCalls.** `CallsIInv` adds to `IInv` what calls know: the ids they hold
were returned before, and the page that `compress()` has read is of its agent.
The lemma `CallsWrite` then shows that the part of each step that concerns the
store is a transaction of `MemoryStore` or nothing, so that its theorems hold of
concurrent calls, too. `Unlimited` says that `createId` never runs out of ids
(TLC's instances have few), that there are finitely many calls and that an insert
may have a row. Four properties need more than that:

- `CompressedOnce`: what a call reported as archived stays archived (`Sourced`),
  and a later `compress()` takes only rows that are not.
- `VersionCountsUpdates`: a call gets the answer `updated` exactly by its one
  UPDATE (`WritesCounted`); no other step touches the version of a row that stays.
- `CasLosesNothing`: the version of the row is at least the expected one, and as
  long as they are equal the metadata is still what the call read (`AllSeen`), since
  `RowLifecycle` leaves no change without a new version.
- `DedupeServesEveryCall`: the unique index makes the row with a hash the only
  one (`UniqueStep`), an insert that is refused was refused because of such a row,
  and the merge into it leaves its hash and so always fits (`DedupeInv`).

**InsertQueue.** The first part shows `QueueInv /\ DbTypeOK`, also when compress
overlaps with inserts. `QueueIsAttended` needs to know that `insertFlushScheduled` is
set only while a callback is pending, and `NoRowLostOrTwice` that the batch of a
flush and the queue share no row. `QueueAssumption` has inserts, direct writes and
`compress()` be different calls.

The second part shows `TxInv`: at any time one of lock, flush and callbacks
owns the connection, and what is open on it is what its owner opened (`Serial`,
`Txs`); an answered call is stored or failed for a reason of its own
(`AnsweredIsStored`, `PeersSurvivePoison`); a stored key has one row
(`IndexHolds`). It assumes `~Overlap`, because otherwise the theorems are false:
that is what the runs *LostWrite* and *CompressDeadlock* show. `InsertsAreAtomic`
is the safety part of `ImplementsAtomicInserts`: initial states map to initial
states, every step to a step of `AtomicInserts` or a stutter.

**VectorIndex.** `IndexIInv` says that the entries of the index that a search
would join to memories are those of the table, both now and after a rollback of
`compress()` (`Own`), and that an embedding a search may miss is in `lost`, or is
one of those that such a rollback would bring back (`Hidden`). That a rowid is used
again only after the last rows were deleted makes the difference: what compress
wrote before it rolls back never has the rowid of a memory that was there before.

**PgWriter.** A call that has answered does not look back, so `PgAckedIsStored` has
to follow its row through what others do on the connection that carries it. `PgInv`
has a part for each reason why that goes well:

- `Owners`: a call that runs holds a client, a client that is held is held by one
  call that runs, and a client in no transaction has nothing uncommitted;
- `AllFit`: a statement that waits on a client is the one that the stage of its call
  asks for, and a BEGIN meets a client in no transaction;
- `Tidy`, `QueueFits`: a call is in the insert queue or in one statement that waits,
  once;
- `Claims`: an insert that has succeeded as far as its call knows is in the table or
  in an open transaction (`Carried`), or was carried by one in which a statement of
  another call failed (`Excused`).

A step changes one client and some calls; `FitsKept`, `ClaimsKept` and
`OwnersKept` say what it owes the others.

**PgSchema.** `SchemaInv` is `SchemaTypes /\ DimsInv /\ HashInv`. Instances of
several processes read before they act, so the invariant speaks of what an instance
has read: `FirstAgree` and `LaterAgree`, that its dimensions are those of the
database or of an instance that is as far as it is; `ListsTellTexts`, that a text
listed by its backfill is still that of the row, or the row was updated since;
`SeenIsHashed`, that a text the backfill has passed has a hash. `TextsAreHashed`
covers the time before the version is set: each text has a hash or is still
listed in each backfill that goes on. `HashWithNewest` is why two backfills that run
at once give a text's hash to the same memory. All of them leave out the texts that
were replaced or whose hash a failing query left unwritten (`Forgiven`).

**Lifecycle.** `Stretches` relates the places at which transfers, checkpoints and the
boot stand to each other; `FileAsPromised` says that the files hold what was
promised also while the database is closed, but for the moments of a transfer at
which no file has it; `CheckpointsAsMeant` says of the copy of a checkpoint, from
the moment it is made until it is listed, what `CheckpointsAreWhole` says at the end.

**Migration.** `MigrationInv` says for each statement what those before it have
done, as long as no crash fell into a window that the property excludes
(`hurt = {}`). Two arguments are not local: an upgrade that starts again starts
with the version that the last one wrote, so each statement must be harmless when
repeated; and only the newest memory of a text gets its hash, which is why
`HashesKept` orders the memories that are done before those that are not.

**TelemetryQueue, EmbeddingCache, HttpRetry.** `TelemetryIInv` says that what is
written, the batch in flight and the queue are increasing, in this order
(`Sorted`), and that with the dropped they are all that was emitted (`Accounted`).
In `CacheInv` an entry in memory is dated at most one time to live later than its
vector was made, a row of the table never later, and a pending write is of the
current tick (`PendingAge`); so copies between memory and table add up to the two
times to live of `AgeBound` and no more. `OnTheWay` is `WrittenOrOnTheWay` for
parts of a step, too, which moves keys between the places. `HttpIInv` says which of
the timers runs at which moment of a request.

**PgListener.** `ListenerIInv` says which connections may exist in which state of
the backend, `GivenBack` that one that was given back has its end ahead within the
delay, or belongs to a backend that is closed.

**Filters.** Not an invariant but a statement about three functions, for all
metadata. A truth value of SQL selects a row when JavaScript's is true (`Selects`):
NULL counts as no, which `and` and `or` respect and `not` does not. For values of the
kinds that a comparison is about, each language computes the same one, and NULL
comes only from a value that is missing, which `Regular` excludes under `not`.
`contains` rests on two lemmas about strings of any length: what is included, LIKE
finds (`IncludedIsLike`), and without wildcards and letters of the other case LIKE
finds nothing else (`LikeIsIncluded`).

**Recall.** `RecallKept` says that what has been read was active and passed the
filter when it was read, and what is returned was read. For the order, ranking is
stated as what a sort promises: any sequence of the candidates in which no
later one has the better score. `BestFound` says that both searches return what is
closest or most relevant of what was there (the hits of SQLite's index, too, however
often it is searched again), so that a worse memory among the
candidates implies the better one, unless a writer hid it in between; the rest is
arithmetic about the fused scores, which are scaled by the largest and smallest
found. The code enforces neither assumption of `BetterComesFirst`. The run
*KeywordRank* shows that the first is needed. With a weight of 0 two memories that
differ only in what has no weight are equal, and ids decide.

**Chunking.** Of a recursive function one knows nothing before one knows that it
exists. `LoopExists` and `MergeExists` show that, extending a function place by place;
`NatInSet` is induction over a set of numbers, from the well-foundedness of `<`, as no
theorem with an operator as a parameter can be used. Then `WindowsHold` goes down
from the end of the text: a phrase that the window at some place does not hold ends
behind it, and begins, if the overlap covers it, where the next window does or later;
that window begins later than this one because `clampOptions` caps the overlap at
half a window. `MergeKeeps` says of each step of `windowChunks` that no piece merged so
far is lost, be it in a chunk, in the buffer or in what `HardSplit` leaves.

*Only model-checked:* the liveness properties (`EveryCallReturns`,
`TelemetryCloseReturns`, `PgCallsReturn`, `SubscriberHears`) and the fairness of the
refinement, since the prover does not treat ENABLED.

## 5. Plan

Done: all modules of the table in section 2, with proofs of every safety property
that a passing run checks.

Next, in this order:

1. `InsertQueue` with `close()`, whose loop is bounded by wall-clock time.
2. `PgWriter` with deletions; `Lifecycle` with overlapping transfers.
3. `WolbargCalls` with `rememberBatch` and `ingest`, whose documents are stored one
   by one.

## 6. What is not modelled, and why

Adapters of remote models, OCR, vision and parsers are I/O without state.
Configuration, validation, factories and CLI are sequential checks of options.
Errors, types and telemetry formatting are declarations. The read path's SQL is
used where a write call depends on it, and in `Recall`. The older path of
`recall()`, for providers without `searchVectorsWithMemories`, is left out, as are
the HNSW index and the stored keyword column of Postgres, the pool of workers in `embedMany`, the
emitter of events within a process, and `queueNotify`, which has no caller. Of the
stores of the embedding cache only the SQLite one is modelled. `ingest()` with dedupe is a
sequence of calls of `remember`. The rows of `rememberBatch` go through the
transaction that `MemoryStore` models; that it reports each of them to telemetry
before the transaction has stored any (wolbarg.ts:649) is not modelled. Data
corruption, the disk filling up and a COMMIT that fails are not modelled, nor, for
SQLite, a second process other than as a holder of the write lock and as a reader
who holds the WAL back.

Smaller simplifications:

- `Recall`: no memory is inserted during the call, so a rowid that an insert uses
  again between the search of SQLite's index and the reading of its rows is not seen.
  The limit of the overfetching (512 hits at least, sqlite.ts:840) is in the model, but
  no instance that TLC explores has as many memories; a filter by agent may lose
  memories there.
- `PgSchema`: DDL whose errors the code swallows (the unique index on hashes,
  `ALTER TABLE`, the probes of the keyword column) is taken to succeed. What
  `HashesTellTexts` says of unique hashes rests on that index. That embeddings of one
  database are split between the two tables when its processes disagree on pgvector is
  in the model, but no property is about a search that sees one of them only.
- `PgWriter`: no connection breaks. Calls write one row each.
- `PgListener`: a released connection ends before the reconnection delay (1 s by
  default) is over.
- `Filters`: strings have no backslash, which is the escape character of LIKE on
  Postgres; lists hold one string, without a quote in it; two comparisons, and
  fields at the top of the metadata.
