---------------------------- MODULE EmbeddingCache ----------------------------
(***************************************************************************)
(* The embedding cache of SQLite storage (src/embedding/cache.ts and       *)
(* SqliteEmbeddingCacheStore of src/embedding/cache-store.ts): a map in    *)
(* memory (L1), and rows of the table embedding_cache that are written     *)
(* behind it by a microtask, on the connection of the memory store.        *)
(*                                                                         *)
(* A flush runs from its snapshot of the pending writes to COMMIT or       *)
(* requeue without an await, so it is one action.  A microtask that queues *)
(* a microtask keeps the event loop from its next callback: steps that     *)
(* start with a callback (an answer of the model, a timer, setImmediate)   *)
(* need persistScheduled to be FALSE.                                      *)
(*                                                                         *)
(* Equal texts have equal vectors, so an entry is its key and its dates:   *)
(* made, when the model computed it, and dated, the createdAt by which the *)
(* code judges its age.                                                    *)
(***************************************************************************)
EXTENDS Naturals, FiniteSets, Sequences, SequencesExt, Functions

CONSTANTS
  CacheKey,        \* hashes of texts, all for one model
  Embedder,        \* calls of embed() and embedBatch(), numbered as they are made
  TouchThreshold,  \* TOUCH_FLUSH_THRESHOLD
  MaxEntries,      \* config.maxEntries, the bound on L1
  Ttl,             \* config.ttlMs, in ticks
  MaxTime,         \* bound on the ticks
  MaxReopen        \* bound on rollback() and import()

ASSUME CacheAssumption ==
  /\ Embedder \subseteq Nat
  /\ TouchThreshold \in Nat /\ MaxEntries \in Nat /\ Ttl \in Nat
  /\ MaxTime \in Nat /\ MaxReopen \in Nat

VARIABLES
  l1,          \* L1Cache.map: entries, the least recently used one first
  pendingSets, pendingTouches,
  persistScheduled,
  stored,      \* the table embedding_cache, by key
  stmts,       \* connection for which statements are prepared, 0 if for none
  conn,        \* connection of the storage, 0 when it is closed
  opened,      \* how many connections there have been
  storageTx,   \* transaction of the storage that is open on the connection
  embedders,   \* what each call waits for
  now,
  served,      \* history: the greatest age a cached vector was served with
  dropped      \* history: keys whose rows went with a closed or replaced file

cacheVars == <<l1, pendingSets, pendingTouches, persistScheduled, stored, stmts,
               conn, opened, storageTx, embedders, now, served, dropped>>

InL1(k) == \E i \in DOMAIN l1 : l1[i].key = k

Fewer(f, ks) == Restrict(f, DOMAIN f \ ks)

\* L1Cache.evictIfNeeded
EvictIfNeeded(s) ==
  IF Len(s) > MaxEntries THEN SubSeq(s, Len(s) - MaxEntries + 1, Len(s)) ELSE s

\* Map.delete; a map has a key once.
Deleted(s, k) ==
  IF \E i \in DOMAIN s : s[i].key = k THEN RemoveAt(s, CHOOSE i \in DOMAIN s : s[i].key = k)
  ELSE s

\* L1Cache.set: a new createdAt, at the end of the order of use.
L1Set(s, k, made) == Append(Deleted(s, k), [key |-> k, made |-> made, dated |-> now])

\* The rows of ON CONFLICT keep their created_at.
Upsert(t, sets) ==
  [k \in DOMAIN t \cup DOMAIN sets |->
     IF k \notin DOMAIN sets THEN t[k]
     ELSE [made |-> sets[k],
           dated |-> IF k \in DOMAIN t THEN t[k].dated ELSE sets[k]]]

Oldest(a, made) == IF now - made > a THEN now - made ELSE a

Expired(dated) == now - dated > Ttl

--------------------------------------------------------------------------------
(* SqliteEmbeddingCacheStore.get for one key: what it finds, and what that does *)
(* to a state q with the same fields as the store.                              *)

Store == [l1 |-> l1, sets |-> pendingSets, touches |-> pendingTouches,
          stored |-> stored, stmts |-> stmts, served |-> served, hit |-> {}]

FromL1(q, e) ==
  [q EXCEPT !.l1 = Append(Deleted(q.l1, e.key), e),
            !.served = Oldest(@, e.made), !.hit = @ \cup {e.key}]

FromPending(q, k) ==
  [q EXCEPT !.l1 = L1Set(q.l1, k, q.sets[k]),
            !.served = Oldest(@, q.sets[k]), !.hit = @ \cup {k}]

FromTable(q, k) ==
  [q EXCEPT !.l1 = L1Set(q.l1, k, q.stored[k].made),
            !.touches = @ \cup {k},
            !.served = Oldest(@, q.stored[k].made), !.hit = @ \cup {k}]

\* Statements of a closed connection throw; get() answers null and keeps them.
Readable(q) == conn # 0 /\ q.stmts \in {0, conn}

\* Faulty variant: the age of a stored row is not looked at.
ColdRead_AnyAge(q, k) ==
  IF ~Readable(q) THEN q
  ELSE IF k \notin DOMAIN q.stored THEN [q EXCEPT !.stmts = conn]
  ELSE FromTable([q EXCEPT !.stmts = conn], k)

ColdRead(q, k) ==
  IF ~Readable(q) THEN q
  ELSE LET p == [q EXCEPT !.stmts = conn]
       IN  IF k \notin DOMAIN q.stored THEN p
           ELSE IF Expired(q.stored[k].dated)
                THEN IF storageTx = "foreign" THEN p
                     ELSE [p EXCEPT !.stored = Fewer(q.stored, {k})]
                ELSE FromTable(p, k)

GetOne(q, k) ==
  LET live == {e \in Range(q.l1) : e.key = k /\ ~Expired(e.dated)}
      p    == [q EXCEPT !.l1 = Deleted(q.l1, k)]
  IN  IF live # {} THEN FromL1(q, CHOOSE e \in live : TRUE)
      ELSE IF k \in DOMAIN p.sets THEN FromPending(p, k)
      ELSE ColdRead(p, k)

\* embedBatch looks its texts up one after the other; embed has one text.
GetAll(ks) ==
  LET first == GetOne(Store, ks[1])
  IN  IF Len(ks) = 1 THEN first ELSE GetOne(first, ks[2])

Returned == [at |-> "done", want |-> {}]

Batches == {<<k>> : k \in CacheKey} \cup {ks \in CacheKey \X CacheKey : ks[1] # ks[2]}

--------------------------------------------------------------------------------
(* embed() and embedBatch() of withEmbeddingCache *)

Lookup(c) ==
  /\ embedders[c].at = "idle"
  /\ \A d \in Embedder : d < c => embedders[d].at # "idle"
  /\ \E ks \in Batches :
       LET q == GetAll(ks)
           misses == Range(ks) \ q.hit
       IN  /\ l1' = q.l1 /\ pendingTouches' = q.touches /\ stored' = q.stored
           /\ stmts' = q.stmts /\ served' = q.served
           /\ embedders' = [embedders EXCEPT ![c] = IF misses = {} THEN Returned
                                                   ELSE [at |-> "asked", want |-> misses]]
           /\ persistScheduled' = (\/ persistScheduled
                                   \/ /\ q.touches # pendingTouches
                                      /\ Cardinality(q.touches) >= TouchThreshold)
  /\ UNCHANGED <<pendingSets, conn, opened, storageTx, now, dropped>>

\* A callback of the event loop.
Callback == ~persistScheduled

AnyOf(ks) == CHOOSE k \in ks : TRUE

\* store.set for each of one or two misses.
SetAll(s, ks) ==
  LET one  == L1Set(s, AnyOf(ks), now)
      more == ks \ {AnyOf(ks)}
  IN  IF more = {} THEN one ELSE L1Set(one, AnyOf(more), now)

\* The model answers: store.set, then evictIfNeeded.
Answer(c) ==
  /\ Callback
  /\ embedders[c].at = "asked"
  /\ LET ks == embedders[c].want
     IN  /\ l1' = EvictIfNeeded(SetAll(l1, ks))
         /\ pendingSets' = [k \in DOMAIN pendingSets \cup ks |->
                              IF k \in ks THEN now ELSE pendingSets[k]]
         /\ pendingTouches' = pendingTouches \ ks
         /\ dropped' = dropped \ ks
  /\ persistScheduled' = TRUE
  /\ embedders' = [embedders EXCEPT ![c] = Returned]
  /\ UNCHANGED <<stored, stmts, conn, opened, storageTx, now, served>>

\* The model refuses: nothing is cached.
Refuse(c) ==
  /\ Callback
  /\ embedders[c].at = "asked"
  /\ embedders' = [embedders EXCEPT ![c] = Returned]
  /\ UNCHANGED <<l1, pendingSets, pendingTouches, persistScheduled, stored, stmts,
                 conn, opened, storageTx, now, served, dropped>>

--------------------------------------------------------------------------------
(* The microtask of schedulePersist: flushPending *)

\* Nothing to write, or nowhere to write it.
FlushNothing ==
  /\ persistScheduled
  /\ conn = 0 \/ (pendingSets = << >> /\ pendingTouches = {})
  /\ dropped' = dropped \cup DOMAIN pendingSets
  /\ pendingSets' = << >>
  /\ pendingTouches' = {}
  /\ persistScheduled' = FALSE
  /\ UNCHANGED <<l1, stored, stmts, conn, opened, storageTx, embedders, now, served>>

ToWrite == conn # 0 /\ (pendingSets # << >> \/ pendingTouches # {})

\* Faulty variant: the entries are not put back.
FlushBusy_Lossy ==
  /\ persistScheduled /\ ToWrite
  /\ storageTx # "none"
  /\ pendingSets' = << >> /\ pendingTouches' = {}
  /\ stmts' = IF stmts = 0 THEN conn ELSE stmts
  /\ UNCHANGED <<l1, persistScheduled, stored, conn, opened, storageTx, embedders, now,
                 served, dropped>>

\* BEGIN IMMEDIATE inside the transaction of the storage, or beside that of
\* another process: everything is put back and another microtask is queued.
FlushBusy ==
  /\ persistScheduled /\ ToWrite
  /\ storageTx # "none"
  /\ stmts' = IF stmts = 0 THEN conn ELSE stmts
  /\ UNCHANGED <<l1, pendingSets, pendingTouches, persistScheduled, stored, conn,
                 opened, storageTx, embedders, now, served, dropped>>

\* The statements belong to a closed connection: ROLLBACK, and prepare again.
FlushStale ==
  /\ persistScheduled /\ ToWrite
  /\ storageTx = "none" /\ stmts \notin {0, conn}
  /\ stmts' = 0
  /\ UNCHANGED <<l1, pendingSets, pendingTouches, persistScheduled, stored, conn,
                 opened, storageTx, embedders, now, served, dropped>>

Flush ==
  /\ persistScheduled /\ ToWrite
  /\ storageTx = "none" /\ stmts \in {0, conn}
  /\ stored' = Upsert(stored, pendingSets)
  /\ pendingSets' = << >> /\ pendingTouches' = {}
  /\ stmts' = conn
  /\ persistScheduled' = FALSE
  /\ UNCHANGED <<l1, conn, opened, storageTx, embedders, now, served, dropped>>

Persist == FlushNothing \/ FlushBusy \/ FlushStale \/ Flush

--------------------------------------------------------------------------------
(* The surroundings: the storage whose connection this is, time, and the end. *)

\* "insert" lasts a few microtasks, "compress" waits for the setImmediate of the
\* insert queue, "foreign" is the lock of another process.
TxBegin(kind) ==
  /\ conn # 0 /\ storageTx = "none"
  /\ storageTx' = kind
  /\ UNCHANGED <<l1, pendingSets, pendingTouches, persistScheduled, stored, stmts,
                 conn, opened, embedders, now, served, dropped>>

TxEnd ==
  /\ storageTx # "none"
  /\ storageTx = "compress" => Callback
  /\ storageTx' = "none"
  /\ UNCHANGED <<l1, pendingSets, pendingTouches, persistScheduled, stored, stmts,
                 conn, opened, embedders, now, served, dropped>>

\* rollback() and import() close the connection, and open one to another file.
Close ==
  /\ conn # 0 /\ storageTx = "none" /\ opened <= MaxReopen
  /\ conn' = 0
  /\ dropped' = dropped \cup DOMAIN stored
  /\ stored' = << >>
  /\ UNCHANGED <<l1, pendingSets, pendingTouches, persistScheduled, stmts, opened,
                 storageTx, embedders, now, served>>

Open ==
  /\ conn = 0
  /\ conn' = opened + 1 /\ opened' = opened + 1
  /\ UNCHANGED <<l1, pendingSets, pendingTouches, persistScheduled, stored, stmts,
                 storageTx, embedders, now, served, dropped>>

\* The process ends and another one opens the file.
Restart ==
  /\ opened <= MaxReopen
  /\ l1' = << >> /\ pendingSets' = << >> /\ pendingTouches' = {}
  /\ persistScheduled' = FALSE /\ storageTx' = "none"
  /\ stmts' = 0 /\ conn' = opened + 1 /\ opened' = opened + 1
  /\ embedders' = [c \in Embedder |->
                     IF embedders[c].at = "asked" THEN Returned
                     ELSE embedders[c]]
  /\ dropped' = {}
  /\ UNCHANGED <<stored, now, served>>

\* A tick is long beside a chain of microtasks.
Tick ==
  /\ Callback /\ now < MaxTime
  /\ now' = now + 1
  /\ UNCHANGED <<l1, pendingSets, pendingTouches, persistScheduled, stored, stmts,
                 conn, opened, storageTx, embedders, served, dropped>>

CacheInit ==
  /\ l1 = << >> /\ pendingSets = << >> /\ pendingTouches = {}
  /\ persistScheduled = FALSE
  /\ stored = << >> /\ stmts = 0 /\ conn = 1 /\ opened = 1
  /\ storageTx = "none"
  /\ embedders = [c \in Embedder |-> [at |-> "idle", want |-> {}]]
  /\ now = 0 /\ served = 0 /\ dropped = {}

CacheNext ==
  \/ \E c \in Embedder : Lookup(c) \/ Answer(c) \/ Refuse(c)
  \/ Persist
  \/ \E kind \in {"insert", "compress", "foreign"} : TxBegin(kind)
  \/ TxEnd \/ Close \/ Open \/ Restart \/ Tick

--------------------------------------------------------------------------------
(* Properties *)

\* A cached vector is served for at most twice its time to live: a row of the
\* table that is read on its last day counts as new in memory (get() calls
\* L1Cache.set, which dates the entry anew), and no chain of copies is longer.
AgeBound == served <= 2 * Ttl

\* A vector in memory is in the table or on its way there, or the file it was in
\* was replaced or closed: no busy connection, stale statement or restart makes
\* the write-behind of set() lose it.
WrittenOrOnTheWay ==
  \A k \in CacheKey : InL1(k) => k \in DOMAIN pendingSets \cup DOMAIN stored \cup dropped

================================================================================
