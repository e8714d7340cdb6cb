-------------------------------- MODULE PgWriter -------------------------------
(***************************************************************************)
(* Writes to Postgres (PostgresStorageProvider of                          *)
(* src/storage/providers/postgres.ts, under withWriteLock of               *)
(* src/core/wolbarg.ts): every call has a transaction on a client of its   *)
(* own, but inserts go through a queue that all calls share.               *)
(*                                                                         *)
(* A flush of the queue runs in the AsyncLocalStorage context of the call  *)
(* that scheduled it: its statements go to that call's client, whoever the *)
(* rows belong to, and even after the client went back to the pool.  A     *)
(* client executes its statements in the order in which they were issued.  *)
(*                                                                         *)
(* A call of remember() or compress() inserts one row, named as the call.  *)
(***************************************************************************)
EXTENDS Naturals, FiniteSets, Sequences, SequencesExt

CONSTANTS
  PgCall,
  Client,         \* clients of the pool
  Poison,         \* calls whose row may be one that no insert accepts
  Twins,          \* calls with one content hash, under deduplication
  FlushMax,       \* COALESCE_FLUSH_MAX
  FlushThreshold, \* COALESCE_FLUSH_THRESHOLD
  MaxParallel,    \* COALESCE_MAX_PARALLEL
  MaxRetries,     \* PG_TX_MAX_RETRIES
  MaxFaults,      \* bound on the deadlocks that Postgres reports
  BothTables,     \* memory_embeddings and memory_embeddings_blob both exist
  PgOps           \* kinds of calls that each may be

Nobody == "nobody"

ASSUME PgAssumption ==
  /\ IsFiniteSet(Client) /\ Nobody \notin PgCall \cup Client
  /\ Poison \subseteq PgCall /\ Twins \subseteq PgCall
  /\ FlushMax \in Nat \ {0} /\ FlushThreshold \in Nat \ {0} /\ MaxParallel \in Nat \ {0}
  /\ MaxRetries \in Nat /\ MaxFaults \in Nat
  /\ BothTables \in BOOLEAN
  /\ PgOps \in [PgCall -> SUBSET {"remember", "update", "compress"}]

VARIABLES
  pgCalls,      \* per call: op, at, client, error and tries, and if its row is poison
  clients,      \* per client: the call that holds it, its transaction, rows in it
  pgWork,       \* per client: statements issued and not executed
  pgQueue,      \* insertQueue
  pgTimer,      \* context of the flush that is scheduled
  pgKicks,      \* contexts of the flushes that finished flushes asked for
  pgRows,       \* rows that are committed
  pgFaults,
  pgTaken       \* history: <<c, d>> when a failure of d undid the row of c, in this try

pgVars == <<pgCalls, clients, pgWork, pgQueue, pgTimer, pgKicks, pgRows, pgFaults, pgTaken>>

Statement(what, batch, others) == [do |-> what, batch |-> batch, rest |-> others]

\* Flushes in flight: each waits for one statement.
InFlight ==
  UNION {{k} \X {i \in DOMAIN pgWork[k] : pgWork[k][i].do = "insert"} : k \in Client}

Issue(w, k, s) == [w EXCEPT ![k] = Append(@, s)]

SameRow(c, d) == c = d \/ {c, d} \subseteq Twins

--------------------------------------------------------------------------------
(* withTransaction: connect, BEGIN, the body, COMMIT or ROLLBACK, release *)

\* Retries start here again.
Connect(c) ==
  /\ pgCalls[c].at = "idle"
  /\ \E k \in Client, op \in PgOps[c], poison \in BOOLEAN :
       /\ clients[k].owner = Nobody
       /\ poison => c \in Poison /\ op # "update"
       /\ pgCalls[c].tries > 0 => op = pgCalls[c].op /\ poison = pgCalls[c].poison
       /\ clients' = [clients EXCEPT ![k].owner = c]
       /\ pgWork' = Issue(pgWork, k, Statement("begin", <<c>>, << >>))
       /\ pgCalls' = [pgCalls EXCEPT ![c] = [@ EXCEPT !.op = op, !.poison = poison, !.at = "beginning",
                                                     !.client = k, !.error = "none"]]
       /\ pgTaken' = pgTaken \ ({c} \X PgCall)
  /\ UNCHANGED <<pgQueue, pgTimer, pgKicks, pgRows, pgFaults>>

HeadOf(k) == Head(pgWork[k])

Answered(k) == [pgWork EXCEPT ![k] = Tail(@)]

Executes(k, what) == pgWork[k] # << >> /\ HeadOf(k).do = what

\* Batches of FlushMax, while there are flushes to spare.
Room ==
  IF Cardinality(InFlight) < MaxParallel THEN MaxParallel - Cardinality(InFlight) ELSE 0

Batch(q, i) == Statement("insert", SubSeq(q, (i - 1) * FlushMax + 1,
                                          IF i * FlushMax < Len(q) THEN i * FlushMax ELSE Len(q)),
                         << >>)

\* flushInsertQueue in the context of k, for queue q and the statements w.  It calls
\* itself for the next batch before it issues its own.
FlushOn(w, q, k) ==
  LET needed == (Len(q) + FlushMax - 1) \div FlushMax
      n == IF needed < Room THEN needed ELSE Room
      taken == IF n * FlushMax < Len(q) THEN n * FlushMax ELSE Len(q)
  IN  /\ pgWork' = [w EXCEPT ![k] = @ \o [i \in 1 .. n |-> Batch(q, n + 1 - i)]]
      /\ pgQueue' = SubSeq(q, taken + 1, Len(q))

\* insertMemory() queues its row.  A long queue is flushed at once; otherwise the call
\* that finds no flush scheduled schedules one.
Enqueue(w, c, k) ==
  LET q == Append(pgQueue, c)
  IN  IF Len(q) >= FlushThreshold
      THEN FlushOn(w, q, k) /\ pgTimer' = IF Room > 0 THEN Nobody ELSE k
      ELSE /\ pgWork' = w /\ pgQueue' = q
           /\ pgTimer' = IF pgTimer = Nobody THEN k ELSE pgTimer

\* BEGIN, and then the statements of updateMemory() or the insert.
Begin(k) ==
  /\ Executes(k, "begin")
  /\ clients' = [clients EXCEPT ![k].tx = "open", ![k].rows = {}]
  /\ LET c == HeadOf(k).batch[1]
     IN  IF pgCalls[c].op = "update"
         THEN /\ pgWork' = Issue(Answered(k), k, Statement("change", <<c>>, << >>))
              /\ pgCalls' = [pgCalls EXCEPT ![c].at = "changing"]
              /\ UNCHANGED <<pgQueue, pgTimer>>
         ELSE /\ Enqueue(Answered(k), c, k)
              /\ pgCalls' = [pgCalls EXCEPT ![c].at = "inserting"]
  /\ UNCHANGED <<pgKicks, pgRows, pgFaults, pgTaken>>

\* What follows for a call whose statement has succeeded.
Proceed(c) ==
  CASE pgCalls[c].op = "compress" /\ pgCalls[c].at = "inserting" -> "change"
    [] OTHER -> "commit"

AtOf(what) ==
  CASE what = "change" -> "changing" [] what = "commit" -> "ending" [] OTHER -> "ending"

\* The calls of cs go on with the statement of what, each on its own client.
GoOn(w, cs, what(_)) ==
  /\ pgCalls' = [c \in PgCall |->
                   IF c \in cs THEN [pgCalls[c] EXCEPT !.at = AtOf(what(c))] ELSE pgCalls[c]]
  /\ pgWork' = [k \in Client |->
                  IF \E c \in cs : pgCalls[c].client = k
                  THEN Append(w[k], LET c == CHOOSE c \in cs : pgCalls[c].client = k
                                    IN  Statement(what(c), <<c>>, << >>))
                  ELSE w[k]]

\* A statement of the calls fails: the promise of each rejects, and it rolls back.
GiveUp(w, c, err) ==
  /\ pgCalls' = [pgCalls EXCEPT ![c] = [@ EXCEPT !.at = "ending", !.error = err]]
  /\ pgWork' = Issue(w, pgCalls[c].client, Statement("rollback", <<c>>, << >>))

\* A failed statement aborts the transaction it is in.
Aborted(k) == [clients EXCEPT ![k] = IF @.tx = "idle" THEN @
                                     ELSE [@ EXCEPT !.tx = "aborted", !.rows = {}]]

\* History: the rows of client k are undone by a failure of the calls of ds.
TakenAlong(k, ds) == pgTaken' = pgTaken \cup (clients[k].rows \X ds)

Released(k) == [clients EXCEPT ![k] = [owner |-> Nobody, tx |-> "idle", rows |-> {}]]

\* COMMIT.  Of an aborted transaction it is a ROLLBACK, and no error.
Commit(k) ==
  /\ Executes(k, "commit")
  /\ pgRows' = pgRows \cup clients[k].rows
  /\ pgCalls' = [pgCalls EXCEPT ![HeadOf(k).batch[1]].at = "ok"]
  /\ clients' = Released(k)
  /\ pgWork' = Answered(k)
  /\ UNCHANGED <<pgQueue, pgTimer, pgKicks, pgFaults, pgTaken>>

\* isRetryablePgConcurrencyError, and the unique violation that rememberOne turns
\* into an update of the row that was there first.
AfterRollback(c) ==
  CASE pgCalls[c].error = "deadlock" /\ pgCalls[c].tries < MaxRetries -> "idle"
    [] /\ pgCalls[c].error = "unique" /\ pgCalls[c].op = "remember"
       /\ \E d \in pgRows : {c, d} \subseteq Twins -> "merged"
    [] OTHER -> "failed"

Rollback(k) ==
  /\ Executes(k, "rollback")
  /\ LET c == HeadOf(k).batch[1]
     IN  pgCalls' = [pgCalls EXCEPT ![c].at = AfterRollback(c),
                                    ![c].tries = IF AfterRollback(c) = "idle" THEN @ + 1 ELSE @]
  /\ clients' = Released(k)
  /\ pgWork' = Answered(k)
  /\ TakenAlong(k, ToSet(HeadOf(k).batch))
  /\ UNCHANGED <<pgQueue, pgTimer, pgKicks, pgRows, pgFaults>>

\* updateMemory, of a text, deletes from both embedding tables and ignores the
\* error of the one that is not there, which aborts the transaction.
UpdateRefusal(k) == IF clients[k].tx = "aborted" \/ ~BothTables THEN "aborted" ELSE "none"

\* So does archiveMemories, which also needs the summary, by its foreign key.
ArchiveRefusal(k, c) ==
  IF UpdateRefusal(k) = "none" /\ c \notin pgRows \cup clients[k].rows THEN "foreign key"
  ELSE UpdateRefusal(k)

Change(k) ==
  /\ Executes(k, "change")
  /\ LET c == HeadOf(k).batch[1]
         err == IF pgCalls[c].op = "update" THEN UpdateRefusal(k) ELSE ArchiveRefusal(k, c)
     IN  IF err = "none"
         THEN GoOn(Answered(k), {c}, LAMBDA x : "commit") /\ UNCHANGED <<clients, pgTaken>>
         ELSE /\ GiveUp(Answered(k), c, err)
              /\ clients' = Aborted(k) /\ TakenAlong(k, {c})
  /\ UNCHANGED <<pgQueue, pgTimer, pgKicks, pgRows, pgFaults>>

--------------------------------------------------------------------------------
(* Flushes *)

\* Faulty variant: a single row waits for a second one before it is flushed.
FlushTimer_OnlyPairs ==
  /\ pgTimer # Nobody
  /\ IF Room > 0 /\ Len(pgQueue) > 1 THEN FlushOn(pgWork, pgQueue, pgTimer)
     ELSE UNCHANGED <<pgWork, pgQueue>>
  /\ pgTimer' = Nobody
  /\ UNCHANGED <<pgCalls, clients, pgKicks, pgRows, pgFaults, pgTaken>>

\* The setImmediate of scheduleInsertFlush; with all flushes busy it is set again.
FlushTimer ==
  /\ pgTimer # Nobody
  /\ Room > 0
  /\ FlushOn(pgWork, pgQueue, pgTimer)
  /\ pgTimer' = Nobody
  /\ UNCHANGED <<pgCalls, clients, pgKicks, pgRows, pgFaults, pgTaken>>

\* That of a flush that has ended; the scheduled one is cleared.
FlushKick ==
  /\ \E k \in pgKicks :
       /\ Room > 0
       /\ FlushOn(pgWork, pgQueue, k)
       /\ pgKicks' = pgKicks \ {k}
  /\ pgTimer' = Nobody
  /\ UNCHANGED <<pgCalls, clients, pgRows, pgFaults, pgTaken>>

\* Rows of other transactions that this one has to wait for.
Waits(k, batch) ==
  \E j \in Client \ {k}, c \in ToSet(batch) : \E d \in clients[j].rows : SameRow(c, d)

\* Why the insert of a batch fails.
Refusal(k, batch) ==
  IF clients[k].tx = "aborted" THEN "aborted"
  ELSE IF \E c \in ToSet(batch) : pgCalls[c].poison THEN "invalid"
  ELSE IF \/ \E c \in ToSet(batch), d \in pgRows \cup clients[k].rows : SameRow(c, d)
          \/ Cardinality(ToSet(batch) \cap Twins) > 1
       THEN "unique" ELSE "none"

\* The finally of a flush.
FlushEnds(k) == pgKicks' = IF pgQueue # << >> THEN pgKicks \cup {k} ELSE pgKicks

InsertSucceeds(k) ==
  /\ Executes(k, "insert")
  /\ LET s == HeadOf(k)
     IN  /\ ~Waits(k, s.batch) /\ Refusal(k, s.batch) = "none"
         /\ IF clients[k].tx = "idle"
            THEN pgRows' = pgRows \cup ToSet(s.batch) /\ UNCHANGED clients
            ELSE /\ clients' = [clients EXCEPT ![k].rows = @ \cup ToSet(s.batch)]
                 /\ UNCHANGED pgRows
         /\ GoOn(IF s.rest = << >> THEN Answered(k)
                 ELSE Issue(Answered(k), k, Statement("insert", <<Head(s.rest)>>, Tail(s.rest))),
                 ToSet(s.batch), Proceed)
         /\ IF s.rest = << >> THEN FlushEnds(k) ELSE UNCHANGED pgKicks
  /\ UNCHANGED <<pgQueue, pgTimer, pgFaults, pgTaken>>

\* Faulty variant: the calls of a batch are answered as if it had not failed.
InsertFails_Swallowed(k, err) ==
  /\ LET s == HeadOf(k)
     IN  /\ clients' = Aborted(k) /\ TakenAlong(k, ToSet(s.batch))
         /\ IF Len(s.batch) = 1 THEN GiveUp(Answered(k), s.batch[1], err)
            ELSE GoOn(Answered(k), ToSet(s.batch), Proceed)
         /\ FlushEnds(k)
  /\ UNCHANGED <<pgQueue, pgTimer, pgRows>>

\* A batch that fails is tried again row by row ("poison-row isolation"), on the
\* same client; a row that fails alone rejects its call.
InsertFails(k, err) ==
  /\ LET s == HeadOf(k)
         more == IF Len(s.batch) > 1 THEN s.batch ELSE s.rest
         w == IF more = << >> THEN Answered(k)
              ELSE Issue(Answered(k), k, Statement("insert", <<Head(more)>>, Tail(more)))
     IN  /\ clients' = Aborted(k) /\ TakenAlong(k, ToSet(s.batch))
         /\ IF Len(s.batch) = 1 THEN GiveUp(w, s.batch[1], err)
            ELSE pgWork' = w /\ UNCHANGED pgCalls
         /\ IF more = << >> THEN FlushEnds(k) ELSE UNCHANGED pgKicks
  /\ UNCHANGED <<pgQueue, pgTimer, pgRows>>

InsertRefused(k) ==
  /\ Executes(k, "insert") /\ Refusal(k, HeadOf(k).batch) # "none"
  /\ InsertFails(k, Refusal(k, HeadOf(k).batch))
  /\ UNCHANGED pgFaults

\* lock_timeout: the row it waits for is not decided in time.
InsertTimesOut(k) ==
  /\ Executes(k, "insert") /\ Waits(k, HeadOf(k).batch)
  /\ InsertFails(k, "timeout")
  /\ UNCHANGED pgFaults

InsertDeadlocks(k) ==
  /\ Executes(k, "insert") /\ pgFaults < MaxFaults /\ clients[k].tx = "open"
  /\ InsertFails(k, "deadlock")
  /\ pgFaults' = pgFaults + 1

PgExecutes(k) ==
  \/ Begin(k) \/ Change(k) \/ Commit(k) \/ Rollback(k)
  \/ InsertSucceeds(k) \/ InsertRefused(k) \/ InsertTimesOut(k)

PgInit ==
  /\ pgCalls = [c \in PgCall |-> [op |-> "none", at |-> "idle", client |-> Nobody,
                                  error |-> "none", tries |-> 0, poison |-> FALSE]]
  /\ clients = [k \in Client |-> [owner |-> Nobody, tx |-> "idle", rows |-> {}]]
  /\ pgWork = [k \in Client |-> << >>]
  /\ pgQueue = << >> /\ pgTimer = Nobody /\ pgKicks = {}
  /\ pgRows = {} /\ pgFaults = 0 /\ pgTaken = {}

PgNext ==
  \/ \E c \in PgCall : Connect(c)
  \/ \E k \in Client : PgExecutes(k) \/ InsertDeadlocks(k)
  \/ FlushTimer \/ FlushKick

Answers == \E k \in Client : PgExecutes(k)
FlushDue == FlushTimer \/ FlushKick

\* While statements wait, one of them is answered; timers fire.  (A call is a few
\* statements, so no client can be passed over for ever.)
PgFairness == WF_pgVars(Answers) /\ WF_pgVars(FlushDue)

--------------------------------------------------------------------------------
(* Properties *)

\* A call that succeeded has its row committed, or the transaction of another call
\* carries the row and has still to commit it, or a statement of another call failed
\* in the transaction that carried it, and took it along.  A row that rides in the
\* transaction of a call that goes well is stored.  (NOTIFY and the answer belong to
\* the call's own transaction, so neither knows of the other's.)
PgAckedIsStored ==
  \A c \in PgCall :
    pgCalls[c].at = "ok" /\ pgCalls[c].op # "update" =>
      \/ c \in pgRows
      \/ \E k \in Client : c \in clients[k].rows /\ clients[k].owner \notin {c, Nobody}
      \/ \E d \in PgCall \ {c} : <<c, d>> \in pgTaken

\* Every call that has begun comes to its end, in a pool of few clients and with
\* few flushes in parallel: again and again there is a moment with none under way.
PgCallsReturn ==
  []<>(\A c \in PgCall : pgCalls[c].at \in {"idle", "ok", "merged", "failed"})

\* A call succeeds if its data are acceptable and Postgres reports no deadlock:
\* what tests/concurrency-stress-postgres.test.ts expects of concurrent updates.
PgUpdatesSucceed ==
  \A c \in PgCall : pgCalls[c].op = "update" => pgCalls[c].at # "failed"

================================================================================
