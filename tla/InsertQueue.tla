------------------------------ MODULE InsertQueue ------------------------------
(***************************************************************************)
(* How concurrent writers of one process share the single SQLite           *)
(* connection (src/storage/providers/sqlite.ts, storage/sqlite/            *)
(* transaction.ts, AsyncMutex in utils/index.ts).                          *)
(*                                                                         *)
(* insertMemory() pushes its row to a queue and waits; a flush takes the   *)
(* queue in batches and stores each batch in one transaction.  All other   *)
(* writes are transactions of their own.  withTransaction() either takes   *)
(* the lock and issues BEGIN IMMEDIATE, or, when the AsyncLocalStorage     *)
(* context says that it runs inside a transaction, opens a SAVEPOINT.  A   *)
(* callback carries the context of whoever scheduled it.                   *)
(*                                                                         *)
(* One action is what the event loop runs from one await to the next.      *)
(***************************************************************************)
EXTENDS Naturals, FiniteSets, Sequences

CONSTANTS
  Writer,       \* calls of insertMemory, each with its row
  Direct,       \* calls of updateMemory, deleteMemory..., insertMemoriesBatch
  Compressor,   \* calls of compress(): insert a summary and archive in one transaction
  Poison,       \* the writers whose row the database refuses
  KeyOf,        \* the (organization, agent, hash) of a writer's row, or NULL
  NULL,
  Threshold,    \* INSERT_COALESCE_THRESHOLD, 24
  MaxBatch,     \* INSERT_COALESCE_MAX, 96
  MaxRetries,   \* concurrency.maxRetries
  MaxBusy,      \* bound: how often another process makes BEGIN fail
  Overlap       \* whether compress() may run while remember() or its callback is due

Client == Writer \cup Direct \cup Compressor

ASSUME QueueAssumption ==
  /\ Poison \subseteq Writer
  /\ DOMAIN KeyOf = Writer
  /\ Writer \cap Direct = {} /\ Writer \cap Compressor = {} /\ Direct \cap Compressor = {}
  /\ "flush" \notin Client
  /\ Threshold \in Nat \ {0}
  /\ MaxBatch \in Nat \ {0}
  /\ MaxRetries \in Nat
  /\ MaxBusy \in Nat
  /\ Overlap \in BOOLEAN

VARIABLES
  queue,       \* insertQueue: the writers and compressors whose row waits
  scheduled,   \* insertFlushScheduled
  immediates,  \* pending setImmediate callbacks: TRUE = scheduled in a transaction
  flush,       \* the flush in flight (insertFlushInFlight), or Idle
  lock,        \* writeTxMutex: the holder, then those who wait
  attempts,    \* retries of the holder's BEGIN
  pc,          \* where each call is
  opened,      \* the savepoint each compressor has open
  stack,       \* the connection's open transaction and savepoints
  spCounter,   \* savepointCounter
  rows,        \* what the connection sees
  durable,     \* what is committed
  busyLeft     \* how often another process may still hold the write lock

flushVars == <<queue, scheduled, immediates, flush>>
lockVars == <<lock, attempts>>
dbVars == <<stack, spCounter, rows, durable>>
vars == <<flushVars, lockVars, pc, opened, dbVars, busyLeft>>

Pending(S) == {i \in S : pc[i] \notin {"idle", "ok", "failed"}}

--------------------------------------------------------------------------------
(* The connection.  A frame of the stack remembers what ROLLBACK TO restores. *)

\* A client's row or update is stored; a compressor's sources are archived.
Fact == {"stored", "archived"} \X Client

Stored(S) == {<<"stored", i>> : i \in S}

Frame(name) == [name |-> name, saved |-> rows]

Savepoints(name) == {k \in DOMAIN stack : stack[k].name = name}

\* COMMIT and ROLLBACK end everything that is open.
CommitTx == durable' = rows /\ stack' = << >> /\ UNCHANGED <<rows, spCounter>>

RollbackTx == rows' = durable /\ stack' = << >> /\ UNCHANGED <<durable, spCounter>>

\* RELEASE of an outermost savepoint commits.
Release(name) ==
  \E k \in Savepoints(name) :
    /\ stack' = SubSeq(stack, 1, k - 1)
    /\ durable' = IF k = 1 THEN rows ELSE durable
    /\ UNCHANGED <<rows, spCounter>>

\* ROLLBACK TO keeps the savepoint open, and does nothing when it is gone.
RollbackTo(name) ==
  /\ UNCHANGED <<durable, spCounter>>
  /\ IF Savepoints(name) = {} THEN UNCHANGED <<rows, stack>>
     ELSE \E k \in Savepoints(name) :
            rows' = stack[k].saved /\ stack' = SubSeq(stack, 1, k)

--------------------------------------------------------------------------------
(* The transaction lock and BEGIN IMMEDIATE *)

Holds(o) == lock # << >> /\ Head(lock) = o

Enqueue(o) == lock' = Append(lock, o) /\ UNCHANGED attempts

Unlock == lock' = Tail(lock) /\ attempts' = 0

\* BEGIN fails: the connection is in a transaction, or another process has the
\* file and the retries or the deadline are used up.
BeginFails ==
  /\ UNCHANGED dbVars
  /\ \/ stack # << >> /\ UNCHANGED busyLeft
     \/ stack = << >> /\ busyLeft > 0 /\ busyLeft' = busyLeft - 1

\* The outermost frame, with the changes the callback makes before it awaits.
Begin(changes) ==
  /\ stack = << >>
  /\ stack' = <<Frame(0)>>
  /\ rows' = rows \cup changes
  /\ UNCHANGED <<durable, spCounter, busyLeft>>

--------------------------------------------------------------------------------
(* The insert queue *)

Idle == [step |-> "idle", ctx |-> FALSE, batch |-> << >>, single |-> FALSE,
         name |-> 0, bad |-> FALSE]

\* A flush has taken a batch and is about to store it: it does not give up the
\* thread before it has opened its transaction or joined the lock.
Entering == flush.step = "enter"

\* Faulty variant: the batch is copied from the queue and stays in it.
StartFlush_Slice(ctx, q) ==
  LET n == IF Len(q) < MaxBatch THEN Len(q) ELSE MaxBatch
  IN  /\ queue' = q
      /\ flush' = IF flush.step # "idle" \/ q = << >> THEN flush
                  ELSE [Idle EXCEPT !.step = "enter", !.ctx = ctx,
                                    !.batch = SubSeq(q, 1, n), !.single = n = 1]

\* flushInsertQueue() called in context ctx when the queue is q.
StartFlush(ctx, q) ==
  LET n == IF Len(q) < MaxBatch THEN Len(q) ELSE MaxBatch
  IN  IF flush.step # "idle" \/ q = << >>
      THEN queue' = q /\ UNCHANGED flush
      ELSE /\ queue' = SubSeq(q, n + 1, Len(q))
           /\ flush' = [Idle EXCEPT !.step = "enter", !.ctx = ctx,
                                    !.batch = SubSeq(q, 1, n), !.single = n = 1]

Push(i, ctx) ==
  IF Len(queue) + 1 >= Threshold
  THEN /\ StartFlush(ctx, Append(queue, i))
       /\ scheduled' = FALSE
       /\ UNCHANGED immediates
  ELSE /\ queue' = Append(queue, i)
       /\ scheduled' = TRUE
       /\ immediates' = IF scheduled THEN immediates ELSE Append(immediates, ctx)
       /\ UNCHANGED flush

InsertMemory(w) ==
  /\ pc[w] = "idle"
  /\ Overlap \/ Pending(Compressor) = {}
  /\ pc' = [pc EXCEPT ![w] = "queued"]
  /\ Push(w, FALSE)
  /\ UNCHANGED <<lockVars, opened, dbVars, busyLeft>>

\* Faulty variant: the flag stays up when the callback has run.
ScheduledFlush_FlagKept ==
  /\ immediates # << >>
  /\ immediates' = Tail(immediates)
  /\ StartFlush(Head(immediates), queue)
  /\ UNCHANGED <<scheduled, lockVars, pc, opened, dbVars, busyLeft>>

\* The callback of setImmediate.
ScheduledFlush ==
  /\ immediates # << >>
  /\ immediates' = Tail(immediates)
  /\ scheduled' = FALSE
  /\ StartFlush(Head(immediates), queue)
  /\ UNCHANGED <<lockVars, pc, opened, dbVars, busyLeft>>

--------------------------------------------------------------------------------
(* A flush: the batch in one transaction, and if that fails row by row. *)

Items == IF flush.single THEN {Head(flush.batch)}
         ELSE {flush.batch[k] : k \in DOMAIN flush.batch}

Keyed(S) == {i \in S \cap Writer : KeyOf[i] # NULL}

\* Faulty variant: there is no unique index on active hashes.
Refused_NoIndex(S) == S \cap Poison # {}

\* The rows are malformed or collide on the unique index of active hashes.
Refused(S) ==
  \/ S \cap Poison # {}
  \/ \E i \in Keyed(S) : \E j \in Keyed(S \cup {k \in Writer : <<"stored", k>> \in rows}) :
       i # j /\ KeyOf[i] = KeyOf[j]

\* What the callers of S are told.
Answer(S, ok) ==
  pc' = [i \in Client |->
           IF i \notin S THEN pc[i]
           ELSE IF i \in Compressor THEN IF ok THEN "archive" ELSE "abort"
           ELSE IF ok THEN "ok" ELSE "failed"]

\* Faulty variant: the loop ends after one batch and schedules no other flush.
Continue_OneBatch(left) ==
  flush' = IF left # << >>
           THEN [flush EXCEPT !.step = "enter", !.batch = left, !.single = TRUE,
                              !.bad = FALSE]
           ELSE Idle

\* The loop goes on with what is left of the batch, yields, or ends.
Continue(left) ==
  flush' = IF left # << >>
           THEN [flush EXCEPT !.step = "enter", !.batch = left, !.single = TRUE,
                              !.bad = FALSE]
           ELSE IF queue # << >>
           THEN [Idle EXCEPT !.step = "yield", !.ctx = flush.ctx]
           ELSE Idle

Rest == IF flush.single THEN Tail(flush.batch) ELSE << >>

Succeed == Answer(Items, TRUE) /\ Continue(Rest)

\* Faulty variant: a batch that fails is rejected as a whole.
Fail_WholeBatch == Answer(Items, FALSE) /\ Continue(Rest)

\* A batch that fails is taken apart; a row that fails alone is rejected.
Fail ==
  IF flush.single THEN Answer(Items, FALSE) /\ Continue(Rest)
  ELSE Continue(flush.batch) /\ UNCHANGED pc

\* withTransaction() of the flush, up to its first await.
FlushEnter ==
  /\ Entering
  /\ UNCHANGED <<queue, scheduled, immediates, opened, busyLeft>>
  /\ IF ~flush.ctx
     THEN /\ Enqueue("flush")
          /\ flush' = [flush EXCEPT !.step = "lock"]
          /\ UNCHANGED <<pc, dbVars>>
     ELSE /\ spCounter' = spCounter + 1
          /\ stack' = Append(stack, Frame(spCounter'))
          /\ UNCHANGED <<durable, lockVars>>
          /\ IF Refused(Items) /\ flush.single
             THEN Fail /\ UNCHANGED rows
             ELSE /\ flush' = [flush EXCEPT !.step = "tx", !.name = spCounter',
                                            !.bad = Refused(Items)]
                  /\ rows' = IF Refused(Items) THEN rows ELSE rows \cup Stored(Items)
                  /\ UNCHANGED pc

FlushBegin ==
  /\ flush.step = "lock"
  /\ Holds("flush")
  /\ UNCHANGED <<queue, scheduled, immediates, opened>>
  /\ \/ BeginFails /\ Unlock /\ Fail
     \/ /\ Refused(Items) /\ flush.single
        /\ stack = << >>
        /\ Unlock /\ Fail /\ UNCHANGED <<dbVars, busyLeft>>
     \/ /\ ~(Refused(Items) /\ flush.single)
        /\ Begin(IF Refused(Items) THEN {} ELSE Stored(Items))
        /\ flush' = [flush EXCEPT !.step = "tx", !.name = 0, !.bad = Refused(Items)]
        /\ UNCHANGED <<lockVars, pc>>

\* Faulty variant: the callers are answered and the COMMIT is left out.
FlushEnd_NoCommit ==
  /\ flush.step = "tx"
  /\ UNCHANGED <<queue, scheduled, immediates, opened, busyLeft>>
  /\ Unlock /\ UNCHANGED <<durable, rows, spCounter>> /\ stack' = << >>
  /\ IF flush.bad THEN Fail ELSE Succeed

\* Faulty variant: the transaction of a refused batch stays open.
FlushEnd_NoRollback ==
  /\ flush.step = "tx"
  /\ UNCHANGED <<queue, scheduled, immediates, opened, busyLeft>>
  /\ Unlock
  /\ IF flush.bad THEN UNCHANGED dbVars /\ Fail ELSE CommitTx /\ Succeed

\* COMMIT or ROLLBACK; RELEASE or ROLLBACK TO when nested.
FlushEnd ==
  /\ flush.step = "tx"
  /\ UNCHANGED <<queue, scheduled, immediates, opened, busyLeft>>
  /\ IF flush.name = 0
     THEN /\ Unlock
          /\ \/ ~flush.bad /\ stack # << >> /\ CommitTx /\ Succeed
             \/ (flush.bad \/ stack = << >>) /\ RollbackTx /\ Fail
     ELSE /\ UNCHANGED lockVars
          /\ \/ ~flush.bad /\ Release(flush.name) /\ Succeed
             \/ /\ flush.bad \/ Savepoints(flush.name) = {}
                /\ RollbackTo(flush.name)
                /\ Fail

\* The loop's own setImmediate has fired.  The queue is not empty: only the
\* flush in flight takes from it.
FlushYield ==
  /\ flush.step = "yield"
  /\ LET n == IF Len(queue) < MaxBatch THEN Len(queue) ELSE MaxBatch
     IN  /\ queue' = SubSeq(queue, n + 1, Len(queue))
         /\ flush' = [flush EXCEPT !.step = "enter", !.single = n = 1,
                                   !.batch = SubSeq(queue, 1, n)]
  /\ UNCHANGED <<scheduled, immediates, lockVars, pc, opened, dbVars, busyLeft>>

--------------------------------------------------------------------------------
(* Transactions of their own *)

DirectCall(u) ==
  /\ pc[u] = "idle"
  /\ pc' = [pc EXCEPT ![u] = "lock"]
  /\ Enqueue(u)
  /\ UNCHANGED <<flushVars, opened, dbVars, busyLeft>>

\* BEGIN fails or the callback throws (a version conflict, a UNIQUE violation):
\* rolled back at once.  Or it has made its change and is awaited.
DirectBegin(u) ==
  /\ pc[u] = "lock"
  /\ Holds(u)
  /\ UNCHANGED <<flushVars, opened>>
  /\ \/ /\ \/ BeginFails
           \/ stack = << >> /\ UNCHANGED <<dbVars, busyLeft>>
        /\ Unlock
        /\ pc' = [pc EXCEPT ![u] = "failed"]
     \/ /\ Begin(Stored({u}))
        /\ UNCHANGED lockVars
        /\ pc' = [pc EXCEPT ![u] = "tx"]

\* Ends the transaction of o: COMMIT if it can, else it fails.
EndTx(o, ok) ==
  /\ Unlock
  /\ \/ ok /\ stack # << >> /\ CommitTx /\ pc' = [pc EXCEPT ![o] = "ok"]
     \/ (~ok \/ stack = << >>) /\ RollbackTx /\ pc' = [pc EXCEPT ![o] = "failed"]

DirectEnd(u) ==
  /\ pc[u] = "tx"
  /\ EndTx(u, TRUE)
  /\ UNCHANGED <<flushVars, opened, busyLeft>>

--------------------------------------------------------------------------------
(* compress() *)

CompressCall(c) ==
  /\ pc[c] = "idle"
  /\ Overlap \/ (Pending(Writer) = {} /\ immediates = << >>)
  /\ pc' = [pc EXCEPT ![c] = "lock"]
  /\ Enqueue(c)
  /\ UNCHANGED <<flushVars, opened, dbVars, busyLeft>>

\* BEGIN, then insertMemory(summary) queued in the transaction's context.
CompressBegin(c) ==
  /\ pc[c] = "lock"
  /\ Holds(c)
  /\ UNCHANGED opened
  /\ \/ /\ BeginFails
        /\ Unlock
        /\ pc' = [pc EXCEPT ![c] = "failed"]
        /\ UNCHANGED flushVars
     \/ /\ Begin({})
        /\ Push(c, TRUE)
        /\ pc' = [pc EXCEPT ![c] = "insert"]
        /\ UNCHANGED lockVars

\* archiveMemories() in a savepoint.
CompressArchive(c) ==
  /\ pc[c] = "archive"
  /\ pc' = [pc EXCEPT ![c] = "release"]
  /\ spCounter' = spCounter + 1
  /\ stack' = Append(stack, Frame(spCounter'))
  /\ rows' = rows \cup {<<"archived", c>>}
  /\ opened' = [opened EXCEPT ![c] = spCounter']
  /\ UNCHANGED <<flushVars, lockVars, durable, busyLeft>>

CompressRelease(c) ==
  /\ pc[c] = "release"
  /\ opened' = [opened EXCEPT ![c] = 0]
  /\ \/ Release(opened[c]) /\ pc' = [pc EXCEPT ![c] = "commit"]
     \/ /\ Savepoints(opened[c]) = {}
        /\ pc' = [pc EXCEPT ![c] = "abort"]
        /\ UNCHANGED dbVars
  /\ UNCHANGED <<flushVars, lockVars, busyLeft>>

\* Faulty variant: a compress that lost its sources commits what it has.
CompressEnd_CommitsAnyway(c) ==
  /\ pc[c] \in {"commit", "abort"}
  /\ \E lost \in BOOLEAN :
       /\ Unlock
       /\ CommitTx
       /\ pc' = [pc EXCEPT ![c] = IF lost THEN "failed" ELSE "ok"]
  /\ UNCHANGED <<flushVars, opened, busyLeft>>

\* Fewer than two sources were still active: "compress lost a concurrency race".
CompressEnd(c) ==
  /\ pc[c] \in {"commit", "abort"}
  /\ \E lost \in BOOLEAN : EndTx(c, pc[c] = "commit" /\ ~lost)
  /\ UNCHANGED <<flushVars, opened, busyLeft>>

--------------------------------------------------------------------------------
\* Faulty variant: one retry too many.
BeginRetry_OneMore ==
  /\ lock # << >>
  /\ IF Head(lock) = "flush" THEN flush.step = "lock" ELSE pc[Head(lock)] = "lock"
  /\ stack = << >>
  /\ busyLeft > 0
  /\ attempts <= MaxRetries
  /\ busyLeft' = busyLeft - 1
  /\ attempts' = attempts + 1
  /\ UNCHANGED <<flushVars, lock, pc, opened, dbVars>>

\* SQLITE_BUSY: the holder of the lock sleeps and tries BEGIN again.
BeginRetry ==
  /\ lock # << >>
  /\ IF Head(lock) = "flush" THEN flush.step = "lock" ELSE pc[Head(lock)] = "lock"
  /\ stack = << >>
  /\ busyLeft > 0
  /\ attempts < MaxRetries
  /\ busyLeft' = busyLeft - 1
  /\ attempts' = attempts + 1
  /\ UNCHANGED <<flushVars, lock, pc, opened, dbVars>>

Init ==
  /\ queue = << >>
  /\ scheduled = FALSE
  /\ immediates = << >>
  /\ flush = Idle
  /\ lock = << >>
  /\ attempts = 0
  /\ pc = [i \in Client |-> "idle"]
  /\ opened = [c \in Compressor |-> 0]
  /\ stack = << >>
  /\ spCounter = 0
  /\ rows = {}
  /\ durable = {}
  /\ busyLeft = MaxBusy

FlushStep == ScheduledFlush \/ FlushBegin \/ FlushEnd \/ FlushYield

DirectStep(u) == DirectBegin(u) \/ DirectEnd(u)

CompressStep(c) ==
  CompressBegin(c) \/ CompressArchive(c) \/ CompressRelease(c) \/ CompressEnd(c)

Next ==
  \/ FlushEnter
  \/ /\ ~Entering
     /\ \/ FlushStep
        \/ BeginRetry
        \/ \E w \in Writer : InsertMemory(w)
        \/ \E u \in Direct : DirectCall(u) \/ DirectStep(u)
        \/ \E c \in Compressor : CompressCall(c) \/ CompressStep(c)

\* The event loop runs every callback that is due; nobody has to make a call.
Fairness ==
  /\ WF_vars(FlushEnter)
  /\ WF_vars(~Entering /\ ScheduledFlush)
  /\ WF_vars(~Entering /\ FlushBegin)
  /\ WF_vars(~Entering /\ FlushEnd)
  /\ WF_vars(~Entering /\ FlushYield)
  /\ \A u \in Direct : WF_vars(~Entering /\ DirectStep(u))
  /\ \A c \in Compressor : WF_vars(~Entering /\ CompressStep(c))

Spec == Init /\ [][Next]_vars /\ Fairness

--------------------------------------------------------------------------------
(* Properties *)

Step == {"idle", "enter", "lock", "tx", "yield"}

TypeOK ==
  /\ queue \in Seq(Writer \cup Compressor)
  /\ scheduled \in BOOLEAN
  /\ immediates \in Seq(BOOLEAN)
  /\ flush \in [step : Step, ctx : BOOLEAN, batch : Seq(Writer \cup Compressor),
                single : BOOLEAN, name : Nat, bad : BOOLEAN]
  /\ lock \in Seq(Direct \cup Compressor \cup {"flush"})
  /\ attempts \in 0 .. MaxRetries
  /\ pc \in [Client -> {"idle", "queued", "lock", "tx", "insert", "archive",
                        "release", "commit", "abort", "ok", "failed"}]
  /\ opened \in [Compressor -> Nat]
  /\ stack \in Seq([name : Nat, saved : SUBSET Fact])
  /\ spCounter \in Nat
  /\ rows \subseteq Fact
  /\ durable \subseteq Fact
  /\ busyLeft \in 0 .. MaxBusy

\* No row is forgotten in the queue: while one waits, a flush is running or its
\* callback is pending (the flags insertFlushScheduled and insertFlushInFlight).
QueueIsAttended == queue # << >> => flush.step # "idle" \/ immediates # << >>

\* A row that is waited for is in exactly one place, the queue or the batch in
\* flight, once.
InFlight == queue \o flush.batch

NoRowLostOrTwice ==
  /\ \A i, j \in DOMAIN InFlight : InFlight[i] = InFlight[j] => i = j
  /\ {InFlight[k] : k \in DOMAIN InFlight}
       = {i \in Client : pc[i] \in {"queued", "insert"}}

\* The connection is in a transaction only for somebody who will end it: when the
\* lock is free and nobody is inside a savepoint, nothing is open or uncommitted.
NothingLeftOpen ==
  lock = << >> /\ flush.step # "tx" => stack = << >> /\ rows = durable

\* Poison-row isolation: a coalesced peer of a malformed or colliding row is
\* stored; it fails only for its own row, or because another process kept the
\* file locked.
PeersSurvivePoison ==
  \A w \in Writer :
    pc[w] = "failed" /\ busyLeft = MaxBusy =>
      \/ w \in Poison
      \/ \E v \in Keyed(Writer) \ {w} : /\ KeyOf[v] = KeyOf[w]
                                        /\ <<"stored", v>> \in durable

\* compress() stores its summary and archives the sources together or not at all.
CompressIsAtomic ==
  \A c \in Compressor : /\ <<"stored", c>> \in durable <=> <<"archived", c>> \in durable
                        /\ <<"stored", c>> \in durable => pc[c] = "ok"

\* What insertMemory() acknowledged is in the file, where a crash leaves it.
AckedIsDurable == \A w \in Writer : pc[w] = "ok" => <<"stored", w>> \in durable

\* An acknowledged row is not taken back by the rollback of somebody else's
\* transaction ("no lost writes", tests/concurrency-stress-sqlite.test.ts:3).
NoLostWrites == \A w \in Writer : pc[w] = "ok" => <<"stored", w>> \in rows

\* Every call is answered: no write waits for ever.
EveryCallReturns ==
  \A i \in Client : pc[i] # "idle" ~> pc[i] \in {"ok", "failed"}

\* The provider implements AtomicInserts: answers match what is committed.
Answered ==
  [i \in Client |-> IF pc[i] = "idle" THEN "none"
                    ELSE IF pc[i] \in {"ok", "failed"} THEN pc[i]
                    ELSE "waiting"]

Atomic ==
  INSTANCE AtomicInserts WITH
    stored <- {i \in Client : <<"stored", i>> \in durable},
    answer <- Answered,
    KeyOf <- [i \in Client |-> IF i \in Writer THEN KeyOf[i] ELSE NULL]

ImplementsAtomicInserts == Atomic!Spec

================================================================================
