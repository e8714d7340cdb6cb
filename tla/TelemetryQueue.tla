---------------------------- MODULE TelemetryQueue ----------------------------
(***************************************************************************)
(* The telemetry queue (SqliteTelemetryProvider of                         *)
(* src/providers/sqlite/sqliteTelemetryProvider.ts over the event database *)
(* of sqliteEventDatabase.ts, and the close() of TelemetryEmitter).        *)
(*                                                                         *)
(* emit() never waits: it queues the event and starts a flush unless one   *)
(* is running.  A flush awaits open(), takes the whole queue, and awaits   *)
(* the inserts.  An event is its number in the order of emission.          *)
(***************************************************************************)
EXTENDS Naturals, Sequences, SequencesExt

CONSTANTS
  MaxQueue,    \* MAX_QUEUE_SIZE
  MaxEvents    \* bound on the events emitted

ASSUME TelemetryAssumption == MaxQueue \in Nat \ {0} /\ MaxEvents \in Nat

VARIABLES
  queue,
  flushing,      \* the flush that runs, and the batch it has taken
  openPromise,   \* none, or how the open() that is remembered went
  eventDb,       \* the event database is open
  closed,
  emitted,       \* events accepted so far
  written,       \* the table telemetry_events
  overflowed,    \* events shifted out of a full queue
  refused,       \* events of a batch that could not be written
  closer         \* a call of TelemetryEmitter.close()

telemetryVars == <<queue, flushing, openPromise, eventDb, closed, emitted, written,
                   overflowed, refused, closer>>

NoFlush == [at |-> "none", batch |-> << >>]

\* The part of runFlush that runs at once: open() if it is not remembered.
StartFlush ==
  IF flushing.at # "none" THEN UNCHANGED <<flushing, openPromise, eventDb>>
  ELSE /\ flushing' = [NoFlush EXCEPT !.at = "opening"]
       /\ IF openPromise # "none" THEN UNCHANGED <<openPromise, eventDb>>
          ELSE \E how \in {"ok", "failed"} :
                 openPromise' = how /\ eventDb' = (how = "ok")

\* Faulty variant: the newest queued event makes room.
MakeRoom_Newest ==
  IF Len(queue) >= MaxQueue
    THEN <<Front(queue), overflowed \cup {Last(queue)}>> ELSE <<queue, overflowed>>

\* A full queue loses its oldest event.
MakeRoom ==
  IF Len(queue) >= MaxQueue
    THEN <<Tail(queue), overflowed \cup {Head(queue)}>> ELSE <<queue, overflowed>>

Emit ==
  /\ ~closed /\ emitted < MaxEvents
  /\ emitted' = emitted + 1
  /\ queue' = Append(MakeRoom[1], emitted + 1)
  /\ overflowed' = MakeRoom[2]
  /\ StartFlush
  /\ UNCHANGED <<closed, written, refused, closer>>

\* query() and getEvent() open the database, also that of a closed provider.
Query ==
  /\ closed \/ openPromise = "none"
  /\ \E how \in IF openPromise = "none" THEN {"ok", "failed"} ELSE {openPromise} :
       /\ openPromise' = how
       /\ eventDb' = IF openPromise = "none" THEN how = "ok" ELSE eventDb
       /\ closed' = (closed /\ how = "failed")
  /\ UNCHANGED <<queue, flushing, emitted, written, overflowed, refused, closer>>

--------------------------------------------------------------------------------
(* runFlush after the await of open() *)

TakeBatch == queue' = << >> /\ flushing' = [at |-> "inserting", batch |-> queue]

FlushOpened ==
  /\ flushing.at = "opening" /\ openPromise # "failed" /\ eventDb
  /\ closed' = FALSE
  /\ TakeBatch
  /\ UNCHANGED <<openPromise, eventDb, emitted, written, overflowed, refused, closer>>

\* The database was closed meanwhile: insertEvents throws, the batch is dropped.
FlushUnopened ==
  /\ flushing.at = "opening" /\ openPromise # "failed" /\ ~eventDb
  /\ closed' = FALSE
  /\ queue' = << >> /\ flushing' = NoFlush
  /\ refused' = refused \cup ToSet(queue)
  /\ UNCHANGED <<openPromise, eventDb, emitted, written, overflowed, closer>>

\* open() failed, and its promise is kept: so does every later flush.  A close()
\* that awaits this flush fails with it.
FlushFails ==
  /\ flushing.at = "opening" /\ openPromise = "failed"
  /\ flushing' = NoFlush
  /\ closer' = IF closer \in {"flush", "lastFlush"} THEN "failed" ELSE closer
  /\ UNCHANGED <<queue, openPromise, eventDb, closed, emitted, written, overflowed,
                 refused>>

\* insertEvents: one transaction.
Inserted ==
  /\ flushing.at = "inserting" /\ eventDb
  /\ written' = written \o flushing.batch
  /\ flushing' = NoFlush
  /\ UNCHANGED <<queue, openPromise, eventDb, closed, emitted, overflowed, refused, closer>>

\* The database refuses, or was closed between two inserts: rolled back, dropped.
NotInserted ==
  /\ flushing.at = "inserting"
  /\ refused' = refused \cup ToSet(flushing.batch)
  /\ flushing' = NoFlush
  /\ UNCHANGED <<queue, openPromise, eventDb, closed, emitted, written, overflowed, closer>>

FlushStep == FlushOpened \/ FlushUnopened \/ FlushFails \/ Inserted \/ NotInserted

--------------------------------------------------------------------------------
(* TelemetryEmitter.close(): flush(), then close(), which flushes once more. *)

CloseCall ==
  /\ closer = "idle"
  /\ closer' = "flush"
  /\ UNCHANGED <<queue, flushing, openPromise, eventDb, closed, emitted, written,
                 overflowed, refused>>

Flushed == queue = << >> /\ flushing.at = "none"

\* Faulty variant: the loop waits for a running flush and starts none.
FlushLoop_WaitsOnly ==
  /\ closer \in {"flush", "lastFlush"}
  /\ flushing.at # "none"
  /\ UNCHANGED telemetryVars

\* The loop of flush(): start a flush, and wait for it.
FlushLoop ==
  /\ closer \in {"flush", "lastFlush"}
  /\ flushing.at = "none" /\ queue # << >>
  /\ StartFlush
  /\ UNCHANGED <<queue, closed, emitted, written, overflowed, refused, closer>>

ProviderClose ==
  /\ closer = "flush" /\ Flushed
  /\ closed' = TRUE
  /\ closer' = "lastFlush"
  /\ UNCHANGED <<queue, flushing, openPromise, eventDb, emitted, written, overflowed,
                 refused>>

DbClose ==
  /\ closer = "lastFlush" /\ Flushed
  /\ closer' = "dbClosed"
  /\ UNCHANGED <<queue, flushing, openPromise, eventDb, closed, emitted, written,
                 overflowed, refused>>

\* Emits and queries run between the awaits of close().
DbClosed ==
  /\ closer = "dbClosed"
  /\ eventDb' = FALSE
  /\ closer' = "forget"
  /\ UNCHANGED <<queue, flushing, openPromise, closed, emitted, written, overflowed,
                 refused>>

ForgetOpen ==
  /\ closer = "forget"
  /\ openPromise' = "none"
  /\ closer' = "done"
  /\ UNCHANGED <<queue, flushing, eventDb, closed, emitted, written, overflowed, refused>>

CloserStep == FlushLoop \/ ProviderClose \/ DbClose \/ DbClosed \/ ForgetOpen

TelemetryInit ==
  /\ queue = << >> /\ flushing = NoFlush
  /\ openPromise = "none" /\ eventDb = FALSE /\ closed = FALSE
  /\ emitted = 0 /\ written = << >> /\ overflowed = {} /\ refused = {}
  /\ closer = "idle"

TelemetryNext == Emit \/ Query \/ FlushStep \/ CloseCall \/ CloserStep

TelemetryFairness ==
  /\ WF_telemetryVars(FlushStep)
  /\ WF_telemetryVars(CloserStep)

--------------------------------------------------------------------------------
(* Properties *)

Kept == written \o flushing.batch \o queue

\* Every event that was accepted is written, in a batch or queued, in the order of
\* emission and once, or it was dropped for a reason the code names: the queue was
\* full, or its batch failed.  An event outlives every older one in the queue.
TelemetryInOrder ==
  /\ \A i, j \in DOMAIN Kept : i < j => Kept[i] < Kept[j]
  /\ ToSet(Kept) \cup overflowed \cup refused = 1 .. emitted
  /\ ToSet(Kept) \cap (overflowed \cup refused) = {}
  /\ \A e \in overflowed, q \in ToSet(queue) : e < q

\* close() comes to its end, whatever is emitted meanwhile.
TelemetryCloseReturns == closer = "flush" ~> closer \in {"done", "failed"}

================================================================================
