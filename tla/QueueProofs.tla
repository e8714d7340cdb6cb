------------------------------ MODULE QueueProofs ------------------------------
(***************************************************************************)
(* Proofs about what waits in memory: the events of TelemetryQueue, the    *)
(* vectors that EmbeddingCache has still to write, and the request that    *)
(* HttpRetry repeats; for queues and caches of any length, and any bounds  *)
(* on time.                                                                *)
(***************************************************************************)
EXTENDS TelemetryQueue, EmbeddingCache, HttpRetry, SequenceTheorems, TLAPS

--------------------------------------------------------------------------------
(* TelemetryQueue *)

Ordered(s) == \A i, j \in DOMAIN s : i < j => s[i] < s[j]

Before(S, T) == \A a \in S, b \in T : a < b

OnDisk == ToSet(written)
InBatch == ToSet(flushing.batch)
InQueue == ToSet(queue)

\* The batch is what insertEvents has been given; nothing else is on its way.
QueueTypes ==
  /\ queue \in Seq(Nat) /\ written \in Seq(Nat) /\ emitted \in Nat
  /\ flushing \in [at : {"none", "opening", "inserting"}, batch : Seq(Nat)]
  /\ flushing.at # "inserting" => flushing.batch = << >>

Sorted ==
  /\ Ordered(written) /\ Ordered(flushing.batch) /\ Ordered(queue)
  /\ Before(OnDisk, InBatch) /\ Before(OnDisk, InQueue) /\ Before(InBatch, InQueue)
  /\ Before(overflowed, InQueue)

Accounted ==
  /\ OnDisk \cup InBatch \cup InQueue \cup overflowed \cup refused = 1 .. emitted
  /\ (OnDisk \cup InBatch \cup InQueue) \cap (overflowed \cup refused) = {}

TelemetryIInv == QueueTypes /\ Sorted /\ Accounted

TelemetrySpec == TelemetryInit /\ [][TelemetryNext]_telemetryVars

--------------------------------------------------------------------------------
(* Sequences of events *)

LEMMA ToSetDef ==
  ASSUME NEW s \in Seq(Nat)
  PROVE  /\ ToSet(s) \subseteq Nat /\ Len(s) \in Nat
         /\ \A e : e \in ToSet(s) <=> \E i \in 1 .. Len(s) : s[i] = e
BY DEF ToSet

LEMMA OrderedDef ==
  ASSUME NEW s \in Seq(Nat)
  PROVE  Ordered(s) <=> \A i, j \in 1 .. Len(s) : i < j => s[i] < s[j]
<1>1. DOMAIN s = 1 .. Len(s)
  OBVIOUS
<1> QED BY <1>1, Zenon DEF Ordered

LEMMA Nothing == ToSet(<< >>) = {} /\ Ordered(<< >>) /\ << >> \in Seq(Nat)
BY DEF ToSet, Ordered

LEMMA Joined ==
  ASSUME NEW s \in Seq(Nat), NEW t \in Seq(Nat)
  PROVE  /\ s \o t \in Seq(Nat)
         /\ ToSet(s \o t) = ToSet(s) \cup ToSet(t)
         /\ Ordered(s) /\ Ordered(t) /\ Before(ToSet(s), ToSet(t)) => Ordered(s \o t)
<1> DEFINE u == s \o t
           m == Len(s)
           n == Len(t)
<1>1. u \in Seq(Nat) /\ Len(u) = m + n /\ m \in Nat /\ n \in Nat
  OBVIOUS
<1>2. \A i \in 1 .. m + n : u[i] = IF i <= m THEN s[i] ELSE t[i - m]
  OBVIOUS
<1> HIDE DEF u, m, n
<1>3. \A i \in 1 .. m : u[i] = s[i] /\ i \in 1 .. m + n
  BY <1>1, <1>2
<1>4. ASSUME NEW i \in 1 .. n
      PROVE  u[i + m] = t[i] /\ i + m \in 1 .. m + n
  <2>1. i + m \in 1 .. m + n /\ ~(i + m <= m) /\ (i + m) - m = i
    BY <1>1
  <2> QED BY <1>2, <2>1
<1>5. ASSUME NEW i \in 1 .. m + n
      PROVE  \/ i \in 1 .. m /\ u[i] = s[i]
             \/ i > m /\ i - m \in 1 .. n /\ u[i] = t[i - m]
  <2>1. CASE i <= m
    BY <1>1, <1>2, <2>1
  <2>2. CASE ~(i <= m)
    BY <1>1, <1>2, <2>2
  <2> QED BY <2>1, <2>2
<1>6. ToSet(u) = ToSet(s) \cup ToSet(t)
  <2>1. \A e : e \in ToSet(s) <=> \E i \in 1 .. m : s[i] = e
    BY ToSetDef DEF m
  <2>2. \A e : e \in ToSet(t) <=> \E i \in 1 .. n : t[i] = e
    BY ToSetDef DEF n
  <2>3. \A e : e \in ToSet(u) <=> \E i \in 1 .. m + n : u[i] = e
    BY <1>1, ToSetDef
  <2>4. ASSUME NEW e \in ToSet(u) PROVE e \in ToSet(s) \cup ToSet(t)
    BY <1>5, <2>1, <2>2, <2>3
  <2>5. ASSUME NEW e \in ToSet(s) PROVE e \in ToSet(u)
    BY <1>3, <2>1, <2>3
  <2>6. ASSUME NEW e \in ToSet(t) PROVE e \in ToSet(u)
    BY <1>4, <2>2, <2>3
  <2> QED BY <2>4, <2>5, <2>6
<1>7. ASSUME Ordered(s), Ordered(t), Before(ToSet(s), ToSet(t)),
             NEW i \in 1 .. m + n, NEW j \in 1 .. m + n, i < j
      PROVE  u[i] < u[j]
  <2>1. \A k, l \in 1 .. m : k < l => s[k] < s[l]
    BY <1>7, OrderedDef DEF m
  <2>2. \A k, l \in 1 .. n : k < l => t[k] < t[l]
    BY <1>7, OrderedDef DEF n
  <2>3. CASE j <= m
    BY <1>1, <1>3, <1>7, <2>1, <2>3
  <2>4. CASE i > m
    <3>1. i - m \in 1 .. n /\ j - m \in 1 .. n /\ i - m < j - m
      BY <1>1, <1>7, <2>4
    <3>2. u[i] = t[i - m] /\ u[j] = t[j - m]
      BY <1>1, <1>5, <1>7, <2>4
    <3> QED BY <2>2, <3>1, <3>2
  <2>5. CASE i <= m /\ j > m
    <3>1. i \in 1 .. m /\ u[i] = s[i] /\ j - m \in 1 .. n /\ u[j] = t[j - m]
      BY <1>1, <1>5, <1>7, <2>5
    <3>2. u[i] \in ToSet(s)
      BY <3>1, ToSetDef DEF m
    <3>3. u[j] \in ToSet(t)
      BY <3>1, ToSetDef DEF n
    <3> QED BY <1>7, <3>2, <3>3 DEF Before
  <2> QED BY <1>1, <2>3, <2>4, <2>5
<1>8. Ordered(s) /\ Ordered(t) /\ Before(ToSet(s), ToSet(t)) => Ordered(u)
  BY <1>1, <1>7, OrderedDef
<1> QED BY <1>1, <1>6, <1>8 DEF u

LEMMA OneEvent ==
  ASSUME NEW e \in Nat
  PROVE  <<e>> \in Seq(Nat) /\ ToSet(<<e>>) = {e} /\ Ordered(<<e>>)
BY DEF ToSet, Ordered

LEMMA Appended ==
  ASSUME NEW s \in Seq(Nat), NEW e \in Nat
  PROVE  /\ Append(s, e) \in Seq(Nat)
         /\ ToSet(Append(s, e)) = ToSet(s) \cup {e}
         /\ Ordered(s) /\ Before(ToSet(s), {e}) => Ordered(Append(s, e))
<1>1. Append(s, e) = s \o <<e>>
  OBVIOUS
<1> QED BY <1>1, Joined, OneEvent

LEMMA Shifted ==
  ASSUME NEW s \in Seq(Nat), s # << >>
  PROVE  /\ Tail(s) \in Seq(Nat) /\ Head(s) \in Nat
         /\ ToSet(s) = {Head(s)} \cup ToSet(Tail(s))
         /\ Ordered(s) => Ordered(Tail(s)) /\ Before({Head(s)}, ToSet(Tail(s)))
                          /\ Head(s) \notin ToSet(Tail(s))
<1> DEFINE t == Tail(s)
           n == Len(t)
<1>1. t \in Seq(Nat) /\ Head(s) = s[1] /\ Head(s) \in Nat /\ Len(s) = n + 1 /\ n \in Nat
  OBVIOUS
<1>2. \A i \in 1 .. n : t[i] = s[i + 1]
  OBVIOUS
<1> HIDE DEF t, n
<1>3. \A e : e \in ToSet(s) <=> \E i \in 1 .. n + 1 : s[i] = e
  BY <1>1, ToSetDef
<1>4. \A e : e \in ToSet(t) <=> \E i \in 1 .. n : t[i] = e
  BY <1>1, ToSetDef DEF n
<1>5. ASSUME NEW i \in 1 .. n + 1
      PROVE  i = 1 \/ (i - 1 \in 1 .. n /\ t[i - 1] = s[i])
  <2>1. CASE i # 1
    <3>1. i - 1 \in 1 .. n /\ (i - 1) + 1 = i
      BY <1>1, <2>1
    <3> QED BY <1>2, <3>1
  <2> QED BY <2>1
<1>6. ToSet(s) = {Head(s)} \cup ToSet(t)
  <2>1. ASSUME NEW e \in ToSet(s) PROVE e \in {Head(s)} \cup ToSet(t)
    BY <1>1, <1>3, <1>4, <1>5
  <2>2. ASSUME NEW e \in ToSet(t) PROVE e \in ToSet(s)
    <3>1. PICK i \in 1 .. n : t[i] = e
      BY <1>4
    <3>2. i + 1 \in 1 .. n + 1 /\ s[i + 1] = e
      BY <1>1, <1>2, <3>1
    <3> QED BY <1>3, <3>2
  <2>3. Head(s) \in ToSet(s)
    <3>1. 1 \in 1 .. n + 1
      BY <1>1
    <3> QED BY <1>1, <1>3, <3>1
  <2> QED BY <2>1, <2>2, <2>3
<1>7. ASSUME Ordered(s)
      PROVE  Ordered(t) /\ Before({Head(s)}, ToSet(t)) /\ Head(s) \notin ToSet(t)
  <2>1. \A i, j \in 1 .. n + 1 : i < j => s[i] < s[j]
    BY <1>1, <1>7, OrderedDef
  <2>2. ASSUME NEW i \in 1 .. n
        PROVE  1 \in 1 .. n + 1 /\ i + 1 \in 1 .. n + 1 /\ 1 < i + 1
    BY <1>1
  <2>3. ASSUME NEW i \in 1 .. n
        PROVE  s[1] < t[i]
    BY <1>2, <2>1, <2>2
  <2>4. ASSUME NEW i \in 1 .. n, NEW j \in 1 .. n, i < j
        PROVE  t[i] < t[j]
    <3>1. i + 1 \in 1 .. n + 1 /\ j + 1 \in 1 .. n + 1 /\ i + 1 < j + 1
      BY <1>1, <2>4
    <3> QED BY <1>2, <2>1, <3>1
  <2>5. Ordered(t)
    BY <1>1, <2>4, OrderedDef DEF n
  <2>6. \A e \in ToSet(t) : Head(s) < e
    BY <1>1, <1>4, <2>3
  <2>7. ~(Head(s) < Head(s))
    BY <1>1
  <2> QED BY <2>5, <2>6, <2>7 DEF Before
<1> QED BY <1>1, <1>6, <1>7 DEF t


--------------------------------------------------------------------------------
(* The steps *)

LEMMA RoomMade ==
  ASSUME TelemetryAssumption, TelemetryIInv
  PROVE  /\ MakeRoom[1] \in Seq(Nat) /\ Ordered(MakeRoom[1])
         /\ ToSet(MakeRoom[1]) \cup MakeRoom[2] = InQueue \cup overflowed
         /\ ToSet(MakeRoom[1]) \cap (MakeRoom[2] \cup refused) = {}
         /\ (OnDisk \cup InBatch) \cap MakeRoom[2] = {}
         /\ ToSet(MakeRoom[1]) \subseteq InQueue
         /\ Before(MakeRoom[2], ToSet(MakeRoom[1]))
<1> USE DEF TelemetryIInv, QueueTypes, Sorted, Accounted
<1>1. CASE Len(queue) >= MaxQueue
  <2>1. queue # << >> /\ queue \in Seq(Nat)
    BY <1>1 DEF TelemetryAssumption
  <2>2. MakeRoom[1] = Tail(queue) /\ MakeRoom[2] = overflowed \cup {Head(queue)}
    BY <1>1 DEF MakeRoom
  <2>3. /\ Tail(queue) \in Seq(Nat) /\ Head(queue) \in Nat
        /\ InQueue = {Head(queue)} \cup ToSet(Tail(queue))
        /\ Ordered(Tail(queue)) /\ Before({Head(queue)}, ToSet(Tail(queue)))
        /\ Head(queue) \notin ToSet(Tail(queue))
    BY <2>1, Shifted DEF InQueue
  <2>4. Head(queue) \notin OnDisk \cup InBatch
    <3>1. ~(Head(queue) < Head(queue))
      BY <2>3
    <3> QED BY <2>3, <3>1 DEF Before
  <2> QED BY <2>2, <2>3, <2>4 DEF Before
<1>2. CASE ~(Len(queue) >= MaxQueue)
  <2>1. MakeRoom[1] = queue /\ MakeRoom[2] = overflowed
    BY <1>2 DEF MakeRoom
  <2> QED BY <2>1 DEF InQueue
<1> QED BY <1>1, <1>2

\* emit(): the new event comes after all others.
LEMMA EmitKeeps ==
  ASSUME TelemetryAssumption, TelemetryIInv, Emit
  PROVE  TelemetryIInv'
<1> DEFINE room == MakeRoom[1]
           over == MakeRoom[2]
           e == emitted + 1
<1>1. /\ room \in Seq(Nat) /\ Ordered(room)
      /\ ToSet(room) \cup over = InQueue \cup overflowed
      /\ ToSet(room) \cap (over \cup refused) = {}
      /\ (OnDisk \cup InBatch) \cap over = {}
      /\ ToSet(room) \subseteq InQueue /\ Before(over, ToSet(room))
  BY RoomMade
<1>2. /\ emitted' = e /\ queue' = Append(room, e) /\ overflowed' = over
      /\ written' = written /\ refused' = refused
  BY DEF Emit
<1>3. /\ flushing'.batch = flushing.batch
      /\ flushing' \in [at : {"none", "opening", "inserting"}, batch : Seq(Nat)]
      /\ flushing'.at # "inserting" => flushing'.batch = << >>
  <2>1. CASE flushing.at # "none"
    BY <2>1 DEF Emit, StartFlush, TelemetryIInv, QueueTypes
  <2>2. CASE flushing.at = "none"
    <3>1. flushing' = [NoFlush EXCEPT !.at = "opening"] /\ flushing.batch = << >>
      BY <2>2 DEF Emit, StartFlush, TelemetryIInv, QueueTypes
    <3> QED BY <3>1, Nothing DEF NoFlush
  <2> QED BY <2>1, <2>2
<1> HIDE DEF room, over
<1>4. OnDisk \cup InBatch \cup InQueue \cup overflowed \cup refused = 1 .. emitted
  BY DEF TelemetryIInv, Accounted
<1>5. emitted \in Nat /\ e \in Nat /\ 1 .. e = (1 .. emitted) \cup {e} /\ e \notin 1 .. emitted
      /\ \A x \in 1 .. emitted : x < e
  BY DEF TelemetryIInv, QueueTypes
<1> HIDE DEF e
<1>6. /\ OnDisk' = OnDisk /\ InBatch' = InBatch
      /\ queue' \in Seq(Nat) /\ InQueue' = ToSet(room) \cup {e}
  BY <1>1, <1>2, <1>3, <1>5, Appended DEF OnDisk, InBatch, InQueue
<1>7. Ordered(queue')
  <2>1. Before(ToSet(room), {e})
    BY <1>1, <1>4, <1>5 DEF Before
  <2> QED BY <1>1, <1>2, <1>5, <2>1, Appended
<1>8. QueueTypes'
  BY <1>2, <1>3, <1>5, <1>6 DEF QueueTypes, TelemetryIInv
<1>9. Sorted'
  <2>1. Ordered(written') /\ Ordered(flushing'.batch)
    BY <1>2, <1>3 DEF TelemetryIInv, Sorted
  <2>2. Before(OnDisk', InBatch')
    BY <1>6 DEF TelemetryIInv, Sorted
  <2>3. Before(OnDisk', InQueue') /\ Before(InBatch', InQueue')
    BY <1>1, <1>4, <1>5, <1>6 DEF TelemetryIInv, Sorted, Before
  <2>4. Before(overflowed', InQueue')
    BY <1>1, <1>2, <1>4, <1>5, <1>6 DEF Before
  <2> QED BY <1>7, <2>1, <2>2, <2>3, <2>4 DEF Sorted
<1>10. Accounted'
  <2>1. (OnDisk \cup InBatch) \cap refused = {}
    BY DEF TelemetryIInv, Accounted
  <2> QED BY <1>1, <1>2, <1>4, <1>5, <1>6, <2>1 DEF Accounted
<1> QED BY <1>8, <1>9, <1>10 DEF TelemetryIInv

\* No event moves.
EventsStay ==
  /\ UNCHANGED <<queue, emitted, written, overflowed, refused>>
  /\ flushing'.batch = flushing.batch
  /\ flushing' \in [at : {"none", "opening", "inserting"}, batch : Seq(Nat)]
  /\ flushing'.at # "inserting" => flushing'.batch = << >>

LEMMA StayKeeps ==
  ASSUME TelemetryIInv, EventsStay
  PROVE  TelemetryIInv'
<1>1. OnDisk' = OnDisk /\ InBatch' = InBatch /\ InQueue' = InQueue
  BY DEF EventsStay, OnDisk, InBatch, InQueue
<1>2. QueueTypes'
  BY DEF EventsStay, TelemetryIInv, QueueTypes
<1>3. Sorted'
  BY <1>1 DEF EventsStay, TelemetryIInv, Sorted
<1>4. Accounted'
  BY <1>1 DEF EventsStay, TelemetryIInv, Accounted
<1> QED BY <1>2, <1>3, <1>4 DEF TelemetryIInv

\* open() has resolved: the batch is the whole queue, or refused with it.
LEMMA OpenedKeeps ==
  ASSUME TelemetryIInv, FlushOpened \/ FlushUnopened
  PROVE  TelemetryIInv'
<1>1. flushing.at = "opening" /\ flushing.batch = << >> /\ InBatch = {}
  BY Nothing DEF FlushOpened, FlushUnopened, TelemetryIInv, QueueTypes, InBatch
<1>2. /\ queue' = << >> /\ queue' \in Seq(Nat) /\ Ordered(queue') /\ InQueue' = {}
      /\ UNCHANGED <<written, emitted, overflowed>> /\ OnDisk' = OnDisk
  BY Nothing DEF FlushOpened, FlushUnopened, TakeBatch, InQueue, OnDisk
<1>3. CASE FlushOpened
  <2>1. /\ flushing' = [at |-> "inserting", batch |-> queue] /\ refused' = refused
        /\ InBatch' = InQueue
    BY <1>3 DEF FlushOpened, TakeBatch, InBatch, InQueue
  <2>2. QueueTypes'
    BY <1>2, <2>1 DEF TelemetryIInv, QueueTypes
  <2>3. Sorted'
    BY <1>2, <2>1 DEF TelemetryIInv, Sorted, Before
  <2>4. Accounted'
    BY <1>1, <1>2, <2>1 DEF TelemetryIInv, Accounted
  <2> QED BY <2>2, <2>3, <2>4 DEF TelemetryIInv
<1>4. CASE FlushUnopened
  <2>1. /\ flushing' = NoFlush /\ refused' = refused \cup InQueue
        /\ flushing'.batch = << >> /\ InBatch' = {} /\ Ordered(flushing'.batch)
    BY <1>4, Nothing DEF FlushUnopened, InBatch, InQueue, NoFlush
  <2>2. QueueTypes'
    BY <1>2, <2>1, Nothing DEF TelemetryIInv, QueueTypes, NoFlush
  <2>3. Sorted'
    BY <1>2, <2>1 DEF TelemetryIInv, Sorted, Before
  <2>4. OnDisk \cap InQueue = {}
    <3>1. InQueue \subseteq Nat
      BY ToSetDef DEF InQueue, TelemetryIInv, QueueTypes
    <3>2. \A x \in Nat : ~(x < x)
      OBVIOUS
    <3> QED BY <3>1, <3>2 DEF TelemetryIInv, Sorted, Before
  <2>5. Accounted'
    BY <1>1, <1>2, <2>1, <2>4 DEF TelemetryIInv, Accounted
  <2> QED BY <2>2, <2>3, <2>5 DEF TelemetryIInv
<1> QED BY <1>3, <1>4

\* insertEvents: the batch comes after what is written, or is refused.
LEMMA InsertedKeeps ==
  ASSUME TelemetryIInv, Inserted \/ NotInserted
  PROVE  TelemetryIInv'
<1>1. /\ flushing' = NoFlush /\ flushing'.batch = << >> /\ flushing'.at = "none"
      /\ InBatch' = {} /\ Ordered(flushing'.batch) /\ flushing'.batch \in Seq(Nat)
      /\ UNCHANGED <<queue, emitted, overflowed>> /\ InQueue' = InQueue
  <2>1. flushing' = NoFlush /\ UNCHANGED <<queue, emitted, overflowed>>
    BY DEF Inserted, NotInserted
  <2>2. flushing'.batch = << >> /\ flushing'.at = "none"
    BY <2>1 DEF NoFlush
  <2> QED BY <2>1, <2>2, Nothing DEF InBatch, InQueue
<1>2. flushing' \in [at : {"none", "opening", "inserting"}, batch : Seq(Nat)]
  BY <1>1 DEF NoFlush
<1>3. flushing.batch \in Seq(Nat) /\ written \in Seq(Nat)
  BY DEF TelemetryIInv, QueueTypes
<1>4. CASE Inserted
  <2>1. written' = written \o flushing.batch /\ refused' = refused
    BY <1>4 DEF Inserted
  <2>2. Ordered(written) /\ Ordered(flushing.batch) /\ Before(OnDisk, InBatch)
    BY DEF TelemetryIInv, Sorted
  <2>3. /\ written' \in Seq(Nat) /\ OnDisk' = OnDisk \cup InBatch /\ Ordered(written')
    BY <1>3, <2>1, <2>2, Joined DEF OnDisk, InBatch
  <2>4. QueueTypes'
    BY <1>1, <1>2, <2>3 DEF TelemetryIInv, QueueTypes
  <2>5. Sorted'
    BY <1>1, <2>3 DEF TelemetryIInv, Sorted, Before
  <2>6. Accounted'
    BY <1>1, <2>1, <2>3 DEF TelemetryIInv, Accounted
  <2> QED BY <2>4, <2>5, <2>6 DEF TelemetryIInv
<1>5. CASE NotInserted
  <2>1. /\ written' = written /\ refused' = refused \cup InBatch /\ OnDisk' = OnDisk
    BY <1>5 DEF NotInserted, InBatch, OnDisk
  <2>2. QueueTypes'
    BY <1>1, <1>2, <2>1 DEF TelemetryIInv, QueueTypes
  <2>3. Sorted'
    BY <1>1, <2>1 DEF TelemetryIInv, Sorted, Before
  <2>4. InBatch \cap (OnDisk \cup InQueue) = {}
    <3>1. InBatch \subseteq Nat
      BY <1>3, ToSetDef DEF InBatch
    <3>2. \A x \in Nat : ~(x < x)
      OBVIOUS
    <3> QED BY <3>1, <3>2 DEF TelemetryIInv, Sorted, Before
  <2>5. Accounted'
    BY <1>1, <2>1, <2>4 DEF TelemetryIInv, Accounted
  <2> QED BY <2>2, <2>3, <2>5 DEF TelemetryIInv
<1> QED BY <1>4, <1>5

LEMMA TelemetryStep ==
  ASSUME TelemetryAssumption, TelemetryIInv, [TelemetryNext]_telemetryVars
  PROVE  TelemetryIInv'
<1>1. CASE UNCHANGED telemetryVars
  BY <1>1, StayKeeps DEF telemetryVars, EventsStay, TelemetryIInv, QueueTypes
<1>2. CASE Emit
  BY <1>2, EmitKeeps
<1>3. CASE Query
  BY <1>3, StayKeeps DEF Query, EventsStay, TelemetryIInv, QueueTypes
<1>4. CASE FlushOpened \/ FlushUnopened
  BY <1>4, OpenedKeeps
<1>5. CASE FlushFails
  <2>1. flushing.batch = << >> /\ flushing' = NoFlush /\ << >> \in Seq(Nat)
    BY <1>5, Nothing DEF FlushFails, TelemetryIInv, QueueTypes
  <2> QED BY <1>5, <2>1, StayKeeps DEF FlushFails, NoFlush, EventsStay
<1>6. CASE Inserted \/ NotInserted
  BY <1>6, InsertedKeeps
<1>7. CASE CloseCall
  BY <1>7, StayKeeps DEF CloseCall, EventsStay, TelemetryIInv, QueueTypes
<1>8. CASE FlushLoop
  <2>1. flushing.at = "none" /\ flushing.batch = << >> /\ << >> \in Seq(Nat)
    BY <1>8, Nothing DEF FlushLoop, TelemetryIInv, QueueTypes
  <2>2. flushing' = [NoFlush EXCEPT !.at = "opening"]
    BY <1>8, <2>1 DEF FlushLoop, StartFlush
  <2> QED BY <1>8, <2>1, <2>2, StayKeeps DEF FlushLoop, NoFlush, EventsStay
<1>9. CASE ProviderClose \/ DbClose \/ DbClosed \/ ForgetOpen
  BY <1>9, StayKeeps
     DEF ProviderClose, DbClose, DbClosed, ForgetOpen, EventsStay, TelemetryIInv, QueueTypes
<1> QED BY <1>1, <1>2, <1>3, <1>4, <1>5, <1>6, <1>7, <1>8, <1>9
        DEF TelemetryNext, FlushStep, CloserStep

LEMMA TelemetryStart == TelemetryInit => TelemetryIInv
<1> SUFFICES ASSUME TelemetryInit PROVE TelemetryIInv
  OBVIOUS
<1>1. flushing.batch = << >> /\ flushing.at = "none" /\ OnDisk = {} /\ InBatch = {} /\ InQueue = {}
  BY Nothing DEF TelemetryInit, NoFlush, OnDisk, InBatch, InQueue
<1>2. QueueTypes
  BY <1>1, Nothing DEF TelemetryInit, QueueTypes, NoFlush
<1>3. Sorted
  BY <1>1, Nothing DEF TelemetryInit, Sorted, Before
<1>4. Accounted
  <2>1. 1 .. 0 = {}
    OBVIOUS
  <2> QED BY <1>1, <2>1 DEF TelemetryInit, Accounted
<1> QED BY <1>2, <1>3, <1>4 DEF TelemetryIInv

LEMMA TelemetryInductive == TelemetrySpec => []TelemetryIInv
<1>1. TelemetryInit => TelemetryIInv
  BY TelemetryStart
<1>2. TelemetryIInv /\ [TelemetryNext]_telemetryVars => TelemetryIInv'
  BY TelemetryAssumption, TelemetryStep
<1> QED BY <1>1, <1>2, PTL DEF TelemetrySpec

LEMMA KeptInOrder == ASSUME TelemetryIInv PROVE TelemetryInOrder
<1> USE DEF TelemetryIInv, QueueTypes, Sorted, Accounted
<1> DEFINE sent == written \o flushing.batch
<1>1. sent \in Seq(Nat) /\ ToSet(sent) = OnDisk \cup InBatch /\ Ordered(sent)
  BY Joined DEF OnDisk, InBatch
<1> HIDE DEF sent
<1>2. Before(ToSet(sent), InQueue)
  BY <1>1 DEF Before
<1>3. ToSet(sent \o queue) = ToSet(sent) \cup InQueue /\ Ordered(sent \o queue)
  BY <1>1, <1>2, Joined DEF InQueue
<1>4. Kept = sent \o queue
  BY DEF Kept, sent
<1>5. \A i, j \in DOMAIN Kept : i < j => Kept[i] < Kept[j]
  BY <1>3, <1>4 DEF Ordered
<1>6. ToSet(Kept) = OnDisk \cup InBatch \cup InQueue
  BY <1>1, <1>3, <1>4
<1>7. \A x \in overflowed, q \in ToSet(queue) : x < q
  BY DEF Before, InQueue
<1> QED BY <1>5, <1>6, <1>7 DEF TelemetryInOrder

\* For a queue of any length: events are written, on their way and queued in the order
\* of emission and once, and the others were dropped because the queue was full (each
\* older than all in it) or with their batch.
THEOREM TelemetryKeepsOrder == TelemetrySpec => []TelemetryInOrder
<1>1. TelemetryIInv => TelemetryInOrder
  BY KeptInOrder
<1> QED BY <1>1, TelemetryInductive, PTL

--------------------------------------------------------------------------------
(* EmbeddingCache *)

CacheSpec == CacheInit /\ [][CacheNext]_cacheVars

CacheEntry == [key : CacheKey, made : Nat, dated : Nat]

Stamps == UNION {[ks -> Nat] : ks \in SUBSET CacheKey}
Rows == UNION {[ks -> [made : Nat, dated : Nat]] : ks \in SUBSET CacheKey}

CacheTypes ==
  /\ l1 \in Seq(CacheEntry) /\ pendingSets \in Stamps /\ pendingTouches \subseteq CacheKey
  /\ persistScheduled \in BOOLEAN /\ stored \in Rows
  /\ stmts \in Nat /\ conn \in Nat /\ opened \in Nat
  /\ embedders \in [Embedder -> [at : {"idle", "asked", "done"}, want : SUBSET CacheKey]]
  /\ \A c \in Embedder : embedders[c].at = "asked" => embedders[c].want # {}
  /\ now \in Nat /\ served \in Nat /\ dropped \subseteq CacheKey

\* A map: a key has one entry.
KeysOnce(s) == \A i, j \in DOMAIN s : s[i].key = s[j].key => i = j

\* An entry in memory counts as new for a time to live longer than it is.
EntryAge(e) == e.made <= now /\ e.dated <= now /\ e.dated <= e.made + Ttl

Aged(s) == \A i \in DOMAIN s : EntryAge(s[i])

RowAge(r) == r.dated <= r.made /\ r.made <= now

RowsAged(t) == \A k \in DOMAIN t : RowAge(t[k])

\* A vector in memory has one of these keys, or went with a file.
OnTheWay(s, keys) == \A i \in DOMAIN s : s[i].key \in keys \cup dropped

\* Pending writes are of this tick.
PendingAge ==
  /\ DOMAIN pendingSets # {} => persistScheduled
  /\ \A k \in DOMAIN pendingSets : pendingSets[k] = now

CacheInv ==
  /\ CacheTypes /\ PendingAge
  /\ KeysOnce(l1) /\ Aged(l1) /\ OnTheWay(l1, DOMAIN pendingSets \cup DOMAIN stored)
  /\ RowsAged(stored) /\ served <= 2 * Ttl

--------------------------------------------------------------------------------
(* The map of L1 *)

IsMap(s) == s \in Seq(CacheEntry) /\ KeysOnce(s)

LEMMA DeletedDef ==
  ASSUME NEW s, IsMap(s), NEW k
  PROVE  /\ IsMap(Deleted(s, k))
         /\ \A j \in DOMAIN Deleted(s, k) :
              Deleted(s, k)[j].key # k /\ \E i \in DOMAIN s : Deleted(s, k)[j] = s[i]
<1>1. /\ s \in Seq(CacheEntry) /\ DOMAIN s = 1 .. Len(s) /\ Len(s) \in Nat
      /\ \A i, j \in DOMAIN s : s[i].key = s[j].key => i = j
  BY DEF IsMap, KeysOnce
<1>2. CASE ~ \E i \in DOMAIN s : s[i].key = k
  BY <1>2 DEF Deleted, IsMap
<1>3. CASE \E i \in DOMAIN s : s[i].key = k
  <2> DEFINE i == CHOOSE x \in DOMAIN s : s[x].key = k
             a == SubSeq(s, 1, i - 1)
             b == SubSeq(s, i + 1, Len(s))
             d == Deleted(s, k)
  <2>1. i \in 1 .. Len(s) /\ s[i].key = k /\ d = a \o b
    BY <1>1, <1>3 DEF Deleted, RemoveAt
  <2>0. i \in Nat /\ Len(s) \in Nat /\ 1 <= i /\ i <= Len(s)
    BY <1>1, <2>1
  <2> HIDE DEF i, d
  <2>2. /\ a \in Seq(CacheEntry) /\ Len(a) = i - 1
        /\ \A x \in 1 .. i - 1 : a[x] = s[x]
    BY <1>1, <2>1, SubSeqProperties
  <2>3. /\ b \in Seq(CacheEntry) /\ Len(b) = Len(s) - i
        /\ \A x \in 1 .. Len(s) - i : b[x] = s[i + x]
    <3>1. i + 1 \in Int /\ Len(s) \in Int /\ \A y \in i + 1 .. Len(s) : s[y] \in CacheEntry
      BY <1>1, <2>1
    <3>2. /\ b \in Seq(CacheEntry)
          /\ Len(b) = IF i + 1 <= Len(s) THEN Len(s) - (i + 1) + 1 ELSE 0
          /\ \A x \in 1 .. Len(s) - (i + 1) + 1 : b[x] = s[(i + 1) + x - 1]
      BY <3>1, SubSeqProperties
    <3>3. \A x \in 1 .. Len(s) - i : (i + 1) + x - 1 = i + x /\ x \in 1 .. Len(s) - (i + 1) + 1
      BY <1>1, <2>1
    <3>4. \A x \in 1 .. Len(s) - i : b[x] = s[i + x]
      BY <3>2, <3>3
    <3>5. Len(b) = Len(s) - i
      BY <2>0, <3>2
    <3> QED BY <3>2, <3>4, <3>5
  <2> HIDE DEF a, b
  <2>4. /\ d \in Seq(CacheEntry) /\ Len(d) = Len(s) - 1 /\ DOMAIN d = 1 .. Len(s) - 1
        /\ \A x \in 1 .. Len(s) - 1 : d[x] = IF x < i THEN s[x] ELSE s[x + 1]
    <3>1. /\ d \in Seq(CacheEntry) /\ Len(d) = Len(a) + Len(b)
          /\ \A x \in 1 .. Len(a) + Len(b) :
               d[x] = IF x <= Len(a) THEN a[x] ELSE b[x - Len(a)]
      BY <2>1, <2>2, <2>3, ConcatProperties
    <3>2. Len(a) + Len(b) = Len(s) - 1
      BY <2>0, <2>2, <2>3
    <3>3. \A x \in 1 .. Len(s) - 1 : x < i => d[x] = s[x]
      <4>1. SUFFICES ASSUME NEW x \in 1 .. Len(s) - 1, x < i PROVE d[x] = s[x]
        OBVIOUS
      <4>2. x <= Len(a) /\ x \in 1 .. Len(a) + Len(b) /\ x \in 1 .. i - 1
        BY <2>0, <2>2, <3>2, <4>1
      <4> QED BY <2>2, <3>1, <4>2
    <3>4. \A x \in 1 .. Len(s) - 1 : ~(x < i) => d[x] = s[x + 1]
      <4>1. SUFFICES ASSUME NEW x \in 1 .. Len(s) - 1, ~(x < i) PROVE d[x] = s[x + 1]
        OBVIOUS
      <4>2. /\ x - Len(a) \in 1 .. Len(s) - i /\ i + (x - Len(a)) = x + 1
            /\ ~(x <= Len(a)) /\ x \in 1 .. Len(a) + Len(b)
        BY <2>0, <2>2, <3>2, <4>1
      <4>3. d[x] = b[x - Len(a)] /\ b[x - Len(a)] = s[i + (x - Len(a))]
        BY <2>3, <3>1, <4>2
      <4> QED BY <4>2, <4>3
    <3>5. DOMAIN d = 1 .. Len(s) - 1
      BY <3>1, <3>2
    <3> QED BY <3>1, <3>2, <3>3, <3>4, <3>5
  <2>5. \A x \in DOMAIN d : \E y \in DOMAIN s : /\ y = IF x < i THEN x ELSE x + 1
                                                /\ d[x] = s[y] /\ y # i
    <3>1. SUFFICES ASSUME NEW x \in DOMAIN d
                   PROVE  LET y == IF x < i THEN x ELSE x + 1
                          IN  y \in DOMAIN s /\ d[x] = s[y] /\ y # i
      OBVIOUS
    <3>2. x \in 1 .. Len(s) - 1 /\ DOMAIN s = 1 .. Len(s)
      BY <1>1, <2>4
    <3> QED BY <2>0, <2>4, <3>2
  <2>6. KeysOnce(d)
    <3>1. SUFFICES ASSUME NEW x \in DOMAIN d, NEW z \in DOMAIN d, d[x].key = d[z].key
                   PROVE  x = z
      BY DEF KeysOnce
    <3>2. (IF x < i THEN x ELSE x + 1) = (IF z < i THEN z ELSE z + 1)
      BY <1>1, <2>5, <3>1
    <3>3. x \in 1 .. Len(s) - 1 /\ z \in 1 .. Len(s) - 1 /\ i \in Nat /\ Len(s) \in Nat
      BY <2>0, <2>4, <3>1
    <3> QED BY <3>2, <3>3
  <2>7. \A x \in DOMAIN d : d[x].key # k
    BY <1>1, <2>1, <2>5
  <2> QED BY <2>4, <2>5, <2>6, <2>7 DEF IsMap, d
<1> QED BY <1>2, <1>3

\* An entry set at the end of the order of use.
LEMMA SetDef ==
  ASSUME NEW s, IsMap(s), NEW e \in CacheEntry
  PROVE  LET t == Append(Deleted(s, e.key), e)
         IN  /\ IsMap(t)
             /\ \A j \in DOMAIN t : t[j] = e \/ \E i \in DOMAIN s : t[j] = s[i]
<1> DEFINE d == Deleted(s, e.key)
           t == Append(d, e)
<1>1. /\ d \in Seq(CacheEntry) /\ Len(d) \in Nat /\ DOMAIN d = 1 .. Len(d) /\ KeysOnce(d)
      /\ \A j \in DOMAIN d : d[j].key # e.key /\ \E i \in DOMAIN s : d[j] = s[i]
  BY DeletedDef DEF IsMap
<1> HIDE DEF d
<1>2. /\ t \in Seq(CacheEntry) /\ DOMAIN t = 1 .. Len(d) + 1
      /\ \A j \in 1 .. Len(d) : t[j] = d[j]
      /\ t[Len(d) + 1] = e
  BY <1>1, AppendProperties
<1> HIDE DEF t
<1>3. KeysOnce(t)
  BY <1>1, <1>2 DEF KeysOnce
<1>4. \A j \in DOMAIN t : t[j] = e \/ \E i \in DOMAIN s : t[j] = s[i]
  BY <1>1, <1>2
<1> QED BY <1>2, <1>3, <1>4 DEF IsMap, t, d

LEMMA EvictDef ==
  ASSUME CacheAssumption, NEW s, IsMap(s)
  PROVE  /\ IsMap(EvictIfNeeded(s))
         /\ \A j \in DOMAIN EvictIfNeeded(s) : \E i \in DOMAIN s : EvictIfNeeded(s)[j] = s[i]
<1>1. CASE Len(s) > MaxEntries
  <2> DEFINE n == Len(s) - MaxEntries
             t == SubSeq(s, n + 1, Len(s))
  <2>1. s \in Seq(CacheEntry) /\ n \in Nat /\ n <= Len(s) /\ Len(s) \in Nat /\ DOMAIN s = 1 .. Len(s)
    BY <1>1 DEF IsMap, CacheAssumption
  <2>2. EvictIfNeeded(s) = t
    BY <1>1 DEF EvictIfNeeded
  <2> HIDE DEF n
  <2>3. /\ t \in Seq(CacheEntry) /\ DOMAIN t = 1 .. Len(s) - n
        /\ \A x \in 1 .. Len(s) - n : t[x] = s[n + x]
    BY <2>1, SubSeqProperties
  <2> HIDE DEF t
  <2>4. KeysOnce(t)
    <3>1. SUFFICES ASSUME NEW x \in DOMAIN t, NEW y \in DOMAIN t, t[x].key = t[y].key
                   PROVE  x = y
      BY DEF KeysOnce
    <3>2. n + x \in DOMAIN s /\ n + y \in DOMAIN s /\ s[n + x].key = s[n + y].key
      BY <2>1, <2>3, <3>1
    <3>3. n + x = n + y
      BY <3>2 DEF IsMap, KeysOnce
    <3> QED BY <2>1, <2>3, <3>3
  <2>5. \A x \in DOMAIN t : n + x \in DOMAIN s /\ t[x] = s[n + x]
    BY <2>1, <2>3
  <2> QED BY <2>2, <2>3, <2>4, <2>5 DEF IsMap
<1>2. CASE ~(Len(s) > MaxEntries)
  BY <1>2 DEF EvictIfNeeded
<1> QED BY <1>1, <1>2

--------------------------------------------------------------------------------
(* A lookup *)

\* The parts of the invariant for a state of the store in the course of a lookup.
Maps == Seq(CacheEntry)

StoreState ==
  [l1 : Maps, sets : Stamps, touches : SUBSET CacheKey, stored : Rows,
   stmts : Nat, served : Nat, hit : SUBSET CacheKey]

GoodStore(q) ==
  /\ q \in StoreState /\ q.sets = pendingSets
  /\ KeysOnce(q.l1) /\ Aged(q.l1) /\ RowsAged(q.stored)
  /\ OnTheWay(q.l1, DOMAIN q.sets \cup DOMAIN q.stored)
  /\ q.served <= 2 * Ttl

Surrounded == now \in Nat /\ conn \in Nat /\ PendingAge

LEMMA OldestDef ==
  ASSUME CacheAssumption, Surrounded, NEW a \in Nat, a <= 2 * Ttl, NEW m \in Nat, m <= now,
         now <= m + 2 * Ttl
  PROVE  Oldest(a, m) \in Nat /\ Oldest(a, m) <= 2 * Ttl
BY DEF Oldest, CacheAssumption, Surrounded

LEMMA FromL1Good ==
  ASSUME CacheAssumption, Surrounded, NEW q, GoodStore(q), NEW i \in DOMAIN q.l1,
         ~Expired(q.l1[i].dated)
  PROVE  GoodStore(FromL1(q, q.l1[i]))
<1> DEFINE e == q.l1[i]
           t == Append(Deleted(q.l1, e.key), e)
<1>1. q \in StoreState /\ IsMap(q.l1) /\ e \in CacheEntry /\ EntryAge(e)
      /\ q.l1 \in Seq(CacheEntry) /\ q.hit \subseteq CacheKey /\ q.served \in Nat
  <2>1. q \in StoreState /\ q.l1 \in Seq(CacheEntry) /\ q.hit \subseteq CacheKey /\ q.served \in Nat
    BY DEF GoodStore, StoreState, Maps
  <2>2. e \in CacheEntry
    BY <2>1, ElementOfSeq
  <2> QED BY <2>1, <2>2 DEF GoodStore, IsMap, Aged
<1>2. IsMap(t) /\ \A j \in DOMAIN t : t[j] = e \/ \E k \in DOMAIN q.l1 : t[j] = q.l1[k]
  BY <1>1, SetDef
<1>3. /\ e.key \in CacheKey /\ e.made \in Nat /\ e.dated \in Nat
      /\ e.made <= now /\ now <= e.made + 2 * Ttl
  BY <1>1 DEF CacheEntry, EntryAge, Expired, Surrounded, CacheAssumption
<1>4. Oldest(q.served, e.made) \in Nat /\ Oldest(q.served, e.made) <= 2 * Ttl
  BY <1>1, <1>3, OldestDef DEF GoodStore
<1>5. FromL1(q, e) = [q EXCEPT !.l1 = t, !.served = Oldest(q.served, e.made),
                               !.hit = q.hit \cup {e.key}]
  BY <1>1 DEF FromL1, StoreState
<1> HIDE DEF t
<1>6. /\ FromL1(q, e) \in StoreState /\ FromL1(q, e).l1 = t
      /\ FromL1(q, e).served = Oldest(q.served, e.made)
      /\ FromL1(q, e).sets = q.sets /\ FromL1(q, e).stored = q.stored
  <2>1. t \in Maps /\ q.hit \cup {e.key} \in SUBSET CacheKey
    BY <1>1, <1>2, <1>3 DEF IsMap, Maps
  <2> QED BY <1>1, <1>4, <1>5, <2>1 DEF StoreState
<1>7. Aged(t) /\ OnTheWay(t, DOMAIN q.sets \cup DOMAIN q.stored)
  BY <1>2 DEF GoodStore, Aged, OnTheWay
<1> QED BY <1>2, <1>4, <1>6, <1>7 DEF GoodStore, IsMap

\* An entry made at some time and dated now.
LEMMA L1SetGood ==
  ASSUME CacheAssumption, Surrounded, NEW s, IsMap(s), Aged(s), NEW keys, OnTheWay(s, keys),
         NEW k \in CacheKey, k \in keys, NEW m \in Nat, m <= now, now <= m + Ttl
  PROVE  LET t == L1Set(s, k, m) IN IsMap(t) /\ Aged(t) /\ OnTheWay(t, keys)
<1> DEFINE e == [key |-> k, made |-> m, dated |-> now]
           t == L1Set(s, k, m)
<1>1. e \in CacheEntry /\ e.key = k /\ e.made = m /\ e.dated = now /\ EntryAge(e)
  BY DEF CacheEntry, Surrounded, EntryAge
<1>2. t = Append(Deleted(s, e.key), e)
  BY DEF L1Set
<1> HIDE DEF e, t
<1>3. IsMap(t) /\ \A j \in DOMAIN t : t[j] = e \/ \E i \in DOMAIN s : t[j] = s[i]
  BY <1>1, <1>2, SetDef
<1>4. Aged(t) /\ OnTheWay(t, keys)
  BY <1>1, <1>3 DEF Aged, OnTheWay
<1> QED BY <1>3, <1>4 DEF t

LEMMA FromPendingGood ==
  ASSUME CacheAssumption, Surrounded, NEW q, GoodStore(q), NEW k \in DOMAIN q.sets
  PROVE  GoodStore(FromPending(q, k))
<1> DEFINE t == L1Set(q.l1, k, q.sets[k])
<1>1. /\ q \in StoreState /\ IsMap(q.l1) /\ q.hit \subseteq CacheKey /\ q.served \in Nat
      /\ k \in CacheKey /\ q.sets[k] = now
  BY DEF GoodStore, StoreState, IsMap, Maps, Stamps, Surrounded, PendingAge
<1>2. now \in Nat /\ Ttl \in Nat /\ now <= now + Ttl /\ now <= now + 2 * Ttl /\ now <= now
  BY DEF Surrounded, CacheAssumption
<1>3. IsMap(t) /\ Aged(t) /\ OnTheWay(t, DOMAIN q.sets \cup DOMAIN q.stored)
  BY <1>1, <1>2, L1SetGood DEF GoodStore
<1>4. Oldest(q.served, now) \in Nat /\ Oldest(q.served, now) <= 2 * Ttl
  BY <1>1, <1>2, OldestDef DEF GoodStore
<1>5. FromPending(q, k) = [q EXCEPT !.l1 = t, !.served = Oldest(q.served, now),
                                    !.hit = q.hit \cup {k}]
  BY <1>1 DEF FromPending, StoreState
<1> HIDE DEF t
<1>6. /\ FromPending(q, k) \in StoreState /\ FromPending(q, k).l1 = t
      /\ FromPending(q, k).served = Oldest(q.served, now)
      /\ FromPending(q, k).sets = q.sets /\ FromPending(q, k).stored = q.stored
  <2>1. /\ t \in Maps /\ q.hit \cup {k} \in SUBSET CacheKey
        /\ q.touches \cup {k} \in SUBSET CacheKey
    BY <1>1, <1>3 DEF StoreState, IsMap, Maps
  <2> QED BY <1>1, <1>4, <1>5, <2>1 DEF StoreState
<1> QED BY <1>3, <1>4, <1>6 DEF GoodStore, IsMap

LEMMA FromTableGood ==
  ASSUME CacheAssumption, Surrounded, NEW q, GoodStore(q), NEW k \in DOMAIN q.stored,
         ~Expired(q.stored[k].dated)
  PROVE  GoodStore(FromTable(q, k))
<1> DEFINE m == q.stored[k].made
           t == L1Set(q.l1, k, m)
<1>1. /\ q \in StoreState /\ IsMap(q.l1) /\ q.hit \subseteq CacheKey /\ q.served \in Nat
      /\ k \in CacheKey /\ q.touches \subseteq CacheKey
      /\ q.stored[k].made \in Nat /\ q.stored[k].dated \in Nat
  BY DEF GoodStore, StoreState, IsMap, Maps, Rows
<1>2. m \in Nat /\ m <= now /\ now <= m + Ttl /\ now <= m + 2 * Ttl
  BY <1>1 DEF GoodStore, RowsAged, RowAge, Expired, Surrounded, CacheAssumption
<1>3. IsMap(t) /\ Aged(t) /\ OnTheWay(t, DOMAIN q.sets \cup DOMAIN q.stored)
  BY <1>1, <1>2, L1SetGood DEF GoodStore
<1>4. Oldest(q.served, m) \in Nat /\ Oldest(q.served, m) <= 2 * Ttl
  BY <1>1, <1>2, OldestDef DEF GoodStore
<1>5. FromTable(q, k) = [q EXCEPT !.l1 = t, !.touches = q.touches \cup {k},
                                  !.served = Oldest(q.served, m), !.hit = q.hit \cup {k}]
  BY <1>1 DEF FromTable, StoreState
<1> HIDE DEF t, m
<1>6. /\ FromTable(q, k) \in StoreState /\ FromTable(q, k).l1 = t
      /\ FromTable(q, k).served = Oldest(q.served, m)
      /\ FromTable(q, k).sets = q.sets /\ FromTable(q, k).stored = q.stored
  <2>1. /\ t \in Maps /\ q.hit \cup {k} \in SUBSET CacheKey
        /\ q.touches \cup {k} \in SUBSET CacheKey
    BY <1>1, <1>3 DEF StoreState, IsMap, Maps
  <2> QED BY <1>1, <1>4, <1>5, <2>1 DEF StoreState
<1> QED BY <1>3, <1>4, <1>6 DEF GoodStore, IsMap

\* A row that has expired goes, and its key is in memory no more.
LEMMA FewerGood ==
  ASSUME NEW q, GoodStore(q), NEW k, \A i \in DOMAIN q.l1 : q.l1[i].key # k
  PROVE  GoodStore([q EXCEPT !.stored = Fewer(q.stored, {k})])
<1> DEFINE t == Fewer(q.stored, {k})
           p == [q EXCEPT !.stored = t]
<1>1. PICK ks \in SUBSET CacheKey : q.stored \in [ks -> [made : Nat, dated : Nat]]
  BY DEF GoodStore, StoreState, Rows
<1>2. /\ DOMAIN t = DOMAIN q.stored \ {k}
      /\ \A j \in DOMAIN t : t[j] = q.stored[j]
      /\ t \in [ks \ {k} -> [made : Nat, dated : Nat]]
  BY <1>1 DEF Fewer, Restrict
<1>3. t \in Rows
  BY <1>2 DEF Rows
<1> HIDE DEF t
<1>4. p \in StoreState /\ p.l1 = q.l1 /\ p.sets = q.sets /\ p.stored = t /\ p.served = q.served
  BY <1>3 DEF GoodStore, StoreState
<1>5. OnTheWay(q.l1, DOMAIN q.sets \cup DOMAIN t)
  BY <1>2 DEF GoodStore, OnTheWay
<1>6. RowsAged(t)
  BY <1>2 DEF GoodStore, RowsAged
<1> QED BY <1>4, <1>5, <1>6 DEF GoodStore, t

LEMMA ColdReadGood ==
  ASSUME CacheAssumption, Surrounded, NEW q, GoodStore(q), NEW k,
         \A i \in DOMAIN q.l1 : q.l1[i].key # k
  PROVE  GoodStore(ColdRead(q, k))
<1> DEFINE p == [q EXCEPT !.stmts = conn]
<1>1. /\ p \in StoreState /\ p.l1 = q.l1 /\ p.sets = q.sets /\ p.stored = q.stored
      /\ p.served = q.served
  BY DEF GoodStore, StoreState, Surrounded
<1> HIDE DEF p
<1>2. GoodStore(p)
  BY <1>1 DEF GoodStore
<1>3. GoodStore([p EXCEPT !.stored = Fewer(q.stored, {k})])
  BY <1>1, <1>2, FewerGood
<1>4. k \in DOMAIN q.stored /\ ~Expired(q.stored[k].dated) => GoodStore(FromTable(p, k))
  BY <1>1, <1>2, FromTableGood
<1> QED BY <1>2, <1>3, <1>4 DEF ColdRead, p

LEMMA GetOneGood ==
  ASSUME CacheAssumption, Surrounded, NEW q, GoodStore(q), NEW k
  PROVE  GoodStore(GetOne(q, k))
<1> DEFINE live == {e \in Range(q.l1) : e.key = k /\ ~Expired(e.dated)}
           p == [q EXCEPT !.l1 = Deleted(q.l1, k)]
<1>1. CASE live # {}
  <2>1. PICK e \in live : e = CHOOSE x \in live : TRUE
    BY <1>1
  <2>2. PICK i \in DOMAIN q.l1 : e = q.l1[i]
    BY <2>1 DEF Range
  <2>3. GoodStore(FromL1(q, e))
    BY <2>1, <2>2, FromL1Good
  <2> QED BY <1>1, <2>1, <2>3 DEF GetOne
<1>2. CASE live = {}
  <2>1. q \in StoreState /\ IsMap(q.l1)
    BY DEF GoodStore, StoreState, IsMap, Maps
  <2>2. /\ IsMap(Deleted(q.l1, k))
        /\ \A j \in DOMAIN Deleted(q.l1, k) :
             Deleted(q.l1, k)[j].key # k /\ \E i \in DOMAIN q.l1 : Deleted(q.l1, k)[j] = q.l1[i]
    BY <2>1, DeletedDef
  <2>3. /\ p \in StoreState /\ p.l1 = Deleted(q.l1, k) /\ p.sets = q.sets
        /\ p.stored = q.stored /\ p.served = q.served
    BY <2>1, <2>2 DEF StoreState, IsMap, Maps
  <2> HIDE DEF p
  <2>4. GoodStore(p)
    BY <2>2, <2>3 DEF GoodStore, Aged, OnTheWay, IsMap
  <2>5. k \in DOMAIN p.sets => GoodStore(FromPending(p, k))
    BY <2>4, FromPendingGood
  <2>6. GoodStore(ColdRead(p, k))
    BY <2>2, <2>3, <2>4, ColdReadGood
  <2> QED BY <1>2, <2>5, <2>6 DEF GetOne, p
<1> QED BY <1>1, <1>2

LEMMA GetAllGood ==
  ASSUME CacheAssumption, CacheInv, NEW ks
  PROVE  GoodStore(GetAll(ks))
<1>1. GoodStore(Store)
  <2>1. Store \in StoreState
    BY DEF CacheInv, CacheTypes, Store, StoreState, Maps
  <2>2. /\ Store.l1 = l1 /\ Store.sets = pendingSets /\ Store.stored = stored
        /\ Store.served = served
    BY DEF Store
  <2> QED BY <2>1, <2>2 DEF GoodStore, CacheInv
<1>2. Surrounded
  BY DEF CacheInv, CacheTypes, Surrounded
<1>3. GoodStore(GetOne(Store, ks[1])) /\ GoodStore(GetOne(GetOne(Store, ks[1]), ks[2]))
  BY <1>1, <1>2, GetOneGood
<1> QED BY <1>3 DEF GetAll

--------------------------------------------------------------------------------
(* Every step keeps the invariant. *)

LEMMA LookupKeeps ==
  ASSUME CacheAssumption, CacheInv, NEW c \in Embedder, Lookup(c)
  PROVE  CacheInv'
<1>1. PICK ks \in Batches :
        LET q == GetAll(ks)
            misses == Range(ks) \ q.hit
        IN  /\ l1' = q.l1 /\ pendingTouches' = q.touches /\ stored' = q.stored
            /\ stmts' = q.stmts /\ served' = q.served
            /\ embedders' = [embedders EXCEPT ![c] = IF misses = {} THEN Returned
                                                    ELSE [at |-> "asked", want |-> misses]]
            /\ persistScheduled' = (\/ persistScheduled
                                    \/ /\ q.touches # pendingTouches
                                       /\ Cardinality(q.touches) >= TouchThreshold)
  BY DEF Lookup
<1> DEFINE q == GetAll(ks)
           misses == Range(ks) \ q.hit
<1>2. GoodStore(q)
  BY GetAllGood
<1>3. /\ l1' = q.l1 /\ pendingTouches' = q.touches /\ stored' = q.stored
      /\ stmts' = q.stmts /\ served' = q.served
      /\ persistScheduled => persistScheduled'
      /\ persistScheduled' \in BOOLEAN
  BY <1>1 DEF CacheInv, CacheTypes
<1>4. /\ pendingSets' = pendingSets /\ conn' = conn /\ opened' = opened /\ now' = now
      /\ dropped' = dropped
  BY DEF Lookup
<1>5. misses \subseteq CacheKey
  <2>1. CASE ks \in {<<k>> : k \in CacheKey}
    BY <2>1 DEF Range
  <2>2. CASE ks \in CacheKey \X CacheKey
    BY <2>2 DEF Range
  <2> QED BY <2>1, <2>2 DEF Batches
<1>6. embedders' = [embedders EXCEPT ![c] = IF misses = {} THEN Returned
                                           ELSE [at |-> "asked", want |-> misses]]
  BY <1>1
<1> HIDE DEF misses, q
<1>7. /\ embedders' \in [Embedder -> [at : {"idle", "asked", "done"}, want : SUBSET CacheKey]]
      /\ \A d \in Embedder : embedders'[d].at = "asked" => embedders'[d].want # {}
  BY <1>5, <1>6 DEF CacheInv, CacheTypes, Returned
<1>8. /\ q.l1 \in Seq(CacheEntry) /\ q.touches \subseteq CacheKey /\ q.stored \in Rows
      /\ q.stmts \in Nat /\ q.served \in Nat
  BY <1>2 DEF GoodStore, StoreState, Maps
<1>9. CacheTypes'
  BY <1>3, <1>4, <1>7, <1>8 DEF CacheInv, CacheTypes
<1>10. PendingAge'
  BY <1>3, <1>4 DEF CacheInv, PendingAge
<1>11. /\ KeysOnce(q.l1) /\ Aged(q.l1)
       /\ OnTheWay(q.l1, DOMAIN pendingSets \cup DOMAIN q.stored)
       /\ RowsAged(q.stored) /\ q.served <= 2 * Ttl
  BY <1>2 DEF GoodStore
<1>12. KeysOnce(l1)' /\ Aged(l1)' /\ RowsAged(stored)' /\ served' <= 2 * Ttl
  BY <1>3, <1>4, <1>11 DEF KeysOnce, Aged, RowsAged, EntryAge, RowAge
<1>13. OnTheWay(l1, DOMAIN pendingSets \cup DOMAIN stored)'
  BY <1>3, <1>4, <1>11 DEF OnTheWay
<1> QED BY <1>9, <1>10, <1>12, <1>13 DEF CacheInv

LEMMA AnswerKeeps ==
  ASSUME CacheAssumption, CacheInv, NEW c \in Embedder, Answer(c)
  PROVE  CacheInv'
<1> DEFINE ks == embedders[c].want
           keys == DOMAIN pendingSets \cup ks \cup DOMAIN stored
<1>1. /\ l1' = EvictIfNeeded(SetAll(l1, ks))
      /\ pendingSets' = [k \in DOMAIN pendingSets \cup ks |->
                           IF k \in ks THEN now ELSE pendingSets[k]]
      /\ pendingTouches' = pendingTouches \ ks /\ dropped' = dropped \ ks
      /\ persistScheduled' = TRUE /\ embedders' = [embedders EXCEPT ![c] = Returned]
      /\ UNCHANGED <<stored, stmts, conn, opened, storageTx, now, served>>
  BY DEF Answer
<1>2. ks \subseteq CacheKey /\ ks # {} /\ Surrounded /\ now \in Nat /\ Ttl \in Nat
  BY DEF CacheInv, CacheTypes, Answer, Surrounded, CacheAssumption
<1> HIDE DEF ks
<1>3. IsMap(l1) /\ Aged(l1) /\ OnTheWay(l1, keys)
  BY DEF CacheInv, CacheTypes, IsMap, OnTheWay
<1>4. \A k \in ks : \A s : IsMap(s) /\ Aged(s) /\ OnTheWay(s, keys) =>
        IsMap(L1Set(s, k, now)) /\ Aged(L1Set(s, k, now)) /\ OnTheWay(L1Set(s, k, now), keys)
  <2>1. SUFFICES ASSUME NEW k \in ks, NEW s, IsMap(s), Aged(s), OnTheWay(s, keys)
                 PROVE  /\ IsMap(L1Set(s, k, now)) /\ Aged(L1Set(s, k, now))
                        /\ OnTheWay(L1Set(s, k, now), keys)
    OBVIOUS
  <2>2. k \in CacheKey /\ k \in keys /\ now <= now /\ now <= now + Ttl
    BY <1>2
  <2> QED BY <1>2, <2>1, <2>2, L1SetGood
<1> DEFINE t == SetAll(l1, ks)
<1>5. IsMap(t) /\ Aged(t) /\ OnTheWay(t, keys)
  <2> DEFINE one == L1Set(l1, AnyOf(ks), now)
             more == ks \ {AnyOf(ks)}
  <2>1. AnyOf(ks) \in ks /\ (more # {} => AnyOf(more) \in ks)
    BY <1>2 DEF AnyOf
  <2>2. IsMap(one) /\ Aged(one) /\ OnTheWay(one, keys)
    BY <1>3, <1>4, <2>1
  <2> HIDE DEF one
  <2>3. more # {} => /\ IsMap(L1Set(one, AnyOf(more), now)) /\ Aged(L1Set(one, AnyOf(more), now))
                     /\ OnTheWay(L1Set(one, AnyOf(more), now), keys)
    BY <1>4, <2>1, <2>2
  <2> QED BY <2>2, <2>3 DEF SetAll, one
<1> HIDE DEF t
<1>6. IsMap(l1') /\ Aged(l1') /\ OnTheWay(l1', keys)
  BY <1>1, <1>5, EvictDef DEF Aged, OnTheWay, t
<1>7. DOMAIN pendingSets' = DOMAIN pendingSets \cup ks
  BY <1>1
<1>8. pendingSets' \in Stamps
  <2>1. PICK ps \in SUBSET CacheKey : pendingSets \in [ps -> Nat]
    BY DEF CacheInv, CacheTypes, Stamps
  <2>2. pendingSets' \in [ps \cup ks -> Nat] /\ ps \cup ks \in SUBSET CacheKey
    BY <1>1, <1>2, <2>1
  <2> QED BY <2>2 DEF Stamps
<1>9. CacheTypes'
  <2>1. /\ embedders' \in [Embedder -> [at : {"idle", "asked", "done"}, want : SUBSET CacheKey]]
        /\ \A d \in Embedder : embedders'[d].at = "asked" => embedders'[d].want # {}
    BY <1>1 DEF CacheInv, CacheTypes, Returned
  <2> QED BY <1>1, <1>6, <1>8, <2>1 DEF CacheInv, CacheTypes, IsMap
<1>10. PendingAge'
  BY <1>1, <1>7 DEF CacheInv, PendingAge
<1>11. KeysOnce(l1)' /\ Aged(l1)' /\ RowsAged(stored)' /\ served' <= 2 * Ttl
  BY <1>1, <1>6 DEF CacheInv, KeysOnce, Aged, RowsAged, EntryAge, RowAge, IsMap
<1>12. OnTheWay(l1, DOMAIN pendingSets \cup DOMAIN stored)'
  BY <1>1, <1>6, <1>7 DEF OnTheWay
<1> QED BY <1>9, <1>10, <1>11, <1>12 DEF CacheInv

\* A step that only adds keys to those that are safe.
LEMMA QuietKeeps ==
  ASSUME CacheInv, CacheTypes', PendingAge', l1' = l1, now' = now, served' = served,
         RowsAged(stored)',
         DOMAIN pendingSets \cup DOMAIN stored \cup dropped
           \subseteq (DOMAIN pendingSets \cup DOMAIN stored \cup dropped)'
  PROVE  CacheInv'
<1>1. KeysOnce(l1)' /\ Aged(l1)' /\ served' <= 2 * Ttl
  BY DEF CacheInv, KeysOnce, Aged, EntryAge
<1>2. OnTheWay(l1, DOMAIN pendingSets \cup DOMAIN stored)'
  BY DEF CacheInv, OnTheWay
<1> QED BY <1>1, <1>2 DEF CacheInv

LEMMA NoKeys == << >> \in Stamps /\ << >> \in Rows /\ DOMAIN << >> = {}
<1>1. << >> \in [{} -> Nat] /\ << >> \in [{} -> [made : Nat, dated : Nat]] /\ DOMAIN << >> = {}
  OBVIOUS
<1> QED BY <1>1 DEF Stamps, Rows

LEMMA FlushKeeps ==
  ASSUME CacheAssumption, CacheInv, Flush
  PROVE  CacheInv'
<1>1. /\ stored' = Upsert(stored, pendingSets) /\ pendingSets' = << >> /\ pendingTouches' = {}
      /\ stmts' = conn /\ persistScheduled' = FALSE
      /\ UNCHANGED <<l1, conn, opened, storageTx, embedders, now, served, dropped>>
  BY DEF Flush
<1>2. PICK ps \in SUBSET CacheKey : pendingSets \in [ps -> Nat]
  BY DEF CacheInv, CacheTypes, Stamps
<1>3. PICK ss \in SUBSET CacheKey : stored \in [ss -> [made : Nat, dated : Nat]]
  BY DEF CacheInv, CacheTypes, Rows
<1>4. /\ DOMAIN stored' = ps \cup ss
      /\ \A k \in ps \cup ss : stored'[k] =
           IF k \notin ps THEN stored[k]
           ELSE [made |-> pendingSets[k],
                 dated |-> IF k \in ss THEN stored[k].dated ELSE pendingSets[k]]
      /\ stored' = [k \in ps \cup ss |-> stored'[k]]
  BY <1>1, <1>2, <1>3 DEF Upsert
<1>5. stored' \in Rows
  <2>1. ASSUME NEW k \in ps \cup ss PROVE stored'[k] \in [made : Nat, dated : Nat]
    <3>1. k \in ss => stored[k] \in [made : Nat, dated : Nat]
      BY <1>3
    <3>2. k \in ps => pendingSets[k] \in Nat
      BY <1>2
    <3>3. CASE k \notin ps
      BY <1>4, <2>1, <3>1, <3>3
    <3>4. CASE k \in ps
      <4>1. (IF k \in ss THEN stored[k].dated ELSE pendingSets[k]) \in Nat
        BY <3>1, <3>2, <3>4
      <4>2. stored'[k] = [made |-> pendingSets[k],
                          dated |-> IF k \in ss THEN stored[k].dated ELSE pendingSets[k]]
        BY <1>4, <3>4
      <4> QED BY <3>2, <3>4, <4>1, <4>2
    <3> QED BY <3>3, <3>4
  <2>2. stored' \in [ps \cup ss -> [made : Nat, dated : Nat]] /\ ps \cup ss \in SUBSET CacheKey
    BY <1>4, <2>1
  <2> QED BY <2>2 DEF Rows
<1>6. CacheTypes'
  BY <1>1, <1>5, NoKeys DEF CacheInv, CacheTypes
<1>7. PendingAge'
  BY <1>1, NoKeys DEF PendingAge
<1>8. RowsAged(stored)'
  <2>1. SUFFICES ASSUME NEW k \in ps \cup ss PROVE RowAge(stored[k])'
    BY <1>4 DEF RowsAged
  <2>2. CASE k \notin ps
    BY <1>1, <1>3, <1>4, <2>2 DEF CacheInv, RowsAged, RowAge
  <2>3. CASE k \in ps
    <3>1. pendingSets[k] = now /\ now \in Nat
      BY <1>2, <2>3 DEF CacheInv, PendingAge, CacheTypes
    <3>2. k \in ss => stored[k].dated <= now
      <4>1. k \in ss => RowAge(stored[k]) /\ stored[k] \in [made : Nat, dated : Nat]
        BY <1>3 DEF CacheInv, RowsAged
      <4> QED BY <3>1, <4>1 DEF RowAge
    <3>3. /\ stored'[k].made = now
          /\ stored'[k].dated = IF k \in ss THEN stored[k].dated ELSE now
      <4>1. stored'[k] = [made |-> pendingSets[k],
                          dated |-> IF k \in ss THEN stored[k].dated ELSE pendingSets[k]]
        BY <1>4, <2>3
      <4>2. stored'[k].made = pendingSets[k]
        BY <4>1
      <4>3. stored'[k].dated = IF k \in ss THEN stored[k].dated ELSE pendingSets[k]
        BY <4>1
      <4> QED BY <3>1, <4>2, <4>3
    <3>4. now <= now /\ now' = now
      BY <1>1, <3>1
    <3> QED BY <3>2, <3>3, <3>4 DEF RowAge
  <2> QED BY <2>2, <2>3
<1> QED BY <1>1, <1>2, <1>3, <1>4, <1>6, <1>7, <1>8, QuietKeeps

LEMMA CacheStep ==
  ASSUME CacheAssumption, CacheInv, [CacheNext]_cacheVars
  PROVE  CacheInv'
<1> USE DEF CacheInv, CacheTypes, PendingAge
<1>1. ASSUME NEW c \in Embedder, Refuse(c) PROVE CacheInv'
  <2>1. CacheTypes'
    BY <1>1 DEF Refuse, Returned
  <2>2. PendingAge' /\ RowsAged(stored)'
    BY <1>1 DEF Refuse, RowsAged, RowAge
  <2> QED BY <1>1, <2>1, <2>2, QuietKeeps DEF Refuse
<1>2. CASE FlushNothing
  <2>1. CacheTypes' /\ PendingAge'
    <3>1. PICK ps \in SUBSET CacheKey : pendingSets \in [ps -> Nat]
      BY DEF Stamps
    <3> QED BY <1>2, <3>1, NoKeys DEF FlushNothing
  <2>2. RowsAged(stored)'
    BY <1>2 DEF FlushNothing, RowsAged, RowAge
  <2> QED BY <1>2, <2>1, <2>2, QuietKeeps DEF FlushNothing
<1>3. CASE FlushBusy
  BY <1>3, QuietKeeps DEF FlushBusy, RowsAged, RowAge
<1>4. CASE FlushStale
  BY <1>4, QuietKeeps DEF FlushStale, RowsAged, RowAge
<1>5. CASE \E kind \in {"insert", "compress", "foreign"} : TxBegin(kind)
  BY <1>5, QuietKeeps DEF TxBegin, RowsAged, RowAge
<1>6. CASE TxEnd
  BY <1>6, QuietKeeps DEF TxEnd, RowsAged, RowAge
<1>7. CASE Close
  <2>1. PICK ss \in SUBSET CacheKey : stored \in [ss -> [made : Nat, dated : Nat]]
    BY DEF Rows
  <2>2. CacheTypes' /\ PendingAge'
    BY <1>7, <2>1, NoKeys DEF Close
  <2>3. RowsAged(stored)'
    BY <1>7, NoKeys DEF Close, RowsAged
  <2> QED BY <1>7, <2>2, <2>3, QuietKeeps DEF Close
<1>8. CASE Open
  BY <1>8, QuietKeeps DEF Open, RowsAged, RowAge
<1>9. CASE Restart
  <2>1. CacheTypes'
    <3>1. /\ embedders' \in [Embedder -> [at : {"idle", "asked", "done"}, want : SUBSET CacheKey]]
          /\ \A c \in Embedder : embedders'[c].at = "asked" => embedders'[c].want # {}
      <4>1. Returned \in [at : {"idle", "asked", "done"}, want : SUBSET CacheKey]
        BY DEF Returned
      <4>2. Returned.at = "done"
        BY DEF Returned
      <4>3. embedders' = [c \in Embedder |-> IF embedders[c].at = "asked" THEN Returned
                                             ELSE embedders[c]]
        BY <1>9 DEF Restart
      <4> QED BY <4>1, <4>2, <4>3
    <3>2. << >> \in Seq(CacheEntry) /\ {} \subseteq CacheKey
      OBVIOUS
    <3>3. stmts' \in Nat /\ conn' \in Nat /\ opened' \in Nat /\ now' \in Nat /\ served' \in Nat
      BY <1>9 DEF Restart
    <3>4. /\ l1' \in Seq(CacheEntry) /\ pendingSets' \in Stamps /\ pendingTouches' \subseteq CacheKey
          /\ persistScheduled' \in BOOLEAN /\ stored' \in Rows /\ dropped' \subseteq CacheKey
      BY <1>9, <3>2, NoKeys DEF Restart
    <3> QED BY <3>1, <3>3, <3>4
  <2>2. PendingAge' /\ KeysOnce(l1)' /\ Aged(l1)'
        /\ OnTheWay(l1, DOMAIN pendingSets \cup DOMAIN stored)'
    BY <1>9, NoKeys DEF Restart, KeysOnce, Aged, OnTheWay
  <2>3. RowsAged(stored)' /\ served' <= 2 * Ttl
    BY <1>9 DEF Restart, RowsAged, RowAge
  <2> QED BY <2>1, <2>2, <2>3
<1>10. CASE Tick
  <2>1. CacheTypes'
    BY <1>10 DEF Tick
  <2>2. PendingAge'
    BY <1>10 DEF Tick, Callback
  <2>3. Aged(l1)'
    <3>1. \A i \in DOMAIN l1 : l1[i] \in CacheEntry
      BY ElementOfSeq
    <3> QED BY <1>10, <3>1 DEF Tick, Aged, EntryAge, CacheEntry
  <2>4. RowsAged(stored)'
    <3>1. PICK ss \in SUBSET CacheKey : stored \in [ss -> [made : Nat, dated : Nat]]
      BY DEF Rows
    <3> QED BY <1>10, <3>1 DEF Tick, RowsAged, RowAge
  <2>5. KeysOnce(l1)' /\ served' <= 2 * Ttl
        /\ OnTheWay(l1, DOMAIN pendingSets \cup DOMAIN stored)'
    BY <1>10 DEF Tick, KeysOnce, OnTheWay
  <2> QED BY <2>1, <2>2, <2>3, <2>4, <2>5
<1>11. CASE UNCHANGED cacheVars
  BY <1>11, QuietKeeps DEF cacheVars, RowsAged, RowAge
<1> QED BY <1>1, <1>2, <1>3, <1>4, <1>5, <1>6, <1>7, <1>8, <1>9, <1>10, <1>11,
           LookupKeeps, AnswerKeeps, FlushKeeps DEF CacheNext, Persist

LEMMA CacheStart ==
  ASSUME CacheAssumption, CacheInit
  PROVE  CacheInv
<1>1. CacheTypes
  <2>1. /\ embedders \in [Embedder -> [at : {"idle", "asked", "done"}, want : SUBSET CacheKey]]
        /\ \A c \in Embedder : embedders[c].at = "asked" => embedders[c].want # {}
    BY DEF CacheInit
  <2>2. << >> \in Seq(CacheEntry) /\ {} \subseteq CacheKey
    OBVIOUS
  <2> QED BY <2>1, <2>2, NoKeys DEF CacheInit, CacheTypes
<1> QED BY <1>1, NoKeys DEF CacheInit, CacheInv, PendingAge, KeysOnce, Aged, OnTheWay,
                           RowsAged, CacheAssumption

LEMMA CacheInvariant == CacheSpec => []CacheInv
<1>1. CacheInit => CacheInv
  BY CacheAssumption, CacheStart
<1>2. CacheInv /\ [CacheNext]_cacheVars => CacheInv'
  BY CacheAssumption, CacheStep
<1> QED BY <1>1, <1>2, PTL DEF CacheSpec

\* Whatever is looked up, computed, evicted, written behind, reopened and restarted,
\* and in whatever order: no vector is served that is older than twice its time to
\* live, though every copy to memory dates it anew.
THEOREM CachedVectorsAge == CacheSpec => []AgeBound
<1>1. CacheInv => AgeBound
  BY DEF CacheInv, AgeBound
<1> QED BY <1>1, CacheInvariant, PTL

\* The write-behind loses no vector that is in memory: its row is in the table, or
\* pending, or went with a connection that was closed.
THEOREM NothingIsForgotten == CacheSpec => []WrittenOrOnTheWay
<1>1. CacheInv => WrittenOrOnTheWay
  BY DEF CacheInv, OnTheWay, WrittenOrOnTheWay, InL1
<1> QED BY <1>1, CacheInvariant, PTL

--------------------------------------------------------------------------------
(* HttpRetry *)

HttpSpec == HttpInit /\ [][HttpNext]_httpVars

Longest == Max(HttpDelays \cup {HttpTimeout})

Requests ==
  [at : {"idle", "fetch", "body", "delay", "ok", "failed", "cancelled"},
   attempt : Nat, elapsed : Nat, timer : Nat]

\* What is left of the timer cannot take a request past its bound, and a delay is
\* only begun with a retry left.
Timed ==
  /\ request.elapsed + request.timer < HttpDeadline + Longest
  /\ request.attempt <= MaxHttpRetries
  /\ request.at = "delay" => request.attempt < MaxHttpRetries

HttpIInv == request \in Requests /\ Timed /\ ~defiant

--------------------------------------------------------------------------------

LEMMA LongestExists ==
  /\ Longest \in Nat
  /\ HttpTimeout <= Longest
  /\ \A delay \in HttpDelays : delay <= Longest
<1> DEFINE S == HttpDelays \cup {HttpTimeout}
<1>1. S \subseteq Nat
  BY HttpAssumption
<1>2. \E m \in S : \A x \in S : m >= x
  <2>1. PICK longest \in HttpDelays : \A delay \in HttpDelays : delay <= longest
    BY HttpAssumption
  <2>2. longest \in Nat /\ HttpTimeout \in Nat
    BY <2>1, HttpAssumption
  <2>3. CASE longest >= HttpTimeout
    <3>1. \A x \in S : longest >= x
      BY <2>1, <2>3, HttpAssumption
    <3> QED BY <3>1
  <2>4. CASE HttpTimeout > longest
    <3>1. \A x \in S : HttpTimeout >= x
      BY <2>1, <2>2, <2>4, HttpAssumption
    <3> QED BY <3>1
  <2> QED BY <2>2, <2>3, <2>4
<1>3. Longest \in S /\ \A x \in S : Longest >= x
  BY <1>2 DEF Longest, Max
<1> QED BY <1>1, <1>3

\* Sending an attempt within the deadline, the signal not being set.
LEMMA SendsKeeps ==
  ASSUME HttpIInv, NEW attempt \in 0 .. MaxHttpRetries, NEW elapsed \in Nat,
         elapsed < HttpDeadline, ~Cancelled, Sends(attempt, elapsed)
  PROVE  HttpIInv'
<1>1. /\ request' = [at |-> "fetch", attempt |-> attempt, elapsed |-> elapsed,
                     timer |-> HttpTimeout]
      /\ ~defiant'
  BY DEF Sends, HttpIInv
<1>2. elapsed + HttpTimeout < HttpDeadline + Longest /\ attempt \in Nat
  BY LongestExists, HttpAssumption
<1>3. Timed'
  BY <1>1, <1>2, HttpAssumption DEF Timed, Longest
<1>4. request' \in Requests
  BY <1>1, <1>2, HttpAssumption DEF Requests
<1> QED BY <1>1, <1>3, <1>4 DEF HttpIInv

LEMMA OverKeeps ==
  ASSUME HttpIInv, NEW how \in {"ok", "failed", "cancelled"}, Over(how)
  PROVE  HttpIInv'
<1>1. request' = [request EXCEPT !.at = how] /\ ~defiant'
  BY DEF Over, HttpIInv
<1>2. request' \in Requests
  BY <1>1 DEF HttpIInv, Requests
<1>3. Timed'
  BY <1>1 DEF HttpIInv, Requests, Timed, Longest
<1> QED BY <1>1, <1>2, <1>3 DEF HttpIInv

LEMMA FirstAttemptKeeps ==
  ASSUME HttpIInv, FirstAttempt
  PROVE  HttpIInv'
<1>1. CASE Cancelled
  BY <1>1, OverKeeps DEF FirstAttempt
<1>2. CASE ~Cancelled
  <2>1. 0 \in 0 .. MaxHttpRetries /\ 0 \in Nat /\ 0 < HttpDeadline
    BY HttpAssumption
  <2> QED BY <1>2, <2>1, SendsKeeps DEF FirstAttempt
<1> QED BY <1>1, <1>2

LEMMA RateLimitedKeeps ==
  ASSUME HttpIInv, RateLimited
  PROVE  HttpIInv'
<1>1. CASE request.attempt >= MaxHttpRetries \/ request.elapsed >= HttpDeadline
  BY <1>1, OverKeeps DEF RateLimited
<1>2. CASE ~(request.attempt >= MaxHttpRetries \/ request.elapsed >= HttpDeadline)
  <2>1. PICK delay \in HttpDelays :
          request' = [request EXCEPT !.at = "delay", !.timer = delay]
    BY <1>2 DEF RateLimited
  <2>2. delay \in Nat /\ delay <= Longest /\ ~defiant'
    BY <1>2, LongestExists, HttpAssumption DEF RateLimited, HttpIInv
  <2>3. request.attempt < MaxHttpRetries /\ request.elapsed < HttpDeadline
    BY <1>2, HttpAssumption DEF HttpIInv, Requests
  <2>4. request' \in Requests
    BY <2>1, <2>2 DEF HttpIInv, Requests
  <2>5. /\ request'.elapsed = request.elapsed /\ request'.timer = delay
        /\ request'.attempt = request.attempt
    BY <2>1 DEF HttpIInv, Requests
  <2>6. request.elapsed + delay < HttpDeadline + Longest
    BY <2>2, <2>3, LongestExists, HttpAssumption DEF HttpIInv, Requests
  <2>7. Timed'
    BY <2>3, <2>5, <2>6, HttpAssumption DEF HttpIInv, Requests, Timed, Longest
  <2> QED BY <2>2, <2>4, <2>7 DEF HttpIInv
<1> QED BY <1>1, <1>2

LEMMA HttpRetriesKeeps ==
  ASSUME HttpIInv, HttpRetries
  PROVE  HttpIInv'
<1>1. CASE Cancelled
  BY <1>1, OverKeeps DEF HttpRetries
<1>2. CASE ~Cancelled /\ request.elapsed >= HttpDeadline
  BY <1>2, OverKeeps DEF HttpRetries
<1>3. CASE ~Cancelled /\ ~(request.elapsed >= HttpDeadline)
  <2>1. /\ request.attempt + 1 \in 0 .. MaxHttpRetries
        /\ request.elapsed \in Nat /\ request.elapsed < HttpDeadline
    BY <1>3, HttpAssumption DEF HttpRetries, HttpIInv, Requests, Timed
  <2> QED BY <1>3, <2>1, SendsKeeps DEF HttpRetries
<1> QED BY <1>1, <1>2, <1>3

LEMMA HttpTickKeeps ==
  ASSUME HttpIInv, HttpTick
  PROVE  HttpIInv'
<1>1. request' = [request EXCEPT !.timer = @ - 1, !.elapsed = @ + 1] /\ ~defiant'
  BY DEF HttpTick, HttpIInv
<1>2. request.timer \in Nat \ {0} /\ request.elapsed \in Nat
  BY DEF HttpTick, HttpIInv, Requests
<1>3. request' \in Requests
  <2>1. request.timer - 1 \in Nat /\ request.elapsed + 1 \in Nat
    BY <1>2
  <2> QED BY <1>1, <2>1, Zenon DEF HttpIInv, Requests
<1>4. /\ request'.elapsed + request'.timer = request.elapsed + request.timer
      /\ request'.attempt = request.attempt /\ request'.at = request.at
  BY <1>1, <1>2 DEF HttpIInv, Requests
<1>5. Timed'
  BY <1>4 DEF HttpIInv, Timed, Longest
<1> QED BY <1>1, <1>3, <1>5 DEF HttpIInv

LEMMA HttpStep ==
  ASSUME HttpIInv, [HttpNext]_httpVars
  PROVE  HttpIInv'
<1>1. CASE HttpStarts
  BY <1>1, FirstAttemptKeeps DEF HttpStarts
<1>2. CASE HttpHeaders
  <2>1. request' = [request EXCEPT !.at = "body"] /\ ~defiant'
    BY <1>2 DEF HttpHeaders, HttpIInv
  <2>2. request' \in Requests
    BY <2>1 DEF HttpIInv, Requests
  <2>3. Timed'
    BY <2>1 DEF HttpIInv, Requests, Timed, Longest
  <2> QED BY <2>1, <2>2, <2>3 DEF HttpIInv
<1>3. CASE HttpAnswer
  BY <1>3, FirstAttemptKeeps, OverKeeps DEF HttpAnswer
<1>4. CASE RateLimited
  BY <1>4, RateLimitedKeeps
<1>5. CASE HttpRetries
  BY <1>5, HttpRetriesKeeps
<1>6. CASE HttpFails
  BY <1>6, OverKeeps DEF HttpFails
<1>7. CASE HttpCancels
  BY <1>7, OverKeeps DEF HttpCancels
<1>8. CASE Abort
  BY <1>8 DEF Abort, HttpIInv, Timed, Longest
<1>9. CASE HttpTick
  BY <1>9, HttpTickKeeps
<1>10. CASE UNCHANGED httpVars
  BY <1>10 DEF httpVars, HttpIInv, Timed, Longest
<1> QED BY <1>1, <1>2, <1>3, <1>4, <1>5, <1>6, <1>7, <1>8, <1>9, <1>10 DEF HttpNext

\* RetriesAreBounded of the runs, for every configuration of request(): the deadline,
\* checked before an attempt and before a delay, bounds the whole request by one delay
\* or timeout more, maxRetries bounds its attempts, and none follows an abort.
THEOREM RetriesBounded == HttpSpec => []RetriesAreBounded
<1>1. HttpInit => HttpIInv
  <2> SUFFICES ASSUME HttpInit PROVE HttpIInv
    OBVIOUS
  <2>1. request = [at |-> "idle", attempt |-> 0, elapsed |-> 0, timer |-> 0] /\ ~defiant
    BY DEF HttpInit
  <2>2. Timed
    BY <2>1, LongestExists, HttpAssumption DEF Timed
  <2> QED BY <2>1, <2>2 DEF HttpIInv, Requests
<1>2. HttpIInv => RetriesAreBounded
  BY LongestExists, HttpAssumption DEF HttpIInv, Requests, Timed, RetriesAreBounded, Longest
<1> QED BY <1>1, <1>2, HttpStep, PTL DEF HttpSpec

================================================================================
