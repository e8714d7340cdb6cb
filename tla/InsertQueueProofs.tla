---------------------------- MODULE InsertQueueProofs --------------------------
(***************************************************************************)
(* Proofs about InsertQueue, for any number of calls and any thresholds:   *)
(* the types, and that the queue of rows is attended and loses none.  A    *)
(* flush answers the compress() whose summary it stores, so the queue, the *)
(* calls and the transaction lock share one inductive invariant, QueueInv. *)
(***************************************************************************)
EXTENDS InsertQueue, SequenceTheorems, TLAPS

Inserting == Writer \cup Compressor

Elems(s) == {s[k] : k \in 1 .. Len(s)}

Injective(s) == \A i, j \in 1 .. Len(s) : s[i] = s[j] => i = j

PC == {"idle", "queued", "lock", "tx", "insert", "archive", "release", "commit",
       "abort", "ok", "failed"}

\* TypeOK in the parts that the actions change together.
QueueTypeOK ==
  /\ queue \in Seq(Inserting) /\ scheduled \in BOOLEAN /\ immediates \in Seq(BOOLEAN)
  /\ flush \in [step : Step, ctx : BOOLEAN, batch : Seq(Inserting), single : BOOLEAN,
                name : Nat, bad : BOOLEAN]

CallTypeOK ==
  /\ lock \in Seq(Direct \cup Compressor \cup {"flush"})
  /\ pc \in [Client -> PC]

DbTypeOK ==
  /\ attempts \in 0 .. MaxRetries /\ busyLeft \in 0 .. MaxBusy
  /\ opened \in [Compressor -> Nat]
  /\ stack \in Seq([name : Nat, saved : SUBSET Fact])
  /\ spCounter \in Nat /\ rows \subseteq Fact /\ durable \subseteq Fact

\* A flush has a batch from the time it takes it to its last row.
Flushing == flush.step \in {"enter", "lock", "tx"}

Batched ==
  /\ Flushing <=> flush.batch # << >>
  /\ flush.step = "yield" => queue # << >>

\* The callback is pending while the flag says so.
FlagIsTrue == scheduled => immediates # << >>

\* Queue and batch hold no row twice.
Apart ==
  /\ Injective(queue) /\ Injective(flush.batch)
  /\ Elems(queue) \cap Elems(flush.batch) = {}

QueueOK == QueueTypeOK /\ Batched /\ FlagIsTrue /\ QueueIsAttended /\ Apart

InPlaces == Elems(queue) \cup Elems(flush.batch)

WaitsForRow == {i \in Client : pc[i] \in {"queued", "insert"}}

\* Who is inside a transaction of its own holds the lock.
Inside == {i \in Direct \cup Compressor :
             pc[i] \in {"queued", "tx", "insert", "archive", "release", "commit", "abort"}}

FlushInside == flush.step = "tx" /\ flush.name = 0

LockIsHeld ==
  /\ \A i \in Inside : Holds(i)
  /\ FlushInside => Holds("flush")

QueueInv ==
  /\ QueueOK /\ CallTypeOK
  /\ InPlaces = WaitsForRow
  /\ LockIsHeld

--------------------------------------------------------------------------------
(* Sequences *)

LEMMA ElemsOfEmpty == Elems(<< >>) = {} /\ Injective(<< >>)
BY DEF Elems, Injective

\* A call that is not in the queue is put at its end.
LEMMA Appended ==
  ASSUME NEW S, NEW q \in Seq(S), Injective(q), NEW x \in S, x \notin Elems(q)
  PROVE  /\ Append(q, x) \in Seq(S) /\ Append(q, x) # << >> /\ Injective(Append(q, x))
         /\ Elems(Append(q, x)) = Elems(q) \cup {x}
<1> DEFINE r == Append(q, x)
<1>1. /\ r \in Seq(S) /\ r # << >> /\ Len(r) = Len(q) + 1
      /\ \A i \in 1 .. Len(q) : r[i] = q[i]
      /\ r[Len(q) + 1] = x /\ Len(q) \in Nat
  BY AppendProperties, LenProperties
<1> HIDE DEF r
<1>2. Injective(r)
  BY <1>1 DEF Injective, Elems
<1>3. Elems(r) = Elems(q) \cup {x}
  <2>1. \A i \in 1 .. Len(r) : i \in 1 .. Len(q) \/ i = Len(q) + 1
    BY <1>1
  <2>2. \A i \in 1 .. Len(q) : i \in 1 .. Len(r)
    BY <1>1
  <2>3. Len(q) + 1 \in 1 .. Len(r)
    BY <1>1
  <2> QED BY <1>1, <2>1, <2>2, <2>3 DEF Elems
<1> QED BY <1>1, <1>2, <1>3 DEF r

\* Taking the first n of a queue parts it.
LEMMA Taken ==
  ASSUME NEW S, NEW q \in Seq(S), Injective(q), NEW n \in 1 .. Len(q)
  PROVE  LET a == SubSeq(q, 1, n)
             b == SubSeq(q, n + 1, Len(q))
         IN  /\ a \in Seq(S) /\ b \in Seq(S) /\ a # << >> /\ Injective(a) /\ Injective(b)
             /\ Elems(a) \cap Elems(b) = {} /\ Elems(a) \cup Elems(b) = Elems(q)
<1> DEFINE a == SubSeq(q, 1, n)
           b == SubSeq(q, n + 1, Len(q))
<1>1. Len(q) \in Nat /\ n \in Nat /\ n >= 1 /\ n <= Len(q)
  BY LenProperties
<1>2. \A i \in 1 .. Len(q) : q[i] \in S
  BY ElementOfSeq
<1>3. /\ a \in Seq(S) /\ Len(a) = n
      /\ \A i \in 1 .. n : a[i] = q[i]
  <2>1. \A i \in 1 .. n : q[i] \in S
    BY <1>1, <1>2
  <2>2. /\ a \in Seq(S) /\ Len(a) = n - 1 + 1
        /\ \A i \in 1 .. n - 1 + 1 : a[i] = q[1 + i - 1]
    BY <1>1, <2>1, SubSeqProperties
  <2>3. n - 1 + 1 = n /\ \A i \in 1 .. n : 1 + i - 1 = i
    BY <1>1
  <2> QED BY <2>2, <2>3
<1>4. /\ b \in Seq(S) /\ Len(b) = Len(q) - n
      /\ \A i \in 1 .. Len(q) - n : b[i] = q[n + i]
  <2>1. \A i \in n + 1 .. Len(q) : q[i] \in S
    BY <1>1, <1>2
  <2>2. /\ b \in Seq(S)
        /\ Len(b) = IF n + 1 <= Len(q) THEN Len(q) - (n + 1) + 1 ELSE 0
        /\ \A i \in 1 .. Len(q) - (n + 1) + 1 : b[i] = q[n + 1 + i - 1]
    BY <1>1, <2>1, SubSeqProperties
  <2>3. /\ Len(q) - (n + 1) + 1 = Len(q) - n
        /\ \A i \in 1 .. Len(q) - n : n + 1 + i - 1 = n + i
    BY <1>1
  <2>4. Len(b) = Len(q) - n
    BY <1>1, <2>2
  <2> QED BY <2>2, <2>3, <2>4
<1> HIDE DEF a, b
<1>5. a # << >>
  <2>1. Len(<< >>) = 0
    OBVIOUS
  <2>2. Len(a) # 0
    BY <1>1, <1>3
  <2> QED BY <2>1, <2>2, Zenon
<1>6. Injective(a) /\ Injective(b)
  <2>1. Injective(a)
    BY <1>1, <1>3 DEF Injective
  <2>2. ASSUME NEW i \in 1 .. Len(b), NEW j \in 1 .. Len(b), b[i] = b[j]
        PROVE  i = j
    <3>1. n + i \in 1 .. Len(q) /\ n + j \in 1 .. Len(q) /\ q[n + i] = q[n + j]
      BY <1>1, <1>4, <2>2
    <3>2. n + i = n + j
      BY <3>1 DEF Injective
    <3> QED BY <1>1, <3>2
  <2> QED BY <2>1, <2>2 DEF Injective
<1>7. Elems(a) \cap Elems(b) = {}
  <2>1. ASSUME NEW i \in 1 .. Len(a), NEW j \in 1 .. Len(b), a[i] = b[j]
        PROVE  FALSE
    <3>1. i \in 1 .. Len(q) /\ n + j \in 1 .. Len(q) /\ q[i] = q[n + j]
      BY <1>1, <1>3, <1>4, <2>1
    <3>2. i = n + j
      BY <3>1 DEF Injective
    <3> QED BY <1>1, <1>3, <1>4, <3>2
  <2> QED BY <2>1 DEF Elems
<1>8. Elems(a) \cup Elems(b) = Elems(q)
  <2>1. ASSUME NEW i \in 1 .. Len(q) PROVE q[i] \in Elems(a) \cup Elems(b)
    <3>1. CASE i <= n
      BY <1>1, <1>3, <3>1 DEF Elems
    <3>2. CASE i > n
      <4>1. i - n \in 1 .. Len(b) /\ b[i - n] = q[i]
        BY <1>1, <1>4, <3>2
      <4> QED BY <4>1 DEF Elems
    <3> QED BY <1>1, <3>1, <3>2
  <2>2. \A i \in 1 .. Len(a) : i \in 1 .. Len(q) /\ a[i] = q[i]
    BY <1>1, <1>3
  <2>3. \A i \in 1 .. Len(b) : n + i \in 1 .. Len(q) /\ b[i] = q[n + i]
    BY <1>1, <1>4
  <2>4. Elems(a) \subseteq Elems(q) /\ Elems(b) \subseteq Elems(q)
    BY <2>2, <2>3 DEF Elems
  <2>5. Elems(q) \subseteq Elems(a) \cup Elems(b)
    <3> SUFFICES ASSUME NEW x \in Elems(q) PROVE x \in Elems(a) \cup Elems(b)
      OBVIOUS
    <3>1. PICK i \in 1 .. Len(q) : x = q[i]
      BY DEF Elems
    <3> QED BY <2>1, <3>1
  <2> QED BY <2>4, <2>5
<1> QED BY <1>3, <1>4, <1>5, <1>6, <1>7, <1>8 DEF a, b

\* Taking the first one away.
LEMMA Shifted ==
  ASSUME NEW S, NEW q \in Seq(S), Injective(q), q # << >>
  PROVE  /\ Tail(q) \in Seq(S) /\ Injective(Tail(q)) /\ Head(q) \in S
         /\ Elems(Tail(q)) = Elems(q) \ {Head(q)} /\ Head(q) \in Elems(q)
<1>1. Len(q) \in Nat \ {0}
  BY EmptySeq
<1>2. /\ Tail(q) \in Seq(S) /\ Head(q) \in S /\ Len(Tail(q)) = Len(q) - 1
      /\ \A i \in 1 .. Len(Tail(q)) : Tail(q)[i] = q[i + 1]
  BY HeadTailProperties
<1>3. Head(q) = q[1] /\ 1 \in 1 .. Len(q)
  BY <1>1
<1>4. \A i \in 1 .. Len(Tail(q)) : i + 1 \in 1 .. Len(q) /\ i + 1 # 1
  BY <1>1, <1>2
<1>5. \A i \in 1 .. Len(q) : i # 1 => i - 1 \in 1 .. Len(Tail(q)) /\ (i - 1) + 1 = i
  BY <1>1, <1>2
<1>6. Injective(Tail(q))
  BY <1>1, <1>2 DEF Injective
<1>7. \A x \in Elems(Tail(q)) : x \in Elems(q) /\ x # Head(q)
  BY <1>2, <1>3, <1>4 DEF Elems, Injective
<1>8. \A x \in Elems(q) : x # Head(q) => x \in Elems(Tail(q))
  <2> SUFFICES ASSUME NEW i \in 1 .. Len(q), q[i] # Head(q)
               PROVE  q[i] \in Elems(Tail(q))
    BY DEF Elems
  <2>1. i # 1
    BY <1>3
  <2>2. i - 1 \in 1 .. Len(Tail(q)) /\ Tail(q)[i - 1] = q[i]
    BY <1>2, <1>5, <2>1
  <2> QED BY <2>2 DEF Elems
<1> QED BY <1>2, <1>3, <1>6, <1>7, <1>8 DEF Elems

--------------------------------------------------------------------------------
(* The queue and the flush *)

\* The first batch of a queue q that has rows.
LEMMA BatchSize ==
  ASSUME NEW q \in Seq(Inserting), q # << >>
  PROVE  (IF Len(q) < MaxBatch THEN Len(q) ELSE MaxBatch) \in 1 .. Len(q)
<1>1. Len(q) \in Nat \ {0}
  BY EmptySeq
<1> QED BY <1>1, QueueAssumption

\* flushInsertQueue() takes rows from the queue, and only a flush that starts has a batch.
LEMMA StartFlushTakes ==
  ASSUME QueueTypeOK, Batched, NEW q \in Seq(Inserting), NEW ctx \in BOOLEAN,
         Injective(q), Injective(flush.batch), Elems(q) \cap Elems(flush.batch) = {},
         flush.step = "yield" => q # << >>,
         StartFlush(ctx, q)
  PROVE  /\ queue' \in Seq(Inserting) /\ Batched' /\ Apart'
         /\ flush' \in [step : Step, ctx : BOOLEAN, batch : Seq(Inserting),
                        single : BOOLEAN, name : Nat, bad : BOOLEAN]
         /\ InPlaces' = Elems(q) \cup Elems(flush.batch)
         /\ FlushInside' => FlushInside
         /\ queue' # << >> => flush'.step # "idle"
<1>1. CASE flush.step # "idle" \/ q = << >>
  <2>1. queue' = q /\ flush' = flush
    BY <1>1 DEF StartFlush
  <2>2. QueueTypeOK /\ Batched'
    BY <1>1, <2>1 DEF Batched, Flushing
  <2>3. Apart'
    BY <2>1 DEF Apart
  <2>4. InPlaces' = Elems(q) \cup Elems(flush.batch)
    BY <2>1 DEF InPlaces
  <2> QED BY <1>1, <2>1, <2>2, <2>3, <2>4 DEF QueueTypeOK, FlushInside
<1>2. CASE flush.step = "idle" /\ q # << >>
  <2> DEFINE n == IF Len(q) < MaxBatch THEN Len(q) ELSE MaxBatch
  <2>1. n \in 1 .. Len(q)
    BY <1>2, BatchSize
  <2>2. /\ queue' = SubSeq(q, n + 1, Len(q))
        /\ flush' = [Idle EXCEPT !.step = "enter", !.ctx = ctx,
                                 !.batch = SubSeq(q, 1, n), !.single = n = 1]
    BY <1>2 DEF StartFlush
  <2>3. flush' = [step |-> "enter", ctx |-> ctx, batch |-> SubSeq(q, 1, n),
                  single |-> n = 1, name |-> 0, bad |-> FALSE]
    BY <2>2, Zenon DEF Idle
  <2> HIDE DEF n
  <2>4. flush'.batch = SubSeq(q, 1, n) /\ flush'.step = "enter"
    BY <2>3
  <2>5. /\ flush'.batch \in Seq(Inserting) /\ queue' \in Seq(Inserting)
        /\ flush'.batch # << >> /\ Injective(flush'.batch) /\ Injective(queue')
        /\ Elems(flush'.batch) \cap Elems(queue') = {}
        /\ Elems(flush'.batch) \cup Elems(queue') = Elems(q)
    <3> DEFINE a == SubSeq(q, 1, n)
               b == SubSeq(q, n + 1, Len(q))
    <3>1. /\ a \in Seq(Inserting) /\ b \in Seq(Inserting) /\ a # << >>
          /\ Injective(a) /\ Injective(b)
          /\ Elems(a) \cap Elems(b) = {} /\ Elems(a) \cup Elems(b) = Elems(q)
      BY <2>1, Taken
    <3>2. flush'.batch = a /\ queue' = b
      BY <2>2, <2>4
    <3> HIDE DEF a, b
    <3> QED BY <3>1, <3>2
  <2>6. flush' \in [step : Step, ctx : BOOLEAN, batch : Seq(Inserting),
                    single : BOOLEAN, name : Nat, bad : BOOLEAN]
    <3>1. (n = 1) \in BOOLEAN /\ SubSeq(q, 1, n) \in Seq(Inserting)
      BY <2>4, <2>5
    <3> QED BY <2>3, <3>1 DEF Step
  <2>7. Batched'
    BY <2>4, <2>5 DEF Batched, Flushing
  <2>8. Apart'
    BY <2>5 DEF Apart
  <2>9. Elems(flush.batch) = {}
    BY <1>2, ElemsOfEmpty DEF Batched, Flushing
  <2>10. InPlaces' = Elems(q) \cup Elems(flush.batch)
    BY <2>5, <2>9 DEF InPlaces
  <2> QED BY <2>4, <2>5, <2>6, <2>7, <2>8, <2>10 DEF FlushInside
<1> QED BY <1>1, <1>2

\* insertMemory() puts its row in the queue, and somebody will take it from there.
LEMMA PushQueues ==
  ASSUME QueueOK, NEW i \in Inserting, i \notin InPlaces, NEW ctx \in BOOLEAN, Push(i, ctx)
  PROVE  QueueOK' /\ InPlaces' = InPlaces \cup {i} /\ (FlushInside' => FlushInside)
<1> DEFINE q == Append(queue, i)
<1>1. /\ q \in Seq(Inserting) /\ q # << >> /\ Injective(q)
      /\ Elems(q) = Elems(queue) \cup {i}
      /\ Elems(q) \cap Elems(flush.batch) = {}
  BY Appended DEF QueueOK, QueueTypeOK, Apart, InPlaces
<1> HIDE DEF q
<1>2. CASE Len(queue) + 1 >= Threshold
  <2>1. StartFlush(ctx, q) /\ scheduled' = FALSE /\ immediates' = immediates
    BY <1>2 DEF Push, q
  <2>2. /\ queue' \in Seq(Inserting) /\ Batched' /\ Apart'
        /\ flush' \in [step : Step, ctx : BOOLEAN, batch : Seq(Inserting),
                       single : BOOLEAN, name : Nat, bad : BOOLEAN]
        /\ InPlaces' = Elems(q) \cup Elems(flush.batch)
        /\ FlushInside' => FlushInside
        /\ queue' # << >> => flush'.step # "idle"
    BY <1>1, <2>1, StartFlushTakes DEF QueueOK, Apart
  <2>3. QueueTypeOK' /\ FlagIsTrue' /\ QueueIsAttended'
    BY <2>1, <2>2 DEF QueueOK, QueueTypeOK, FlagIsTrue, QueueIsAttended
  <2> QED BY <1>1, <2>2, <2>3 DEF QueueOK, InPlaces
<1>3. CASE ~(Len(queue) + 1 >= Threshold)
  <2>1. /\ queue' = q /\ scheduled' = TRUE /\ flush' = flush
        /\ immediates' = IF scheduled THEN immediates ELSE Append(immediates, ctx)
    BY <1>3 DEF Push, q
  <2>2. immediates' \in Seq(BOOLEAN) /\ immediates' # << >>
    <3>1. immediates \in Seq(BOOLEAN) /\ (scheduled => immediates # << >>)
      BY DEF QueueOK, QueueTypeOK, FlagIsTrue
    <3>2. Append(immediates, ctx) \in Seq(BOOLEAN) /\ Append(immediates, ctx) # << >>
      BY <3>1, AppendProperties, Zenon
    <3> QED BY <2>1, <3>1, <3>2
  <2>3. QueueTypeOK'
    BY <1>1, <2>1, <2>2 DEF QueueOK, QueueTypeOK
  <2>4. Batched' /\ FlagIsTrue' /\ QueueIsAttended' /\ Apart'
    BY <1>1, <2>1, <2>2
    DEF QueueOK, Batched, Flushing, FlagIsTrue, QueueIsAttended, Apart
  <2>5. InPlaces' = InPlaces \cup {i}
    BY <1>1, <2>1 DEF InPlaces
  <2> QED BY <2>1, <2>3, <2>4, <2>5 DEF QueueOK, FlushInside
<1> QED BY <1>2, <1>3

\* What the loop of a flush leaves behind is either another batch, or a flush that
\* yields because the queue has rows.
LEMMA LoopGoesOn ==
  ASSUME QueueOK, Flushing, NEW left \in Seq(Inserting), Injective(left),
         Elems(left) \subseteq Elems(flush.batch),
         Continue(left), UNCHANGED <<queue, scheduled, immediates>>
  PROVE  QueueOK' /\ Elems(flush'.batch) = Elems(left) /\ ~FlushInside'
<1>1. flush \in [step : Step, ctx : BOOLEAN, batch : Seq(Inserting), single : BOOLEAN,
                 name : Nat, bad : BOOLEAN]
  BY DEF QueueOK, QueueTypeOK
<1>2. /\ flush' \in [step : Step, ctx : BOOLEAN, batch : Seq(Inserting), single : BOOLEAN,
                     name : Nat, bad : BOOLEAN]
      /\ flush'.batch = left
      /\ \/ flush'.step = "enter" /\ left # << >>
         \/ flush'.step = "yield" /\ left = << >> /\ queue # << >>
         \/ flush'.step = "idle" /\ left = << >> /\ queue = << >>
  <2>1. CASE left # << >>
    <3>1. flush' = [flush EXCEPT !.step = "enter", !.batch = left, !.single = TRUE,
                                 !.bad = FALSE]
      BY <2>1 DEF Continue
    <3> QED BY <1>1, <2>1, <3>1, Zenon DEF Step
  <2>2. CASE left = << >> /\ queue # << >>
    <3>1. flush' = [step |-> "yield", ctx |-> flush.ctx, batch |-> << >>,
                    single |-> FALSE, name |-> 0, bad |-> FALSE]
      BY <2>2, Zenon DEF Continue, Idle
    <3>2. flush.ctx \in BOOLEAN
      BY <1>1
    <3> QED BY <2>2, <3>1, <3>2 DEF Step
  <2>3. CASE left = << >> /\ queue = << >>
    <3>1. flush' = Idle
      BY <2>3 DEF Continue
    <3> QED BY <2>3, <3>1 DEF Step, Idle
  <2> QED BY <2>1, <2>2, <2>3
<1>3. QueueTypeOK'
  BY <1>2 DEF QueueOK, QueueTypeOK
<1>4. Batched' /\ FlagIsTrue' /\ QueueIsAttended'
  BY <1>2 DEF QueueOK, Batched, Flushing, FlagIsTrue, QueueIsAttended
<1>5. Apart'
  BY <1>2 DEF QueueOK, Apart
<1> QED BY <1>2, <1>3, <1>4, <1>5 DEF QueueOK, FlushInside

--------------------------------------------------------------------------------
(* Answers and the lock *)

\* The rows a transaction of the flush is about are taken off its batch.
LEMMA ItemsAndRest ==
  ASSUME QueueOK, Flushing
  PROVE  /\ Items \subseteq Elems(flush.batch) /\ Items \subseteq Inserting
         /\ Rest \in Seq(Inserting) /\ Injective(Rest)
         /\ Elems(Rest) = Elems(flush.batch) \ Items
<1>1. /\ flush.batch \in Seq(Inserting) /\ flush.batch # << >> /\ Injective(flush.batch)
  BY DEF QueueOK, QueueTypeOK, Batched, Apart
<1>2. CASE flush.single
  <2>1. Items = {Head(flush.batch)} /\ Rest = Tail(flush.batch)
    BY <1>2 DEF Items, Rest
  <2> QED BY <1>1, <2>1, Shifted
<1>3. CASE ~flush.single
  <2>1. DOMAIN flush.batch = 1 .. Len(flush.batch)
    BY <1>1, LenProperties
  <2>2. Items = Elems(flush.batch) /\ Rest = << >>
    BY <1>3, <2>1 DEF Items, Rest, Elems
  <2>3. \A k \in 1 .. Len(flush.batch) : flush.batch[k] \in Inserting
    BY <1>1, ElementOfSeq
  <2>4. << >> \in Seq(Inserting)
    BY EmptySeq
  <2> QED BY <2>2, <2>3, <2>4, ElemsOfEmpty DEF Elems
<1> QED BY <1>2, <1>3

\* A flush that answers its rows loses none of the others, and lets nobody in.
LEMMA AnswersItems ==
  ASSUME QueueInv, Flushing, NEW ok \in BOOLEAN, Answer(Items, ok), Continue(Rest),
         UNCHANGED <<queue, scheduled, immediates>>
  PROVE  /\ QueueOK' /\ pc' \in [Client -> PC] /\ InPlaces' = WaitsForRow'
         /\ ~FlushInside' /\ Inside' \subseteq Inside
<1>1. /\ Items \subseteq Elems(flush.batch) /\ Items \subseteq Inserting
      /\ Rest \in Seq(Inserting) /\ Injective(Rest)
      /\ Elems(Rest) = Elems(flush.batch) \ Items
  BY ItemsAndRest DEF QueueInv
<1>2. QueueOK' /\ Elems(flush'.batch) = Elems(Rest) /\ ~FlushInside'
  BY <1>1, LoopGoesOn DEF QueueInv
<1>3. pc \in [Client -> PC]
  BY DEF QueueInv, CallTypeOK
<1>4. \A i \in Client :
        pc'[i] = IF i \notin Items THEN pc[i]
                 ELSE IF i \in Compressor THEN IF ok THEN "archive" ELSE "abort"
                 ELSE IF ok THEN "ok" ELSE "failed"
  BY DEF Answer
<1>5. pc' \in [Client -> PC]
  BY <1>3 DEF Answer, PC
<1>6. WaitsForRow' = WaitsForRow \ Items
  BY <1>4 DEF WaitsForRow
<1>7. InPlaces' = InPlaces \ Items
  BY <1>1, <1>2 DEF InPlaces, QueueInv, QueueOK, Apart
<1>8. Inside' \subseteq Inside
  <2> SUFFICES ASSUME NEW i \in Direct \cup Compressor, i \in Inside'
               PROVE  i \in Inside
    BY DEF Inside
  <2>1. i \in Client
    BY DEF Client
  <2>2. CASE i \in Items
    BY <1>1, <2>2 DEF QueueInv, InPlaces, WaitsForRow, Inside
  <2>3. CASE i \notin Items
    BY <1>4, <2>1, <2>3 DEF Inside
  <2> QED BY <2>2, <2>3
<1> QED BY <1>2, <1>5, <1>6, <1>7, <1>8 DEF QueueInv

\* A failed batch is taken apart with every row still in its place.
LEMMA FailKeeps ==
  ASSUME QueueInv, Flushing, Fail, UNCHANGED <<queue, scheduled, immediates>>
  PROVE  /\ QueueOK' /\ pc' \in [Client -> PC] /\ InPlaces' = WaitsForRow'
         /\ ~FlushInside' /\ Inside' \subseteq Inside
<1>1. CASE flush.single
  BY <1>1, AnswersItems DEF Fail
<1>2. CASE ~flush.single
  <2>1. Continue(flush.batch) /\ pc' = pc
    BY <1>2 DEF Fail
  <2>2. flush.batch \in Seq(Inserting) /\ Injective(flush.batch)
    BY DEF QueueInv, QueueOK, QueueTypeOK, Apart
  <2>3. QueueOK' /\ Elems(flush'.batch) = Elems(flush.batch) /\ ~FlushInside'
    BY <2>1, <2>2, LoopGoesOn DEF QueueInv
  <2>4. InPlaces' = WaitsForRow' /\ Inside' = Inside
    BY <2>1, <2>3 DEF QueueInv, InPlaces, WaitsForRow, Inside
  <2> QED BY <2>1, <2>3, <2>4 DEF QueueInv, CallTypeOK
<1> QED BY <1>1, <1>2

LEMMA SucceedKeeps ==
  ASSUME QueueInv, Flushing, Succeed, UNCHANGED <<queue, scheduled, immediates>>
  PROVE  /\ QueueOK' /\ pc' \in [Client -> PC] /\ InPlaces' = WaitsForRow'
         /\ ~FlushInside' /\ Inside' \subseteq Inside
BY AnswersItems DEF Succeed

LockType == Seq(Direct \cup Compressor \cup {"flush"})

\* Joining the lock takes it from nobody.
LEMMA EnqueueKeeps ==
  ASSUME lock \in LockType, NEW o \in Direct \cup Compressor \cup {"flush"}, Enqueue(o)
  PROVE  lock' \in LockType /\ \A x : Holds(x) => Holds(x)'
<1>1. lock' = Append(lock, o)
  BY DEF Enqueue
<1>2. lock' \in LockType /\ lock' # << >>
  BY <1>1, AppendProperties DEF LockType
<1>3. Head(lock') = IF lock = << >> THEN o ELSE Head(lock)
  BY <1>1, HeadTailAppend DEF LockType
<1> QED BY <1>2, <1>3 DEF Holds

\* The lock has one holder, so when o gives it up nobody else was inside.
LEMMA UnlockKeeps ==
  ASSUME LockIsHeld, lock \in LockType, NEW o, Holds(o), Unlock,
         Inside' \subseteq Inside \ {o}, ~FlushInside'
  PROVE  lock' \in LockType /\ LockIsHeld'
<1>1. lock' \in LockType
  BY HeadTailProperties DEF Holds, Unlock, LockType
<1>2. Inside' = {}
  BY DEF LockIsHeld, Holds
<1> QED BY <1>1, <1>2 DEF LockIsHeld

\* Who neither enters nor leaves does not disturb the holder.
LEMMA LockStays ==
  ASSUME LockIsHeld, \A x : Holds(x) => Holds(x)', Inside' \subseteq Inside,
         FlushInside' => FlushInside
  PROVE  LockIsHeld'
BY DEF LockIsHeld

--------------------------------------------------------------------------------
(* The steps *)

LEMMA ScheduledFlushKeeps ==
  ASSUME QueueInv, ScheduledFlush
  PROVE  QueueInv'
<1>1. Head(immediates) \in BOOLEAN /\ Tail(immediates) \in Seq(BOOLEAN)
  BY HeadTailProperties DEF ScheduledFlush, QueueInv, QueueOK, QueueTypeOK
<1>2. /\ queue' \in Seq(Inserting) /\ Batched' /\ Apart'
      /\ flush' \in [step : Step, ctx : BOOLEAN, batch : Seq(Inserting),
                     single : BOOLEAN, name : Nat, bad : BOOLEAN]
      /\ InPlaces' = InPlaces
      /\ FlushInside' => FlushInside
      /\ queue' # << >> => flush'.step # "idle"
  <2>1. StartFlush(Head(immediates), queue)
    BY DEF ScheduledFlush
  <2>2. /\ QueueTypeOK /\ Batched /\ queue \in Seq(Inserting) /\ Injective(queue)
        /\ Injective(flush.batch) /\ Elems(queue) \cap Elems(flush.batch) = {}
        /\ flush.step = "yield" => queue # << >>
    BY DEF QueueInv, QueueOK, QueueTypeOK, Apart, Batched
  <2> QED BY <1>1, <2>1, <2>2, StartFlushTakes DEF InPlaces
<1>3. QueueOK'
  BY <1>1, <1>2
  DEF ScheduledFlush, QueueOK, QueueTypeOK, FlagIsTrue, QueueIsAttended
<1>4. CallTypeOK' /\ WaitsForRow' = WaitsForRow /\ LockIsHeld'
  BY <1>2
  DEF ScheduledFlush, QueueInv, CallTypeOK, WaitsForRow, LockIsHeld, Inside, Holds, lockVars
<1> QED BY <1>2, <1>3, <1>4 DEF QueueInv

LEMMA FlushYieldKeeps ==
  ASSUME QueueInv, FlushYield
  PROVE  QueueInv'
<1> DEFINE n == IF Len(queue) < MaxBatch THEN Len(queue) ELSE MaxBatch
           a == SubSeq(queue, 1, n)
           b == SubSeq(queue, n + 1, Len(queue))
<1>1. /\ flush.step = "yield" /\ queue' = b
      /\ flush' = [flush EXCEPT !.step = "enter", !.single = n = 1, !.batch = a]
      /\ UNCHANGED <<scheduled, immediates, lock, pc>>
  BY DEF FlushYield, lockVars
<1>2. /\ queue \in Seq(Inserting) /\ queue # << >> /\ Injective(queue)
      /\ flush.batch = << >>
  BY <1>1 DEF QueueInv, QueueOK, QueueTypeOK, Batched, Flushing, Apart
<1>3. n \in 1 .. Len(queue) /\ (n = 1) \in BOOLEAN
  BY <1>2, BatchSize
<1> HIDE DEF n
<1>4. /\ a \in Seq(Inserting) /\ b \in Seq(Inserting) /\ a # << >>
      /\ Injective(a) /\ Injective(b)
      /\ Elems(a) \cap Elems(b) = {} /\ Elems(a) \cup Elems(b) = Elems(queue)
  <2>1. queue \in Seq(Inserting) /\ Injective(queue) /\ n \in 1 .. Len(queue)
    BY <1>2, <1>3
  <2> QED BY ONLY <2>1, Taken, Zenon
<1> HIDE DEF a, b
<1>5. /\ flush' \in [step : Step, ctx : BOOLEAN, batch : Seq(Inserting),
                     single : BOOLEAN, name : Nat, bad : BOOLEAN]
      /\ flush'.batch = a /\ flush'.step = "enter"
  <2>1. flush \in [step : Step, ctx : BOOLEAN, batch : Seq(Inserting), single : BOOLEAN,
                   name : Nat, bad : BOOLEAN]
    BY DEF QueueInv, QueueOK, QueueTypeOK
  <2> QED BY <1>1, <1>3, <1>4, <2>1, Zenon DEF Step
<1>6. QueueOK'
  BY <1>1, <1>4, <1>5
  DEF QueueInv, QueueOK, QueueTypeOK, Batched, Flushing, FlagIsTrue, QueueIsAttended, Apart
<1>7. InPlaces' = InPlaces
  BY <1>1, <1>2, <1>4, <1>5, ElemsOfEmpty DEF InPlaces
<1>8. CallTypeOK' /\ WaitsForRow' = WaitsForRow /\ LockIsHeld'
  BY <1>1, <1>5
  DEF QueueInv, CallTypeOK, WaitsForRow, LockIsHeld, Inside, Holds, FlushInside
<1> QED BY <1>6, <1>7, <1>8 DEF QueueInv

LEMMA InsertMemoryKeeps ==
  ASSUME QueueInv, NEW w \in Writer, InsertMemory(w)
  PROVE  QueueInv'
<1>1. pc[w] = "idle" /\ pc' = [pc EXCEPT ![w] = "queued"] /\ Push(w, FALSE) /\ lock' = lock
  BY DEF InsertMemory, lockVars
<1>2. pc \in [Client -> PC] /\ w \in Client /\ w \in Inserting
  BY DEF QueueInv, CallTypeOK, Client, Inserting
<1>3. w \notin InPlaces
  BY <1>1 DEF QueueInv, WaitsForRow
<1>4. QueueOK' /\ InPlaces' = InPlaces \cup {w} /\ (FlushInside' => FlushInside)
  BY <1>1, <1>2, <1>3, PushQueues DEF QueueInv
<1>5. WaitsForRow' = WaitsForRow \cup {w} /\ CallTypeOK'
  BY <1>1, <1>2 DEF QueueInv, CallTypeOK, WaitsForRow, PC
<1>6. Inside' \subseteq Inside
  BY <1>1, <1>2, QueueAssumption DEF Inside
<1>7. LockIsHeld'
  BY <1>1, <1>4, <1>6 DEF QueueInv, LockIsHeld, Holds
<1> QED BY <1>4, <1>5, <1>7 DEF QueueInv

FlushType == [step : Step, ctx : BOOLEAN, batch : Seq(Inserting), single : BOOLEAN,
              name : Nat, bad : BOOLEAN]

\* A step of a flush that only moves it on.
LEMMA FlushMoves ==
  ASSUME QueueInv, Flushing, flush' \in FlushType, flush'.batch = flush.batch,
         flush'.step \in {"lock", "tx"},
         UNCHANGED <<queue, scheduled, immediates, pc>>
  PROVE  QueueOK' /\ InPlaces' = WaitsForRow' /\ Inside' = Inside /\ pc' \in [Client -> PC]
<1>1. QueueOK'
  BY DEF QueueInv, QueueOK, QueueTypeOK, Batched, Flushing, FlagIsTrue, QueueIsAttended,
         Apart, FlushType
<1>2. InPlaces' = WaitsForRow' /\ Inside' = Inside /\ pc' \in [Client -> PC]
  BY DEF QueueInv, CallTypeOK, InPlaces, WaitsForRow, Inside
<1> QED BY <1>1, <1>2

LEMMA InsideAreClients == Inside \subseteq Client /\ "flush" \notin Inside
BY QueueAssumption DEF Inside, Client

LEMMA FlushEnterKeeps ==
  ASSUME QueueInv, spCounter \in Nat, FlushEnter
  PROVE  QueueInv'
<1>1. Flushing /\ flush \in FlushType /\ UNCHANGED <<queue, scheduled, immediates>>
  BY DEF FlushEnter, Entering, Flushing, QueueInv, QueueOK, QueueTypeOK, FlushType
<1>2. CASE ~flush.ctx
  <2>1. /\ flush' = [flush EXCEPT !.step = "lock"] /\ Enqueue("flush") /\ pc' = pc
    BY <1>2 DEF FlushEnter
  <2>2. flush' \in FlushType /\ flush'.batch = flush.batch /\ flush'.step = "lock"
    BY <1>1, <2>1, Zenon DEF FlushType, Step
  <2>3. QueueOK' /\ InPlaces' = WaitsForRow' /\ Inside' = Inside /\ pc' \in [Client -> PC]
    BY <1>1, <2>1, <2>2, FlushMoves
  <2>4. lock' \in LockType /\ \A x : Holds(x) => Holds(x)'
    BY <2>1, EnqueueKeeps DEF QueueInv, CallTypeOK, LockType
  <2>5. LockIsHeld'
    BY <2>2, <2>3, <2>4 DEF QueueInv, LockIsHeld, FlushInside
  <2> QED BY <2>3, <2>4, <2>5 DEF QueueInv, CallTypeOK, LockType
<1>3. CASE flush.ctx
  <2>1. lock' = lock /\ spCounter' = spCounter + 1
    BY <1>3 DEF FlushEnter, lockVars
  <2>2. CASE Refused(Items) /\ flush.single
    <3>1. Fail
      BY <1>3, <2>2 DEF FlushEnter
    <3>2. /\ QueueOK' /\ pc' \in [Client -> PC] /\ InPlaces' = WaitsForRow'
          /\ ~FlushInside' /\ Inside' \subseteq Inside
      BY <1>1, <3>1, FailKeeps
    <3> QED BY <2>1, <3>2 DEF QueueInv, CallTypeOK, LockIsHeld, Holds
  <2>3. CASE ~(Refused(Items) /\ flush.single)
    <3>1. /\ flush' = [flush EXCEPT !.step = "tx", !.name = spCounter', !.bad = Refused(Items)]
          /\ pc' = pc
      BY <1>3, <2>3 DEF FlushEnter
    <3>2. Refused(Items) \in BOOLEAN
      BY Zenon DEF Refused
    <3>3. spCounter' \in Nat /\ spCounter' # 0
      BY <2>1
    <3>4. /\ flush' \in FlushType /\ flush'.batch = flush.batch /\ flush'.step = "tx"
          /\ flush'.name = spCounter'
      BY <1>1, <3>1, <3>2, <3>3, Zenon DEF FlushType, Step
    <3>5. QueueOK' /\ InPlaces' = WaitsForRow' /\ Inside' = Inside /\ pc' \in [Client -> PC]
      BY <1>1, <3>1, <3>4, FlushMoves
    <3>6. ~FlushInside'
      BY <3>3, <3>4 DEF FlushInside
    <3> QED BY <2>1, <3>5, <3>6 DEF QueueInv, CallTypeOK, LockIsHeld, Holds
  <2> QED BY <2>2, <2>3
<1> QED BY <1>2, <1>3

LEMMA FlushBeginKeeps ==
  ASSUME QueueInv, FlushBegin
  PROVE  QueueInv'
<1>1. /\ Flushing /\ flush \in FlushType /\ UNCHANGED <<queue, scheduled, immediates>>
      /\ Holds("flush") /\ flush.step = "lock" /\ lock \in LockType /\ LockIsHeld
  BY DEF FlushBegin, Flushing, QueueInv, QueueOK, QueueTypeOK, FlushType, CallTypeOK, LockType
<1>2. CASE Unlock /\ Fail
  <2>1. /\ QueueOK' /\ pc' \in [Client -> PC] /\ InPlaces' = WaitsForRow'
        /\ ~FlushInside' /\ Inside' \subseteq Inside
    BY <1>1, <1>2, FailKeeps
  <2>2. lock' \in LockType /\ LockIsHeld'
    BY <1>1, <1>2, <2>1, InsideAreClients, UnlockKeeps
  <2> QED BY <2>1, <2>2 DEF QueueInv, CallTypeOK, LockType
<1>3. CASE /\ flush' = [flush EXCEPT !.step = "tx", !.name = 0, !.bad = Refused(Items)]
           /\ UNCHANGED <<lockVars, pc>>
  <2>1. Refused(Items) \in BOOLEAN
    BY Zenon DEF Refused
  <2>2. flush' \in FlushType /\ flush'.batch = flush.batch /\ flush'.step = "tx"
    BY <1>1, <1>3, <2>1, Zenon DEF FlushType, Step
  <2>3. QueueOK' /\ InPlaces' = WaitsForRow' /\ Inside' = Inside /\ pc' \in [Client -> PC]
    BY <1>1, <1>3, <2>2, FlushMoves
  <2>4. lock' = lock
    BY <1>3 DEF lockVars
  <2> QED BY <1>1, <2>3, <2>4 DEF QueueInv, CallTypeOK, LockIsHeld, Holds, LockType
<1> QED BY <1>2, <1>3 DEF FlushBegin

LEMMA FlushEndKeeps ==
  ASSUME QueueInv, FlushEnd
  PROVE  QueueInv'
<1>1. /\ Flushing /\ UNCHANGED <<queue, scheduled, immediates>>
      /\ flush.step = "tx" /\ lock \in LockType /\ LockIsHeld
      /\ Succeed \/ Fail
  BY DEF FlushEnd, Flushing, QueueInv, CallTypeOK, LockType
<1>2. /\ QueueOK' /\ pc' \in [Client -> PC] /\ InPlaces' = WaitsForRow'
      /\ ~FlushInside' /\ Inside' \subseteq Inside
  BY <1>1, FailKeeps, SucceedKeeps
<1>3. CASE flush.name = 0
  <2>1. Holds("flush") /\ Unlock
    BY <1>1, <1>3 DEF FlushEnd, LockIsHeld, FlushInside
  <2>2. lock' \in LockType /\ LockIsHeld'
    BY <1>1, <1>2, <2>1, InsideAreClients, UnlockKeeps
  <2> QED BY <1>2, <2>2 DEF QueueInv, CallTypeOK, LockType
<1>4. CASE flush.name # 0
  <2>1. lock' = lock
    BY <1>4 DEF FlushEnd, lockVars
  <2> QED BY <1>1, <1>2, <2>1 DEF QueueInv, CallTypeOK, LockIsHeld, Holds, LockType
<1> QED BY <1>3, <1>4

\* A call that moves on without a row in the queue leaves the queue alone.
LEMMA CallMoves ==
  ASSUME QueueInv, NEW i \in Direct \cup Compressor, pc[i] \notin {"queued", "insert"},
         NEW to \in PC \ {"queued", "insert"}, pc' = [pc EXCEPT ![i] = to],
         UNCHANGED flushVars
  PROVE  /\ QueueOK' /\ InPlaces' = WaitsForRow' /\ pc' \in [Client -> PC]
         /\ FlushInside' = FlushInside /\ Inside' \subseteq Inside \cup {i}
         /\ to \in {"idle", "lock", "ok", "failed"} => i \notin Inside'
<1>1. /\ queue' = queue /\ scheduled' = scheduled /\ immediates' = immediates
      /\ flush' = flush
  BY DEF flushVars
<1>2. QueueOK' /\ InPlaces' = InPlaces /\ FlushInside' = FlushInside
  BY <1>1
  DEF QueueInv, QueueOK, QueueTypeOK, Batched, Flushing, FlagIsTrue, QueueIsAttended,
      Apart, InPlaces, FlushInside
<1>3. i \in Client /\ pc \in [Client -> PC]
  BY DEF Client, QueueInv, CallTypeOK
<1>4. pc' \in [Client -> PC] /\ WaitsForRow' = WaitsForRow
  BY <1>3 DEF WaitsForRow
<1>5. \A j \in Direct \cup Compressor : pc'[j] = IF j = i THEN to ELSE pc[j]
  BY <1>3 DEF Client
<1>6. /\ Inside' \subseteq Inside \cup {i}
      /\ to \in {"idle", "lock", "ok", "failed"} => i \notin Inside'
  BY <1>5 DEF Inside
<1> QED BY <1>2, <1>4, <1>6 DEF QueueInv

\* The same call taking or keeping its place at the lock, or giving the lock up.
LEMMA CallWaits ==
  ASSUME QueueInv, NEW i \in Direct \cup Compressor, pc[i] \notin {"queued", "insert"},
         pc' = [pc EXCEPT ![i] = "lock"], Enqueue(i), UNCHANGED flushVars
  PROVE  QueueInv'
<1>1. /\ QueueOK' /\ InPlaces' = WaitsForRow' /\ pc' \in [Client -> PC]
      /\ FlushInside' = FlushInside /\ Inside' \subseteq Inside
  BY CallMoves DEF PC
<1>2. lock' \in LockType /\ \A x : Holds(x) => Holds(x)'
  BY EnqueueKeeps DEF QueueInv, CallTypeOK, LockType
<1>3. LockIsHeld'
  BY <1>1, <1>2 DEF QueueInv, LockIsHeld
<1> QED BY <1>1, <1>2, <1>3 DEF QueueInv, CallTypeOK, LockType

LEMMA CallStays ==
  ASSUME QueueInv, NEW i \in Direct \cup Compressor, pc[i] \notin {"queued", "insert"},
         NEW to \in PC \ {"queued", "insert"}, pc' = [pc EXCEPT ![i] = to],
         Holds(i), lock' = lock, UNCHANGED flushVars
  PROVE  QueueInv'
<1>1. /\ QueueOK' /\ InPlaces' = WaitsForRow' /\ pc' \in [Client -> PC]
      /\ FlushInside' = FlushInside /\ Inside' \subseteq Inside \cup {i}
  BY CallMoves
<1>2. LockIsHeld'
  BY <1>1 DEF QueueInv, LockIsHeld, Holds
<1> QED BY <1>1, <1>2 DEF QueueInv, CallTypeOK

LEMMA CallLeaves ==
  ASSUME QueueInv, NEW i \in Direct \cup Compressor, pc[i] \notin {"queued", "insert"},
         NEW to \in {"ok", "failed"}, pc' = [pc EXCEPT ![i] = to],
         Holds(i), Unlock, UNCHANGED flushVars
  PROVE  QueueInv'
<1>1. /\ QueueOK' /\ InPlaces' = WaitsForRow' /\ pc' \in [Client -> PC]
      /\ FlushInside' = FlushInside /\ Inside' \subseteq Inside \ {i}
  <2>1. to \in PC \ {"queued", "insert"}
    BY DEF PC
  <2> QED BY <2>1, CallMoves
<1>2. ~FlushInside
  BY QueueAssumption DEF QueueInv, LockIsHeld, Holds, Client
<1>3. lock' \in LockType /\ LockIsHeld'
  BY <1>1, <1>2, UnlockKeeps DEF QueueInv, CallTypeOK, LockType
<1> QED BY <1>1, <1>3 DEF QueueInv, CallTypeOK, LockType

LEMMA DirectKeeps ==
  ASSUME QueueInv, NEW u \in Direct, DirectCall(u) \/ DirectStep(u)
  PROVE  QueueInv'
<1>1. CASE DirectCall(u)
  BY <1>1, CallWaits DEF DirectCall
<1>2. CASE DirectBegin(u)
  <2>1. CASE Unlock /\ pc' = [pc EXCEPT ![u] = "failed"]
    BY <1>2, <2>1, CallLeaves DEF DirectBegin
  <2>2. CASE UNCHANGED lockVars /\ pc' = [pc EXCEPT ![u] = "tx"]
    BY <1>2, <2>2, CallStays DEF DirectBegin, lockVars, PC
  <2> QED BY <1>2, <2>1, <2>2 DEF DirectBegin
<1>3. CASE DirectEnd(u)
  <2>1. Holds(u)
    BY <1>3 DEF DirectEnd, QueueInv, LockIsHeld, Inside
  <2> QED BY <1>3, <2>1, CallLeaves DEF DirectEnd, EndTx
<1> QED BY <1>1, <1>2, <1>3 DEF DirectStep

LEMMA CompressBeginKeeps ==
  ASSUME QueueInv, NEW c \in Compressor, CompressBegin(c)
  PROVE  QueueInv'
<1>1. pc[c] = "lock" /\ Holds(c)
  BY DEF CompressBegin
<1>2. CASE Unlock /\ pc' = [pc EXCEPT ![c] = "failed"] /\ UNCHANGED flushVars
  BY <1>1, <1>2, CallLeaves
<1>3. CASE Push(c, TRUE) /\ pc' = [pc EXCEPT ![c] = "insert"] /\ UNCHANGED lockVars
  <2>1. c \in Client /\ c \in Inserting /\ pc \in [Client -> PC] /\ lock' = lock
    BY <1>3 DEF Client, Inserting, QueueInv, CallTypeOK, lockVars
  <2>2. c \notin InPlaces
    BY <1>1 DEF QueueInv, WaitsForRow
  <2>3. QueueOK' /\ InPlaces' = InPlaces \cup {c} /\ (FlushInside' => FlushInside)
    BY <1>3, <2>1, <2>2, PushQueues DEF QueueInv
  <2>4. WaitsForRow' = WaitsForRow \cup {c} /\ CallTypeOK'
    BY <1>3, <2>1 DEF QueueInv, CallTypeOK, WaitsForRow, PC
  <2>5. Inside' \subseteq Inside \cup {c}
    BY <1>3, <2>1 DEF Inside, Client
  <2>6. LockIsHeld'
    BY <1>1, <2>1, <2>3, <2>5 DEF QueueInv, LockIsHeld, Holds
  <2> QED BY <2>3, <2>4, <2>6 DEF QueueInv
<1> QED BY <1>2, <1>3 DEF CompressBegin

LEMMA CompressKeeps ==
  ASSUME QueueInv, NEW c \in Compressor, CompressCall(c) \/ CompressStep(c)
  PROVE  QueueInv'
<1>1. CASE CompressCall(c)
  BY <1>1, CallWaits DEF CompressCall
<1>2. CASE CompressBegin(c)
  BY <1>2, CompressBeginKeeps
<1>3. CASE CompressArchive(c)
  <2>1. Holds(c)
    BY <1>3 DEF CompressArchive, QueueInv, LockIsHeld, Inside
  <2> QED BY <1>3, <2>1, CallStays DEF CompressArchive, lockVars, PC
<1>4. CASE CompressRelease(c)
  <2>1. Holds(c)
    BY <1>4 DEF CompressRelease, QueueInv, LockIsHeld, Inside
  <2> QED BY <1>4, <2>1, CallStays DEF CompressRelease, lockVars, PC
<1>5. CASE CompressEnd(c)
  <2>1. Holds(c)
    BY <1>5 DEF CompressEnd, QueueInv, LockIsHeld, Inside
  <2> QED BY <1>5, <2>1, CallLeaves DEF CompressEnd, EndTx
<1> QED BY <1>1, <1>2, <1>3, <1>4, <1>5 DEF CompressStep

--------------------------------------------------------------------------------
(* The connection *)

StackType == Seq([name : Nat, saved : SUBSET Fact])

TxTypeOK ==
  stack \in StackType /\ spCounter \in Nat /\ rows \subseteq Fact /\ durable \subseteq Fact

CounterTypeOK ==
  attempts \in 0 .. MaxRetries /\ busyLeft \in 0 .. MaxBusy /\ opened \in [Compressor -> Nat]

\* COMMIT, ROLLBACK, RELEASE and ROLLBACK TO, whatever is open.
LEMMA TxEnds ==
  ASSUME TxTypeOK, NEW name,
         \/ CommitTx \/ RollbackTx \/ Release(name) \/ RollbackTo(name) \/ UNCHANGED dbVars
  PROVE  TxTypeOK'
<1>1. << >> \in StackType
  BY EmptySeq DEF StackType
<1>2. ASSUME NEW k \in DOMAIN stack
      PROVE  /\ SubSeq(stack, 1, k) \in StackType /\ SubSeq(stack, 1, k - 1) \in StackType
             /\ stack[k].saved \subseteq Fact
  <2>1. /\ Len(stack) \in Nat /\ DOMAIN stack = 1 .. Len(stack)
        /\ \A j \in 1 .. Len(stack) : stack[j] \in [name : Nat, saved : SUBSET Fact]
    BY LenProperties, ElementOfSeq DEF TxTypeOK, StackType
  <2>2. k \in Nat /\ k \in 1 .. Len(stack) /\ 1 \in Int /\ k \in Int /\ k - 1 \in Int
    BY <2>1
  <2>3. /\ \A j \in 1 .. k : stack[j] \in [name : Nat, saved : SUBSET Fact]
        /\ \A j \in 1 .. k - 1 : stack[j] \in [name : Nat, saved : SUBSET Fact]
    BY <2>1, <2>2
  <2>4. SubSeq(stack, 1, k) \in StackType /\ SubSeq(stack, 1, k - 1) \in StackType
    BY <2>2, <2>3, SubSeqProperties DEF StackType
  <2> QED BY <2>1, <2>2, <2>4
<1>3. CASE CommitTx \/ RollbackTx
  BY <1>1, <1>3 DEF TxTypeOK, CommitTx, RollbackTx
<1>4. CASE Release(name)
  BY <1>2, <1>4 DEF TxTypeOK, Release, Savepoints
<1>5. CASE RollbackTo(name)
  BY <1>2, <1>5 DEF TxTypeOK, RollbackTo, Savepoints
<1>6. CASE UNCHANGED dbVars
  BY <1>6 DEF TxTypeOK, dbVars
<1> QED BY <1>3, <1>4, <1>5, <1>6

\* BEGIN and SAVEPOINT.
LEMMA TxBegins ==
  ASSUME TxTypeOK, NEW name \in Nat, NEW outer \in StackType,
         stack' = Append(outer, Frame(name)), spCounter' \in Nat,
         rows' \subseteq Fact, durable' \subseteq Fact
  PROVE  TxTypeOK'
<1>1. Frame(name) \in [name : Nat, saved : SUBSET Fact]
  BY DEF Frame, TxTypeOK
<1> QED BY <1>1, AppendProperties DEF TxTypeOK, StackType

LEMMA FirstFrame ==
  ASSUME TxTypeOK, NEW changes \in SUBSET Fact, Begin(changes)
  PROVE  TxTypeOK'
<1>1. << >> \in StackType /\ 0 \in Nat
  BY EmptySeq DEF StackType
<1>2. stack' = Append(<< >>, Frame(0))
  BY DEF Begin
<1> QED BY <1>1, <1>2, TxBegins DEF Begin, TxTypeOK

LEMMA StoredAreFacts == \A S \in SUBSET Client : Stored(S) \subseteq Fact
BY DEF Stored, Fact

LEMMA ItemsAreClients ==
  ASSUME QueueInv, Flushing
  PROVE  Stored(Items) \subseteq Fact
BY ItemsAndRest, StoredAreFacts DEF QueueInv, Inserting, Client

LEMMA CountersKeep ==
  ASSUME CounterTypeOK,
         attempts' = attempts \/ attempts' = 0,
         busyLeft' = busyLeft \/ (busyLeft > 0 /\ busyLeft' = busyLeft - 1),
         opened' \in [Compressor -> Nat]
  PROVE  CounterTypeOK'
BY QueueAssumption DEF CounterTypeOK

LEMMA FlushTypes ==
  ASSUME QueueInv, DbTypeOK, FlushEnter \/ FlushStep
  PROVE  DbTypeOK'
<1>1. TxTypeOK /\ CounterTypeOK /\ opened \in [Compressor -> Nat]
  BY DEF DbTypeOK, TxTypeOK, CounterTypeOK, StackType
<1>2. CASE FlushEnter
  <2>1. CounterTypeOK'
    BY <1>1, <1>2, CountersKeep DEF FlushEnter, Enqueue, lockVars
  <2>2. CASE ~flush.ctx
    BY <1>1, <1>2, <2>1, <2>2, TxEnds
    DEF FlushEnter, DbTypeOK, TxTypeOK, CounterTypeOK, StackType
  <2>3. CASE flush.ctx
    <3>1. /\ spCounter' \in Nat /\ stack' = Append(stack, Frame(spCounter'))
          /\ durable' = durable
          /\ rows' = rows \/ rows' = rows \cup Stored(Items)
      BY <1>1, <1>2, <2>3 DEF FlushEnter, TxTypeOK
    <3>2. Stored(Items) \subseteq Fact
      BY <1>2, ItemsAreClients DEF FlushEnter, Entering, Flushing
    <3>3. stack \in StackType /\ rows' \subseteq Fact /\ durable' \subseteq Fact
      BY <1>1, <3>1, <3>2 DEF TxTypeOK
    <3>4. TxTypeOK'
      BY <1>1, <3>1, <3>3, TxBegins
    <3> QED BY <2>1, <3>4 DEF DbTypeOK, TxTypeOK, CounterTypeOK, StackType
  <2> QED BY <2>2, <2>3
<1>3. CASE FlushBegin
  <2>1. CounterTypeOK'
    BY <1>1, <1>3, CountersKeep
    DEF FlushBegin, BeginFails, Begin, Unlock, lockVars
  <2>2. Stored(Items) \subseteq Fact
    BY <1>3, ItemsAreClients DEF FlushBegin, Flushing
  <2>3. TxTypeOK'
    <3>1. CASE UNCHANGED dbVars
      BY <1>1, <3>1, TxEnds
    <3>2. CASE Begin(IF Refused(Items) THEN {} ELSE Stored(Items))
      BY <1>1, <2>2, <3>2, FirstFrame
    <3> QED BY <1>3, <3>1, <3>2 DEF FlushBegin, BeginFails
  <2> QED BY <2>1, <2>3 DEF DbTypeOK, TxTypeOK, CounterTypeOK, StackType
<1>4. CASE FlushEnd
  <2>1. CounterTypeOK'
    BY <1>1, <1>4, CountersKeep DEF FlushEnd, Unlock, lockVars
  <2>2. TxTypeOK'
    BY <1>1, <1>4, TxEnds DEF FlushEnd
  <2> QED BY <2>1, <2>2 DEF DbTypeOK, TxTypeOK, CounterTypeOK, StackType
<1>5. CASE ScheduledFlush \/ FlushYield
  BY <1>5 DEF ScheduledFlush, FlushYield, DbTypeOK, dbVars, lockVars
<1> QED BY <1>2, <1>3, <1>4, <1>5 DEF FlushStep

LEMMA CallTypes ==
  ASSUME QueueInv, DbTypeOK,
         \/ BeginRetry
         \/ \E w \in Writer : InsertMemory(w)
         \/ \E u \in Direct : DirectCall(u) \/ DirectStep(u)
         \/ \E c \in Compressor : CompressCall(c) \/ CompressStep(c)
  PROVE  DbTypeOK'
<1>1. TxTypeOK /\ CounterTypeOK /\ opened \in [Compressor -> Nat]
  BY DEF DbTypeOK, TxTypeOK, CounterTypeOK, StackType
<1>2. SUFFICES TxTypeOK' /\ CounterTypeOK'
  BY DEF DbTypeOK, TxTypeOK, CounterTypeOK, StackType
<1>3. CASE BeginRetry
  <2>1. TxTypeOK'
    BY <1>1, <1>3, TxEnds DEF BeginRetry
  <2>2. CounterTypeOK'
    BY <1>1, <1>3, QueueAssumption DEF BeginRetry, CounterTypeOK
  <2> QED BY <2>1, <2>2
<1>4. ASSUME NEW w \in Writer, InsertMemory(w) PROVE TxTypeOK' /\ CounterTypeOK'
  BY <1>1, <1>4 DEF InsertMemory, TxTypeOK, CounterTypeOK, dbVars, lockVars
<1>5. ASSUME NEW u \in Direct, DirectCall(u) \/ DirectStep(u)
      PROVE  TxTypeOK' /\ CounterTypeOK'
  <2>1. CASE DirectCall(u)
    BY <1>1, <2>1 DEF DirectCall, Enqueue, TxTypeOK, CounterTypeOK, dbVars
  <2>2. CASE DirectBegin(u)
    <3>1. CounterTypeOK'
      BY <1>1, <2>2, CountersKeep DEF DirectBegin, BeginFails, Begin, Unlock, lockVars
    <3>2. CASE UNCHANGED dbVars
      BY <1>1, <3>1, <3>2, TxEnds
    <3>3. CASE Begin(Stored({u}))
      BY <1>1, <3>1, <3>3, FirstFrame, StoredAreFacts DEF Client
    <3> QED BY <2>2, <3>2, <3>3 DEF DirectBegin, BeginFails
  <2>3. CASE DirectEnd(u)
    <3>1. CounterTypeOK'
      BY <1>1, <2>3, CountersKeep DEF DirectEnd, EndTx, Unlock
    <3> QED BY <1>1, <2>3, <3>1, TxEnds DEF DirectEnd, EndTx
  <2> QED BY <1>5, <2>1, <2>2, <2>3 DEF DirectStep
<1>6. ASSUME NEW c \in Compressor, CompressCall(c) \/ CompressStep(c)
      PROVE  TxTypeOK' /\ CounterTypeOK'
  <2>1. CASE CompressCall(c)
    BY <1>1, <2>1 DEF CompressCall, Enqueue, TxTypeOK, CounterTypeOK, dbVars
  <2>2. CASE CompressBegin(c)
    <3>1. CounterTypeOK'
      BY <1>1, <2>2, CountersKeep DEF CompressBegin, BeginFails, Begin, Unlock, lockVars
    <3>2. CASE UNCHANGED dbVars
      BY <1>1, <3>1, <3>2, TxEnds
    <3>3. CASE Begin({})
      BY <1>1, <3>1, <3>3, FirstFrame
    <3> QED BY <2>2, <3>2, <3>3 DEF CompressBegin, BeginFails
  <2>3. CASE CompressArchive(c)
    <3>1. /\ spCounter' \in Nat /\ stack' = Append(stack, Frame(spCounter'))
          /\ durable' = durable /\ rows' = rows \cup {<<"archived", c>>}
          /\ opened' = [opened EXCEPT ![c] = spCounter']
      BY <1>1, <2>3 DEF CompressArchive, TxTypeOK
    <3>2. stack \in StackType /\ rows' \subseteq Fact /\ durable' \subseteq Fact
      BY <1>1, <3>1 DEF TxTypeOK, Fact, Client
    <3>3. TxTypeOK'
      BY <1>1, <3>1, <3>2, TxBegins
    <3>4. CounterTypeOK'
      BY <1>1, <2>3, <3>1 DEF CompressArchive, CounterTypeOK, lockVars
    <3> QED BY <3>3, <3>4
  <2>4. CASE CompressRelease(c)
    <3>1. TxTypeOK'
      BY <1>1, <2>4, TxEnds DEF CompressRelease
    <3>2. CounterTypeOK'
      BY <1>1, <2>4 DEF CompressRelease, CounterTypeOK, lockVars
    <3> QED BY <3>1, <3>2
  <2>5. CASE CompressEnd(c)
    <3>1. CounterTypeOK'
      BY <1>1, <2>5, CountersKeep DEF CompressEnd, EndTx, Unlock
    <3> QED BY <1>1, <2>5, <3>1, TxEnds DEF CompressEnd, EndTx
  <2> QED BY <1>6, <2>1, <2>2, <2>3, <2>4, <2>5 DEF CompressStep
<1> QED BY <1>3, <1>4, <1>5, <1>6

--------------------------------------------------------------------------------
(* The theorems *)

IInv == QueueInv /\ DbTypeOK

LEMMA Initially == Init => IInv
<1> SUFFICES ASSUME Init PROVE IInv
  OBVIOUS
<1>1. /\ queue = << >> /\ scheduled = FALSE /\ immediates = << >> /\ flush = Idle
      /\ lock = << >> /\ pc = [i \in Client |-> "idle"]
  BY DEF Init
<1>2. flush \in FlushType /\ flush.step = "idle" /\ flush.batch = << >>
  BY <1>1 DEF Idle, FlushType, Step
<1>3. QueueOK
  <2>1. << >> \in Seq(Inserting) /\ << >> \in Seq(BOOLEAN)
    BY EmptySeq
  <2>2. QueueTypeOK
    BY <1>1, <1>2, <2>1 DEF QueueTypeOK, FlushType
  <2>3. Batched /\ FlagIsTrue /\ QueueIsAttended
    BY <1>1, <1>2 DEF Batched, Flushing, FlagIsTrue, QueueIsAttended
  <2>4. Apart
    BY <1>1, <1>2, ElemsOfEmpty DEF Apart
  <2> QED BY <2>2, <2>3, <2>4 DEF QueueOK
<1>4. CallTypeOK
  BY <1>1 DEF CallTypeOK, PC
<1>5. InPlaces = WaitsForRow
  BY <1>1, <1>2, ElemsOfEmpty DEF InPlaces, WaitsForRow
<1>6. LockIsHeld
  BY <1>1, <1>2 DEF LockIsHeld, Inside, FlushInside, Client
<1>7. DbTypeOK
  BY QueueAssumption DEF Init, DbTypeOK
<1> QED BY <1>3, <1>4, <1>5, <1>6, <1>7 DEF IInv, QueueInv

LEMMA Unchanged == IInv /\ UNCHANGED vars => IInv'
<1> SUFFICES ASSUME IInv, UNCHANGED vars PROVE IInv'
  OBVIOUS
<1>1. QueueOK'
  BY DEF IInv, QueueInv, QueueOK, QueueTypeOK, Batched, Flushing, FlagIsTrue,
         QueueIsAttended, Apart, vars, flushVars
<1>2. CallTypeOK' /\ LockIsHeld' /\ InPlaces' = WaitsForRow'
  BY DEF IInv, QueueInv, CallTypeOK, LockIsHeld, Inside, FlushInside, Holds, InPlaces,
         WaitsForRow, vars, flushVars, lockVars
<1>3. DbTypeOK'
  BY DEF IInv, DbTypeOK, vars, lockVars, dbVars
<1> QED BY <1>1, <1>2, <1>3 DEF IInv, QueueInv

LEMMA Stepping == IInv /\ [Next]_vars => IInv'
<1> SUFFICES ASSUME IInv, [Next]_vars PROVE IInv'
  OBVIOUS
<1>1. QueueInv /\ DbTypeOK /\ spCounter \in Nat
  BY DEF IInv, DbTypeOK
<1>2. CASE FlushEnter
  BY <1>1, <1>2, FlushEnterKeeps, FlushTypes DEF IInv
<1>3. CASE FlushStep
  BY <1>1, <1>3, ScheduledFlushKeeps, FlushBeginKeeps, FlushEndKeeps, FlushYieldKeeps,
     FlushTypes DEF IInv, FlushStep
<1>4. CASE BeginRetry
  <2>1. DbTypeOK'
    BY <1>1, <1>4, CallTypes
  <2>2. UNCHANGED <<flushVars, lock, pc>>
    BY <1>4 DEF BeginRetry
  <2>3. QueueOK'
    BY <1>1, <2>2 DEF QueueInv, QueueOK, QueueTypeOK, Batched, Flushing, FlagIsTrue,
                      QueueIsAttended, Apart, flushVars
  <2>4. CallTypeOK' /\ LockIsHeld' /\ InPlaces' = WaitsForRow'
    BY <1>1, <2>2 DEF QueueInv, CallTypeOK, LockIsHeld, Inside, FlushInside, Holds,
                      InPlaces, WaitsForRow, flushVars
  <2> QED BY <2>1, <2>3, <2>4 DEF IInv, QueueInv
<1>5. CASE \E w \in Writer : InsertMemory(w)
  BY <1>1, <1>5, InsertMemoryKeeps, CallTypes DEF IInv
<1>6. CASE \E u \in Direct : DirectCall(u) \/ DirectStep(u)
  BY <1>1, <1>6, DirectKeeps, CallTypes DEF IInv
<1>7. CASE \E c \in Compressor : CompressCall(c) \/ CompressStep(c)
  BY <1>1, <1>7, CompressKeeps, CallTypes DEF IInv
<1>8. CASE UNCHANGED vars
  BY <1>8, Unchanged
<1> QED BY <1>2, <1>3, <1>4, <1>5, <1>6, <1>7, <1>8 DEF Next

\* The queue, the flags of the flush and the places of the calls always fit together.
THEOREM AlwaysIInv == Spec => []IInv
BY Initially, Stepping, PTL DEF Spec

\* The types of every variable, whatever the numbers of calls and the thresholds.
THEOREM QueueTypes == Spec => []TypeOK
<1>1. IInv => TypeOK
  BY DEF IInv, QueueInv, QueueOK, QueueTypeOK, CallTypeOK, DbTypeOK, TypeOK, Inserting, PC
<1> QED BY <1>1, AlwaysIInv, PTL

\* QueueIsAttended of the runs: insertFlushScheduled is never up without a callback that
\* will clear it, and a flush does not end while the queue has rows, so a row that
\* waits in insertQueue is waited on by a flush or a setImmediate.
THEOREM QueueAttended == Spec => []QueueIsAttended
<1>1. IInv => QueueIsAttended
  BY DEF IInv, QueueInv, QueueOK
<1> QED BY <1>1, AlwaysIInv, PTL

\* A queue and a batch that are apart make one sequence without repetitions.
LEMMA InFlightIsPlaces ==
  ASSUME QueueOK
  PROVE  /\ DOMAIN InFlight = 1 .. Len(InFlight) /\ Injective(InFlight)
         /\ Elems(InFlight) = InPlaces
<1> DEFINE q == queue
           b == flush.batch
<1>1. /\ q \in Seq(Inserting) /\ b \in Seq(Inserting) /\ Injective(q) /\ Injective(b)
      /\ Elems(q) \cap Elems(b) = {}
  BY DEF QueueOK, QueueTypeOK, Apart
<1>2. InFlight = q \o b /\ InPlaces = Elems(q) \cup Elems(b)
  BY DEF InFlight, InPlaces
<1> HIDE DEF q, b
<1>3. /\ Len(q) \in Nat /\ Len(b) \in Nat /\ InFlight \in Seq(Inserting)
      /\ Len(InFlight) = Len(q) + Len(b)
      /\ \A i \in 1 .. Len(q) + Len(b) :
           InFlight[i] = IF i <= Len(q) THEN q[i] ELSE b[i - Len(q)]
  BY <1>1, <1>2, ConcatProperties, LenProperties
<1>4. DOMAIN InFlight = 1 .. Len(InFlight)
  BY <1>3, LenProperties
<1>5. ASSUME NEW i \in 1 .. Len(InFlight)
      PROVE  \/ i \in 1 .. Len(q) /\ InFlight[i] = q[i] /\ InFlight[i] \in Elems(q)
             \/ /\ i - Len(q) \in 1 .. Len(b) /\ InFlight[i] = b[i - Len(q)]
                /\ InFlight[i] \in Elems(b)
  <2>1. CASE i <= Len(q)
    <3>1. i \in 1 .. Len(q) /\ InFlight[i] = q[i]
      BY <1>3, <2>1
    <3> QED BY <3>1 DEF Elems
  <2>2. CASE ~(i <= Len(q))
    <3>1. i - Len(q) \in 1 .. Len(b) /\ InFlight[i] = b[i - Len(q)]
      BY <1>3, <2>2
    <3> QED BY <3>1 DEF Elems
  <2> QED BY <2>1, <2>2
<1>6. ASSUME NEW i \in 1 .. Len(InFlight), NEW j \in 1 .. Len(InFlight),
             InFlight[i] = InFlight[j]
      PROVE  i = j
  <2>1. CASE i \in 1 .. Len(q) /\ InFlight[i] = q[i] /\ InFlight[i] \in Elems(q)
    <3>1. j \in 1 .. Len(q) /\ InFlight[j] = q[j]
      BY <1>1, <1>5, <1>6, <2>1
    <3> QED BY <1>1, <1>6, <2>1, <3>1 DEF Injective
  <2>2. CASE /\ i - Len(q) \in 1 .. Len(b) /\ InFlight[i] = b[i - Len(q)]
             /\ InFlight[i] \in Elems(b)
    <3>1. j - Len(q) \in 1 .. Len(b) /\ InFlight[j] = b[j - Len(q)]
      BY <1>1, <1>5, <1>6, <2>2
    <3>2. i - Len(q) = j - Len(q)
      BY <1>1, <1>6, <2>2, <3>1 DEF Injective
    <3> QED BY <1>3, <3>2
  <2> QED BY <1>5, <2>1, <2>2
<1>7. Elems(InFlight) = Elems(q) \cup Elems(b)
  <2>1. Elems(InFlight) \subseteq Elems(q) \cup Elems(b)
    BY <1>5 DEF Elems
  <2>2. ASSUME NEW i \in 1 .. Len(q) PROVE q[i] \in Elems(InFlight)
    <3>1. i \in 1 .. Len(InFlight) /\ InFlight[i] = q[i]
      BY <1>3
    <3> QED BY <3>1 DEF Elems
  <2>3. ASSUME NEW i \in 1 .. Len(b) PROVE b[i] \in Elems(InFlight)
    <3>1. Len(q) + i \in 1 .. Len(InFlight) /\ InFlight[Len(q) + i] = b[i]
      BY <1>3
    <3> QED BY <3>1 DEF Elems
  <2>4. Elems(q) \subseteq Elems(InFlight) /\ Elems(b) \subseteq Elems(InFlight)
    BY <2>2, <2>3 DEF Elems
  <2> QED BY <2>1, <2>4
<1> QED BY <1>2, <1>4, <1>6, <1>7 DEF Injective

\* NoRowLostOrTwice of the runs: whichever way queue and batch are cut, taken apart and
\* retried row by row, every row whose caller waits is in one of them, once.
THEOREM RowsAreKept == Spec => []NoRowLostOrTwice
<1>1. IInv => NoRowLostOrTwice
  <2> SUFFICES ASSUME IInv PROVE NoRowLostOrTwice
    OBVIOUS
  <2>1. /\ DOMAIN InFlight = 1 .. Len(InFlight) /\ Injective(InFlight)
        /\ Elems(InFlight) = WaitsForRow
    BY InFlightIsPlaces DEF IInv, QueueInv
  <2> QED BY <2>1 DEF NoRowLostOrTwice, Elems, Injective, WaitsForRow
<1> QED BY <1>1, AlwaysIInv, PTL

--------------------------------------------------------------------------------
(***************************************************************************)
(* Proofs about InsertQueue when compress() does not overlap with          *)
(* remember(): at any time one transaction is open for one holder of the   *)
(* lock, what it has changed is known, and a call is answered "ok" if and  *)
(* only if its row is in the file.  (When they do overlap this is false:   *)
(* the runs LostWrite and CompressDeadlock.)                               *)
(***************************************************************************)

Compressing == Pending(Compressor) # {}

\* Rows of compress() and of remember() are never in the queue at once, and a flush, or
\* the callback for one, runs in a transaction exactly when it is that of compress().
Serial ==
  /\ \A c \in Compressor : pc[c] \notin {"queued", "abort"}
  /\ flush.step \in {"lock", "yield"} \/ FlushInside => ~flush.ctx
  /\ flush.step = "tx" /\ flush.name # 0 => flush.ctx
  /\ Compressing =>
       /\ Pending(Writer) = {}
       /\ flush.step # "yield"
       /\ Flushing => flush.ctx
       /\ immediates # << >> =>
            /\ Len(immediates) = 1 /\ immediates[1] = TRUE /\ flush.step = "idle"
            /\ \E c \in Compressor : pc[c] = "insert"
  /\ ~Compressing =>
       /\ Flushing => ~flush.ctx
       /\ \A k \in 1 .. Len(immediates) : ~immediates[k]

\* A transaction is open, and in it the savepoint n.
One == Len(stack) = 1 /\ stack[1].name = 0

Two(n) == Len(stack) = 2 /\ stack[1].name = 0 /\ stack[2].name = n

Archived(c) == Stored({c}) \cup {<<"archived", c>>}

\* What each transaction has changed so far.
FlushTx ==
  FlushInside =>
    /\ One /\ rows = durable \cup (IF flush.bad THEN {} ELSE Stored(Items))
    /\ flush.bad => ~flush.single

DirectTx == \A u \in Direct : pc[u] = "tx" => One /\ rows = durable \cup Stored({u})

CompressTx ==
  \A c \in Compressor :
    /\ pc[c] = "insert" =>
         IF flush.step = "tx"
         THEN /\ flush.name # 0 /\ ~flush.bad /\ Two(flush.name)
              /\ rows = durable \cup Stored({c})
         ELSE One /\ rows = durable
    /\ pc[c] = "archive" => One /\ rows = durable \cup Stored({c})
    /\ pc[c] = "release" =>
         opened[c] # 0 /\ Two(opened[c]) /\ rows = durable \cup Archived(c)
    /\ pc[c] = "commit" => One /\ rows = durable \cup Archived(c)

NoTx == Inside = {} /\ ~FlushInside => stack = << >> /\ rows = durable

\* Who is told "ok" has all of its changes in the file, who is not has none.
AnsweredIsStored ==
  /\ \A i \in Client : <<"stored", i>> \in durable <=> pc[i] = "ok"
  /\ \A c \in Compressor : <<"archived", c>> \in durable <=> pc[c] = "ok"

\* The unique index, which a transaction of the flush does not violate.
KeysDiffer(S) == \A i, j \in Keyed(S) : i # j => KeyOf[i] # KeyOf[j]

DurableWriters == {w \in Writer : <<"stored", w>> \in durable}

IndexHolds ==
  /\ KeysDiffer(DurableWriters)
  /\ FlushInside /\ ~flush.bad => KeysDiffer(DurableWriters \cup Items)

Txs == FlushTx /\ DirectTx /\ CompressTx /\ NoTx

TxInv == Serial /\ Txs /\ AnsweredIsStored /\ IndexHolds /\ PeersSurvivePoison

--------------------------------------------------------------------------------
(* Who is inside *)

LEMMA NoElems ==
  ASSUME NEW S, NEW s \in Seq(S), Elems(s) = {}
  PROVE  s = << >>
<1>1. s # << >> => Len(s) \in Nat \ {0}
  BY EmptySeq
<1>2. Len(s) \in Nat \ {0} => s[1] \in Elems(s)
  BY DEF Elems
<1> QED BY <1>1, <1>2

\* Nobody is inside when the lock is held by somebody who is not.
LEMMA NobodyInside ==
  ASSUME LockIsHeld, NoTx, NEW o, Holds(o), o \notin Inside, o = "flush" => ~FlushInside
  PROVE  Inside = {} /\ ~FlushInside /\ stack = << >> /\ rows = durable
<1>1. Inside = {}
  BY DEF LockIsHeld, Holds
<1>2. ~FlushInside
  BY DEF LockIsHeld, Holds
<1> QED BY <1>1, <1>2 DEF NoTx

LEMMA HolderIsAlone ==
  ASSUME LockIsHeld, NEW i \in Inside
  PROVE  Holds(i) /\ Inside = {i} /\ ~FlushInside
<1>1. Holds(i) /\ Inside = {i}
  BY DEF LockIsHeld, Holds
<1>2. ~FlushInside
  BY <1>1, InsideAreClients DEF LockIsHeld, Holds
<1> QED BY <1>1, <1>2

\* While compress() has the lock and no row in the queue, the queue is at rest.
LEMMA QueueAtRest ==
  ASSUME QueueInv, Serial, NEW c \in Compressor, Holds(c), pc[c] # "insert", Compressing
  PROVE  /\ WaitsForRow = {} /\ queue = << >> /\ flush.batch = << >> /\ flush.step = "idle"
         /\ immediates = << >> /\ scheduled = FALSE
<1>1. \A d \in Compressor : pc[d] # "insert"
  BY DEF QueueInv, LockIsHeld, Inside, Holds
<1>2. WaitsForRow = {}
  <2>1. \A w \in Writer : pc[w] \in {"idle", "ok", "failed"}
    BY DEF Serial, Pending
  <2>2. \A u \in Direct : pc[u] = "queued" \/ pc[u] = "insert" => u = c
    BY DEF QueueInv, LockIsHeld, Inside, Holds
  <2>3. c \notin Direct
    BY QueueAssumption
  <2> QED BY <1>1, <2>1, <2>2, <2>3 DEF WaitsForRow, Client, Serial
<1>3. Elems(queue) = {} /\ Elems(flush.batch) = {}
  BY <1>2 DEF QueueInv, InPlaces
<1>4. queue = << >> /\ flush.batch = << >>
  BY <1>3, NoElems DEF QueueInv, QueueOK, QueueTypeOK
<1>5. flush.step = "idle"
  BY <1>4 DEF QueueInv, QueueOK, QueueTypeOK, Batched, Flushing, Step, Serial
<1>6. immediates = << >>
  BY <1>1 DEF Serial
<1>7. scheduled = FALSE
  BY <1>6 DEF QueueInv, QueueOK, QueueTypeOK, FlagIsTrue
<1> QED BY <1>2, <1>4, <1>5, <1>6, <1>7

\* A flush while a compress() is going on is about its summary alone.
LEMMA FlushOfSummary ==
  ASSUME QueueInv, Serial, Compressing, Flushing
  PROVE  \E c \in Compressor :
           /\ c \in Inside /\ pc[c] = "insert" /\ Holds(c) /\ Inside = {c} /\ ~FlushInside
           /\ Items = {c} /\ queue = << >> /\ Rest = << >> /\ WaitsForRow = {c}
           /\ flush.ctx /\ flush.step # "lock" /\ ~Refused(Items)
<1>1. flush.batch \in Seq(Inserting) /\ flush.batch # << >> /\ queue \in Seq(Inserting)
  BY DEF QueueInv, QueueOK, QueueTypeOK, Batched
<1>2. Elems(flush.batch) # {}
  BY <1>1, NoElems
<1>3. Elems(flush.batch) \subseteq WaitsForRow /\ Elems(flush.batch) \subseteq Inserting
  BY <1>1, ElementOfSeq DEF QueueInv, InPlaces, Elems
<1>4. \A i \in Elems(flush.batch) : i \in Compressor /\ pc[i] = "insert"
  BY <1>3 DEF Serial, Pending, WaitsForRow, Inserting
<1>5. PICK c \in Elems(flush.batch) : TRUE
  BY <1>2
<1>6. c \in Compressor /\ c \in Inside /\ pc[c] = "insert"
  BY <1>4, <1>5 DEF Inside
<1>7. Holds(c) /\ Inside = {c} /\ ~FlushInside
  BY <1>6, HolderIsAlone DEF QueueInv
<1>8. WaitsForRow = {c}
  <2>1. \A w \in Writer : pc[w] \in {"idle", "ok", "failed"}
    BY DEF Serial, Pending
  <2>2. \A i \in Direct \cup Compressor : i \in WaitsForRow => i \in Inside
    BY DEF Inside, WaitsForRow
  <2> QED BY <1>3, <1>5, <1>7, <2>1, <2>2 DEF WaitsForRow, Client
<1>9. Elems(flush.batch) = {c} /\ Elems(queue) = {}
  BY <1>3, <1>5, <1>8 DEF QueueInv, InPlaces, QueueOK, Apart
<1>10. queue = << >>
  BY <1>1, <1>9, NoElems
<1>11. Items = {c} /\ Elems(Rest) = {} /\ Rest \in Seq(Inserting)
  <2>1. /\ Items \subseteq {c} /\ Rest \in Seq(Inserting) /\ Elems(Rest) = {c} \ Items
    BY <1>9, ItemsAndRest DEF QueueInv
  <2>2. Items # {}
    <3>1. CASE flush.single
      BY <3>1 DEF Items
    <3>2. CASE ~flush.single
      <4>1. DOMAIN flush.batch = 1 .. Len(flush.batch)
        BY <1>1, LenProperties
      <4>2. Items = Elems(flush.batch)
        BY <3>2, <4>1 DEF Items, Elems
      <4> QED BY <1>9, <4>2
    <3> QED BY <3>1, <3>2
  <2> QED BY <2>1, <2>2
<1>12. Rest = << >>
  BY <1>11, NoElems
<1>13. flush.ctx /\ flush.step # "lock"
  BY DEF Serial
<1>14. ~Refused(Items)
  BY <1>6, <1>11, QueueAssumption DEF Refused, Keyed
<1> QED BY <1>6, <1>7, <1>8, <1>10, <1>11, <1>12, <1>13, <1>14

\* A flush while no compress() is going on is about rows of remember().
LEMMA FlushOfWriters ==
  ASSUME QueueInv, Serial, ~Compressing, Flushing
  PROVE  /\ Items \subseteq Writer /\ Items \subseteq WaitsForRow /\ ~flush.ctx
         /\ \A i \in Items : pc[i] \in {"queued", "insert"}
<1>1. Items \subseteq Inserting /\ Items \subseteq WaitsForRow
  BY ItemsAndRest DEF QueueInv, InPlaces
<1>2. \A c \in Compressor : c \notin WaitsForRow
  BY DEF Compressing, Pending, WaitsForRow
<1> QED BY <1>1, <1>2 DEF Inserting, WaitsForRow, Serial

--------------------------------------------------------------------------------
(* The open transaction *)

LEMMA BeginsOne ==
  ASSUME NEW changes, rows = durable, Begin(changes)
  PROVE  One' /\ durable' = durable /\ rows' = durable \cup changes
<1>1. stack' = <<Frame(0)>> /\ Frame(0).name = 0
  BY DEF Begin, Frame
<1>2. stack'[1].name = 0 /\ Len(stack') = 1
  BY <1>1
<1> QED BY <1>2 DEF Begin, One

\* Appending leaves the rest of a sequence as it is.
LEMMA AppendKeeps ==
  ASSUME NEW T, NEW s \in Seq(T), NEW f \in T
  PROVE  /\ Len(Append(s, f)) = Len(s) + 1 /\ Append(s, f)[Len(s) + 1] = f
         /\ \A i \in 1 .. Len(s) : Append(s, f)[i] = s[i]
BY AppendProperties

LEMMA SavepointInOne ==
  ASSUME TxTypeOK, One, NEW n \in Nat, stack' = Append(stack, Frame(n))
  PROVE  Len(stack') = 2 /\ stack'[1].name = 0 /\ stack'[2].name = n
<1> DEFINE F == [name : Nat, saved : SUBSET Fact]
           f == Frame(n)
<1>1. f \in F /\ stack \in Seq(F)
  BY DEF Frame, TxTypeOK, StackType
<1>2. f.name = n /\ Len(stack) = 1 /\ stack[1].name = 0 /\ stack' = Append(stack, f)
  BY DEF Frame, One
<1> HIDE DEF F, f
<1>3. /\ Len(Append(stack, f)) = Len(stack) + 1 /\ Append(stack, f)[Len(stack) + 1] = f
      /\ \A i \in 1 .. Len(stack) : Append(stack, f)[i] = stack[i]
  BY ONLY <1>1, AppendKeeps, SMT
<1>4. Len(stack') = 2 /\ stack'[2] = f /\ stack'[1] = stack[1]
  BY <1>2, <1>3
<1> QED BY <1>2, <1>4

LEMMA ReleaseOfTwo ==
  ASSUME TxTypeOK, NEW n, n # 0, Two(n)
  PROVE  /\ Savepoints(n) # {}
         /\ Release(n) => One' /\ rows' = rows /\ durable' = durable
<1>1. stack \in Seq([name : Nat, saved : SUBSET Fact]) /\ Len(stack) = 2
  BY DEF TxTypeOK, StackType, Two
<1>2. DOMAIN stack = 1 .. 2
  BY <1>1, LenProperties
<1>3. Savepoints(n) = {2}
  BY <1>2 DEF Savepoints, Two
<1>4. ASSUME Release(n)
      PROVE  One' /\ rows' = rows /\ durable' = durable
  <2>1. stack' = SubSeq(stack, 1, 2 - 1) /\ rows' = rows /\ durable' = durable
    BY <1>3, <1>4 DEF Release
  <2>2. Len(stack') = 1 /\ stack'[1] = stack[1]
    BY <1>1, <2>1
  <2> QED BY <2>1, <2>2 DEF One, Two
<1> QED BY <1>3, <1>4

\* A step that neither opens nor ends a transaction.
LEMMA TxFrame ==
  ASSUME Txs, IndexHolds, UNCHANGED <<stack, rows, durable, opened>>,
         flush' = flush \/ (flush.step # "tx" /\ flush'.step # "tx"),
         Inside' = Inside, \A i \in Inside : pc'[i] = pc[i]
  PROVE  Txs' /\ IndexHolds'
<1>1. CASE flush' = flush
  <2>1. FlushTx' /\ NoTx'
    BY <1>1 DEF Txs, FlushTx, NoTx, FlushInside, One, Items
  <2>2. DirectTx'
    <3> SUFFICES ASSUME NEW u \in Direct, pc'[u] = "tx"
                 PROVE  One' /\ rows' = durable' \cup Stored({u})
      BY DEF DirectTx, Stored
    <3>1. u \in Inside'
      BY DEF Inside
    <3> QED BY <3>1 DEF Txs, DirectTx, One
  <2>3. CompressTx'
    <3> SUFFICES ASSUME NEW c \in Compressor, c \in Inside
                 PROVE  CompressTx!(c)'
      BY DEF CompressTx, Inside
    <3> QED BY <1>1 DEF Txs, CompressTx, One, Two, Archived, Stored
  <2>4. IndexHolds'
    <3>1. /\ Items' = Items /\ DurableWriters' = DurableWriters
          /\ FlushInside' = FlushInside /\ flush'.bad = flush.bad
      BY <1>1 DEF Items, DurableWriters, FlushInside
    <3> QED BY <3>1 DEF IndexHolds, KeysDiffer, Keyed
  <2> QED BY <2>1, <2>2, <2>3, <2>4 DEF Txs
<1>2. CASE flush.step # "tx" /\ flush'.step # "tx"
  <2>1. FlushTx' /\ NoTx'
    BY <1>2 DEF Txs, FlushTx, NoTx, FlushInside
  <2>2. DirectTx'
    <3> SUFFICES ASSUME NEW u \in Direct, pc'[u] = "tx"
                 PROVE  One' /\ rows' = durable' \cup Stored({u})
      BY DEF DirectTx, Stored
    <3>1. u \in Inside'
      BY DEF Inside
    <3> QED BY <3>1 DEF Txs, DirectTx, One
  <2>3. CompressTx'
    <3> SUFFICES ASSUME NEW c \in Compressor, c \in Inside
                 PROVE  CompressTx!(c)'
      BY DEF CompressTx, Inside
    <3> QED BY <1>2 DEF Txs, CompressTx, One, Two, Archived, Stored
  <2>4. IndexHolds'
    BY <1>2 DEF IndexHolds, FlushInside, KeysDiffer, DurableWriters
  <2> QED BY <2>1, <2>2, <2>3, <2>4 DEF Txs
<1> QED BY <1>1, <1>2

\* The holder of the lock is alone, so what the step leaves behind is about it alone.
LEMMA TxOfDirect ==
  ASSUME NEW u \in Direct, Inside' = {u}, ~FlushInside', pc'[u] = "tx",
         One', rows' = durable' \cup Stored({u})
  PROVE  Txs'
<1>1. FlushTx' /\ NoTx'
  BY DEF FlushTx, NoTx
<1>2. DirectTx'
  BY DEF DirectTx, Inside, Stored
<1>3. CompressTx'
  BY QueueAssumption DEF CompressTx, Inside
<1> QED BY <1>1, <1>2, <1>3 DEF Txs

LEMMA TxOfCompress ==
  ASSUME NEW c \in Compressor, Inside' = {c}, ~FlushInside',
         \/ /\ pc'[c] = "insert"
            /\ IF flush'.step = "tx"
               THEN /\ flush'.name # 0 /\ ~flush'.bad /\ Two(flush.name)'
                    /\ rows' = durable' \cup Stored({c})
               ELSE One' /\ rows' = durable'
         \/ pc'[c] = "archive" /\ One' /\ rows' = durable' \cup Stored({c})
         \/ /\ pc'[c] = "release" /\ opened'[c] # 0 /\ Two(opened[c])'
            /\ rows' = durable' \cup Archived(c)
         \/ pc'[c] = "commit" /\ One' /\ rows' = durable' \cup Archived(c)
  PROVE  Txs'
<1>1. FlushTx' /\ NoTx'
  BY DEF FlushTx, NoTx
<1>2. DirectTx'
  BY QueueAssumption DEF DirectTx, Inside
<1>3. CompressTx'
  <2> SUFFICES ASSUME NEW d \in Compressor
               PROVE  CompressTx!(d)'
    BY DEF CompressTx
  <2>1. CASE d = c
    BY <2>1 DEF Archived, Stored
  <2>2. CASE d # c
    BY <2>2 DEF Inside
  <2> QED BY <2>1, <2>2
<1> QED BY <1>1, <1>2, <1>3 DEF Txs

LEMMA TxOfFlush ==
  ASSUME Inside' = {}, FlushInside', FlushTx'
  PROVE  Txs'
BY DEF Txs, DirectTx, CompressTx, NoTx, Inside

LEMMA TxOfNobody ==
  ASSUME Inside' = {}, ~FlushInside', stack' = << >>, rows' = durable'
  PROVE  Txs'
BY DEF Txs, FlushTx, DirectTx, CompressTx, NoTx, Inside

\* Only the flush changes which rows of remember() are in the file.
LEMMA IndexFrame ==
  ASSUME IndexHolds, ~FlushInside', DurableWriters' = DurableWriters
  PROVE  IndexHolds'
BY DEF IndexHolds, KeysDiffer, Keyed

LEMMA AnswersFrame ==
  ASSUME AnsweredIsStored, durable' = durable,
         \A i \in Client : pc'[i] = "ok" <=> pc[i] = "ok"
  PROVE  AnsweredIsStored'
BY DEF AnsweredIsStored, Client

\* Who fails must have had a reason that lasts.
LEMMA PeersFrame ==
  ASSUME PeersSurvivePoison, busyLeft \in 0 .. MaxBusy, durable \subseteq durable',
         busyLeft' = busyLeft \/ (busyLeft > 0 /\ busyLeft' = busyLeft - 1),
         \A w \in Writer :
           pc'[w] = "failed" =>
             \/ pc[w] = "failed" \/ busyLeft' = busyLeft - 1 \/ w \in Poison
             \/ \E v \in Keyed(Writer) \ {w} : /\ KeyOf[v] = KeyOf[w]
                                               /\ <<"stored", v>> \in durable'
  PROVE  PeersSurvivePoison'
<1> SUFFICES ASSUME NEW w \in Writer, pc'[w] = "failed", busyLeft' = MaxBusy
             PROVE  \/ w \in Poison
                    \/ \E v \in Keyed(Writer) \ {w} : /\ KeyOf[v] = KeyOf[w]
                                                      /\ <<"stored", v>> \in durable'
  BY DEF PeersSurvivePoison, Keyed
<1>1. busyLeft = MaxBusy /\ busyLeft' # busyLeft - 1
  BY QueueAssumption
<1> QED BY <1>1 DEF PeersSurvivePoison

--------------------------------------------------------------------------------
(* The steps of the queue *)

LEMMA Starts ==
  ASSUME NEW ctx \in BOOLEAN, NEW q, StartFlush(ctx, q)
  PROVE  \/ flush' = flush
         \/ /\ flush.step = "idle" /\ flush'.step = "enter" /\ flush'.ctx = ctx
<1> DEFINE n == IF Len(q) < MaxBatch THEN Len(q) ELSE MaxBatch
           b == SubSeq(q, 1, n)
           o == (n = 1)
<1>1. CASE flush.step # "idle" \/ q = << >>
  BY <1>1 DEF StartFlush
<1>2. CASE flush.step = "idle" /\ q # << >>
  <2>1. flush' = [Idle EXCEPT !.step = "enter", !.ctx = ctx, !.batch = b, !.single = o]
    BY <1>2 DEF StartFlush
  <2> HIDE DEF b, o
  <2>2. flush' = [step |-> "enter", ctx |-> ctx, batch |-> b, single |-> o, name |-> 0,
                  bad |-> FALSE]
    BY <2>1, Zenon DEF Idle
  <2> QED BY <1>2, <2>2
<1> QED BY <1>1, <1>2

LEMMA Pushes ==
  ASSUME NEW i, NEW ctx \in BOOLEAN, Push(i, ctx)
  PROVE  /\ \/ flush' = flush
            \/ flush.step = "idle" /\ flush'.step = "enter" /\ flush'.ctx = ctx
         /\ \/ immediates' = immediates
            \/ /\ ~scheduled /\ flush' = flush
               /\ immediates' = Append(immediates, ctx)
BY Starts DEF Push

LEMMA InsertMemoryTx ==
  ASSUME IInv, TxInv, ~Overlap, NEW w \in Writer, InsertMemory(w)
  PROVE  TxInv'
<1>1. /\ ~Compressing /\ pc[w] = "idle" /\ pc' = [pc EXCEPT ![w] = "queued"]
      /\ pc \in [Client -> PC] /\ w \in Client
      /\ UNCHANGED <<lock, opened, stack, rows, durable, busyLeft>>
  BY DEF InsertMemory, Compressing, IInv, QueueInv, CallTypeOK, Client, lockVars, dbVars
<1>2. /\ \/ flush' = flush
         \/ flush.step = "idle" /\ flush'.step = "enter" /\ flush'.ctx = FALSE
      /\ immediates' = immediates \/ immediates' = Append(immediates, FALSE)
  BY Pushes DEF InsertMemory
<1>3. \A i \in Direct \cup Compressor : pc'[i] = pc[i] /\ i \in Client
  BY <1>1, QueueAssumption DEF Client
<1>4. Inside' = Inside /\ ~Compressing'
  BY <1>1, <1>3 DEF Inside, Compressing, Pending
<1>5. \A k \in 1 .. Len(immediates') : ~immediates'[k]
  <2>1. immediates \in Seq(BOOLEAN) /\ \A k \in 1 .. Len(immediates) : ~immediates[k]
    BY <1>1 DEF TxInv, Serial, IInv, QueueInv, QueueOK, QueueTypeOK
  <2>2. CASE immediates' = immediates
    BY <2>1, <2>2
  <2>3. CASE immediates' = Append(immediates, FALSE)
    <3>1. /\ Len(immediates') = Len(immediates) + 1 /\ Len(immediates) \in Nat
          /\ \A k \in 1 .. Len(immediates) : immediates'[k] = immediates[k]
          /\ immediates'[Len(immediates) + 1] = FALSE
      BY <2>1, <2>3, AppendKeeps, LenProperties
    <3> QED BY <2>1, <3>1
  <2> QED BY <1>2, <2>2, <2>3
<1>6. Serial'
  BY <1>1, <1>2, <1>3, <1>4, <1>5 DEF TxInv, Serial, FlushInside, Flushing
<1>7. Txs' /\ IndexHolds'
  BY <1>1, <1>2, <1>3, <1>4, TxFrame DEF TxInv, Inside
<1>8. AnsweredIsStored'
  BY <1>1, AnswersFrame DEF TxInv
<1>9. PeersSurvivePoison'
  BY <1>1, PeersFrame DEF TxInv, IInv, DbTypeOK
<1> QED BY <1>6, <1>7, <1>8, <1>9 DEF TxInv

LEMMA ScheduledFlushTx ==
  ASSUME IInv, TxInv, ScheduledFlush
  PROVE  TxInv'
<1>1. /\ UNCHANGED <<lock, pc, opened, stack, rows, durable, busyLeft>>
      /\ immediates' = Tail(immediates) /\ immediates # << >>
      /\ immediates \in Seq(BOOLEAN)
  BY DEF ScheduledFlush, IInv, QueueInv, QueueOK, QueueTypeOK, lockVars, dbVars
<1>2. /\ Head(immediates) \in BOOLEAN /\ Head(immediates) = immediates[1]
      /\ Len(immediates) \in Nat /\ Len(immediates) >= 1
      /\ Len(Tail(immediates)) = Len(immediates) - 1
      /\ \A k \in 1 .. Len(Tail(immediates)) : Tail(immediates)[k] = immediates[k + 1]
  BY <1>1, HeadTailProperties, EmptySeq
<1>3. \/ flush' = flush
      \/ flush.step = "idle" /\ flush'.step = "enter" /\ flush'.ctx = Head(immediates)
  BY <1>2, Starts DEF ScheduledFlush
<1>4. Inside' = Inside /\ Compressing' = Compressing /\ Pending(Writer)' = Pending(Writer)
  BY <1>1 DEF Inside, Compressing, Pending
<1>5. Serial'
  <2>1. CASE Compressing
    <3>1. Len(immediates) = 1 /\ immediates[1] = TRUE
      BY <1>1, <2>1 DEF TxInv, Serial
    <3>2. Head(immediates) = TRUE /\ immediates' = << >>
      <4>1. Head(immediates) = TRUE
        BY <1>2, <3>1, Zenon
      <4>2. Tail(immediates) \in Seq(BOOLEAN) /\ Len(Tail(immediates)) = 0
        BY <1>1, <1>2, <3>1, HeadTailProperties
      <4>3. Tail(immediates) = << >>
        BY <4>2, EmptySeq
      <4> QED BY <1>1, <4>1, <4>3
    <3> QED BY <1>1, <1>3, <1>4, <2>1, <3>2 DEF TxInv, Serial, FlushInside, Flushing
  <2>2. CASE ~Compressing
    <3>1. \A k \in 1 .. Len(immediates) : ~immediates[k]
      BY <2>2 DEF TxInv, Serial
    <3>2. \A k \in 1 .. Len(immediates') : ~immediates'[k]
      BY <1>1, <1>2, <3>1
    <3>3. ~Head(immediates)
      <4>1. 1 \in 1 .. Len(immediates)
        BY <1>2
      <4>2. ~immediates[1]
        BY <3>1, <4>1
      <4> QED BY <1>2, <4>2, Zenon
    <3> QED BY <1>1, <1>3, <1>4, <2>2, <3>2, <3>3 DEF TxInv, Serial, FlushInside, Flushing
  <2> QED BY <2>1, <2>2
<1>6. Txs' /\ IndexHolds'
  BY <1>1, <1>3, <1>4, TxFrame DEF TxInv
<1>7. AnsweredIsStored' /\ PeersSurvivePoison'
  BY <1>1, AnswersFrame, PeersFrame DEF TxInv, IInv, DbTypeOK
<1> QED BY <1>5, <1>6, <1>7 DEF TxInv

LEMMA FlushYieldTx ==
  ASSUME IInv, TxInv, FlushYield
  PROVE  TxInv'
<1>1. /\ UNCHANGED <<immediates, lock, pc, opened, stack, rows, durable, busyLeft>>
      /\ flush.step = "yield" /\ ~Compressing /\ ~flush.ctx
  BY DEF FlushYield, TxInv, Serial, lockVars, dbVars
<1>2. flush'.step = "enter" /\ flush'.ctx = flush.ctx
  <2> DEFINE n == IF Len(queue) < MaxBatch THEN Len(queue) ELSE MaxBatch
             b == SubSeq(queue, 1, n)
             o == (n = 1)
  <2>1. flush' = [flush EXCEPT !.step = "enter", !.single = o, !.batch = b]
    BY DEF FlushYield
  <2>2. flush \in FlushType
    BY DEF IInv, QueueInv, QueueOK, QueueTypeOK, FlushType
  <2> HIDE DEF b, o
  <2> QED BY <2>1, <2>2 DEF FlushType
<1>3. Inside' = Inside /\ Compressing' = Compressing
  BY <1>1 DEF Inside, Compressing, Pending
<1>4. Serial'
  BY <1>1, <1>2, <1>3 DEF TxInv, Serial, FlushInside, Flushing
<1>5. Txs' /\ IndexHolds'
  BY <1>1, <1>2, <1>3, TxFrame DEF TxInv
<1>6. AnsweredIsStored' /\ PeersSurvivePoison'
  BY <1>1, AnswersFrame, PeersFrame DEF TxInv, IInv, DbTypeOK
<1> QED BY <1>4, <1>5, <1>6 DEF TxInv

--------------------------------------------------------------------------------
(* The steps of a flush *)

LEMMA Continues ==
  ASSUME NEW left, Continue(left), flush \in FlushType
  PROVE  /\ flush'.step \in {"enter", "yield", "idle"}
         /\ flush'.step # "idle" => flush'.ctx = flush.ctx
         /\ left = << >> /\ queue = << >> => flush'.step = "idle"
<1>1. CASE left # << >>
  <2>1. flush' = [flush EXCEPT !.step = "enter", !.batch = left, !.single = TRUE,
                               !.bad = FALSE]
    BY <1>1 DEF Continue
  <2> QED BY <1>1, <2>1 DEF FlushType
<1>2. CASE left = << >> /\ queue # << >>
  <2>1. flush' = [step |-> "yield", ctx |-> flush.ctx, batch |-> << >>, single |-> FALSE,
                  name |-> 0, bad |-> FALSE]
    BY <1>2, Zenon DEF Continue, Idle
  <2> QED BY <1>2, <2>1
<1>3. CASE left = << >> /\ queue = << >>
  BY <1>3 DEF Continue, Idle
<1> QED BY <1>1, <1>2, <1>3

\* Answers of a flush while no compress() is going on.
LEMMA WritersAnswered ==
  ASSUME IInv, TxInv, ~Compressing, Flushing, Succeed \/ Fail, immediates' = immediates
  PROVE  /\ Serial' /\ ~FlushInside' /\ flush'.step # "tx"
         /\ \A i \in Direct \cup Compressor : pc'[i] = pc[i]
         /\ Succeed => \A i \in Client : pc'[i] = "ok" <=> pc[i] = "ok" \/ i \in Items
         /\ Succeed => \A i \in Writer : pc'[i] = "failed" => pc[i] = "failed"
         /\ Fail => /\ \A i \in Client : pc'[i] = "ok" <=> pc[i] = "ok"
                    /\ \A i \in Writer : pc'[i] = "failed" =>
                         pc[i] = "failed" \/ (flush.single /\ i \in Items)
<1>1. /\ Items \subseteq Writer /\ ~flush.ctx
      /\ \A i \in Items : pc[i] \in {"queued", "insert"}
  BY FlushOfWriters DEF IInv, TxInv
<1>2. pc \in [Client -> PC] /\ flush \in FlushType
  BY DEF IInv, QueueInv, QueueOK, QueueTypeOK, FlushType, CallTypeOK
<1>3. \A ok \in BOOLEAN :
        Answer(Items, ok) =>
          /\ \A i \in Client \ Items : pc'[i] = pc[i]
          /\ \A i \in Items : pc'[i] = IF ok THEN "ok" ELSE "failed"
  BY <1>1, QueueAssumption DEF Answer, Client
<1>4. /\ \/ \E ok \in BOOLEAN : Answer(Items, ok)
         \/ pc' = pc
      /\ \E left \in {Rest, flush.batch} : Continue(left)
  BY DEF Succeed, Fail
<1>5. \A i \in Direct \cup Compressor : pc'[i] = pc[i]
  BY <1>1, <1>3, <1>4, QueueAssumption DEF Client
<1>6. /\ flush'.step \in {"enter", "yield", "idle"}
      /\ flush'.step # "idle" => flush'.ctx = flush.ctx
  BY <1>2, <1>4, Continues
<1>7. ~Compressing'
  BY <1>5 DEF Compressing, Pending
<1>8. Serial'
  BY <1>1, <1>5, <1>6, <1>7 DEF TxInv, Serial, FlushInside, Flushing
<1>9. Succeed => /\ \A i \in Client : pc'[i] = "ok" <=> pc[i] = "ok" \/ i \in Items
                 /\ \A i \in Writer : pc'[i] = "failed" => pc[i] = "failed"
  BY <1>1, <1>3 DEF Succeed, Client
<1>10. Fail => /\ \A i \in Client : pc'[i] = "ok" <=> pc[i] = "ok"
               /\ \A i \in Writer : pc'[i] = "failed" =>
                    pc[i] = "failed" \/ (flush.single /\ i \in Items)
  BY <1>1, <1>3 DEF Fail, Client
<1> QED BY <1>5, <1>6, <1>8, <1>9, <1>10 DEF FlushInside

LEMMA FlushEnterTx ==
  ASSUME IInv, TxInv, FlushEnter
  PROVE  TxInv'
<1>1. /\ Flushing /\ flush.step = "enter" /\ flush \in FlushType
      /\ UNCHANGED <<immediates, opened, busyLeft>>
  BY DEF FlushEnter, Entering, Flushing, IInv, QueueInv, QueueOK, QueueTypeOK, FlushType
<1>2. CASE ~flush.ctx
  <2>1. /\ flush' = [flush EXCEPT !.step = "lock"]
        /\ UNCHANGED <<pc, stack, rows, durable>>
    BY <1>2 DEF FlushEnter, dbVars
  <2>2. flush'.step = "lock" /\ flush'.ctx = flush.ctx
    BY <1>1, <2>1 DEF FlushType
  <2>3. Inside' = Inside /\ Compressing' = Compressing /\ ~Compressing
    BY <1>1, <1>2, <2>1 DEF Inside, Compressing, Pending, TxInv, Serial
  <2>4. Serial'
    BY <1>1, <1>2, <2>1, <2>2, <2>3 DEF TxInv, Serial, FlushInside, Flushing
  <2>5. Txs' /\ IndexHolds'
    BY <1>1, <2>1, <2>2, <2>3, TxFrame DEF TxInv
  <2>6. AnsweredIsStored' /\ PeersSurvivePoison'
    BY <1>1, <2>1, AnswersFrame, PeersFrame DEF TxInv, IInv, DbTypeOK
  <2> QED BY <2>4, <2>5, <2>6 DEF TxInv
<1>3. CASE flush.ctx
  <2>1. Compressing
    BY <1>1, <1>3 DEF TxInv, Serial
  <2>2. PICK c \in Compressor :
          /\ c \in Inside /\ pc[c] = "insert" /\ Holds(c) /\ Inside = {c} /\ ~FlushInside
          /\ Items = {c} /\ ~Refused(Items)
    BY <1>1, <2>1, FlushOfSummary DEF IInv, TxInv
  <2>3. One /\ rows = durable
    BY <1>1, <2>2 DEF TxInv, Txs, CompressTx
  <2>4. /\ spCounter' = spCounter + 1 /\ stack' = Append(stack, Frame(spCounter'))
        /\ flush' = [flush EXCEPT !.step = "tx", !.name = spCounter', !.bad = Refused(Items)]
        /\ rows' = rows \cup Stored(Items) /\ durable' = durable /\ pc' = pc
    BY <1>3, <2>2 DEF FlushEnter
  <2>5. TxTypeOK /\ spCounter' \in Nat /\ spCounter' # 0
    BY <2>4 DEF IInv, DbTypeOK, TxTypeOK, StackType
  <2>6. Refused(Items) = FALSE
    BY <2>2, Zenon DEF Refused
  <2>7. /\ flush'.step = "tx" /\ flush'.name = spCounter' /\ ~flush'.bad
        /\ flush'.ctx = flush.ctx
    BY <1>1, <2>4, <2>6, Zenon DEF FlushType
  <2>8. Len(stack') = 2 /\ stack'[1].name = 0 /\ stack'[2].name = spCounter'
    BY <2>3, <2>4, <2>5, SavepointInOne
  <2>9. /\ Inside' = {c} /\ ~FlushInside' /\ Compressing'
        /\ Pending(Writer)' = Pending(Writer)
    BY <2>1, <2>2, <2>4, <2>5, <2>7 DEF Inside, FlushInside, Compressing, Pending
  <2>10. Txs'
    <3>1. Two(flush.name)' /\ flush'.name # 0
      BY <2>5, <2>7, <2>8 DEF Two
    <3>2. pc'[c] = "insert" /\ rows' = durable' \cup Stored({c})
      BY <2>2, <2>3, <2>4
    <3> QED BY <2>7, <2>9, <3>1, <3>2, TxOfCompress
  <2>11. Serial'
    BY <1>1, <1>3, <2>1, <2>4, <2>7, <2>9 DEF TxInv, Serial, FlushInside, Flushing
  <2>12. IndexHolds'
    BY <2>4, <2>9, IndexFrame DEF TxInv, DurableWriters
  <2>13. AnsweredIsStored' /\ PeersSurvivePoison'
    BY <1>1, <2>4, AnswersFrame, PeersFrame DEF TxInv, IInv, DbTypeOK
  <2> QED BY <2>10, <2>11, <2>12, <2>13 DEF TxInv
<1> QED BY <1>2, <1>3

LEMMA FlushBeginTx ==
  ASSUME IInv, TxInv, FlushBegin
  PROVE  TxInv'
<1>1. /\ Flushing /\ flush.step = "lock" /\ flush \in FlushType /\ Holds("flush")
      /\ UNCHANGED <<immediates, opened>> /\ ~FlushInside /\ ~flush.ctx
  BY DEF FlushBegin, Flushing, FlushInside, IInv, QueueInv, QueueOK, QueueTypeOK,
         FlushType, TxInv, Serial
<1>2. ~Compressing
  BY <1>1 DEF TxInv, Serial
<1>3. Inside = {} /\ stack = << >> /\ rows = durable
  BY <1>1, NobodyInside, InsideAreClients DEF IInv, QueueInv, TxInv, Txs
<1>4. CASE /\ UNCHANGED dbVars /\ Fail
           /\ \/ busyLeft > 0 /\ busyLeft' = busyLeft - 1
              \/ Refused(Items) /\ flush.single /\ busyLeft' = busyLeft
  <2>1. /\ Serial' /\ flush'.step # "tx"
        /\ \A i \in Direct \cup Compressor : pc'[i] = pc[i]
        /\ \A i \in Client : pc'[i] = "ok" <=> pc[i] = "ok"
        /\ \A i \in Writer : pc'[i] = "failed" =>
                             pc[i] = "failed" \/ (flush.single /\ i \in Items)
    BY <1>1, <1>2, <1>4, WritersAnswered
  <2>2. UNCHANGED <<stack, rows, durable>>
    BY <1>4 DEF dbVars
  <2>3. Inside' = Inside
    BY <2>1 DEF Inside
  <2>4. Txs' /\ IndexHolds'
    BY <1>1, <1>3, <2>1, <2>2, <2>3, TxFrame DEF TxInv
  <2>5. AnsweredIsStored'
    BY <2>1, <2>2, AnswersFrame DEF TxInv
  <2>6. ASSUME NEW w \in Writer, pc'[w] = "failed"
        PROVE  \/ pc[w] = "failed" \/ busyLeft' = busyLeft - 1 \/ w \in Poison
               \/ \E v \in Keyed(Writer) \ {w} : /\ KeyOf[v] = KeyOf[w]
                                                 /\ <<"stored", v>> \in durable'
    <3> SUFFICES ASSUME w \in Items, flush.single, Refused(Items), w \notin Poison
                 PROVE  \E v \in Keyed(Writer) \ {w} : /\ KeyOf[v] = KeyOf[w]
                                                     /\ <<"stored", v>> \in durable'
      BY <1>4, <2>1, <2>6
    <3>1. Items = {w}
      BY DEF Items
    <3> QED BY <1>3, <2>2, <3>1 DEF Refused, Keyed
  <2>7. PeersSurvivePoison'
    BY <1>4, <2>2, <2>6, PeersFrame DEF TxInv, IInv, DbTypeOK
  <2> QED BY <2>1, <2>4, <2>5, <2>7 DEF TxInv
<1>5. CASE /\ ~(Refused(Items) /\ flush.single)
           /\ Begin(IF Refused(Items) THEN {} ELSE Stored(Items))
           /\ flush' = [flush EXCEPT !.step = "tx", !.name = 0, !.bad = Refused(Items)]
           /\ UNCHANGED <<lockVars, pc>>
  <2>1. /\ One' /\ durable' = durable /\ pc' = pc
        /\ rows' = durable \cup (IF Refused(Items) THEN {} ELSE Stored(Items))
    BY <1>3, <1>5, BeginsOne
  <2>2. Refused(Items) \in BOOLEAN
    BY Zenon DEF Refused
  <2>3. /\ flush'.step = "tx" /\ flush'.name = 0 /\ flush'.bad = Refused(Items)
        /\ flush'.single = flush.single /\ flush'.batch = flush.batch
        /\ flush'.ctx = flush.ctx
    BY <1>1, <1>5, <2>2, Zenon DEF FlushType
  <2>4. Items' = Items /\ FlushInside'
    BY <2>3 DEF Items, FlushInside
  <2>5. Inside' = {} /\ ~Compressing'
    BY <1>2, <1>3, <2>1 DEF Inside, Compressing, Pending
  <2>6. Txs'
    <3>1. FlushTx'
      BY <1>5, <2>1, <2>3, <2>4 DEF FlushTx, Stored
    <3> QED BY <2>4, <2>5, <3>1, TxOfFlush
  <2>7. Serial'
    BY <1>1, <2>1, <2>3, <2>5 DEF TxInv, Serial, FlushInside, Flushing
  <2>8. IndexHolds'
    <3>1. DurableWriters' = DurableWriters
      BY <2>1 DEF DurableWriters
    <3>2. ASSUME ~Refused(Items) PROVE KeysDiffer(DurableWriters \cup Items)
      BY <1>3, <3>2 DEF Refused, KeysDiffer, Keyed, DurableWriters, TxInv, IndexHolds
    <3> QED BY <2>3, <2>4, <3>1, <3>2 DEF TxInv, IndexHolds, KeysDiffer, Keyed
  <2>9. AnsweredIsStored' /\ PeersSurvivePoison'
    BY <1>5, <2>1, AnswersFrame, PeersFrame DEF Begin, TxInv, IInv, DbTypeOK
  <2> QED BY <2>6, <2>7, <2>8, <2>9 DEF TxInv
<1> QED BY <1>3, <1>4, <1>5 DEF FlushBegin, BeginFails

LEMMA FlushCommits ==
  ASSUME IInv, TxInv, FlushEnd, flush.name = 0
  PROVE  TxInv'
<1>1. /\ Flushing /\ FlushInside /\ ~flush.ctx /\ Holds("flush")
      /\ UNCHANGED <<immediates, opened, busyLeft>>
  BY DEF FlushEnd, Flushing, FlushInside, IInv, QueueInv, LockIsHeld, TxInv, Serial
<1>2. ~Compressing /\ Inside = {}
  BY <1>1, InsideAreClients DEF TxInv, Serial, IInv, QueueInv, LockIsHeld, Holds
<1>3. /\ One /\ rows = durable \cup (IF flush.bad THEN {} ELSE Stored(Items))
      /\ flush.bad => ~flush.single
  BY <1>1 DEF TxInv, Txs, FlushTx
<1>4. stack # << >>
  <2>1. Len(<< >>) = 0
    OBVIOUS
  <2> QED BY <1>3, <2>1 DEF One
<1>5. \/ ~flush.bad /\ CommitTx /\ Succeed
      \/ flush.bad /\ RollbackTx /\ Fail
  BY <1>4 DEF FlushEnd
<1>6. /\ Serial' /\ ~FlushInside'
      /\ \A i \in Direct \cup Compressor : pc'[i] = pc[i]
      /\ Succeed => \A i \in Client : pc'[i] = "ok" <=> pc[i] = "ok" \/ i \in Items
      /\ Succeed => \A i \in Writer : pc'[i] = "failed" => pc[i] = "failed"
      /\ Fail => /\ \A i \in Client : pc'[i] = "ok" <=> pc[i] = "ok"
                 /\ \A i \in Writer : pc'[i] = "failed" =>
                      pc[i] = "failed" \/ (flush.single /\ i \in Items)
  BY <1>1, <1>2, <1>5, WritersAnswered
<1>7. Inside' = {}
  BY <1>2, <1>6 DEF Inside
<1>8. stack' = << >> /\ rows' = durable'
  BY <1>5 DEF CommitTx, RollbackTx
<1>9. Txs'
  BY <1>6, <1>7, <1>8, TxOfNobody
<1>10. CASE ~flush.bad /\ CommitTx /\ Succeed
  <2>1. durable' = durable \cup Stored(Items) /\ Items \subseteq Writer
    BY <1>1, <1>2, <1>3, <1>10, FlushOfWriters DEF CommitTx, IInv, TxInv
  <2>2. AnsweredIsStored'
    <3>1. \A i \in Client : <<"stored", i>> \in durable' <=>
                           <<"stored", i>> \in durable \/ i \in Items
      BY <2>1 DEF Stored
    <3>2. \A c \in Compressor : <<"archived", c>> \in durable' <=> <<"archived", c>> \in durable
      BY <2>1 DEF Stored
    <3> QED BY <1>6, <1>10, <3>1, <3>2 DEF TxInv, AnsweredIsStored
  <2>3. DurableWriters' = DurableWriters \cup Items
    BY <2>1 DEF DurableWriters, Stored
  <2>4. IndexHolds'
    BY <1>1, <1>6, <1>10, <2>3 DEF TxInv, IndexHolds, KeysDiffer, Keyed
  <2>5. PeersSurvivePoison'
    BY <1>1, <1>6, <1>10, <2>1, PeersFrame DEF TxInv, IInv, DbTypeOK
  <2> QED BY <1>6, <1>9, <2>2, <2>4, <2>5 DEF TxInv
<1>11. CASE flush.bad /\ RollbackTx /\ Fail
  <2>1. durable' = durable
    BY <1>11 DEF RollbackTx
  <2>2. AnsweredIsStored'
    BY <1>6, <1>11, <2>1, AnswersFrame DEF TxInv
  <2>3. IndexHolds'
    BY <1>6, <2>1, IndexFrame DEF TxInv, DurableWriters
  <2>4. PeersSurvivePoison'
    BY <1>1, <1>3, <1>6, <1>11, <2>1, PeersFrame DEF TxInv, IInv, DbTypeOK
  <2> QED BY <1>6, <1>9, <2>2, <2>3, <2>4 DEF TxInv
<1> QED BY <1>5, <1>10, <1>11

\* The savepoint in which the summary of a compress() was stored is released.
LEMMA FlushReleases ==
  ASSUME IInv, TxInv, FlushEnd, flush.name # 0
  PROVE  TxInv'
<1>1. /\ Flushing /\ flush.step = "tx" /\ flush.ctx /\ Compressing /\ flush \in FlushType
      /\ immediates = << >>
      /\ UNCHANGED <<immediates, opened, busyLeft>>
  BY DEF FlushEnd, Flushing, IInv, QueueInv, QueueOK, QueueTypeOK, FlushType, TxInv, Serial
<1>2. PICK c \in Compressor :
        /\ c \in Inside /\ pc[c] = "insert" /\ Inside = {c} /\ ~FlushInside
        /\ Items = {c} /\ queue = << >> /\ Rest = << >>
  BY <1>1, FlushOfSummary DEF IInv, TxInv
<1>3. ~flush.bad /\ Two(flush.name) /\ rows = durable \cup Stored({c})
  BY <1>1, <1>2 DEF TxInv, Txs, CompressTx
<1>4. TxTypeOK
  BY DEF IInv, DbTypeOK, TxTypeOK, StackType
<1>5. Release(flush.name) /\ Succeed
  BY <1>3, <1>4, ReleaseOfTwo DEF FlushEnd
<1>6. One' /\ rows' = rows /\ durable' = durable
  BY <1>3, <1>4, <1>5, ReleaseOfTwo
<1>7. /\ c \in Client /\ pc'[c] = "archive" /\ \A i \in Client : i # c => pc'[i] = pc[i]
  BY <1>2, <1>5 DEF Succeed, Answer, Client
<1>8. flush'.step = "idle"
  BY <1>1, <1>2, <1>5, Continues DEF Succeed
<1>9. /\ Inside' = {c} /\ ~FlushInside' /\ Compressing'
      /\ Pending(Writer)' = Pending(Writer)
  <2>1. Inside' = {c}
    BY <1>2, <1>7 DEF Inside, Client
  <2>2. ~FlushInside'
    BY <1>8 DEF FlushInside
  <2>3. Compressing' /\ Pending(Writer)' = Pending(Writer)
    BY <1>7, QueueAssumption DEF Compressing, Pending, Client
  <2> QED BY <2>1, <2>2, <2>3
<1>10. Txs'
  BY <1>3, <1>6, <1>7, <1>9, TxOfCompress
<1>11. Serial'
  BY <1>1, <1>7, <1>8, <1>9 DEF TxInv, Serial, FlushInside, Flushing, Client
<1>12. IndexHolds'
  BY <1>6, <1>9, IndexFrame DEF TxInv, DurableWriters
<1>13. AnsweredIsStored'
  BY <1>2, <1>6, <1>7, AnswersFrame DEF TxInv
<1>14. PeersSurvivePoison'
  BY <1>1, <1>6, <1>7, QueueAssumption, PeersFrame DEF TxInv, IInv, DbTypeOK, Client
<1> QED BY <1>10, <1>11, <1>12, <1>13, <1>14 DEF TxInv

--------------------------------------------------------------------------------
(* The steps of the other calls *)

\* A call that is not about rows in the queue: the parts of the invariant that its pc
\* decides.
LEMMA CallFrame ==
  ASSUME IInv, TxInv, NEW i \in Direct \cup Compressor, NEW to,
         pc' = [pc EXCEPT ![i] = to], UNCHANGED flushVars
  PROVE  /\ i \in Client /\ pc'[i] = to /\ \A j \in Client : j # i => pc'[j] = pc[j]
         /\ Pending(Writer)' = Pending(Writer) /\ FlushInside' = FlushInside
         /\ flush' = flush /\ immediates' = immediates
         /\ \A w \in Writer : pc'[w] = pc[w]
         /\ \A c \in Compressor : c # i => pc'[c] = pc[c]
         /\ Inside' \subseteq Inside \cup {i} /\ Inside \ {i} \subseteq Inside'
<1>1. pc \in [Client -> PC] /\ i \in Client /\ flush' = flush /\ immediates' = immediates
  BY DEF IInv, QueueInv, CallTypeOK, Client, flushVars
<1>2. pc'[i] = to /\ \A j \in Client : j # i => pc'[j] = pc[j]
  BY <1>1
<1>3. \A w \in Writer : w # i /\ w \in Client
  BY QueueAssumption DEF Client
<1>4. Pending(Writer)' = Pending(Writer) /\ FlushInside' = FlushInside
  BY <1>1, <1>2, <1>3 DEF Pending, FlushInside
<1>5. Inside' \subseteq Inside \cup {i} /\ Inside \ {i} \subseteq Inside'
  BY <1>2 DEF Inside, Client
<1> QED BY <1>1, <1>2, <1>3, <1>4, <1>5 DEF Client

LEMMA DirectSerial ==
  ASSUME IInv, TxInv, NEW u \in Direct, NEW to, pc' = [pc EXCEPT ![u] = to],
         UNCHANGED flushVars
  PROVE  Serial'
<1>1. /\ Pending(Writer)' = Pending(Writer) /\ FlushInside' = FlushInside
      /\ flush' = flush /\ immediates' = immediates
      /\ \A c \in Compressor : pc'[c] = pc[c]
  BY CallFrame, QueueAssumption
<1>2. Compressing' = Compressing
  BY <1>1 DEF Compressing, Pending
<1> QED BY <1>1, <1>2 DEF TxInv, Serial, Flushing

LEMMA DirectTxs ==
  ASSUME IInv, TxInv, NEW u \in Direct, DirectCall(u) \/ DirectStep(u)
  PROVE  TxInv'
<1>1. u \in Client /\ u \notin Compressor /\ u \notin Writer
  BY QueueAssumption DEF Client
<1>2. CASE /\ pc[u] \in {"idle", "lock"} /\ UNCHANGED <<flushVars, opened, dbVars>>
           /\ \E to \in {"lock", "failed"} : pc' = [pc EXCEPT ![u] = to]
           /\ busyLeft' = busyLeft \/ (busyLeft > 0 /\ busyLeft' = busyLeft - 1)
  <2>1. PICK to \in {"lock", "failed"} : pc' = [pc EXCEPT ![u] = to]
    BY <1>2
  <2>2. /\ pc'[u] = to /\ \A j \in Client : j # u => pc'[j] = pc[j]
        /\ flush' = flush /\ UNCHANGED <<stack, rows, durable, opened>>
        /\ Inside' \subseteq Inside \cup {u} /\ Inside \ {u} \subseteq Inside'
    BY <1>2, <2>1, CallFrame DEF dbVars
  <2>3. u \notin Inside /\ u \notin Inside' /\ Inside \subseteq Client
    BY <1>2, <2>2, InsideAreClients DEF Inside
  <2>4. Inside' = Inside
    BY <2>2, <2>3
  <2>5. Txs' /\ IndexHolds'
    BY <2>2, <2>3, <2>4, TxFrame DEF TxInv
  <2>6. Serial'
    BY <1>2, <2>1, DirectSerial
  <2>7. AnsweredIsStored'
    BY <1>2, <2>2, AnswersFrame DEF TxInv
  <2>8. PeersSurvivePoison'
    BY <1>1, <1>2, <2>2, PeersFrame DEF TxInv, IInv, DbTypeOK, Client
  <2> QED BY <2>5, <2>6, <2>7, <2>8 DEF TxInv
<1>3. CASE /\ pc[u] = "lock" /\ Holds(u) /\ Begin(Stored({u})) /\ UNCHANGED flushVars
           /\ pc' = [pc EXCEPT ![u] = "tx"]
  <2>1. u \notin Inside /\ u # "flush"
    BY <1>1, <1>3, QueueAssumption DEF Inside
  <2>2. Inside = {} /\ ~FlushInside /\ rows = durable
    BY <1>3, <2>1, NobodyInside DEF IInv, QueueInv, TxInv, Txs
  <2>3. One' /\ durable' = durable /\ rows' = durable \cup Stored({u})
    BY <1>3, <2>2, BeginsOne
  <2>4. /\ pc'[u] = "tx" /\ \A j \in Client : j # u => pc'[j] = pc[j]
        /\ FlushInside' = FlushInside /\ Inside' \subseteq Inside \cup {u}
    BY <1>3, CallFrame
  <2>5. Inside' = {u}
    BY <2>2, <2>4 DEF Inside
  <2>6. Txs'
    BY <2>2, <2>3, <2>4, <2>5, TxOfDirect
  <2>7. IndexHolds'
    BY <2>2, <2>3, <2>4, IndexFrame DEF TxInv, DurableWriters
  <2>8. Serial'
    BY <1>3, DirectSerial
  <2>9. AnsweredIsStored'
    BY <1>3, <2>3, <2>4, AnswersFrame DEF TxInv
  <2>10. PeersSurvivePoison'
    BY <1>1, <1>3, <2>3, <2>4, PeersFrame DEF TxInv, IInv, DbTypeOK, Client, Begin
  <2> QED BY <2>6, <2>7, <2>8, <2>9, <2>10 DEF TxInv
<1>4. CASE DirectEnd(u)
  <2>1. /\ pc[u] = "tx" /\ EndTx(u, TRUE) /\ UNCHANGED <<flushVars, busyLeft>>
    BY <1>4 DEF DirectEnd
  <2>2. u \in Inside
    BY <2>1 DEF Inside
  <2>3. Inside = {u} /\ ~FlushInside
    BY <2>2, HolderIsAlone DEF IInv, QueueInv
  <2>4. One /\ rows = durable \cup Stored({u})
    BY <2>1 DEF TxInv, Txs, DirectTx
  <2>5. stack # << >>
    <3>1. Len(<< >>) = 0
      OBVIOUS
    <3> QED BY <2>4, <3>1 DEF One
  <2>6. CommitTx /\ pc' = [pc EXCEPT ![u] = "ok"]
    BY <2>1, <2>5 DEF EndTx
  <2>7. durable' = durable \cup Stored({u}) /\ rows' = durable' /\ stack' = << >>
    BY <2>4, <2>6 DEF CommitTx
  <2>8. /\ pc'[u] = "ok" /\ \A j \in Client : j # u => pc'[j] = pc[j]
        /\ FlushInside' = FlushInside /\ Inside' \subseteq Inside \cup {u}
    BY <2>1, <2>6, CallFrame
  <2>9. Inside' = {}
    BY <2>3, <2>8 DEF Inside
  <2>10. Txs'
    BY <2>3, <2>7, <2>8, <2>9, TxOfNobody
  <2>11. IndexHolds'
    BY <1>1, <2>3, <2>7, <2>8, IndexFrame DEF TxInv, DurableWriters, Stored
  <2>12. Serial'
    BY <2>1, <2>6, DirectSerial
  <2>13. AnsweredIsStored'
    <3>1. \A i \in Client : <<"stored", i>> \in durable' <=> <<"stored", i>> \in durable \/ i = u
      BY <2>7 DEF Stored
    <3>2. \A c \in Compressor : <<"archived", c>> \in durable' <=> <<"archived", c>> \in durable
      BY <2>7 DEF Stored
    <3> QED BY <1>1, <2>8, <3>1, <3>2 DEF TxInv, AnsweredIsStored, Client
  <2>14. PeersSurvivePoison'
    BY <1>1, <2>1, <2>7, <2>8, PeersFrame DEF TxInv, IInv, DbTypeOK, Client
  <2> QED BY <2>10, <2>11, <2>12, <2>13, <2>14 DEF TxInv
<1>5. CASE DirectCall(u)
  BY <1>2, <1>5 DEF DirectCall
<1>6. CASE DirectBegin(u)
  BY <1>2, <1>3, <1>6 DEF DirectBegin, BeginFails
<1> QED BY <1>4, <1>5, <1>6 DEF DirectStep

\* A compress() that holds the lock moves on while the queue is at rest.
LEMMA CompressSerial ==
  ASSUME IInv, TxInv, NEW c \in Compressor, Holds(c), NEW to, to \notin {"queued", "abort"},
         pc[c] \in {"lock", "archive", "release", "commit"},
         pc' = [pc EXCEPT ![c] = to], UNCHANGED flushVars
  PROVE  Serial'
<1>1. Compressing
  BY DEF Compressing, Pending
<1>2. flush.step = "idle" /\ immediates = << >> /\ Pending(Writer) = {}
  BY <1>1, QueueAtRest DEF IInv, TxInv, Serial
<1>3. /\ Pending(Writer)' = {} /\ flush' = flush /\ immediates' = << >> /\ pc'[c] = to
      /\ \A d \in Compressor : d # c => pc'[d] = pc[d]
  BY <1>2, CallFrame
<1>4. Len(<< >>) = 0 /\ 1 .. 0 = {}
  OBVIOUS
<1> QED BY <1>2, <1>3, <1>4 DEF TxInv, Serial, FlushInside, Flushing

LEMMA CompressCallTx ==
  ASSUME IInv, TxInv, ~Overlap, NEW c \in Compressor, CompressCall(c)
  PROVE  TxInv'
<1>1. /\ pc[c] = "idle" /\ Pending(Writer) = {} /\ immediates = << >>
      /\ pc' = [pc EXCEPT ![c] = "lock"]
      /\ UNCHANGED <<flushVars, opened, stack, rows, durable, busyLeft>>
  BY DEF CompressCall, dbVars
<1>2. /\ pc'[c] = "lock" /\ \A j \in Client : j # c => pc'[j] = pc[j]
      /\ Pending(Writer)' = {} /\ flush' = flush /\ immediates' = << >>
      /\ FlushInside' = FlushInside
      /\ \A w \in Writer : pc'[w] = pc[w]
      /\ \A d \in Compressor : d # c => pc'[d] = pc[d]
      /\ Inside' \subseteq Inside \cup {c} /\ Inside \ {c} \subseteq Inside'
  BY <1>1, CallFrame
<1>3. flush.step # "yield" /\ (Flushing => flush.ctx)
  <2>1. CASE Compressing
    BY <2>1 DEF TxInv, Serial
  <2>2. CASE ~Compressing
    <3>1. /\ queue \in Seq(Inserting) /\ flush.batch \in Seq(Inserting)
      BY DEF IInv, QueueInv, QueueOK, QueueTypeOK
    <3>2. \A i \in Inserting : i \notin WaitsForRow
      BY <1>1, <2>2 DEF Compressing, Pending, WaitsForRow, Inserting
    <3>3. Elems(queue) \subseteq Inserting /\ Elems(flush.batch) \subseteq Inserting
      BY <3>1, ElementOfSeq DEF Elems
    <3>4. Elems(queue) = {} /\ Elems(flush.batch) = {}
      BY <3>2, <3>3 DEF IInv, QueueInv, InPlaces
    <3>5. queue = << >> /\ flush.batch = << >>
      BY <3>1, <3>4, NoElems
    <3> QED BY <3>5 DEF IInv, QueueInv, QueueOK, Batched
  <2> QED BY <2>1, <2>2
<1>4. Compressing'
  BY <1>2 DEF Compressing, Pending
<1>5. Serial'
  BY <1>2, <1>3, <1>4 DEF TxInv, Serial, Flushing
<1>6. Inside' = Inside /\ Inside \subseteq Client /\ c \notin Inside
  <2>1. c \notin Inside /\ c \notin Inside'
    BY <1>1, <1>2 DEF Inside
  <2>2. Inside' = Inside
    <3>1. Inside' \subseteq Inside \cup {c} /\ Inside \ {c} \subseteq Inside'
      BY <1>2
    <3>2. \A i : i \in Inside' <=> i \in Inside
      BY <2>1, <3>1
    <3> QED BY <3>2
  <2>3. Inside \subseteq Client
    BY DEF Inside, Client
  <2> QED BY <2>1, <2>2, <2>3
<1>7. Txs' /\ IndexHolds'
  BY <1>1, <1>2, <1>6, TxFrame DEF TxInv
<1>8. AnsweredIsStored'
  BY <1>1, <1>2, AnswersFrame DEF TxInv
<1>9. PeersSurvivePoison'
  BY <1>1, <1>2, PeersFrame DEF TxInv, IInv, DbTypeOK
<1> QED BY <1>5, <1>7, <1>8, <1>9 DEF TxInv

LEMMA CompressBeginTx ==
  ASSUME IInv, TxInv, NEW c \in Compressor, CompressBegin(c)
  PROVE  TxInv'
<1>1. /\ pc[c] = "lock" /\ Holds(c) /\ opened' = opened /\ c \in Client /\ c \notin Writer
      /\ pc \in [Client -> PC] /\ c \notin Inside /\ c # "flush"
  BY QueueAssumption DEF CompressBegin, Inside, Client, IInv, QueueInv, CallTypeOK
<1>2. Inside = {} /\ ~FlushInside /\ stack = << >> /\ rows = durable
  BY <1>1, NobodyInside DEF IInv, QueueInv, TxInv, Txs
<1>3. CASE /\ BeginFails /\ pc' = [pc EXCEPT ![c] = "failed"] /\ UNCHANGED flushVars
  <2>1. UNCHANGED <<stack, rows, durable>> /\ busyLeft > 0 /\ busyLeft' = busyLeft - 1
    BY <1>2, <1>3 DEF BeginFails, dbVars
  <2>2. /\ pc'[c] = "failed" /\ \A j \in Client : j # c => pc'[j] = pc[j]
        /\ flush' = flush /\ Inside' \subseteq Inside \cup {c}
        /\ \A w \in Writer : pc'[w] = pc[w]
    BY <1>3, CallFrame
  <2>3. Inside' = Inside
    BY <1>2, <2>2 DEF Inside
  <2>4. Serial'
    BY <1>1, <1>3, CompressSerial
  <2>5. Txs' /\ IndexHolds'
    BY <1>1, <1>2, <2>1, <2>2, <2>3, TxFrame DEF TxInv
  <2>6. AnsweredIsStored'
    BY <1>1, <2>1, <2>2, AnswersFrame DEF TxInv
  <2>7. PeersSurvivePoison'
    BY <2>1, <2>2, PeersFrame DEF TxInv, IInv, DbTypeOK
  <2> QED BY <2>4, <2>5, <2>6, <2>7 DEF TxInv
<1>4. CASE Begin({}) /\ Push(c, TRUE) /\ pc' = [pc EXCEPT ![c] = "insert"]
  <2>1. One' /\ durable' = durable /\ rows' = durable' /\ busyLeft' = busyLeft
    BY <1>2, <1>4, BeginsOne DEF Begin
  <2>2. /\ pc'[c] = "insert" /\ \A j \in Client : j # c => pc'[j] = pc[j]
        /\ \A w \in Writer : pc'[w] = pc[w]
        /\ \A d \in Compressor : d # c => pc'[d] = pc[d]
    BY <1>1, <1>4 DEF Client
  <2>3. Compressing /\ Pending(Writer) = {}
    BY <1>1 DEF Compressing, Pending, TxInv, Serial
  <2>4. flush.step = "idle" /\ immediates = << >>
    BY <1>1, <2>3, QueueAtRest DEF IInv, TxInv
  <2>5. /\ \/ flush' = flush
           \/ flush'.step = "enter" /\ flush'.ctx = TRUE
        /\ \/ immediates' = immediates
           \/ immediates' = Append(immediates, TRUE) /\ flush' = flush
    BY <1>4, Pushes
  <2>6. immediates' # << >> =>
          Len(immediates') = 1 /\ immediates'[1] = TRUE /\ flush'.step = "idle"
    <3> SUFFICES ASSUME immediates' = Append(immediates, TRUE), flush' = flush
                 PROVE  Len(immediates') = 1 /\ immediates'[1] = TRUE /\ flush'.step = "idle"
      BY <2>4, <2>5
    <3>1. immediates \in Seq(BOOLEAN) /\ TRUE \in BOOLEAN
      BY DEF IInv, QueueInv, QueueOK, QueueTypeOK
    <3>2. /\ Len(immediates') = Len(immediates) + 1
          /\ immediates'[Len(immediates) + 1] = TRUE
      BY <3>1, AppendKeeps
    <3>3. Len(immediates) + 1 = 1
      BY <2>4
    <3> QED BY <2>4, <3>2, <3>3
  <2>7. Inside' = {c} /\ ~FlushInside' /\ Compressing' /\ Pending(Writer)' = {}
    <3>1. Inside' = {c}
      BY <1>2, <2>2 DEF Inside, Client
    <3>2. ~FlushInside'
      BY <2>4, <2>5 DEF FlushInside
    <3>3. Compressing' /\ Pending(Writer)' = {}
      BY <2>2, <2>3 DEF Compressing, Pending
    <3> QED BY <3>1, <3>2, <3>3
  <2>8. Txs'
    BY <2>1, <2>2, <2>4, <2>5, <2>7, TxOfCompress
  <2>9. Serial'
    BY <2>2, <2>4, <2>5, <2>6, <2>7 DEF TxInv, Serial, FlushInside, Flushing
  <2>10. IndexHolds'
    BY <2>1, <2>7, IndexFrame DEF TxInv, DurableWriters
  <2>11. AnsweredIsStored'
    BY <1>1, <2>1, <2>2, AnswersFrame DEF TxInv
  <2>12. PeersSurvivePoison'
    BY <2>1, <2>2, PeersFrame DEF TxInv, IInv, DbTypeOK
  <2> QED BY <2>8, <2>9, <2>10, <2>11, <2>12 DEF TxInv
<1> QED BY <1>3, <1>4 DEF CompressBegin

LEMMA CompressArchiveTx ==
  ASSUME IInv, TxInv, NEW c \in Compressor, CompressArchive(c) \/ CompressRelease(c)
  PROVE  TxInv'
<1>1. c \in Inside /\ c \in Client /\ TxTypeOK
  BY DEF CompressArchive, CompressRelease, Inside, Client, IInv, DbTypeOK, TxTypeOK, StackType
<1>2. Holds(c) /\ Inside = {c} /\ ~FlushInside
  BY <1>1, HolderIsAlone DEF IInv, QueueInv
<1>3. /\ pc[c] \in {"archive", "release"} /\ UNCHANGED <<flushVars, busyLeft, durable>>
      /\ \/ pc' = [pc EXCEPT ![c] = "release"]
         \/ pc' = [pc EXCEPT ![c] = "commit"]
      /\ Txs'
  <2>1. CASE CompressArchive(c)
    <3>1. /\ pc[c] = "archive" /\ pc' = [pc EXCEPT ![c] = "release"]
          /\ spCounter' = spCounter + 1 /\ stack' = Append(stack, Frame(spCounter'))
          /\ rows' = rows \cup {<<"archived", c>>} /\ durable' = durable
          /\ opened' = [opened EXCEPT ![c] = spCounter'] /\ UNCHANGED <<flushVars, busyLeft>>
      BY <2>1 DEF CompressArchive
    <3>2. One /\ rows = durable \cup Stored({c})
      BY <3>1 DEF TxInv, Txs, CompressTx
    <3>3. spCounter' \in Nat /\ spCounter' # 0 /\ opened'[c] = spCounter'
      BY <1>1, <3>1 DEF TxTypeOK, IInv, DbTypeOK
    <3>4. Two(opened[c])'
      BY <1>1, <3>1, <3>2, <3>3, SavepointInOne DEF Two
    <3>5. pc'[c] = "release" /\ Inside' = {c} /\ ~FlushInside'
      <4>1. /\ pc'[c] = "release" /\ FlushInside' = FlushInside
            /\ Inside' \subseteq Inside \cup {c}
        BY <3>1, CallFrame
      <4> QED BY <1>2, <4>1 DEF Inside
    <3>6. rows' = durable' \cup Archived(c)
      BY <3>1, <3>2 DEF Archived
    <3>7. Txs'
      BY <3>3, <3>4, <3>5, <3>6, TxOfCompress
    <3> QED BY <3>1, <3>7
  <2>2. CASE CompressRelease(c)
    <3>1. opened[c] # 0 /\ Two(opened[c]) /\ rows = durable \cup Archived(c)
      BY <2>2 DEF CompressRelease, TxInv, Txs, CompressTx
    <3>2. /\ pc[c] = "release" /\ pc' = [pc EXCEPT ![c] = "commit"]
          /\ Release(opened[c]) /\ UNCHANGED <<flushVars, busyLeft>>
      BY <1>1, <2>2, <3>1, ReleaseOfTwo DEF CompressRelease
    <3>3. One' /\ rows' = rows /\ durable' = durable
      BY <1>1, <3>1, <3>2, ReleaseOfTwo
    <3>4. pc'[c] = "commit" /\ Inside' = {c} /\ ~FlushInside'
      <4>1. /\ pc'[c] = "commit" /\ FlushInside' = FlushInside
            /\ Inside' \subseteq Inside \cup {c}
        BY <3>2, CallFrame
      <4> QED BY <1>2, <4>1 DEF Inside
    <3>5. rows' = durable' \cup Archived(c)
      BY <3>1, <3>3
    <3>6. Txs'
      BY <3>3, <3>4, <3>5, TxOfCompress
    <3> QED BY <3>2, <3>3, <3>6
  <2> QED BY <2>1, <2>2
<1>4. PICK to \in {"release", "commit"} : pc' = [pc EXCEPT ![c] = to]
  BY <1>3
<1>5. /\ pc'[c] = to /\ \A j \in Client : j # c => pc'[j] = pc[j]
      /\ FlushInside' = FlushInside /\ \A w \in Writer : pc'[w] = pc[w]
  BY <1>3, <1>4, CallFrame
<1>6. Serial'
  BY <1>2, <1>3, <1>4, CompressSerial
<1>7. IndexHolds'
  BY <1>2, <1>3, <1>5, IndexFrame DEF TxInv, DurableWriters
<1>8. AnsweredIsStored'
  BY <1>3, <1>5, AnswersFrame DEF TxInv
<1>9. PeersSurvivePoison'
  BY <1>3, <1>5, PeersFrame DEF TxInv, IInv, DbTypeOK
<1> QED BY <1>3, <1>6, <1>7, <1>8, <1>9 DEF TxInv

LEMMA CompressEndTx ==
  ASSUME IInv, TxInv, NEW c \in Compressor, CompressEnd(c)
  PROVE  TxInv'
<1>1. /\ pc[c] = "commit" /\ UNCHANGED <<flushVars, busyLeft>>
      /\ \E ok \in BOOLEAN : EndTx(c, ok)
  BY DEF CompressEnd, TxInv, Serial
<1>2. c \in Inside /\ c \in Client /\ c \notin Writer
  BY <1>1, QueueAssumption DEF Inside, Client
<1>3. Holds(c) /\ Inside = {c} /\ ~FlushInside
  BY <1>2, HolderIsAlone DEF IInv, QueueInv
<1>4. rows = durable \cup Archived(c)
  BY <1>1 DEF TxInv, Txs, CompressTx
<1>5. PICK to \in {"ok", "failed"} :
        /\ pc' = [pc EXCEPT ![c] = to] /\ stack' = << >> /\ rows' = durable'
        /\ durable' = IF to = "ok" THEN durable \cup Archived(c) ELSE durable
  <2>1. \/ CommitTx /\ pc' = [pc EXCEPT ![c] = "ok"]
        \/ RollbackTx /\ pc' = [pc EXCEPT ![c] = "failed"]
    BY <1>1 DEF EndTx
  <2>2. CommitTx => stack' = << >> /\ rows' = durable' /\ durable' = durable \cup Archived(c)
    BY <1>4 DEF CommitTx
  <2>3. RollbackTx => stack' = << >> /\ rows' = durable' /\ durable' = durable
    BY DEF RollbackTx
  <2> QED BY <2>1, <2>2, <2>3
<1>6. /\ pc'[c] = to /\ \A j \in Client : j # c => pc'[j] = pc[j]
      /\ FlushInside' = FlushInside /\ Inside' \subseteq Inside \cup {c}
      /\ \A w \in Writer : pc'[w] = pc[w]
  BY <1>1, <1>5, CallFrame
<1>7. Inside' = {}
  BY <1>3, <1>5, <1>6 DEF Inside
<1>8. Txs'
  BY <1>3, <1>5, <1>6, <1>7, TxOfNobody
<1>9. Serial'
  BY <1>1, <1>3, <1>5, CompressSerial
<1>10. IndexHolds'
  <2>1. DurableWriters' = DurableWriters
    BY <1>2, <1>5 DEF DurableWriters, Archived, Stored
  <2> QED BY <1>3, <1>6, <2>1, IndexFrame DEF TxInv
<1>11. AnsweredIsStored'
  <2>1. CASE to = "failed"
    BY <1>1, <1>5, <1>6, <2>1, AnswersFrame DEF TxInv
  <2>2. CASE to = "ok"
    <3>1. \A i \in Client : <<"stored", i>> \in durable' <=> <<"stored", i>> \in durable \/ i = c
      BY <1>5, <2>2 DEF Archived, Stored
    <3>2. \A d \in Compressor :
            <<"archived", d>> \in durable' <=> <<"archived", d>> \in durable \/ d = c
      BY <1>5, <2>2 DEF Archived, Stored
    <3> QED BY <1>2, <1>6, <2>2, <3>1, <3>2 DEF TxInv, AnsweredIsStored, Client
  <2> QED BY <2>1, <2>2
<1>12. PeersSurvivePoison'
  BY <1>1, <1>5, <1>6, PeersFrame DEF TxInv, IInv, DbTypeOK
<1> QED BY <1>8, <1>9, <1>10, <1>11, <1>12 DEF TxInv

\* The holder of the lock sleeps and tries BEGIN again.
LEMMA BeginRetryTx ==
  ASSUME IInv, TxInv, BeginRetry
  PROVE  TxInv'
<1>1. /\ UNCHANGED <<queue, scheduled, immediates, flush, pc, opened, stack, rows, durable>>
      /\ busyLeft > 0 /\ busyLeft' = busyLeft - 1
  BY DEF BeginRetry, flushVars, dbVars
<1>2. Inside' = Inside /\ Inside \subseteq Client
  BY <1>1 DEF Inside, Client
<1>3. Serial'
  BY <1>1 DEF TxInv, Serial, Compressing, Pending, FlushInside, Flushing
<1>4. Txs' /\ IndexHolds'
  BY <1>1, <1>2, TxFrame DEF TxInv
<1>5. AnsweredIsStored'
  BY <1>1, AnswersFrame DEF TxInv
<1>6. PeersSurvivePoison'
  BY <1>1, PeersFrame DEF TxInv, IInv, DbTypeOK
<1> QED BY <1>3, <1>4, <1>5, <1>6 DEF TxInv

LEMMA UnchangedTx ==
  ASSUME IInv, TxInv, UNCHANGED vars
  PROVE  TxInv'
<1>1. UNCHANGED <<queue, scheduled, immediates, flush, pc, opened, stack, rows, durable,
                  busyLeft>>
  BY DEF vars, flushVars, dbVars
<1>2. Inside' = Inside /\ Inside \subseteq Client
  BY <1>1 DEF Inside, Client
<1>3. Serial'
  BY <1>1 DEF TxInv, Serial, Compressing, Pending, FlushInside, Flushing
<1>4. Txs' /\ IndexHolds'
  BY <1>1, <1>2, TxFrame DEF TxInv
<1>5. AnsweredIsStored'
  BY <1>1, AnswersFrame DEF TxInv
<1>6. PeersSurvivePoison'
  BY <1>1, PeersFrame DEF TxInv, IInv, DbTypeOK
<1> QED BY <1>3, <1>4, <1>5, <1>6 DEF TxInv

--------------------------------------------------------------------------------
(* The invariant *)

LEMMA InitiallyTx == Init => TxInv
<1> SUFFICES ASSUME Init PROVE TxInv
  OBVIOUS
<1>1. /\ immediates = << >> /\ stack = << >> /\ rows = {} /\ durable = {}
      /\ \A i \in Client : pc[i] = "idle"
      /\ flush.step = "idle" /\ ~flush.ctx
  BY DEF Init, Idle
<1>2. Inside = {} /\ ~FlushInside /\ ~Compressing
  BY <1>1 DEF Inside, FlushInside, Compressing, Pending, Client
<1>3. Len(<< >>) = 0 /\ 1 .. 0 = {}
  OBVIOUS
<1>4. Serial
  BY <1>1, <1>2, <1>3 DEF Serial, Flushing, Client
<1>5. Txs
  BY <1>1, <1>2 DEF Txs, FlushTx, DirectTx, CompressTx, NoTx, Inside
<1>6. AnsweredIsStored
  BY <1>1 DEF AnsweredIsStored, Client
<1>7. IndexHolds
  BY <1>1, <1>2 DEF IndexHolds, KeysDiffer, DurableWriters, Keyed
<1>8. PeersSurvivePoison
  BY <1>1 DEF PeersSurvivePoison, Client
<1> QED BY <1>4, <1>5, <1>6, <1>7, <1>8 DEF TxInv

LEMMA SteppingTx ==
  ASSUME ~Overlap
  PROVE  IInv /\ TxInv /\ [Next]_vars => TxInv'
<1> SUFFICES ASSUME IInv, TxInv, [Next]_vars PROVE TxInv'
  OBVIOUS
<1>1. CASE FlushEnter
  BY <1>1, FlushEnterTx
<1>2. CASE FlushStep
  BY <1>2, ScheduledFlushTx, FlushBeginTx, FlushCommits, FlushReleases, FlushYieldTx
     DEF FlushStep
<1>3. CASE BeginRetry
  BY <1>3, BeginRetryTx
<1>4. CASE \E w \in Writer : InsertMemory(w)
  BY <1>4, InsertMemoryTx
<1>5. CASE \E u \in Direct : DirectCall(u) \/ DirectStep(u)
  BY <1>5, DirectTxs
<1>6. CASE \E c \in Compressor : CompressCall(c) \/ CompressStep(c)
  BY <1>6, CompressCallTx, CompressBeginTx, CompressArchiveTx, CompressEndTx DEF CompressStep
<1>7. CASE UNCHANGED vars
  BY <1>7, UnchangedTx
<1> QED BY <1>1, <1>2, <1>3, <1>4, <1>5, <1>6, <1>7 DEF Next

\* Whoever is answered, stored or in a transaction, the invariant always holds.
THEOREM AlwaysTxInv ==
  ASSUME ~Overlap
  PROVE  Spec => []TxInv
BY AlwaysIInv, InitiallyTx, SteppingTx, PTL DEF Spec

\* The connection is left in a transaction by nobody: every flush, withTransaction() and
\* compress() ends what it began before it gives the lock away.
THEOREM NothingIsLeftOpen ==
  ASSUME ~Overlap
  PROVE  Spec => []NothingLeftOpen
<1>1. IInv /\ TxInv => NothingLeftOpen
  <2> SUFFICES ASSUME IInv, TxInv, lock = << >>, flush.step # "tx"
               PROVE  stack = << >> /\ rows = durable
    BY DEF NothingLeftOpen
  <2>1. Inside = {}
    BY DEF IInv, QueueInv, LockIsHeld, Holds
  <2> QED BY <2>1 DEF TxInv, Txs, NoTx, FlushInside
<1> QED BY <1>1, AlwaysIInv, AlwaysTxInv, PTL

\* A row that insertMemory() acknowledged is committed: the callers of a batch are
\* answered after its COMMIT.
THEOREM AckedAreDurable ==
  ASSUME ~Overlap
  PROVE  Spec => []AckedIsDurable
<1>1. TxInv => AckedIsDurable
  BY DEF TxInv, AnsweredIsStored, AckedIsDurable, Client
<1> QED BY <1>1, AlwaysTxInv, PTL

\* compress() commits its summary and the archiving of its sources together.
THEOREM CompressesAtomically ==
  ASSUME ~Overlap
  PROVE  Spec => []CompressIsAtomic
<1>1. TxInv => CompressIsAtomic
  BY DEF TxInv, AnsweredIsStored, CompressIsAtomic, Client
<1> QED BY <1>1, AlwaysTxInv, PTL

\* Poison-row isolation: a batch that fails is taken apart, and its sound rows are stored.
THEOREM PeersSurvive ==
  ASSUME ~Overlap
  PROVE  Spec => []PeersSurvivePoison
<1>1. TxInv => PeersSurvivePoison
  BY DEF TxInv
<1> QED BY <1>1, AlwaysTxInv, PTL

--------------------------------------------------------------------------------
(* The provider implements AtomicInserts *)

Settled == {"idle", "ok", "failed"}

\* A step makes one call, or answers some of those that wait.
Calls ==
  \E i \in Client : /\ pc[i] = "idle" /\ pc'[i] \notin Settled
                    /\ \A j \in Client : j # i => pc'[j] = pc[j]

Answers ==
  \A i \in Client : IF pc[i] \in Settled THEN pc'[i] = pc[i] ELSE pc'[i] # "idle"

LEMMA OneMoves ==
  ASSUME pc \in [Client -> PC], NEW i \in Client, NEW to, to # "idle",
         pc[i] = "idle" => to \notin Settled, pc[i] \notin {"ok", "failed"},
         pc' = [pc EXCEPT ![i] = to]
  PROVE  Calls \/ Answers
<1>1. pc'[i] = to /\ \A j \in Client : j # i => pc'[j] = pc[j]
  OBVIOUS
<1>2. CASE pc[i] = "idle"
  BY <1>1, <1>2 DEF Calls
<1>3. CASE pc[i] # "idle"
  BY <1>1, <1>3 DEF Answers, Settled
<1> QED BY <1>2, <1>3

LEMMA FlushAnswers ==
  ASSUME QueueInv, Flushing, UNCHANGED pc \/ \E ok \in BOOLEAN : Answer(Items, ok)
  PROVE  Answers
<1>1. \A i \in Items : pc[i] \in {"queued", "insert"}
  BY ItemsAndRest DEF QueueInv, InPlaces, WaitsForRow
<1>2. CASE UNCHANGED pc
  BY <1>2 DEF Answers, Settled
<1>3. ASSUME NEW ok \in BOOLEAN, Answer(Items, ok)
      PROVE  Answers
  BY <1>1, <1>3 DEF Answer, Answers, Settled
<1> QED BY <1>2, <1>3

LEMMA CallsOrAnswers ==
  ASSUME IInv, [Next]_vars
  PROVE  Calls \/ Answers
<1>1. pc \in [Client -> PC] /\ QueueInv
  BY DEF IInv, QueueInv, CallTypeOK
<1>2. CASE UNCHANGED pc
  BY <1>2 DEF Answers, Settled
<1>3. CASE FlushEnter \/ FlushBegin \/ FlushEnd
  <2>1. Flushing
    BY <1>3 DEF FlushEnter, FlushBegin, FlushEnd, Entering, Flushing
  <2>2. UNCHANGED pc \/ \E ok \in BOOLEAN : Answer(Items, ok)
    BY <1>3 DEF FlushEnter, FlushBegin, FlushEnd, Succeed, Fail
  <2> QED BY <1>1, <2>1, <2>2, FlushAnswers
<1>4. ASSUME NEW w \in Writer, InsertMemory(w)
      PROVE  Calls \/ Answers
  BY <1>1, <1>4, OneMoves DEF InsertMemory, Settled, Client
<1>5. ASSUME NEW u \in Direct, DirectCall(u) \/ DirectStep(u)
      PROVE  Calls \/ Answers
  BY <1>1, <1>5, OneMoves
     DEF DirectCall, DirectStep, DirectBegin, DirectEnd, EndTx, Settled, Client
<1>6. ASSUME NEW c \in Compressor, CompressCall(c) \/ CompressStep(c)
      PROVE  Calls \/ Answers
  BY <1>1, <1>6, OneMoves
     DEF CompressCall, CompressStep, CompressBegin, CompressArchive, CompressRelease,
         CompressEnd, EndTx, Settled, Client
<1> QED BY <1>2, <1>3, <1>4, <1>5, <1>6
        DEF Next, FlushStep, ScheduledFlush, FlushYield, BeginRetry, vars

Committed == {i \in Client : <<"stored", i>> \in durable}

ClaimedKey == [i \in Client |-> IF i \in Writer THEN KeyOf[i] ELSE NULL]

\* The initial state is AtomicInserts'.
LEMMA AtomicInit == Init => Atomic!Init
<1> SUFFICES ASSUME Init PROVE Atomic!Init
  OBVIOUS
<1>1. durable = {} /\ \A i \in Client : pc[i] = "idle"
  BY DEF Init
<1> QED BY <1>1 DEF Atomic!Init, Answered

\* A step that makes a call is its Call, one that answers some is its Serve.
LEMMA AtomicStep ==
  ASSUME IInv, TxInv, TxInv', [Next]_vars
  PROVE  Atomic!Next
<1>1. Committed = {i \in Client : pc[i] = "ok"} /\ Committed' = {i \in Client : pc'[i] = "ok"}
  BY DEF TxInv, AnsweredIsStored, Committed
<1>2. CASE Calls
  <2>1. PICK i \in Client : /\ pc[i] = "idle" /\ pc'[i] \notin Settled
                            /\ \A j \in Client : j # i => pc'[j] = pc[j]
    BY <1>2 DEF Calls
  <2>2. Committed' = Committed
    BY <1>1, <2>1 DEF Settled
  <2>3. Answered[i] = "none"
    BY <2>1 DEF Answered
  <2>4. Answered' = [Answered EXCEPT ![i] = "waiting"]
    BY <2>1 DEF Answered, Settled
  <2>5. Atomic!Call(i)
    BY <2>2, <2>3, <2>4 DEF Atomic!Call, Committed
  <2> QED BY <2>5 DEF Atomic!Next
<1>3. CASE Answers
  <2>0. PICK done, refused \in SUBSET Client :
          /\ done = {i \in Client : pc[i] \notin Settled /\ pc'[i] = "ok"}
          /\ refused = {i \in Client : pc[i] \notin Settled /\ pc'[i] = "failed"}
    OBVIOUS
  <2>1. done \in SUBSET Atomic!Waiting /\ refused \in SUBSET Atomic!Waiting
    BY <2>0 DEF Atomic!Waiting, Answered, Settled
  <2>2. done \cap refused = {}
    BY <2>0
  <2>3. Committed' = Committed \cup done
    BY <1>1, <1>3, <2>0 DEF Answers, Settled
  <2>4. Atomic!Unique(Committed \cup done)
    <3>1. \A i, j \in Committed' :
            ClaimedKey[i] = ClaimedKey[j] /\ ClaimedKey[i] # NULL => i = j
      <4>1. \A i, j \in Keyed(DurableWriters') : i # j => KeyOf[i] # KeyOf[j]
        BY DEF TxInv, IndexHolds, KeysDiffer, Keyed
      <4> QED BY <4>1 DEF Keyed, DurableWriters, Committed, ClaimedKey
    <3> QED BY <2>3, <3>1 DEF Atomic!Unique, ClaimedKey
  <2>5. Answered' = [i \in Client |-> IF i \in done THEN "ok"
                                     ELSE IF i \in refused THEN "failed"
                                     ELSE Answered[i]]
    BY <1>3, <2>0 DEF Answers, Answered, Settled
  <2>6. Atomic!Serve(done, refused)
    BY <2>2, <2>3, <2>4, <2>5 DEF Atomic!Serve, Committed
  <2> QED BY <2>1, <2>6 DEF Atomic!Next
<1> QED BY <1>2, <1>3, CallsOrAnswers

\* However the inserts are coalesced, the lock handed over and BEGIN retried: a call is
\* answered once, "ok" if and only if its row is in the file, and the active hashes in
\* the file differ.  (The safety part of ImplementsAtomicInserts.)
THEOREM InsertsAreAtomic ==
  ASSUME ~Overlap
  PROVE  Spec => Atomic!Init /\ [][Atomic!Next]_(Atomic!vars)
<1>1. IInv /\ TxInv /\ TxInv' /\ [Next]_vars => [Atomic!Next]_(Atomic!vars)
  BY AtomicStep
<1> QED BY <1>1, AtomicInit, AlwaysIInv, AlwaysTxInv, PTL DEF Spec

================================================================================
