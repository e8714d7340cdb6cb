---------------------------- MODULE PostgresProofs -----------------------------
(***************************************************************************)
(* Proofs about PgListener, PgSchema and PgWriter, for any number of       *)
(* connections, memories, calls and clients.                               *)
(*                                                                         *)
(* No connection is dispatched but the one that the backend holds. A       *)
(* database that any sequence of boots, crashes and upgrades has left has  *)
(* tables that fit what is written to them, and hashes that tell the texts *)
(* apart. A call that reported success has its row committed or knows who  *)
(* carries it.                                                             *)
(***************************************************************************)
EXTENDS PgListener, PgSchema, PgWriter, FiniteSetTheorems, SequenceTheorems,
        WellFoundedInduction, TLAPS

--------------------------------------------------------------------------------
(* PgListener *)

ListenerSpec == ListenerInit /\ [][ListenerNext]_listenerVars

LinkState == {"unused", "connects", "asks", "listens", "deaf", "released", "ended"}

ListenerTypeOK ==
  /\ links \in [1 .. MaxLinks -> LinkState]
  /\ client \in 0 .. MaxLinks
  /\ listenInFlight \in 0 .. MaxLinks

\* While a connection is being opened the backend holds none, and waits for it alone.
OneOpening ==
  \A i \in 1 .. MaxLinks : links[i] = "connects" => listenInFlight = i /\ client = 0

\* close() has ended: nothing is held or opened, and nothing will be.
ClosedForGood ==
  /\ listenerCloser # "none" => listenerClosed
  /\ listenerCloser = "done" => client = 0 /\ listenInFlight = 0

Held == \A i \in 1 .. MaxLinks : links[i] \in {"asks", "listens", "deaf"} => client = i

ListenerIInv == ListenerTypeOK /\ OneOpening /\ ClosedForGood /\ Held

--------------------------------------------------------------------------------

\* Fewer connections than there are have been asked for: the next one exists.
LEMMA NextLink ==
  ASSUME ListenerTypeOK, Asked < MaxLinks
  PROVE  Asked + 1 \in 1 .. MaxLinks
<1> DEFINE S == {i \in DOMAIN links : links[i] # "unused"}
<1>1. DOMAIN links = 1 .. MaxLinks
  BY DEF ListenerTypeOK
<1>2. IsFiniteSet(1 .. MaxLinks)
  BY FS_Interval, ListenerAssumption
<1>3. IsFiniteSet(S)
  BY <1>1, <1>2, FS_Subset
<1>4. Cardinality(S) \in Nat
  BY <1>3, FS_CardinalityType
<1> QED
  BY <1>4, ListenerAssumption DEF Asked

\* Opening a connection disturbs neither the one held nor another opening.
LEMMA EnsureListeningKeeps ==
  ASSUME ListenerIInv, EnsureListening, client' = client, ~listenerClosed,
         listenerClosed' = listenerClosed, listenerCloser' = listenerCloser
  PROVE  ListenerIInv'
<1>1. CASE client # 0 \/ listenInFlight # 0
  BY <1>1 DEF EnsureListening, ListenerIInv, ListenerTypeOK, OneOpening, ClosedForGood, Held
<1>2. CASE client = 0 /\ listenInFlight = 0
  <2> DEFINE n == Asked + 1
  <2>1. /\ n \in 1 .. MaxLinks
        /\ links' = [links EXCEPT ![n] = "connects"] /\ listenInFlight' = n
    BY <1>2, NextLink DEF EnsureListening, ListenerIInv
  <2> HIDE DEF n
  <2>2. ListenerTypeOK'
    BY <2>1, ListenerAssumption DEF ListenerIInv, ListenerTypeOK, LinkState
  <2>3. OneOpening' /\ Held'
    BY <1>2, <2>1, ListenerAssumption
    DEF ListenerIInv, ListenerTypeOK, OneOpening, Held
  <2>4. ClosedForGood'
    BY DEF ListenerIInv, ClosedForGood
  <2> QED BY <2>2, <2>3, <2>4 DEF ListenerIInv
<1> QED BY <1>1, <1>2

\* Giving back the connection that is held, out of connections ls that are attached
\* as before or less.
LEMMA ReleaseKeeps ==
  ASSUME ListenerIInv, NEW ls \in [1 .. MaxLinks -> LinkState],
         \A i \in 1 .. MaxLinks : ls[i] = "connects" => links[i] = "connects",
         \A i \in 1 .. MaxLinks : ls[i] \in {"asks", "listens", "deaf"} => client = i,
         links' = ReleaseClient(ls), client' = 0,
         listenInFlight' \in 0 .. MaxLinks,
         \A i \in 1 .. MaxLinks : ls[i] = "connects" => listenInFlight' = i,
         listenerClosed' = listenerClosed,
         listenerCloser' = listenerCloser \/ (listenerCloser' = "done" /\ listenerClosed),
         listenerCloser' = "done" => listenInFlight' = 0
  PROVE  ListenerIInv'
<1>1. links' \in [1 .. MaxLinks -> LinkState]
  BY DEF ReleaseClient, LinkState
<1>2. \A i \in 1 .. MaxLinks : links'[i] = IF i = client /\ ls[i] # "ended" THEN "released" ELSE ls[i]
  BY DEF ReleaseClient
<1>3. ListenerTypeOK'
  BY <1>1, ListenerAssumption DEF ListenerTypeOK
<1>4. OneOpening'
  BY <1>2 DEF OneOpening
<1>5. Held'
  BY <1>2 DEF Held
<1>6. ClosedForGood'
  BY DEF ClosedForGood, ListenerIInv
<1> QED BY <1>3, <1>4, <1>5, <1>6 DEF ListenerIInv

--------------------------------------------------------------------------------

LEMMA ListenerInitial == ListenerInit => ListenerIInv
BY ListenerAssumption
DEF ListenerInit, ListenerIInv, ListenerTypeOK, LinkState, OneOpening, ClosedForGood, Held

\* connect() answers.
LEMMA ConnectedKeeps ==
  ASSUME ListenerIInv, NEW i \in 1 .. MaxLinks, Connected(i)
  PROVE  ListenerIInv'
<1> USE DEF ListenerIInv, ListenerTypeOK
<1>1. listenInFlight = i /\ client = 0 /\ links[i] = "connects"
  BY DEF Connected, OneOpening
<1>2. CASE listenerClosed
  <2>1. links' = [links EXCEPT ![i] = "released"] /\ listenInFlight' = 0 /\ client' = client
    BY <1>2 DEF Connected, OpeningSucceeds
  <2>2. ListenerTypeOK'
    BY <2>1, ListenerAssumption DEF LinkState
  <2>3. OneOpening' /\ Held'
    BY <1>1, <2>1 DEF OneOpening, Held
  <2>4. ClosedForGood'
    BY <1>1, <2>1 DEF ClosedForGood, Connected
  <2> QED BY <2>2, <2>3, <2>4
<1>3. CASE ~listenerClosed
  <2>1. links' = [links EXCEPT ![i] = "asks"] /\ client' = i /\ listenInFlight' = i
    BY <1>1, <1>3 DEF Connected
  <2>2. ListenerTypeOK'
    BY <2>1, ListenerAssumption DEF LinkState
  <2>3. OneOpening' /\ Held'
    BY <1>1, <2>1 DEF OneOpening, Held
  <2>4. ClosedForGood'
    BY <1>3 DEF ClosedForGood, Connected
  <2> QED BY <2>2, <2>3, <2>4
<1> QED BY <1>2, <1>3

\* The server confirms LISTEN.
LEMMA ListeningKeeps ==
  ASSUME ListenerIInv, NEW i \in 1 .. MaxLinks, Listening(i)
  PROVE  ListenerIInv'
<1> USE DEF ListenerIInv, ListenerTypeOK
<1>1. links' = [links EXCEPT ![i] = "listens"] /\ listenInFlight' = 0 /\ client' = client
  BY DEF Listening, OpeningSucceeds
<1>2. links[i] = "asks" /\ client = i
  BY DEF Listening, Held
<1>3. ListenerTypeOK'
  BY <1>1, ListenerAssumption DEF LinkState
<1>4. OneOpening' /\ Held'
  BY <1>1, <1>2 DEF OneOpening, Held
<1>5. ClosedForGood'
  BY <1>1, <1>2, ListenerAssumption DEF ClosedForGood, Listening
<1> QED BY <1>3, <1>4, <1>5

\* An opening fails: that of a connection that is held, or of one that is not yet.
LEMMA ListenRefusedKeeps ==
  ASSUME ListenerIInv, NEW i \in 1 .. MaxLinks, ListenRefused(i)
  PROVE  ListenerIInv'
<1> DEFINE ls == [links EXCEPT ![i] = IF @ = "connects" THEN "ended" ELSE "deaf"]
<1>1. /\ OpeningFails(ls) /\ links[i] \in {"connects", "asks"}
      /\ UNCHANGED <<listenerClosed, listenerCloser>>
  BY DEF ListenRefused
<1>2. ls \in [1 .. MaxLinks -> LinkState]
  BY DEF ListenerIInv, ListenerTypeOK, LinkState
<1>3. \A j \in 1 .. MaxLinks : ls[j] # "connects"
  BY <1>1 DEF ListenerIInv, ListenerTypeOK, OneOpening, Held
<1>4. \A j \in 1 .. MaxLinks : ls[j] \in {"asks", "listens", "deaf"} => client = j
  BY <1>1 DEF ListenerIInv, ListenerTypeOK, Held
<1>5. listenerCloser # "done"
  BY <1>1, ListenerAssumption DEF ListenerIInv, ListenerTypeOK, OneOpening, Held, ClosedForGood
<1>6. listenInFlight' = 0 /\ 0 \in 0 .. MaxLinks
  BY <1>1, ListenerAssumption DEF OpeningFails
<1> HIDE DEF ls
<1>7. CASE reconnecting = "waits" /\ ~listenerClosed
  <2>1. links' = ReleaseClient(ls) /\ client' = 0
    BY <1>1, <1>7 DEF OpeningFails, Disconnect
  <2> QED
    BY <1>1, <1>2, <1>3, <1>4, <1>6, <2>1, ReleaseKeeps
<1>8. CASE ~(reconnecting = "waits" /\ ~listenerClosed)
  <2>1. links' = ls /\ client' = client
    BY <1>1, <1>8 DEF OpeningFails
  <2>2. ListenerTypeOK'
    BY <1>2, <1>6, <2>1 DEF ListenerIInv, ListenerTypeOK
  <2>3. OneOpening' /\ Held'
    BY <1>3, <1>4, <2>1 DEF OneOpening, Held
  <2>4. ClosedForGood'
    BY <1>1, <1>5 DEF ListenerIInv, ClosedForGood
  <2> QED BY <2>2, <2>3, <2>4 DEF ListenerIInv
<1> QED BY <1>7, <1>8

\* A connection breaks or ends: it may be another than the one that is held.
LEMMA GoneKeeps ==
  ASSUME ListenerIInv, NEW i \in 1 .. MaxLinks, NEW last \in {links[i], "ended"},
         links[i] \in {"asks", "listens", "deaf", "released"},
         Gone(i, [links EXCEPT ![i] = last])
  PROVE  ListenerIInv'
<1> DEFINE ls == [links EXCEPT ![i] = last]
<1>1. ls \in [1 .. MaxLinks -> LinkState]
  BY DEF ListenerIInv, ListenerTypeOK, LinkState
<1>2. \A j \in 1 .. MaxLinks : ls[j] = "connects" => links[j] = "connects" /\ j # i
  BY DEF ListenerIInv, ListenerTypeOK
<1>3. \A j \in 1 .. MaxLinks : ls[j] \in {"asks", "listens", "deaf"} => client = j
  BY DEF ListenerIInv, ListenerTypeOK, Held
<1>4. /\ listenInFlight' = IF listenInFlight = i THEN 0 ELSE listenInFlight
      /\ UNCHANGED <<listenerClosed, listenerCloser>>
  BY DEF Gone
<1>5. \A j \in 1 .. MaxLinks : ls[j] = "connects" => listenInFlight' = j /\ client = 0
  BY <1>2, <1>4 DEF ListenerIInv, OneOpening
<1>6. /\ listenInFlight' \in 0 .. MaxLinks
      /\ listenerCloser' = "done" => listenInFlight' = 0 /\ client = 0
  BY <1>4, ListenerAssumption DEF ListenerIInv, ListenerTypeOK, ClosedForGood
<1>7. \/ links' = ReleaseClient(ls) /\ client' = 0
      \/ links' = ls /\ client' = client
  BY DEF Gone, Disconnect
<1> HIDE DEF ls
<1>8. CASE links' = ReleaseClient(ls) /\ client' = 0
  BY <1>1, <1>2, <1>3, <1>4, <1>5, <1>6, <1>8, ReleaseKeeps
<1>9. CASE links' = ls /\ client' = client
  <2>1. ListenerTypeOK'
    BY <1>1, <1>6, <1>9 DEF ListenerIInv, ListenerTypeOK
  <2>2. OneOpening' /\ Held'
    BY <1>3, <1>5, <1>9 DEF OneOpening, Held
  <2>3. ClosedForGood'
    BY <1>4, <1>6, <1>9 DEF ListenerIInv, ClosedForGood
  <2> QED BY <2>1, <2>2, <2>3 DEF ListenerIInv
<1> QED BY <1>7, <1>8, <1>9

LEMMA ListenerStep ==
  ASSUME ListenerIInv, [ListenerNext]_listenerVars
  PROVE  ListenerIInv'
<1>1. CASE Subscribe
  BY <1>1, EnsureListeningKeeps DEF Subscribe
<1>2. CASE Reconnect
  <2>1. CASE listenerClosed
    BY <1>2, <2>1
    DEF Reconnect, ListenerIInv, ListenerTypeOK, OneOpening, ClosedForGood, Held
  <2>2. CASE ~listenerClosed
    BY <1>2, <2>2, EnsureListeningKeeps DEF Reconnect
  <2> QED BY <2>1, <2>2
<1>3. CASE ListenerClose
  BY <1>3 DEF ListenerClose, ListenerIInv, ListenerTypeOK, OneOpening, ClosedForGood, Held
<1>4. CASE ListenerCloseEnds
  <2>1. links \in [1 .. MaxLinks -> LinkState] /\ listenerClosed
    BY <1>4 DEF ListenerCloseEnds, ListenerIInv, ListenerTypeOK, ClosedForGood
  <2>2. /\ links' = ReleaseClient(links) /\ client' = 0 /\ listenInFlight' = 0
        /\ listenInFlight' \in 0 .. MaxLinks /\ listenerCloser' = "done"
        /\ listenerClosed' = listenerClosed
    BY <1>4, ListenerAssumption DEF ListenerCloseEnds
  <2>3. /\ \A i \in 1 .. MaxLinks : links[i] = "connects" => listenInFlight' = i
        /\ \A i \in 1 .. MaxLinks : links[i] \in {"asks", "listens", "deaf"} => client = i
    BY <1>4 DEF ListenerCloseEnds, ListenerIInv, OneOpening, Held
  <2> QED BY <2>1, <2>2, <2>3, ReleaseKeeps
<1>5. ASSUME NEW i \in DOMAIN links,
             ListenerAnswers(i) \/ ListenRefused(i) \/ Breaks(i) \/ Ends(i)
      PROVE  ListenerIInv'
  <2>1. i \in 1 .. MaxLinks
    BY DEF ListenerIInv, ListenerTypeOK
  <2>2. CASE ListenerAnswers(i)
    BY <2>1, <2>2, ConnectedKeeps, ListeningKeeps DEF ListenerAnswers
  <2>3. CASE ListenRefused(i)
    BY <2>1, <2>3, ListenRefusedKeeps
  <2>4. CASE Breaks(i)
    BY <2>1, <2>4, GoneKeeps DEF Breaks
  <2>5. CASE Ends(i)
    BY <2>1, <2>5, GoneKeeps DEF Ends
  <2> QED BY <1>5, <2>2, <2>3, <2>4, <2>5
<1>6. CASE UNCHANGED listenerVars
  BY <1>6
  DEF listenerVars, ListenerIInv, ListenerTypeOK, OneOpening, ClosedForGood, Held
<1> QED BY <1>1, <1>2, <1>3, <1>4, <1>5, <1>6 DEF ListenerNext

--------------------------------------------------------------------------------
(* Connections that were given back *)

\* They end within the delay, and nobody is subscribed to a backend that is closed.
GivenBack ==
  /\ \A i \in 1 .. MaxLinks : links[i] = "released" => reconnecting = "delay" \/ listenerClosed
  /\ listenerClosed => subscriptions = 0

\* A step that releases a connection starts the delay, if the backend is not closed.
LEMMA GivenBackStep ==
  ASSUME ListenerIInv, GivenBack, [ListenerNext]_listenerVars
  PROVE  GivenBack'
<1>0. DOMAIN links = 1 .. MaxLinks
  BY DEF ListenerIInv, ListenerTypeOK
<1> DEFINE NothingNew(ls) == \A i \in 1 .. MaxLinks : ls[i] = "released" => links[i] = "released"
<1>1. SUFFICES ASSUME ListenerNext PROVE GivenBack'
  BY DEF GivenBack, listenerVars
<1>3. ASSUME EnsureListening PROVE NothingNew(links')
  BY <1>3, <1>0 DEF EnsureListening
<1>4. CASE Subscribe
  BY <1>3, <1>4 DEF Subscribe, GivenBack
<1>5. CASE Reconnect
  BY <1>0, <1>3, <1>5 DEF Reconnect, GivenBack
<1>6. CASE ListenerClose \/ ListenerCloseEnds
  BY <1>6 DEF ListenerClose, ListenerCloseEnds, GivenBack, ListenerIInv, ClosedForGood
<1>7. ASSUME NEW i \in 1 .. MaxLinks,
             ListenerAnswers(i) \/ ListenRefused(i) \/ Breaks(i) \/ Ends(i)
      PROVE  GivenBack'
  <2>1. listenerClosed' = listenerClosed /\ subscriptions' = subscriptions
    BY <1>7 DEF ListenerAnswers, Connected, Listening, ListenRefused, Breaks, Ends, Gone
  <2>2. CASE listenerClosed
    BY <2>1, <2>2 DEF GivenBack
  <2>3. CASE ~listenerClosed
    <3>1. \/ reconnecting' = "delay"
          \/ /\ NothingNew(links')
             /\ reconnecting' = reconnecting \/ (reconnecting = "waits" /\ reconnecting' = "no")
      <4>1. CASE Connected(i)
        BY <1>0, <2>3, <4>1 DEF Connected
      <4>2. CASE Listening(i)
        BY <1>0, <4>2 DEF Listening, OpeningSucceeds
      <4>3. CASE ListenRefused(i)
        BY <1>0, <2>3, <4>3 DEF ListenRefused, OpeningFails, Disconnect
      <4>4. CASE Breaks(i) \/ Ends(i)
        <5>1. PICK last \in {links[i], "ended"} : Gone(i, [links EXCEPT ![i] = last])
          BY <4>4 DEF Breaks, Ends
        <5>2. NothingNew([links EXCEPT ![i] = last])
          BY <1>0, <5>1
        <5> QED BY <2>3, <5>1, <5>2 DEF Gone, Disconnect
      <4> QED BY <1>7, <4>1, <4>2, <4>3, <4>4 DEF ListenerAnswers
    <3> QED BY <2>1, <2>3, <3>1 DEF GivenBack
  <2> QED BY <2>2, <2>3
<1> QED BY <1>0, <1>1, <1>4, <1>5, <1>6, <1>7 DEF ListenerNext

\* ListenersAreHeld of the runs, for any number of connections: every connection whose
\* notifications dispatch() sees is the one in this.client or one that was given back
\* and has still to end, and while there are two of them the delay of handleDisconnect
\* is not over.
THEOREM ListenersHeld == ListenerSpec => []ListenersAreHeld
<1> DEFINE Inv == ListenerIInv /\ GivenBack
<1>1. ListenerInit => Inv
  BY ListenerInitial DEF ListenerInit, GivenBack
<1>2. Inv /\ [ListenerNext]_listenerVars => Inv'
  BY ListenerStep, GivenBackStep
<1>3. Inv => ListenersAreHeld
  BY DEF ListenerIInv, ListenerTypeOK, ClosedForGood, Held, GivenBack, ListenersAreHeld, Attached
<1> QED BY <1>1, <1>2, <1>3, PTL DEF ListenerSpec

--------------------------------------------------------------------------------
(* PgSchema *)

SchemaSpec == SchemaInit /\ [][SchemaNext]_schemaVars

SomeText == NewText \cup {OldText[m] : m \in DOMAIN OldText}

\* Where an instance is.
Migrating == {"closed", "version", "tables", "backfill", "hash"}
Choosing == {"pgvector", "dims", "opened", "chosen"}
Fitting == {"first", "later", "record", "booted"}

DatabaseState ==
  [version : {0, 2, 5}, dims : Nat, tables : [{"vector", "blob"} -> Nat]]

MemoryState == [text : SomeText, hash : SomeText \cup {Unhashed}]

ProcessState == [pgvector : {"unknown", "yes", "no"}, ready : SUBSET Nat]

Listed == [memory : Nat, text : SomeText]

InstanceState ==
  [at : Migrating \cup Choosing \cup Fitting, pgvector : BOOLEAN, dims : Nat,
   list : SUBSET Listed, seen : SUBSET SomeText]

SchemaTypes ==
  /\ database \in DatabaseState /\ pgMemories \in Seq(MemoryState) /\ usable \in BOOLEAN
  /\ statics \in [{ProcessOf[i] : i \in Instance} -> ProcessState]
  /\ instances \in [Instance -> InstanceState]
  /\ overtaken \subseteq DOMAIN pgMemories /\ replaced \subseteq SomeText
  /\ lost \subseteq SomeText /\ upgraded \in BOOLEAN
  /\ ahead \in BOOLEAN

--------------------------------------------------------------------------------
(* The dimensions *)

\* Who chose dimensions has some.
DimsChosen ==
  \A i \in Instance : instances[i].at \in Fitting \cup {"chosen"} => instances[i].dims # 0

\* Instances that find no dimensions recorded agree with each other, and with a
\* table or record that one of them has made since.
FirstAgree ==
  \A i \in Instance : instances[i].at \in {"first", "record"} =>
    /\ database.dims \in {0, instances[i].dims}
    /\ database.tables["vector"] \in {0, instances[i].dims}
    /\ \A j \in Instance : instances[j].at \in {"first", "record"} =>
         instances[j].dims = instances[i].dims

LaterAgree ==
  /\ database.dims # 0 => database.tables["vector"] \in {0, database.dims}
  /\ \A i \in Instance : instances[i].at \in {"later", "booted"} =>
       instances[i].dims = database.dims

HasTable ==
  \A i \in Instance : instances[i].at \in {"record", "booted"} =>
    /\ database.tables[TableOf(i)] # 0
    /\ instances[i].pgvector => database.tables["vector"] = instances[i].dims

DimsInv == DimsChosen /\ (~ahead => FirstAgree /\ LaterAgree /\ HasTable)

--------------------------------------------------------------------------------
(* The hashes *)

\* Texts that need not be found any more.
Forgiven == replaced \cup lost

\* Who uses the database found its version current, or ended a backfill.
VersionInv ==
  /\ ~upgraded => /\ replaced = {} /\ overtaken = {}
                  /\ database.version # CurrentVersion
  /\ \A i \in Instance : instances[i].at \notin Migrating => upgraded
  /\ \A i \in Instance : instances[i].list # {} => instances[i].at = "hash"

\* A hash is that of the memory's text, or of a text that was replaced.
HashOfText ==
  \A m \in DOMAIN pgMemories :
    pgMemories[m].hash \in {Unhashed, pgMemories[m].text}
                             \cup (IF m \in overtaken THEN replaced ELSE {})

HashOnce ==
  \A m, n \in DOMAIN pgMemories :
    m # n /\ pgMemories[m].hash # Unhashed => pgMemories[m].hash # pgMemories[n].hash

\* A listed text is that of the memory, or the memory was updated since.
ListsTellTexts ==
  \A i \in Instance : \A e \in instances[i].list :
    /\ e.memory \in DOMAIN pgMemories
    /\ \/ e.text = pgMemories[e.memory].text
       \/ e.memory \in overtaken /\ e.text \in replaced

Hashed(t) == \E n \in DOMAIN pgMemories : pgMemories[n].hash = t

\* An older duplicate that a backfill comes to has a newer one with the hash.
SeenIsHashed ==
  \A i \in Instance : \A e \in instances[i].list :
    e.memory \notin overtaken /\ e.text \in instances[i].seen \ Forgiven =>
      \E n \in DOMAIN pgMemories : n > e.memory /\ pgMemories[n].hash = e.text

\* Every text has a hash, or is still listed in each backfill that goes on.
TextsAreHashed ==
  \A m \in DOMAIN pgMemories \ overtaken : pgMemories[m].text \notin Forgiven =>
    \/ Hashed(pgMemories[m].text)
    \/ /\ ~upgraded
       /\ \A i \in Instance : instances[i].at = "hash" =>
            \E e \in instances[i].list : e.memory = m

\* A hash is with the newest memory that has the text, and with that of an
\* overtaken memory only if no other memory has the text.
HashWithNewest ==
  \A m \in DOMAIN pgMemories : pgMemories[m].hash \notin {Unhashed} \cup Forgiven =>
    \A n \in DOMAIN pgMemories \ overtaken :
      n > m \/ (n # m /\ m \in overtaken) => pgMemories[n].text # pgMemories[m].hash

\* A memory that shares the text of an overtaken one came by it later, with the hash,
\* and no backfill has it listed.
OvertakenApart ==
  \A m \in overtaken, n \in DOMAIN pgMemories \ overtaken :
    pgMemories[n].text = pgMemories[m].text /\ pgMemories[n].text \notin Forgiven =>
      /\ pgMemories[n].hash = pgMemories[n].text
      /\ \A i \in Instance : \A e \in instances[i].list : e.memory # n

HashInv ==
  /\ VersionInv /\ HashOfText /\ HashOnce /\ ListsTellTexts /\ SeenIsHashed
  /\ TextsAreHashed /\ HashWithNewest /\ OvertakenApart

SchemaInv == SchemaTypes /\ DimsInv /\ HashInv

--------------------------------------------------------------------------------
(* Types *)

LEMMA GreatestOfBounded ==
  ASSUME NEW S \in SUBSET Nat, S # {}, NEW b \in Nat, \A x \in S : x <= b
  PROVE  \E g \in S : \A x \in S : x <= g
<1> DEFINE T == {n \in Nat : \A x \in S : x <= n}
<1>1. T \subseteq Nat /\ T # {}
  OBVIOUS
<1>2. PICK n \in T : \A k \in T : ~(<<k, n>> \in OpToRel(<, Nat))
  BY <1>1, NatLessThanWellFounded, WFMin
<1>3. \A k \in T : ~(k < n)
  BY <1>1, <1>2 DEF OpToRel
<1>4. n \in S
  <2>1. SUFFICES ASSUME n \notin S PROVE FALSE
    OBVIOUS
  <2>2. n # 0 /\ n \in Nat
    <3>1. PICK x : x \in S
      OBVIOUS
    <3>2. x # n /\ x <= n /\ x \in Nat /\ n \in Nat
      BY <2>1, <3>1
    <3> QED BY <3>2
  <2>3. n - 1 \in T
    BY <2>1, <2>2
  <2> QED BY <1>3, <2>2, <2>3
<1> QED BY <1>4

\* A backfill has a next memory as long as its list is not empty.
LEMMA NextUnhashedDef ==
  ASSUME SchemaTypes, ListsTellTexts, NEW i \in Instance, instances[i].list # {}
  PROVE  LET e == NextUnhashed(instances[i].list)
         IN  e \in instances[i].list /\ \A d \in instances[i].list : d.memory <= e.memory
<1> DEFINE list == instances[i].list
           S == {e.memory : e \in list}
<1>1. list \subseteq [memory : Nat, text : SomeText] /\ Len(pgMemories) \in Nat
  BY DEF SchemaTypes, InstanceState, Listed
<1>2. \A x \in S : x \in 1 .. Len(pgMemories)
  BY DEF ListsTellTexts, SchemaTypes
<1>3. S \in SUBSET Nat /\ S # {} /\ \A x \in S : x <= Len(pgMemories)
  BY <1>1, <1>2
<1>4. PICK g \in S : \A x \in S : x <= g
  BY <1>1, <1>3, GreatestOfBounded
<1>5. \E e \in list : \A d \in list : d.memory <= e.memory
  BY <1>4
<1> HIDE DEF list
<1> QED BY <1>5 DEF NextUnhashed, list

LEMMA AsleepType == Asleep \in InstanceState
BY DEF Asleep, InstanceState, Migrating

\* What the steps change in an instance.
LEMMA InstanceTypes ==
  ASSUME NEW x \in InstanceState, NEW s \in Migrating \cup Choosing \cup Fitting,
         NEW p \in BOOLEAN, NEW d \in Nat, NEW l \in SUBSET Listed, NEW t \in SUBSET SomeText
  PROVE  /\ [x EXCEPT !.at = s] \in InstanceState
         /\ [x EXCEPT !.at = s, !.pgvector = p] \in InstanceState
         /\ [x EXCEPT !.at = s, !.dims = d] \in InstanceState
         /\ [x EXCEPT !.list = l, !.seen = t] \in InstanceState
         /\ [x EXCEPT !.at = s, !.seen = t, !.list = l] \in InstanceState
<1> USE DEF InstanceState
<1>1. [x EXCEPT !.at = s] \in InstanceState
  OBVIOUS
<1>2. [x EXCEPT !.at = s, !.pgvector = p] \in InstanceState
  OBVIOUS
<1>3. [x EXCEPT !.at = s, !.dims = d] \in InstanceState
  OBVIOUS
<1>4. [x EXCEPT !.list = l, !.seen = t] \in InstanceState
  OBVIOUS
<1>5. [x EXCEPT !.at = s, !.seen = t, !.list = l] \in InstanceState
  OBVIOUS
<1> QED BY <1>1, <1>2, <1>3, <1>4, <1>5

LEMMA WithTableType ==
  ASSUME database \in DatabaseState, NEW pgvector \in BOOLEAN, NEW dims \in Nat
  PROVE  /\ WithTable(pgvector, dims) \in DatabaseState
         /\ WithTable(pgvector, dims).version = database.version
         /\ WithTable(pgvector, dims).dims = database.dims
         /\ \A name \in {"vector", "blob"} :
              WithTable(pgvector, dims).tables[name] =
                IF name = (IF pgvector THEN "vector" ELSE "blob") /\ database.tables[name] = 0
                THEN dims ELSE database.tables[name]
BY DEF WithTable, DatabaseState

LEMMA MoveTypes ==
  ASSUME SchemaTypes, NEW i \in Instance, NEW x \in InstanceState,
         instances' = [instances EXCEPT ![i] = x]
  PROVE  /\ instances' \in [Instance -> InstanceState]
         /\ instances'[i] = x /\ \A j \in Others(i) : instances'[j] = instances[j]
BY DEF SchemaTypes, Others

LEMMA GoesToTypes ==
  ASSUME SchemaTypes, NEW i \in Instance, NEW s \in Migrating \cup Choosing \cup Fitting,
         GoesTo(i, s)
  PROVE  /\ instances' \in [Instance -> InstanceState]
         /\ instances'[i] = [instances[i] EXCEPT !.at = s]
         /\ \A j \in Others(i) : instances'[j] = instances[j]
<1>1. instances[i] \in InstanceState
  BY DEF SchemaTypes
<1>2. [instances[i] EXCEPT !.at = s] \in InstanceState
  BY <1>1 DEF InstanceState
<1>3. instances' = [instances EXCEPT ![i] = [instances[i] EXCEPT !.at = s]]
  BY DEF GoesTo
<1> QED BY <1>2, <1>3, MoveTypes

LEMMA RememberedTypes ==
  ASSUME SchemaTypes, NEW i \in Instance, NEW p \in BOOLEAN, TryEnablePgvector(i, p)
  PROVE  statics' \in [{ProcessOf[j] : j \in Instance} -> ProcessState] /\ usable' = usable
BY DEF SchemaTypes, TryEnablePgvector, ProcessState, Upset, schemaCounts

LEMMA SchemaTypesStep ==
  ASSUME PgSchemaAssumption, SchemaTypes, ListsTellTexts, [SchemaNext]_schemaVars
  PROVE  SchemaTypes'
<1> USE DEF SchemaTypes, OpenAt, Upset, schemaCounts, schemaHistory
<1>0. /\ DOMAIN pgMemories = 1 .. Len(pgMemories) /\ Len(pgMemories) \in Nat
      /\ database.dims \in Nat
  BY DEF DatabaseState
<1>b. \A m \in DOMAIN pgMemories : /\ pgMemories[m] \in MemoryState
                                   /\ pgMemories[m].text \in SomeText
                                   /\ pgMemories[m].hash \in SomeText \cup {Unhashed}
  <2>1. \A m \in DOMAIN pgMemories : pgMemories[m] \in MemoryState
    BY <1>0, ElementOfSeq
  <2> QED BY <2>1 DEF MemoryState
<1>a. \A i \in Instance : instances[i] \in InstanceState /\ instances[i].pgvector \in BOOLEAN
                         /\ instances[i].dims \in Nat /\ instances[i].list \subseteq Listed
                         /\ instances[i].seen \subseteq SomeText
  BY DEF InstanceState
<1>1. ASSUME NEW i \in Instance, OpenStarts(i)
      PROVE  SchemaTypes'
  BY <1>1, GoesToTypes DEF OpenStarts, Migrating, Choosing
<1>2. ASSUME NEW i \in Instance, ReadVersion(i)
      PROVE  SchemaTypes'
  BY <1>2, GoesToTypes DEF ReadVersion, Migrating, Choosing
<1>3. ASSUME NEW i \in Instance, CreateTables(i)
      PROVE  SchemaTypes'
  BY <1>3, GoesToTypes DEF CreateTables, Migrating, Choosing
<1>4. ASSUME NEW i \in Instance, CreateTablesFails(i)
      PROVE  SchemaTypes'
  BY <1>4, AsleepType, MoveTypes DEF CreateTablesFails
<1>c. UnhashedMemories \subseteq Listed /\ {e.text : e \in UnhashedMemories} \subseteq SomeText
  BY <1>0, <1>b DEF UnhashedMemories, Listed
<1>20. ASSUME NEW i \in Instance, ReadVersionFails(i)
       PROVE  SchemaTypes'
  BY <1>20, GoesToTypes DEF ReadVersionFails, Migrating, Choosing
<1>d. ASSUME NEW i \in Instance, NEW list \in SUBSET Listed, BackfillStarts(i, list)
      PROVE  instances' \in [Instance -> InstanceState]
  <2>1. [instances[i] EXCEPT !.at = "hash", !.seen = {}, !.list = list] \in InstanceState
    BY <1>a DEF InstanceState, Migrating
  <2> QED BY <1>d, <2>1 DEF BackfillStarts
<1>5. ASSUME NEW i \in Instance, ListUnhashed(i)
      PROVE  SchemaTypes'
  <2>1. PICK list \in SUBSET Listed : BackfillStarts(i, list)
    BY <1>5, <1>c DEF ListUnhashed
  <2>2. instances' \in [Instance -> InstanceState]
    BY <1>d, <2>1
  <2> QED BY <1>5, <2>2 DEF ListUnhashed, BackfillStarts
<1>21. ASSUME NEW i \in Instance, RereadVersionFails(i)
       PROVE  SchemaTypes'
  BY <1>21, <1>c, <1>d DEF RereadVersionFails, BackfillStarts
<1>22. ASSUME NEW i \in Instance, ListUnhashedFails(i)
       PROVE  SchemaTypes'
  <2>1. instances' \in [Instance -> InstanceState]
    BY <1>22, <1>d DEF ListUnhashedFails
  <2> QED BY <1>22, <1>c, <2>1 DEF ListUnhashedFails, BackfillStarts
<1>e. ASSUME NEW i \in Instance, Visits(i)
      PROVE  /\ instances' \in [Instance -> InstanceState]
             /\ NextUnhashed(instances[i].list).memory \in 1 .. Len(pgMemories)
             /\ NextUnhashed(instances[i].list).text \in SomeText
  <2> DEFINE next == NextUnhashed(instances[i].list)
  <2>1. next \in instances[i].list /\ next \in Listed /\ next.memory \in 1 .. Len(pgMemories)
    BY <1>0, <1>e, <1>a, NextUnhashedDef DEF Visits, ListsTellTexts
  <2> HIDE DEF next
  <2>2. next.text \in SomeText
    BY <2>1 DEF Listed
  <2>3. [instances[i] EXCEPT !.list = @ \ {next}, !.seen = @ \cup {next.text}] \in InstanceState
    <3>1. instances[i].list \ {next} \in SUBSET Listed
      BY <1>a
    <3>2. instances[i].seen \cup {next.text} \in SUBSET SomeText
      BY <1>a, <2>2
    <3>3. \A l \in SUBSET Listed, t \in SUBSET SomeText :
            [instances[i] EXCEPT !.list = l, !.seen = t] \in InstanceState
      BY <1>a DEF InstanceState
    <3> QED BY <3>1, <3>2, <3>3
  <2>4. instances' \in [Instance -> InstanceState]
    BY <1>e, <2>3 DEF Visits, next
  <2> QED BY <2>1, <2>2, <2>4 DEF next
<1>6. ASSUME NEW i \in Instance, BackfillHash(i)
      PROVE  SchemaTypes'
  <2> DEFINE next == NextUnhashed(instances[i].list)
  <2>1. /\ instances' \in [Instance -> InstanceState]
        /\ next.memory \in 1 .. Len(pgMemories) /\ next.text \in SomeText
    BY <1>6, <1>e DEF BackfillHash
  <2>3. PICK h \in SomeText \cup {Unhashed} : pgMemories' = [pgMemories EXCEPT ![next.memory].hash = h]
    <3>1. pgMemories[next.memory].hash \in SomeText \cup {Unhashed}
      BY <1>0, <1>b, <2>1
    <3> QED BY <1>6, <2>1, <3>1 DEF BackfillHash
  <2> HIDE DEF next
  <2>4. pgMemories' \in Seq(MemoryState) /\ Len(pgMemories') = Len(pgMemories)
    <3>1. [pgMemories[next.memory] EXCEPT !.hash = h] \in MemoryState
      BY <1>0, <1>b, <2>1, <2>3 DEF MemoryState
    <3>2. pgMemories' =
            [pgMemories EXCEPT ![next.memory] = [pgMemories[next.memory] EXCEPT !.hash = h]]
      BY <2>3
    <3> QED BY <2>1, <3>1, <3>2, ExceptSeq
  <2> QED BY <1>0, <1>6, <2>1, <2>4 DEF BackfillHash, Visits
<1>23. ASSUME NEW i \in Instance, BackfillHashFails(i)
       PROVE  SchemaTypes'
  BY <1>23, <1>e DEF BackfillHashFails, Visits
<1>7. ASSUME NEW i \in Instance, SetSchemaVersion(i)
      PROVE  SchemaTypes'
  <2>1. instances' \in [Instance -> InstanceState]
    BY <1>7, GoesToTypes DEF SetSchemaVersion, BackfillEnds, Choosing
  <2>2. database' \in DatabaseState
    BY <1>7 DEF SetSchemaVersion, DatabaseState, CurrentVersion
  <2> QED BY <1>7, <2>1, <2>2 DEF SetSchemaVersion, BackfillEnds
<1>24. ASSUME NEW i \in Instance, SetSchemaVersionFails(i)
       PROVE  SchemaTypes'
  <2>1. instances' \in [Instance -> InstanceState]
    BY <1>24, GoesToTypes DEF SetSchemaVersionFails, BackfillEnds, Choosing
  <2> QED BY <1>24, <2>1 DEF SetSchemaVersionFails, BackfillEnds
<1>8. ASSUME NEW i \in Instance, EnablePgvector(i)
      PROVE  SchemaTypes'
  <2>0. PICK p \in BOOLEAN :
          /\ TryEnablePgvector(i, p)
          /\ instances' = [instances EXCEPT ![i].at = "dims", ![i].pgvector = p]
    BY <1>8 DEF EnablePgvector
  <2>1. [instances[i] EXCEPT !.at = "dims", !.pgvector = p] \in InstanceState
    BY <1>a, RememberedTypes DEF InstanceState, Choosing
  <2>2. instances' \in [Instance -> InstanceState]
    BY <2>0, <2>1
  <2>3. statics' \in [{ProcessOf[j] : j \in Instance} -> ProcessState] /\ usable' = usable
    BY <2>0, RememberedTypes
  <2> QED BY <1>8, <2>2, <2>3 DEF EnablePgvector
<1>9. ASSUME NEW i \in Instance, OpenEnds(i)
      PROVE  SchemaTypes'
  <2>1. \A b \in BOOLEAN : [instances[i] EXCEPT !.at = "opened", !.pgvector = @ \/ b] \in InstanceState
    BY <1>a DEF InstanceState, Choosing
  <2>2. instances' \in [Instance -> InstanceState]
    BY <1>9, <2>1 DEF OpenEnds
  <2>3. database' \in DatabaseState
    BY <1>0, <1>9, <1>a, WithTableType DEF OpenEnds
  <2>4. statics' \in [{ProcessOf[j] : j \in Instance} -> ProcessState]
    BY <1>0, <1>9 DEF OpenEnds, ProcessState
  <2> QED BY <1>9, <2>2, <2>3, <2>4 DEF OpenEnds
<1>10. ASSUME NEW i \in Instance, ChooseDimensions(i)
      PROVE  SchemaTypes'
  <2>1. \A d \in Nat : [instances[i] EXCEPT !.at = "chosen", !.dims = d] \in InstanceState
    BY <1>a DEF InstanceState, Choosing
  <2>2. instances' \in [Instance -> InstanceState]
    BY <1>0, <1>10, <2>1 DEF ChooseDimensions, PgSchemaAssumption
  <2> QED BY <1>10, <2>2 DEF ChooseDimensions
<1>11. ASSUME NEW i \in Instance, EnsureVectorSchema(i)
      PROVE  SchemaTypes'
  <2>0. PICK p \in BOOLEAN :
          /\ TryEnablePgvector(i, p)
          /\ instances' = [instances EXCEPT
               ![i].at = IF database.dims = 0 THEN "first" ELSE "later", ![i].pgvector = p]
    BY <1>11 DEF EnsureVectorSchema
  <2>1. \A s \in {"first", "later"} :
          [instances[i] EXCEPT !.at = s, !.pgvector = p] \in InstanceState
    BY <1>a, RememberedTypes DEF InstanceState, Fitting
  <2>2. instances' \in [Instance -> InstanceState]
    BY <2>0, <2>1
  <2>3. statics' \in [{ProcessOf[j] : j \in Instance} -> ProcessState] /\ usable' = usable
    BY <2>0, RememberedTypes
  <2> QED BY <1>11, <2>2, <2>3 DEF EnsureVectorSchema
<1>12. ASSUME NEW i \in Instance, DimensionsMismatch(i)
      PROVE  SchemaTypes'
  BY <1>12, AsleepType, MoveTypes DEF DimensionsMismatch
<1>13. ASSUME NEW i \in Instance, EnsureVectorTables(i)
      PROVE  SchemaTypes'
  <2>1. instances' \in [Instance -> InstanceState]
    BY <1>13, GoesToTypes DEF EnsureVectorTables, Fitting
  <2>2. database' \in DatabaseState
    BY <1>13, <1>a, WithTableType DEF EnsureVectorTables
  <2> QED BY <1>13, <2>1, <2>2 DEF EnsureVectorTables
<1>14. ASSUME NEW i \in Instance, SetEmbeddingDimensions(i)
      PROVE  SchemaTypes'
  <2>1. instances' \in [Instance -> InstanceState]
    BY <1>14, GoesToTypes DEF SetEmbeddingDimensions, Fitting
  <2>2. database' \in DatabaseState
    BY <1>14, <1>a DEF SetEmbeddingDimensions, DatabaseState
  <2> QED BY <1>14, <2>1, <2>2 DEF SetEmbeddingDimensions
<1>15. ASSUME NEW i \in Instance, ClosePool(i)
      PROVE  SchemaTypes'
  BY <1>15, AsleepType, MoveTypes DEF ClosePool
<1>16. ASSUME NEW i \in Instance, PgRemember(i)
      PROVE  SchemaTypes'
  <2>1. PICK t \in NewText : pgMemories' = Append(pgMemories, [text |-> t, hash |-> t])
    BY <1>16 DEF PgRemember
  <2>2. [text |-> t, hash |-> t] \in MemoryState
    BY <2>1 DEF MemoryState, SomeText
  <2>3. pgMemories' \in Seq(MemoryState) /\ Len(pgMemories') = Len(pgMemories) + 1
    BY <2>1, <2>2, AppendProperties
  <2> QED BY <1>0, <1>16, <2>3 DEF PgRemember
<1>17. ASSUME NEW i \in Instance, NEW m \in DOMAIN pgMemories, PgUpdateText(i, m)
       PROVE  SchemaTypes'
  <2>1. PICK t \in NewText : pgMemories' = [pgMemories EXCEPT ![m] = [text |-> t, hash |-> t]]
    BY <1>17 DEF PgUpdateText
  <2>2. [text |-> t, hash |-> t] \in MemoryState
    BY <2>1 DEF MemoryState, SomeText
  <2>3. pgMemories' \in Seq(MemoryState) /\ Len(pgMemories') = Len(pgMemories)
    BY <1>0, <2>1, <2>2, ExceptSeq
  <2>4. pgMemories[m].text \in SomeText
    BY <1>b
  <2> QED BY <1>0, <1>17, <2>3, <2>4 DEF PgUpdateText
<1>18. ASSUME NEW i \in Instance, CrashProcess(ProcessOf[i])
       PROVE  SchemaTypes'
  <2>1. Forgetful \in ProcessState
    BY DEF Forgetful, ProcessState
  <2> QED BY <1>18, <2>1, AsleepType DEF CrashProcess
<1>19. CASE UNCHANGED schemaVars
  BY <1>19 DEF schemaVars
<1> QED BY <1>1, <1>2, <1>3, <1>4, <1>5, <1>6, <1>7, <1>8, <1>9, <1>10,
           <1>11, <1>12, <1>13, <1>14, <1>15, <1>16, <1>17, <1>18, <1>19,
           <1>20, <1>21, <1>22, <1>23, <1>24
           DEF SchemaNext

--------------------------------------------------------------------------------
(* The dimensions: most steps only move an instance outside of boot(). *)

LEMMA DimsQuiet ==
  ASSUME DimsInv, ahead' = ahead, database'.dims = database.dims,
         database'.tables = database.tables,
         \A j \in Instance : \/ instances'[j] = instances[j]
                             \/ /\ instances'[j].at \notin Fitting
                                /\ instances'[j].at = "chosen" => instances'[j].dims # 0
  PROVE  DimsInv'
<1>1. DimsChosen'
  BY DEF DimsInv, DimsChosen, Fitting
<1>2. ASSUME ~ahead PROVE FirstAgree' /\ LaterAgree' /\ HasTable'
  BY <1>2 DEF DimsInv, FirstAgree, LaterAgree, HasTable, Fitting, TableOf
<1> QED BY <1>1, <1>2 DEF DimsInv

LEMMA OpenEndsDims ==
  ASSUME SchemaTypes, DimsInv, NEW i \in Instance, OpenEnds(i)
  PROVE  DimsInv'
<1>1. /\ \A j \in Others(i) : instances'[j] = instances[j]
      /\ instances'[i].at = "opened" /\ ahead' = ahead
  BY DEF OpenEnds, Others, SchemaTypes, InstanceState, schemaHistory
<1>2. database.dims \in Nat /\ instances[i].pgvector \in BOOLEAN
  BY DEF SchemaTypes, DatabaseState, InstanceState
<1>3. /\ database'.dims = database.dims
      /\ \A name \in {"vector", "blob"} : \/ database'.tables[name] = database.tables[name]
                                          \/ /\ database.tables[name] = 0
                                             /\ database'.tables[name] = database.dims
      /\ database.dims = 0 => database' = database
  BY <1>2, WithTableType DEF OpenEnds, SchemaTypes
<1>4. DimsChosen'
  BY <1>1 DEF DimsInv, DimsChosen, Others, Fitting
<1>5. ASSUME ~ahead PROVE FirstAgree' /\ LaterAgree' /\ HasTable'
  <2>1. FirstAgree'
    BY <1>1, <1>3, <1>5 DEF DimsInv, FirstAgree, Others
  <2>2. LaterAgree'
    BY <1>1, <1>3, <1>5 DEF DimsInv, LaterAgree, Others
  <2>3. HasTable'
    BY <1>1, <1>3, <1>5 DEF DimsInv, HasTable, Others, TableOf
  <2> QED BY <2>1, <2>2, <2>3
<1> QED BY <1>1, <1>4, <1>5 DEF DimsInv

LEMMA EnsureVectorSchemaDims ==
  ASSUME SchemaTypes, DimsInv, NEW i \in Instance, EnsureVectorSchema(i)
  PROVE  DimsInv'
<1>1. /\ \A j \in Others(i) : instances'[j] = instances[j]
      /\ instances'[i].at = IF database.dims = 0 THEN "first" ELSE "later"
      /\ instances'[i].dims = instances[i].dims
      /\ database' = database
      /\ instances[i].at = "chosen" /\ database.dims \in {0, instances[i].dims}
      /\ ahead' = (ahead \/ (database.dims = 0 /\ OthersAhead(i)))
  BY DEF EnsureVectorSchema, Others, SchemaTypes, InstanceState, OpenAt, SameDimensions
<1>2. DimsChosen'
  BY <1>1 DEF DimsInv, DimsChosen, Others, Fitting
<1>3. ASSUME ~ahead' PROVE FirstAgree' /\ LaterAgree' /\ HasTable'
  <2>1. FirstAgree /\ LaterAgree /\ HasTable
    BY <1>1, <1>3 DEF DimsInv
  <2>2. LaterAgree' /\ HasTable'
    BY <1>1, <2>1 DEF LaterAgree, HasTable, Others, TableOf
  <2>3. database.dims = 0 => ~OthersAhead(i)
    BY <1>1, <1>3
  <2>4. FirstAgree'
    BY <1>1, <2>1, <2>3 DEF FirstAgree, OthersAhead, Others
  <2> QED BY <2>2, <2>4
<1> QED BY <1>2, <1>3 DEF DimsInv

LEMMA EnsureVectorTablesDims ==
  ASSUME SchemaTypes, DimsInv, NEW i \in Instance, EnsureVectorTables(i)
  PROVE  DimsInv'
<1>1. /\ \A j \in Others(i) : instances'[j] = instances[j]
      /\ \/ instances[i].at = "first" /\ instances'[i].at = "record"
         \/ instances[i].at = "later" /\ instances'[i].at = "booted"
      /\ instances'[i].dims = instances[i].dims
      /\ instances'[i].pgvector = instances[i].pgvector
      /\ ahead' = ahead /\ instances[i].dims \in Nat /\ instances[i].pgvector \in BOOLEAN
  BY DEF EnsureVectorTables, Others, SchemaTypes, InstanceState, OpenAt, GoesTo, schemaHistory
<1>2. /\ database'.dims = database.dims
      /\ \A name \in {"vector", "blob"} : database'.tables[name] =
           IF name = TableOf(i) /\ database.tables[name] = 0
           THEN instances[i].dims ELSE database.tables[name]
  BY <1>1, WithTableType DEF EnsureVectorTables, SchemaTypes, TableOf
<1>3. DimsChosen' /\ instances[i].dims # 0
  BY <1>1 DEF DimsInv, DimsChosen, Others, Fitting
<1>4. ASSUME ~ahead PROVE FirstAgree' /\ LaterAgree' /\ HasTable'
  <2>1. FirstAgree /\ LaterAgree /\ HasTable
    BY <1>4 DEF DimsInv
  <2>2. \A j \in Instance : instances[j].at \in {"first", "record"} =>
          instances[i].dims = instances[j].dims
    BY <1>1, <1>3, <2>1 DEF FirstAgree, LaterAgree
  <2>3. FirstAgree'
    BY <1>1, <1>2, <2>1, <2>2 DEF FirstAgree, Others
  <2>4. LaterAgree'
    BY <1>1, <1>2, <2>1 DEF FirstAgree, LaterAgree, Others
  <2>5. TableOf(i)' = TableOf(i) /\ \A j \in Others(i) : TableOf(j)' = TableOf(j)
    BY <1>1 DEF TableOf
  <2>6. HasTable'
    <3>1. ASSUME NEW j \in Others(i), instances[j].at \in {"record", "booted"}
          PROVE  /\ database'.tables[TableOf(j)] # 0
                 /\ instances[j].pgvector => database'.tables["vector"] = instances[j].dims
      BY <1>2, <1>3, <2>1, <3>1 DEF HasTable, TableOf, Others
    <3>2. /\ database'.tables[TableOf(i)] # 0
          /\ instances[i].pgvector => database'.tables["vector"] = instances[i].dims
      BY <1>1, <1>2, <1>3, <2>1 DEF FirstAgree, LaterAgree, TableOf
    <3> QED BY <1>1, <2>5, <3>1, <3>2 DEF HasTable, Others
  <2> QED BY <2>3, <2>4, <2>6
<1> QED BY <1>1, <1>3, <1>4 DEF DimsInv

LEMMA SetEmbeddingDimensionsDims ==
  ASSUME SchemaTypes, DimsInv, NEW i \in Instance, SetEmbeddingDimensions(i)
  PROVE  DimsInv'
<1>1. /\ \A j \in Others(i) : instances'[j] = instances[j]
      /\ instances[i].at = "record" /\ instances'[i].at = "booted"
      /\ instances'[i].dims = instances[i].dims
      /\ instances'[i].pgvector = instances[i].pgvector /\ ahead' = ahead
      /\ database'.dims = instances[i].dims /\ database'.tables = database.tables
  BY DEF SetEmbeddingDimensions, Others, SchemaTypes, InstanceState, DatabaseState, OpenAt,
         GoesTo, schemaHistory
<1>2. DimsChosen' /\ instances[i].dims # 0
  BY <1>1 DEF DimsInv, DimsChosen, Others, Fitting
<1>3. ASSUME ~ahead PROVE FirstAgree' /\ LaterAgree' /\ HasTable'
  <2>1. FirstAgree /\ LaterAgree /\ HasTable
    BY <1>3 DEF DimsInv
  <2>2. \A j \in Instance : instances[j].at \in {"later", "booted"} =>
          instances[j].dims = instances[i].dims
    BY <1>1, <2>1 DEF FirstAgree, LaterAgree, DimsInv, DimsChosen, Fitting
  <2>3. FirstAgree'
    BY <1>1, <2>1 DEF FirstAgree, Others
  <2>4. LaterAgree'
    BY <1>1, <2>1, <2>2 DEF FirstAgree, LaterAgree, Others
  <2>5. HasTable'
    BY <1>1, <2>1 DEF HasTable, Others, TableOf
  <2> QED BY <2>3, <2>4, <2>5
<1> QED BY <1>1, <1>2, <1>3 DEF DimsInv

LEMMA DimsStep ==
  ASSUME PgSchemaAssumption, SchemaTypes, DimsInv, [SchemaNext]_schemaVars
  PROVE  DimsInv'
<1> USE DEF OpenAt, GoesTo, Upset, schemaCounts, schemaHistory, Asleep
<1>1. ASSUME NEW i \in Instance, OpenStarts(i)
      PROVE  DimsInv'
  <2>1. database'.dims = database.dims /\ database'.tables = database.tables /\ ahead' = ahead
    BY <1>1 DEF OpenStarts, SchemaTypes
  <2>2. \A j \in Instance : \/ instances'[j] = instances[j]
                           \/ /\ instances'[j].at \notin Fitting
                              /\ instances'[j].at = "chosen" => instances'[j].dims # 0
    BY <1>1 DEF OpenStarts, SchemaTypes, InstanceState, Fitting
  <2> QED BY <2>1, <2>2, DimsQuiet
<1>2. ASSUME NEW i \in Instance, ReadVersion(i)
      PROVE  DimsInv'
  <2>1. database'.dims = database.dims /\ database'.tables = database.tables /\ ahead' = ahead
    BY <1>2 DEF ReadVersion, SchemaTypes
  <2>2. \A j \in Instance : \/ instances'[j] = instances[j]
                           \/ /\ instances'[j].at \notin Fitting
                              /\ instances'[j].at = "chosen" => instances'[j].dims # 0
    BY <1>2 DEF ReadVersion, SchemaTypes, InstanceState, Fitting
  <2> QED BY <2>1, <2>2, DimsQuiet
<1>3. ASSUME NEW i \in Instance, CreateTables(i)
      PROVE  DimsInv'
  <2>1. database'.dims = database.dims /\ database'.tables = database.tables /\ ahead' = ahead
    BY <1>3 DEF CreateTables, SchemaTypes
  <2>2. \A j \in Instance : \/ instances'[j] = instances[j]
                           \/ /\ instances'[j].at \notin Fitting
                              /\ instances'[j].at = "chosen" => instances'[j].dims # 0
    BY <1>3 DEF CreateTables, SchemaTypes, InstanceState, Fitting
  <2> QED BY <2>1, <2>2, DimsQuiet
<1>4. ASSUME NEW i \in Instance, CreateTablesFails(i)
      PROVE  DimsInv'
  <2>1. database'.dims = database.dims /\ database'.tables = database.tables /\ ahead' = ahead
    BY <1>4 DEF CreateTablesFails, SchemaTypes
  <2>2. \A j \in Instance : \/ instances'[j] = instances[j]
                           \/ /\ instances'[j].at \notin Fitting
                              /\ instances'[j].at = "chosen" => instances'[j].dims # 0
    BY <1>4 DEF CreateTablesFails, SchemaTypes, InstanceState, Fitting
  <2> QED BY <2>1, <2>2, DimsQuiet
<1>20. ASSUME NEW i \in Instance, ReadVersionFails(i)
      PROVE  DimsInv'
  <2>1. database'.dims = database.dims /\ database'.tables = database.tables /\ ahead' = ahead
    BY <1>20 DEF ReadVersionFails, SchemaTypes, DatabaseState
  <2>2. \A j \in Instance : \/ instances'[j] = instances[j]
                           \/ /\ instances'[j].at \notin Fitting
                              /\ instances'[j].at = "chosen" => instances'[j].dims # 0
    BY <1>20 DEF ReadVersionFails, SchemaTypes, InstanceState, Fitting
  <2> QED BY <2>1, <2>2, DimsQuiet
<1>5. ASSUME NEW i \in Instance, ListUnhashed(i)
      PROVE  DimsInv'
  <2>1. database'.dims = database.dims /\ database'.tables = database.tables /\ ahead' = ahead
    BY <1>5 DEF ListUnhashed, BackfillStarts, SchemaTypes, DatabaseState
  <2>2. \A j \in Instance : \/ instances'[j] = instances[j]
                           \/ /\ instances'[j].at \notin Fitting
                              /\ instances'[j].at = "chosen" => instances'[j].dims # 0
    BY <1>5 DEF ListUnhashed, BackfillStarts, SchemaTypes, InstanceState, Fitting
  <2> QED BY <2>1, <2>2, DimsQuiet
<1>21. ASSUME NEW i \in Instance, RereadVersionFails(i)
      PROVE  DimsInv'
  <2>1. database'.dims = database.dims /\ database'.tables = database.tables /\ ahead' = ahead
    BY <1>21 DEF RereadVersionFails, BackfillStarts, SchemaTypes, DatabaseState
  <2>2. \A j \in Instance : \/ instances'[j] = instances[j]
                           \/ /\ instances'[j].at \notin Fitting
                              /\ instances'[j].at = "chosen" => instances'[j].dims # 0
    BY <1>21 DEF RereadVersionFails, BackfillStarts, SchemaTypes, InstanceState, Fitting
  <2> QED BY <2>1, <2>2, DimsQuiet
<1>22. ASSUME NEW i \in Instance, ListUnhashedFails(i)
      PROVE  DimsInv'
  <2>1. database'.dims = database.dims /\ database'.tables = database.tables /\ ahead' = ahead
    BY <1>22 DEF ListUnhashedFails, BackfillStarts, SchemaTypes, DatabaseState
  <2>2. \A j \in Instance : \/ instances'[j] = instances[j]
                           \/ /\ instances'[j].at \notin Fitting
                              /\ instances'[j].at = "chosen" => instances'[j].dims # 0
    BY <1>22 DEF ListUnhashedFails, BackfillStarts, SchemaTypes, InstanceState, Fitting
  <2> QED BY <2>1, <2>2, DimsQuiet
<1>6. ASSUME NEW i \in Instance, BackfillHash(i)
      PROVE  DimsInv'
  <2>1. database'.dims = database.dims /\ database'.tables = database.tables /\ ahead' = ahead
    BY <1>6 DEF BackfillHash, Visits, SchemaTypes, DatabaseState
  <2>2. \A j \in Instance : \/ instances'[j] = instances[j]
                           \/ /\ instances'[j].at \notin Fitting
                              /\ instances'[j].at = "chosen" => instances'[j].dims # 0
    BY <1>6 DEF BackfillHash, Visits, SchemaTypes, InstanceState, Fitting
  <2> QED BY <2>1, <2>2, DimsQuiet
<1>23. ASSUME NEW i \in Instance, BackfillHashFails(i)
      PROVE  DimsInv'
  <2>1. database'.dims = database.dims /\ database'.tables = database.tables /\ ahead' = ahead
    BY <1>23 DEF BackfillHashFails, Visits, SchemaTypes, DatabaseState
  <2>2. \A j \in Instance : \/ instances'[j] = instances[j]
                           \/ /\ instances'[j].at \notin Fitting
                              /\ instances'[j].at = "chosen" => instances'[j].dims # 0
    BY <1>23 DEF BackfillHashFails, Visits, SchemaTypes, InstanceState, Fitting
  <2> QED BY <2>1, <2>2, DimsQuiet
<1>7. ASSUME NEW i \in Instance, SetSchemaVersion(i)
      PROVE  DimsInv'
  <2>1. database'.dims = database.dims /\ database'.tables = database.tables /\ ahead' = ahead
    BY <1>7 DEF SetSchemaVersion, BackfillEnds, SchemaTypes, DatabaseState
  <2>2. \A j \in Instance : \/ instances'[j] = instances[j]
                           \/ /\ instances'[j].at \notin Fitting
                              /\ instances'[j].at = "chosen" => instances'[j].dims # 0
    BY <1>7 DEF SetSchemaVersion, BackfillEnds, SchemaTypes, InstanceState, Fitting
  <2> QED BY <2>1, <2>2, DimsQuiet
<1>24. ASSUME NEW i \in Instance, SetSchemaVersionFails(i)
      PROVE  DimsInv'
  <2>1. database'.dims = database.dims /\ database'.tables = database.tables /\ ahead' = ahead
    BY <1>24 DEF SetSchemaVersionFails, BackfillEnds, SchemaTypes, DatabaseState
  <2>2. \A j \in Instance : \/ instances'[j] = instances[j]
                           \/ /\ instances'[j].at \notin Fitting
                              /\ instances'[j].at = "chosen" => instances'[j].dims # 0
    BY <1>24 DEF SetSchemaVersionFails, BackfillEnds, SchemaTypes, InstanceState, Fitting
  <2> QED BY <2>1, <2>2, DimsQuiet
<1>8. ASSUME NEW i \in Instance, EnablePgvector(i)
      PROVE  DimsInv'
  <2>1. database'.dims = database.dims /\ database'.tables = database.tables /\ ahead' = ahead
    BY <1>8 DEF EnablePgvector, SchemaTypes
  <2>2. \A j \in Instance : \/ instances'[j] = instances[j]
                           \/ /\ instances'[j].at \notin Fitting
                              /\ instances'[j].at = "chosen" => instances'[j].dims # 0
    BY <1>8 DEF EnablePgvector, SchemaTypes, InstanceState, Fitting
  <2> QED BY <2>1, <2>2, DimsQuiet
<1>9. ASSUME NEW i \in Instance, OpenEnds(i)
      PROVE  DimsInv'
  BY <1>9, OpenEndsDims
<1>10. ASSUME NEW i \in Instance, ChooseDimensions(i)
      PROVE  DimsInv'
  <2>1. database'.dims = database.dims /\ database'.tables = database.tables /\ ahead' = ahead
    BY <1>10 DEF ChooseDimensions, SchemaTypes
  <2>2. \A j \in Instance : \/ instances'[j] = instances[j]
                           \/ /\ instances'[j].at \notin Fitting
                              /\ instances'[j].at = "chosen" => instances'[j].dims # 0
    BY <1>10 DEF ChooseDimensions, SchemaTypes, InstanceState, Fitting, PgSchemaAssumption
  <2> QED BY <2>1, <2>2, DimsQuiet
<1>11. ASSUME NEW i \in Instance, EnsureVectorSchema(i)
      PROVE  DimsInv'
  BY <1>11, EnsureVectorSchemaDims
<1>12. ASSUME NEW i \in Instance, DimensionsMismatch(i)
      PROVE  DimsInv'
  <2>1. database'.dims = database.dims /\ database'.tables = database.tables /\ ahead' = ahead
    BY <1>12 DEF DimensionsMismatch, SchemaTypes
  <2>2. \A j \in Instance : \/ instances'[j] = instances[j]
                           \/ /\ instances'[j].at \notin Fitting
                              /\ instances'[j].at = "chosen" => instances'[j].dims # 0
    BY <1>12 DEF DimensionsMismatch, SchemaTypes, InstanceState, Fitting
  <2> QED BY <2>1, <2>2, DimsQuiet
<1>13. ASSUME NEW i \in Instance, EnsureVectorTables(i)
      PROVE  DimsInv'
  BY <1>13, EnsureVectorTablesDims
<1>14. ASSUME NEW i \in Instance, SetEmbeddingDimensions(i)
      PROVE  DimsInv'
  BY <1>14, SetEmbeddingDimensionsDims
<1>15. ASSUME NEW i \in Instance, ClosePool(i)
      PROVE  DimsInv'
  <2>1. database'.dims = database.dims /\ database'.tables = database.tables /\ ahead' = ahead
    BY <1>15 DEF ClosePool, SchemaTypes
  <2>2. \A j \in Instance : \/ instances'[j] = instances[j]
                           \/ /\ instances'[j].at \notin Fitting
                              /\ instances'[j].at = "chosen" => instances'[j].dims # 0
    BY <1>15 DEF ClosePool, SchemaTypes, InstanceState, Fitting
  <2> QED BY <2>1, <2>2, DimsQuiet
<1>16. ASSUME NEW i \in Instance, PgRemember(i)
      PROVE  DimsInv'
  <2>1. database'.dims = database.dims /\ database'.tables = database.tables /\ ahead' = ahead
    BY <1>16 DEF PgRemember, SchemaTypes
  <2>2. \A j \in Instance : \/ instances'[j] = instances[j]
                           \/ /\ instances'[j].at \notin Fitting
                              /\ instances'[j].at = "chosen" => instances'[j].dims # 0
    BY <1>16 DEF PgRemember, SchemaTypes, InstanceState, Fitting
  <2> QED BY <2>1, <2>2, DimsQuiet
<1>17. ASSUME NEW i \in Instance, NEW m \in DOMAIN pgMemories, PgUpdateText(i, m)
       PROVE  DimsInv'
  BY <1>17, DimsQuiet DEF PgUpdateText
<1>18. ASSUME NEW i \in Instance, CrashProcess(ProcessOf[i])
       PROVE  DimsInv'
  <2>1. \A j \in Instance : instances'[j] = instances[j] \/ instances'[j].at = "closed"
    BY <1>18 DEF CrashProcess
  <2> QED BY <1>18, <2>1, DimsQuiet DEF CrashProcess, Fitting
<1>19. CASE UNCHANGED schemaVars
  BY <1>19, DimsQuiet DEF schemaVars
<1> QED BY <1>1, <1>2, <1>3, <1>4, <1>5, <1>6, <1>7, <1>8, <1>9, <1>10,
           <1>11, <1>12, <1>13, <1>14, <1>15, <1>16, <1>17, <1>18, <1>19,
           <1>20, <1>21, <1>22, <1>23, <1>24
           DEF SchemaNext

--------------------------------------------------------------------------------
(* The hashes: most steps touch neither memories nor lists. *)

\* What instance j knows of the texts stays, or is given up.
ListKept(j) ==
  /\ \/ /\ instances'[j].list = instances[j].list /\ instances'[j].seen = instances[j].seen
        /\ instances'[j].at = "hash" <=> instances[j].at = "hash"
     \/ instances'[j].list = {} /\ instances'[j].at # "hash"
  /\ instances'[j].at \notin Migrating => upgraded

LEMMA HashQuiet ==
  ASSUME HashInv, pgMemories' = pgMemories, overtaken' = overtaken, replaced' = replaced,
         lost' = lost, upgraded' = upgraded, database'.version = database.version,
         \A j \in Instance : ListKept(j)
  PROVE  HashInv'
<1> USE DEF Forgiven
<1>1. VersionInv'
  BY DEF HashInv, VersionInv, ListKept
<1>2. HashOfText' /\ HashOnce' /\ HashWithNewest'
  BY DEF HashInv, HashOfText, HashOnce, HashWithNewest, ListKept
<1>3. ListsTellTexts'
  BY DEF HashInv, ListsTellTexts, ListKept
<1>4. SeenIsHashed'
  BY DEF HashInv, SeenIsHashed, ListKept
<1>5. TextsAreHashed'
  BY DEF HashInv, TextsAreHashed, Hashed, ListKept
<1>6. OvertakenApart'
  BY DEF HashInv, OvertakenApart, ListKept
<1> QED BY <1>1, <1>2, <1>3, <1>4, <1>5, <1>6 DEF HashInv

\* Texts are never taken for the absence of a hash.
LEMMA TextIsNoAbsence ==
  ASSUME PgSchemaAssumption
  PROVE  Unhashed \notin SomeText
BY DEF PgSchemaAssumption, SomeText, Unhashed

LEMMA MemoryTypes ==
  ASSUME SchemaTypes
  PROVE  /\ DOMAIN pgMemories = 1 .. Len(pgMemories) /\ Len(pgMemories) \in Nat
         /\ \A m \in DOMAIN pgMemories : /\ pgMemories[m] \in MemoryState
                                         /\ pgMemories[m].text \in SomeText
                                         /\ pgMemories[m].hash \in SomeText \cup {Unhashed}
<1>1. DOMAIN pgMemories = 1 .. Len(pgMemories) /\ Len(pgMemories) \in Nat
  BY DEF SchemaTypes
<1>2. \A m \in DOMAIN pgMemories : pgMemories[m] \in MemoryState
  BY <1>1, ElementOfSeq DEF SchemaTypes
<1> QED BY <1>1, <1>2 DEF MemoryState

LEMMA BackfillEndsHashes ==
  ASSUME SchemaTypes, HashInv, NEW i \in Instance, BackfillEnds(i),
         database'.version \in {database.version, CurrentVersion}
  PROVE  HashInv'
<1> USE DEF Forgiven
<1>1. /\ instances[i].at = "hash" /\ instances[i].list = {}
      /\ instances'[i].at = "pgvector" /\ instances'[i].list = {}
      /\ \A j \in Others(i) : instances'[j] = instances[j]
      /\ pgMemories' = pgMemories /\ overtaken' = overtaken /\ replaced' = replaced
      /\ lost' = lost /\ upgraded' = TRUE
  BY DEF BackfillEnds, OpenAt, GoesTo, SchemaTypes, InstanceState, Others
<1>2. VersionInv'
  BY <1>1 DEF HashInv, VersionInv, Others
<1>3. HashOfText' /\ HashOnce' /\ HashWithNewest'
  BY <1>1 DEF HashInv, HashOfText, HashOnce, HashWithNewest
<1>4. ListsTellTexts'
  BY <1>1 DEF HashInv, ListsTellTexts, Others
<1>5. SeenIsHashed'
  BY <1>1 DEF HashInv, SeenIsHashed, Others
<1>6. TextsAreHashed'
  BY <1>1 DEF HashInv, TextsAreHashed, Hashed
<1>7. OvertakenApart'
  BY <1>1 DEF HashInv, OvertakenApart, Others
<1> QED BY <1>2, <1>3, <1>4, <1>5, <1>6, <1>7 DEF HashInv

\* A backfill begins: it lists what has no hash, or what it does not list is lost,
\* or every text is hashed already.
LEMMA BackfillStartsHashes ==
  ASSUME PgSchemaAssumption, SchemaTypes, HashInv, NEW i \in Instance,
         NEW list \in {UnhashedMemories, {}}, BackfillStarts(i, list),
         overtaken' = overtaken, replaced' = replaced, upgraded' = upgraded,
         lost \subseteq lost',
         upgraded \/ list = UnhashedMemories \/ \A e \in UnhashedMemories : e.text \in lost'
  PROVE  HashInv'
<1> USE DEF Forgiven
<1>1. /\ instances'[i].at = "hash" /\ instances'[i].seen = {} /\ instances'[i].list = list
      /\ \A j \in Others(i) : instances'[j] = instances[j]
      /\ database' = database /\ pgMemories' = pgMemories
      /\ list \subseteq UnhashedMemories
  BY DEF BackfillStarts, SchemaTypes, InstanceState, Others
<1>4. VersionInv'
  BY <1>1 DEF HashInv, VersionInv, Others, Migrating
<1>5. HashOfText' /\ HashOnce' /\ HashWithNewest'
  BY <1>1 DEF HashInv, HashOfText, HashOnce, HashWithNewest
<1>6. ListsTellTexts'
  BY <1>1 DEF HashInv, ListsTellTexts, Others, UnhashedMemories
<1>7. SeenIsHashed'
  BY <1>1 DEF HashInv, SeenIsHashed, Others
<1>8. TextsAreHashed'
  <2>1. SUFFICES ASSUME NEW m \in DOMAIN pgMemories \ overtaken,
                        pgMemories[m].text \notin replaced \cup lost',
                        ~Hashed(pgMemories[m].text)
                 PROVE  /\ ~upgraded
                        /\ \A j \in Instance : instances'[j].at = "hash" =>
                             \E e \in instances'[j].list : e.memory = m
    BY <1>1 DEF TextsAreHashed, Hashed
  <2>2. /\ ~upgraded
        /\ \A j \in Instance : instances[j].at = "hash" =>
             \E e \in instances[j].list : e.memory = m
    BY <2>1 DEF HashInv, TextsAreHashed
  <2>3. pgMemories[m].hash = Unhashed
    BY <2>1 DEF HashInv, HashOfText, Hashed
  <2>4. \E e \in instances'[i].list : e.memory = m
    <3>1. [memory |-> m, text |-> pgMemories[m].text] \in UnhashedMemories
      BY <2>3 DEF UnhashedMemories
    <3> QED BY <1>1, <2>1, <2>2, <3>1
  <2> QED BY <1>1, <2>2, <2>4 DEF Others
<1>9. OvertakenApart'
  <2>1. SUFFICES ASSUME NEW m \in overtaken, NEW n \in DOMAIN pgMemories \ overtaken,
                        pgMemories[n].text = pgMemories[m].text,
                        pgMemories[n].text \notin replaced \cup lost'
                 PROVE  /\ pgMemories[n].hash = pgMemories[n].text
                        /\ \A j \in Instance : \A e \in instances'[j].list : e.memory # n
    BY <1>1 DEF OvertakenApart
  <2>2. /\ pgMemories[n].hash = pgMemories[n].text
        /\ \A j \in Instance : \A e \in instances[j].list : e.memory # n
    BY <2>1 DEF HashInv, OvertakenApart
  <2>3. pgMemories[n].hash # Unhashed
    BY <2>1, <2>2, MemoryTypes, TextIsNoAbsence
  <2> QED BY <1>1, <2>2, <2>3 DEF UnhashedMemories, Others
<1> QED BY <1>4, <1>5, <1>6, <1>7, <1>8, <1>9 DEF HashInv

LEMMA ListUnhashedHashes ==
  ASSUME PgSchemaAssumption, SchemaTypes, HashInv, NEW i \in Instance,
         ListUnhashed(i) \/ RereadVersionFails(i) \/ ListUnhashedFails(i)
  PROVE  HashInv'
<1> USE DEF schemaHistory
<1>1. CASE ListUnhashed(i)
  <2>1. ~NeedsHashBackfill => upgraded
    BY DEF SchemaTypes, DatabaseState, HashInv, VersionInv, CurrentVersion, NeedsHashBackfill
  <2> QED BY <1>1, <2>1, BackfillStartsHashes DEF ListUnhashed
<1>2. CASE RereadVersionFails(i)
  BY <1>2, BackfillStartsHashes DEF RereadVersionFails
<1>3. CASE ListUnhashedFails(i)
  <2>1. \A e \in UnhashedMemories : e.text \in lost'
    BY <1>3 DEF ListUnhashedFails
  <2> QED BY <1>3, <2>1, BackfillStartsHashes DEF ListUnhashedFails
<1> QED BY <1>1, <1>2, <1>3

LEMMA PgRememberHashes ==
  ASSUME PgSchemaAssumption, SchemaTypes, HashInv, NEW i \in Instance, PgRemember(i)
  PROVE  HashInv'
<1> USE DEF Forgiven
<1>1. PICK t \in NewText : /\ \A n \in DOMAIN pgMemories : pgMemories[n].hash # t
                           /\ pgMemories' = Append(pgMemories, [text |-> t, hash |-> t])
  BY DEF PgRemember
<1> DEFINE new == Len(pgMemories) + 1
<1>2. /\ DOMAIN pgMemories = 1 .. Len(pgMemories) /\ Len(pgMemories) \in Nat
      /\ DOMAIN pgMemories' = 1 .. new /\ new \notin DOMAIN pgMemories
      /\ \A m \in DOMAIN pgMemories : pgMemories'[m] = pgMemories[m]
      /\ pgMemories'[new].text = t /\ pgMemories'[new].hash = t
  <2>1. [text |-> t, hash |-> t] \in MemoryState
    BY DEF MemoryState, SomeText
  <2>2. DOMAIN pgMemories = 1 .. Len(pgMemories) /\ Len(pgMemories) \in Nat
    BY MemoryTypes
  <2>3. /\ Append(pgMemories, [text |-> t, hash |-> t]) \in Seq(MemoryState)
        /\ Len(pgMemories') = Len(pgMemories) + 1
        /\ \A m \in 1 .. Len(pgMemories) : pgMemories'[m] = pgMemories[m]
        /\ pgMemories'[Len(pgMemories) + 1] = [text |-> t, hash |-> t]
    BY <1>1, <2>1, AppendProperties DEF SchemaTypes
  <2>4. DOMAIN pgMemories' = 1 .. Len(pgMemories')
    BY <1>1, <2>3
  <2> QED BY <2>2, <2>3, <2>4
<1>3. /\ instances' = instances /\ database' = database /\ overtaken' = overtaken
      /\ replaced' = replaced /\ lost' = lost /\ upgraded' = upgraded
      /\ overtaken \subseteq DOMAIN pgMemories /\ upgraded
  BY DEF PgRemember, schemaHistory, SchemaTypes, CanEmbed, OpenAt, HashInv, VersionInv, Migrating
<1> HIDE DEF new
<1>4. VersionInv'
  BY <1>3 DEF HashInv, VersionInv
<1>5. \A m \in DOMAIN pgMemories' : m = new \/ m \in DOMAIN pgMemories
  BY <1>2 DEF new
<1>6. new > Len(pgMemories) /\ new \in Nat /\ new \in DOMAIN pgMemories'
  BY <1>2 DEF new
<1>7. HashOfText'
  BY <1>2, <1>3, <1>5 DEF HashInv, HashOfText
<1>8. HashOnce'
  BY <1>1, <1>2, <1>5 DEF HashInv, HashOnce
<1>9. ListsTellTexts'
  BY <1>2, <1>3, <1>5, <1>6 DEF HashInv, ListsTellTexts, new
<1>10. SeenIsHashed'
  BY <1>2, <1>3, <1>6 DEF HashInv, SeenIsHashed, new
<1>11. TextsAreHashed'
  <2>1. \A x : Hashed(x) => Hashed(x)'
    BY <1>2 DEF Hashed, new
  <2>2. Hashed(t)'
    BY <1>2, <1>6 DEF Hashed
  <2> QED BY <1>2, <1>3, <1>5, <2>1, <2>2 DEF HashInv, TextsAreHashed
<1>12. HashWithNewest'
  BY <1>1, <1>2, <1>3, <1>5, <1>6 DEF HashInv, HashWithNewest
<1>13. OvertakenApart'
  BY <1>1, <1>2, <1>3, <1>5, <1>6 DEF HashInv, OvertakenApart, ListsTellTexts
<1> QED BY <1>4, <1>7, <1>8, <1>9, <1>10, <1>11, <1>12, <1>13 DEF HashInv

LEMMA PgUpdateTextHashes ==
  ASSUME PgSchemaAssumption, SchemaTypes, HashInv, NEW i \in Instance,
         NEW m \in DOMAIN pgMemories, PgUpdateText(i, m)
  PROVE  HashInv'
<1> USE DEF Forgiven
<1>1. PICK t \in NewText : /\ ~HashTaken(m, t)
                           /\ pgMemories' = [pgMemories EXCEPT ![m] = [text |-> t, hash |-> t]]
  BY DEF PgUpdateText
<1>2. /\ DOMAIN pgMemories' = DOMAIN pgMemories /\ DOMAIN pgMemories \subseteq Nat
      /\ \A n \in DOMAIN pgMemories \ {m} : pgMemories'[n] = pgMemories[n]
      /\ pgMemories'[m].text = t /\ pgMemories'[m].hash = t
      /\ \A n \in DOMAIN pgMemories \ {m} : pgMemories[n].hash # t
  BY <1>1, MemoryTypes DEF HashTaken
<1>3. /\ instances' = instances /\ database' = database
      /\ replaced' = replaced \cup {pgMemories[m].text}
      /\ overtaken' \in {overtaken, overtaken \cup {m}}
      /\ (\E j \in Instance : \E e \in instances[j].list : e.memory = m) => m \in overtaken'
      /\ overtaken \subseteq DOMAIN pgMemories /\ upgraded
      /\ lost' = lost /\ upgraded' = upgraded
  BY DEF PgUpdateText, SchemaTypes, CanEmbed, OpenAt, HashInv, VersionInv, Migrating
<1>4. Unhashed \notin SomeText /\ \A n \in DOMAIN pgMemories : pgMemories[n].text \in SomeText
  BY TextIsNoAbsence, MemoryTypes
<1>5. \A j \in Instance : \A e \in instances[j].list : e.text \in SomeText
  BY DEF SchemaTypes, InstanceState, Listed
<1>6. pgMemories[m].hash \in {Unhashed} \cup replaced'
  BY <1>3 DEF HashInv, HashOfText
<1>7. VersionInv'
  BY <1>3 DEF HashInv, VersionInv
<1>8. HashOfText'
  BY <1>2, <1>3 DEF HashInv, HashOfText
<1>9. HashOnce'
  BY <1>2 DEF HashInv, HashOnce
<1>10. ListsTellTexts'
  BY <1>2, <1>3 DEF HashInv, ListsTellTexts
<1>11. SeenIsHashed'
  <2>1. SUFFICES ASSUME NEW j \in Instance, NEW e \in instances[j].list,
                        e.memory \notin overtaken', e.text \in instances[j].seen \ Forgiven'
                 PROVE  \E n \in DOMAIN pgMemories : n > e.memory /\ pgMemories'[n].hash = e.text
    BY <1>2, <1>3 DEF SeenIsHashed
  <2>2. PICK n \in DOMAIN pgMemories : n > e.memory /\ pgMemories[n].hash = e.text
    BY <1>3, <2>1 DEF HashInv, SeenIsHashed
  <2>3. n # m
    BY <1>4, <1>5, <1>6, <2>1, <2>2
  <2> QED BY <1>2, <2>2, <2>3
<1>12. TextsAreHashed'
  <2>1. SUFFICES ASSUME NEW k \in DOMAIN pgMemories \ overtaken', pgMemories'[k].text \notin Forgiven'
                 PROVE  \E n \in DOMAIN pgMemories : pgMemories'[n].hash = pgMemories'[k].text
    BY <1>2 DEF TextsAreHashed, Hashed
  <2>2. CASE k = m
    BY <1>2, <2>2
  <2>3. CASE k # m
    <3>1. k \notin overtaken /\ pgMemories'[k].text = pgMemories[k].text
          /\ pgMemories[k].text \notin Forgiven
      BY <1>2, <1>3, <2>1, <2>3
    <3>2. PICK n \in DOMAIN pgMemories : pgMemories[n].hash = pgMemories[k].text
      BY <1>3, <3>1 DEF HashInv, TextsAreHashed, Hashed
    <3>3. n # m
      BY <1>4, <1>6, <2>1, <3>1, <3>2
    <3> QED BY <1>2, <3>1, <3>2, <3>3
  <2> QED BY <2>2, <2>3
<1>13. HashWithNewest'
  <2>1. SUFFICES ASSUME NEW q \in DOMAIN pgMemories, NEW n \in DOMAIN pgMemories \ overtaken',
                        pgMemories'[q].hash \notin {Unhashed} \cup Forgiven',
                        n > q \/ (n # q /\ q \in overtaken'),
                        pgMemories'[n].text = pgMemories'[q].hash
                 PROVE  FALSE
    BY <1>2 DEF HashWithNewest
  <2>2. n # q
    BY <1>2, <2>1
  <2>3. CASE q # m /\ n # m
    BY <1>2, <1>3, <2>1, <2>3 DEF HashInv, HashWithNewest
  <2>4. CASE n = m
    BY <1>2, <2>1, <2>2, <2>4
  <2>5. CASE q = m
    <3>1. n # m /\ n \notin overtaken /\ pgMemories[n].text = t /\ t \notin Forgiven
      BY <1>2, <1>3, <2>1, <2>2, <2>5
    <3>2. PICK p \in DOMAIN pgMemories : pgMemories[p].hash = t
      BY <1>3, <3>1 DEF HashInv, TextsAreHashed, Hashed
    <3>3. p = m
      BY <1>2, <3>2
    <3> QED BY <1>2, <1>6, <2>1, <2>5, <3>2, <3>3
  <2> QED BY <2>3, <2>4, <2>5
<1>14. OvertakenApart'
  <2>1. SUFFICES ASSUME NEW k \in overtaken', NEW n \in DOMAIN pgMemories \ overtaken',
                        pgMemories'[n].text = pgMemories'[k].text,
                        pgMemories'[n].text \notin Forgiven'
                 PROVE  /\ pgMemories'[n].hash = pgMemories'[n].text
                        /\ \A j \in Instance : \A e \in instances[j].list : e.memory # n
    BY <1>2, <1>3 DEF OvertakenApart
  <2>2. CASE n = m
    BY <1>2, <1>3, <2>1, <2>2
  <2>3. CASE n # m /\ k # m
    BY <1>2, <1>3, <2>1, <2>3 DEF HashInv, OvertakenApart
  <2>4. CASE n # m /\ k = m
    <3>1. n \notin overtaken /\ pgMemories[n].text = t /\ t \notin Forgiven
      BY <1>2, <1>3, <2>1, <2>4
    <3>2. PICK p \in DOMAIN pgMemories : pgMemories[p].hash = t
      BY <1>3, <3>1 DEF HashInv, TextsAreHashed, Hashed
    <3>3. p = m
      BY <1>2, <3>2
    <3> QED BY <1>2, <1>3, <1>4, <1>6, <2>1, <2>4, <3>2, <3>3
  <2> QED BY <2>2, <2>3, <2>4
<1> QED BY <1>7, <1>8, <1>9, <1>10, <1>11, <1>12, <1>13, <1>14 DEF HashInv

LEMMA BackfillHashHashes ==
  ASSUME PgSchemaAssumption, SchemaTypes, HashInv, NEW i \in Instance,
         BackfillHash(i) \/ BackfillHashFails(i)
  PROVE  HashInv'
<1> USE DEF Forgiven
<1> DEFINE e == NextUnhashed(instances[i].list)
           p == e.memory
           t == e.text
           seen == instances[i].seen
<1>1. /\ e \in instances[i].list /\ \A d \in instances[i].list : d.memory <= p
      /\ instances[i].list \subseteq Listed /\ instances[i].at = "hash"
  BY NextUnhashedDef DEF BackfillHash, BackfillHashFails, Visits, HashInv, SchemaTypes, InstanceState, OpenAt
<1>2. /\ DOMAIN pgMemories \subseteq Nat /\ p \in DOMAIN pgMemories
      /\ \A m \in DOMAIN pgMemories : pgMemories[m] \in MemoryState
      /\ \A m \in DOMAIN pgMemories : pgMemories[m].text \in SomeText
      /\ Unhashed \notin SomeText /\ t \in SomeText
  BY <1>1, MemoryTypes, TextIsNoAbsence DEF HashInv, ListsTellTexts, Listed
<1>3. t = pgMemories[p].text \/ (p \in overtaken /\ t \in replaced)
  BY <1>1 DEF HashInv, ListsTellTexts
<1>4. /\ database' = database /\ overtaken' = overtaken /\ replaced' = replaced
      /\ upgraded' = upgraded /\ lost \subseteq lost'
      /\ \/ pgMemories' = [pgMemories EXCEPT ![p].hash =
              IF t \in seen THEN Unhashed ELSE IF HashTaken(p, t) THEN @ ELSE t]
         \/ pgMemories' = pgMemories /\ (t \in seen \/ t \in lost')
      /\ instances' = [instances EXCEPT ![i].list = @ \ {e}, ![i].seen = @ \cup {t}]
  BY DEF BackfillHash, BackfillHashFails, Visits, schemaHistory
<1> HIDE DEF e
<1>5. /\ \A j \in Instance \ {i} : instances'[j] = instances[j]
      /\ \A j \in Instance : instances'[j].at = instances[j].at
      /\ instances'[i].list = instances[i].list \ {e}
      /\ instances'[i].seen = seen \cup {t}
  BY <1>4 DEF SchemaTypes, InstanceState
<1>6. /\ DOMAIN pgMemories' = DOMAIN pgMemories
      /\ \A m \in DOMAIN pgMemories : pgMemories'[m].text = pgMemories[m].text
      /\ \A m \in DOMAIN pgMemories \ {p} : pgMemories'[m].hash = pgMemories[m].hash
      /\ t \in seen => pgMemories'[p].hash \in {Unhashed, pgMemories[p].hash}
      /\ t \notin seen /\ HashTaken(p, t) => pgMemories'[p].hash = pgMemories[p].hash
      /\ t \notin seen /\ ~HashTaken(p, t) =>
           \/ pgMemories'[p].hash = t
           \/ t \in lost' /\ pgMemories'[p].hash = pgMemories[p].hash
  <2>1. CASE pgMemories' = [pgMemories EXCEPT ![p].hash =
               IF t \in seen THEN Unhashed ELSE IF HashTaken(p, t) THEN @ ELSE t]
    BY <1>2, <2>1 DEF MemoryState
  <2>2. CASE pgMemories' = pgMemories /\ (t \in seen \/ t \in lost')
    BY <1>2, <2>2
  <2> QED BY <1>4, <2>1, <2>2
<1> HIDE DEF p, t, seen
\* What finds a memory by its text is not taken away.
<1>7. ASSUME NEW q \in DOMAIN pgMemories, NEW n \in DOMAIN pgMemories \ overtaken,
             pgMemories[q].hash \notin {Unhashed} \cup replaced \cup lost',
             pgMemories[n].text = pgMemories[q].hash
      PROVE  pgMemories'[q].hash = pgMemories[q].hash
  <2>1. CASE q # p
    BY <1>6, <2>1
  <2>2. CASE q = p
    <3>1. p \notin overtaken
      BY <1>4, <1>7, <2>2 DEF HashInv, HashWithNewest
    <3>2. t = pgMemories[p].hash
      BY <1>3, <1>7, <2>2, <3>1 DEF HashInv, HashOfText
    <3>3. t \notin seen
      <4>1. SUFFICES ASSUME t \in seen PROVE FALSE
        OBVIOUS
      <4>2. PICK r \in DOMAIN pgMemories : r > p /\ pgMemories[r].hash = t
        BY <1>1, <1>4, <1>7, <2>2, <3>1, <3>2, <4>1 DEF HashInv, SeenIsHashed, p, t, seen
      <4> QED BY <1>2, <1>7, <2>2, <3>2, <4>2 DEF HashInv, HashOnce
    <3> QED BY <1>6, <2>2, <3>2, <3>3
  <2> QED BY <2>1, <2>2
<1>8. VersionInv'
  <2>1. \A j \in Instance : instances'[j].list \subseteq instances[j].list
    BY <1>5
  <2> QED BY <1>4, <1>5, <2>1 DEF HashInv, VersionInv
<1>9. HashOfText'
  BY <1>2, <1>3, <1>4, <1>6 DEF HashInv, HashOfText
<1>10. HashOnce'
  <2>1. HashOnce
    BY DEF HashInv
  <2>2. t \notin seen /\ ~HashTaken(p, t) => \A n \in DOMAIN pgMemories \ {p} : pgMemories[n].hash # t
    BY DEF HashTaken
  <2> QED BY <1>6, <2>1, <2>2 DEF HashOnce
<1>11. ListsTellTexts'
  <2>1. \A j \in Instance : instances'[j].list \subseteq instances[j].list
    BY <1>5
  <2> QED BY <1>4, <1>6, <2>1 DEF HashInv, ListsTellTexts
<1>12. ASSUME NEW j \in Instance, NEW d \in instances[j].list, d.memory \notin overtaken,
              d.text \in instances[j].seen \ (replaced \cup lost')
       PROVE  \E n \in DOMAIN pgMemories : n > d.memory /\ pgMemories'[n].hash = d.text
  <2>1. PICK n \in DOMAIN pgMemories : n > d.memory /\ pgMemories[n].hash = d.text
    BY <1>4, <1>12 DEF HashInv, SeenIsHashed
  <2>2. /\ d.memory \in DOMAIN pgMemories \ overtaken
        /\ pgMemories[d.memory].text = d.text
    BY <1>12 DEF HashInv, ListsTellTexts
  <2>3. d.text # Unhashed
    BY <1>2, <2>2
  <2> QED BY <1>7, <1>12, <2>1, <2>2, <2>3
<1>13. SeenIsHashed'
  <2>1. SUFFICES ASSUME NEW j \in Instance, NEW d \in instances'[j].list, d.memory \notin overtaken,
                        d.text \in instances'[j].seen \ (replaced \cup lost')
                 PROVE  \E n \in DOMAIN pgMemories : n > d.memory /\ pgMemories'[n].hash = d.text
    BY <1>4, <1>6 DEF SeenIsHashed
  <2>2. CASE d.text \in instances[j].seen
    BY <1>5, <1>12, <2>1, <2>2
  <2>3. CASE d.text \notin instances[j].seen
    <3>1. j = i /\ d \in instances[i].list \ {e} /\ d.text = t /\ t \notin seen
          /\ t \notin replaced \cup lost'
      BY <1>5, <2>1, <2>3 DEF seen
    <3>2. d.memory # p /\ d.memory <= p /\ d \in Listed /\ e \in Listed
      BY <1>1, <3>1 DEF Listed, p, t
    <3>3. /\ pgMemories[p].text = t /\ d.memory \in Nat /\ d.memory < p
          /\ d.memory \in DOMAIN pgMemories /\ pgMemories[d.memory].text = t
      BY <1>2, <1>3, <2>1, <3>1, <3>2 DEF Listed, HashInv, ListsTellTexts
    <3>6. p \notin overtaken
      BY <1>4, <2>1, <3>1, <3>3 DEF HashInv, OvertakenApart
    <3>4. CASE HashTaken(p, t)
      <4>1. PICK q \in DOMAIN pgMemories \ {p} : pgMemories[q].hash = t
        BY <3>4 DEF HashTaken
      <4>2. ~(p > q)
        BY <1>2, <1>4, <3>1, <3>3, <3>6, <4>1 DEF HashInv, HashWithNewest
      <4>3. q > d.memory /\ pgMemories'[q].hash = t
        BY <1>2, <1>6, <3>3, <4>1, <4>2
      <4> QED BY <3>1, <4>3
    <3>5. CASE ~HashTaken(p, t)
      <4>1. pgMemories'[p].hash = t /\ p > d.memory
        BY <1>2, <1>6, <3>1, <3>3, <3>5
      <4> QED BY <1>2, <3>1, <4>1
    <3> QED BY <3>4, <3>5
  <2> QED BY <2>2, <2>3
<1>14. TextsAreHashed'
  <2>1. SUFFICES ASSUME NEW m \in DOMAIN pgMemories \ overtaken, pgMemories[m].text \notin replaced \cup lost',
                        \A n \in DOMAIN pgMemories : pgMemories'[n].hash # pgMemories[m].text
                 PROVE  /\ ~upgraded
                        /\ \A j \in Instance : instances'[j].at = "hash" =>
                             \E d \in instances'[j].list : d.memory = m
    <3>1. ASSUME NEW m \in DOMAIN pgMemories' \ overtaken', pgMemories'[m].text \notin replaced' \cup lost',
                 ~ \E n \in DOMAIN pgMemories' : pgMemories'[n].hash = pgMemories'[m].text
          PROVE  /\ ~upgraded'
                 /\ \A j \in Instance : instances'[j].at = "hash" =>
                      \E d \in instances'[j].list : d.memory = m
      <4>1. m \in DOMAIN pgMemories \ overtaken /\ pgMemories'[m].text = pgMemories[m].text
        BY <1>4, <1>6, <3>1
      <4>2. /\ pgMemories[m].text \notin replaced \cup lost'
            /\ \A n \in DOMAIN pgMemories : pgMemories'[n].hash # pgMemories[m].text
        BY <1>4, <1>6, <3>1, <4>1
      <4> QED BY <1>4, <2>1, <4>1, <4>2
    <3> QED BY <3>1 DEF TextsAreHashed, Hashed
  <2>2. ~Hashed(pgMemories[m].text)
    BY <1>2, <1>7, <2>1 DEF Hashed
  <2>3. /\ ~upgraded
        /\ \A j \in Instance : instances[j].at = "hash" => \E d \in instances[j].list : d.memory = m
    BY <1>4, <2>1, <2>2 DEF HashInv, TextsAreHashed
  <2>4. p # m
    <3>1. SUFFICES ASSUME p = m PROVE FALSE
      OBVIOUS
    <3>2. t = pgMemories[m].text
      BY <1>3, <2>1, <3>1
    <3>3. t \notin seen
      BY <1>1, <1>4, <2>1, <2>2, <3>1, <3>2 DEF HashInv, SeenIsHashed, Hashed, p, t, seen
    <3>4. ~HashTaken(p, t)
      BY <2>2, <3>2 DEF HashTaken, Hashed
    <3> QED BY <1>2, <1>6, <2>1, <3>2, <3>3, <3>4
  <2> QED BY <1>5, <2>3, <2>4 DEF p
<1>15. HashWithNewest'
  <2>1. SUFFICES ASSUME NEW q \in DOMAIN pgMemories, NEW n \in DOMAIN pgMemories \ overtaken,
                        pgMemories'[q].hash \notin {Unhashed} \cup replaced \cup lost',
                        n > q \/ (n # q /\ q \in overtaken),
                        pgMemories[n].text = pgMemories'[q].hash
                 PROVE  FALSE
    BY <1>4, <1>6 DEF HashWithNewest
  <2>2. pgMemories'[q].hash # pgMemories[q].hash
    BY <1>4, <2>1 DEF HashInv, HashWithNewest
  <2>3. q = p /\ t \notin seen /\ ~HashTaken(p, t) /\ pgMemories'[p].hash = t
    BY <1>6, <2>1, <2>2
  <2>4. t \notin replaced \cup lost' /\ pgMemories[p].text = t /\ pgMemories[n].text = t /\ n # p
    BY <1>2, <1>3, <2>1, <2>3
  <2>5. p \notin overtaken /\ n > p
    BY <1>4, <2>1, <2>3, <2>4 DEF HashInv, OvertakenApart, HashTaken
  <2>6. ~Hashed(t)
    BY <2>2, <2>3 DEF HashTaken, Hashed
  <2>7. \E d \in instances[i].list : d.memory = n
    BY <1>1, <1>4, <2>4, <2>6 DEF HashInv, TextsAreHashed
  <2> QED BY <1>1, <1>2, <2>5, <2>7
<1>16. OvertakenApart'
  <2>1. SUFFICES ASSUME NEW m \in overtaken, NEW n \in DOMAIN pgMemories \ overtaken,
                        pgMemories[n].text = pgMemories[m].text,
                        pgMemories[n].text \notin replaced \cup lost'
                 PROVE  /\ pgMemories'[n].hash = pgMemories[n].text
                        /\ \A j \in Instance : \A d \in instances'[j].list : d.memory # n
    BY <1>4, <1>6 DEF OvertakenApart, SchemaTypes
  <2>2. /\ pgMemories[n].hash = pgMemories[n].text
        /\ \A j \in Instance : \A d \in instances[j].list : d.memory # n
    BY <1>4, <2>1 DEF HashInv, OvertakenApart
  <2> QED BY <1>1, <1>5, <1>6, <2>2 DEF p
<1> QED BY <1>8, <1>9, <1>10, <1>11, <1>13, <1>14, <1>15, <1>16 DEF HashInv

LEMMA HashStep ==
  ASSUME PgSchemaAssumption, SchemaTypes, HashInv, [SchemaNext]_schemaVars
  PROVE  HashInv'
<1> USE DEF OpenAt, GoesTo, Upset, schemaCounts, schemaHistory, Asleep
<1>0. /\ \A j \in Instance : instances[j].at \notin Migrating => upgraded
      /\ database.version = CurrentVersion => upgraded
  BY DEF HashInv, VersionInv
<1>1. ASSUME NEW i \in Instance, OpenStarts(i)
      PROVE  HashInv'
  <2>1. /\ pgMemories' = pgMemories /\ overtaken' = overtaken /\ replaced' = replaced
        /\ lost' = lost /\ upgraded' = upgraded
        /\ database'.version = database.version
    BY <1>1 DEF OpenStarts, SchemaTypes
  <2>2. \A j \in Instance : ListKept(j)
    BY <1>0, <1>1 DEF OpenStarts, SchemaTypes, InstanceState, Migrating, ListKept
  <2> QED BY <2>1, <2>2, HashQuiet
<1>2. ASSUME NEW i \in Instance, ReadVersion(i)
      PROVE  HashInv'
  <2>1. /\ pgMemories' = pgMemories /\ overtaken' = overtaken /\ replaced' = replaced
        /\ lost' = lost /\ upgraded' = upgraded
        /\ database'.version = database.version
    BY <1>2 DEF ReadVersion, SchemaTypes
  <2>2. \A j \in Instance : ListKept(j)
    BY <1>0, <1>2 DEF ReadVersion, SchemaTypes, InstanceState, Migrating, ListKept
  <2> QED BY <2>1, <2>2, HashQuiet
<1>20. ASSUME NEW i \in Instance, ReadVersionFails(i)
      PROVE  HashInv'
  <2>1. /\ pgMemories' = pgMemories /\ overtaken' = overtaken /\ replaced' = replaced
        /\ lost' = lost /\ upgraded' = upgraded
        /\ database'.version = database.version
    BY <1>20 DEF ReadVersionFails, SchemaTypes
  <2>2. \A j \in Instance : ListKept(j)
    BY <1>0, <1>20 DEF ReadVersionFails, SchemaTypes, InstanceState, Migrating, ListKept
  <2> QED BY <2>1, <2>2, HashQuiet
<1>3. ASSUME NEW i \in Instance, CreateTables(i)
      PROVE  HashInv'
  <2>1. /\ pgMemories' = pgMemories /\ overtaken' = overtaken /\ replaced' = replaced
        /\ lost' = lost /\ upgraded' = upgraded
        /\ database'.version = database.version
    BY <1>3 DEF CreateTables, SchemaTypes
  <2>2. \A j \in Instance : ListKept(j)
    BY <1>0, <1>3 DEF CreateTables, SchemaTypes, InstanceState, Migrating, ListKept
  <2> QED BY <2>1, <2>2, HashQuiet
<1>4. ASSUME NEW i \in Instance, CreateTablesFails(i)
      PROVE  HashInv'
  <2>1. /\ pgMemories' = pgMemories /\ overtaken' = overtaken /\ replaced' = replaced
        /\ lost' = lost /\ upgraded' = upgraded
        /\ database'.version = database.version
    BY <1>4 DEF CreateTablesFails, SchemaTypes
  <2>2. \A j \in Instance : ListKept(j)
    BY <1>0, <1>4 DEF CreateTablesFails, SchemaTypes, InstanceState, Migrating, ListKept
  <2> QED BY <2>1, <2>2, HashQuiet
<1>5. ASSUME NEW i \in Instance, ListUnhashed(i)
      PROVE  HashInv'
  BY <1>5, ListUnhashedHashes
<1>21. ASSUME NEW i \in Instance, RereadVersionFails(i)
       PROVE  HashInv'
  BY <1>21, ListUnhashedHashes
<1>22. ASSUME NEW i \in Instance, ListUnhashedFails(i)
       PROVE  HashInv'
  BY <1>22, ListUnhashedHashes
<1>6. ASSUME NEW i \in Instance, BackfillHash(i)
      PROVE  HashInv'
  BY <1>6, BackfillHashHashes
<1>23. ASSUME NEW i \in Instance, BackfillHashFails(i)
       PROVE  HashInv'
  BY <1>23, BackfillHashHashes
<1>7. ASSUME NEW i \in Instance, SetSchemaVersion(i)
      PROVE  HashInv'
  BY <1>7, BackfillEndsHashes DEF SetSchemaVersion, SchemaTypes, DatabaseState
<1>24. ASSUME NEW i \in Instance, SetSchemaVersionFails(i)
       PROVE  HashInv'
  BY <1>24, BackfillEndsHashes DEF SetSchemaVersionFails
<1>8. ASSUME NEW i \in Instance, EnablePgvector(i)
      PROVE  HashInv'
  <2>1. /\ pgMemories' = pgMemories /\ overtaken' = overtaken /\ replaced' = replaced
        /\ lost' = lost /\ upgraded' = upgraded
        /\ database'.version = database.version
    BY <1>8 DEF EnablePgvector, SchemaTypes
  <2>2. \A j \in Instance : ListKept(j)
    <3>1. PICK p \in BOOLEAN :
            instances' = [instances EXCEPT ![i].at = "dims", ![i].pgvector = p]
      BY <1>8 DEF EnablePgvector
    <3>2. instances[i].at = "pgvector"
      BY <1>8 DEF EnablePgvector
    <3> QED BY <1>0, <3>1, <3>2 DEF SchemaTypes, InstanceState, Migrating, ListKept
  <2> QED BY <2>1, <2>2, HashQuiet
<1>9. ASSUME NEW i \in Instance, OpenEnds(i)
      PROVE  HashInv'
  <2>1. /\ pgMemories' = pgMemories /\ overtaken' = overtaken /\ replaced' = replaced
        /\ lost' = lost /\ upgraded' = upgraded
        /\ database'.version = database.version
    BY <1>9, WithTableType DEF OpenEnds, SchemaTypes, DatabaseState, InstanceState
  <2>2. \A j \in Instance : ListKept(j)
    BY <1>0, <1>9 DEF OpenEnds, SchemaTypes, InstanceState, Migrating, ListKept
  <2> QED BY <2>1, <2>2, HashQuiet
<1>10. ASSUME NEW i \in Instance, ChooseDimensions(i)
      PROVE  HashInv'
  <2>1. /\ pgMemories' = pgMemories /\ overtaken' = overtaken /\ replaced' = replaced
        /\ lost' = lost /\ upgraded' = upgraded
        /\ database'.version = database.version
    BY <1>10 DEF ChooseDimensions, SchemaTypes
  <2>2. \A j \in Instance : ListKept(j)
    BY <1>0, <1>10 DEF ChooseDimensions, SchemaTypes, InstanceState, Migrating, ListKept
  <2> QED BY <2>1, <2>2, HashQuiet
<1>11. ASSUME NEW i \in Instance, EnsureVectorSchema(i)
      PROVE  HashInv'
  <2>1. /\ pgMemories' = pgMemories /\ overtaken' = overtaken /\ replaced' = replaced
        /\ lost' = lost /\ upgraded' = upgraded
        /\ database'.version = database.version
    BY <1>11 DEF EnsureVectorSchema, SchemaTypes
  <2>2. \A j \in Instance : ListKept(j)
    <3>1. PICK p \in BOOLEAN :
            instances' = [instances EXCEPT
              ![i].at = IF database.dims = 0 THEN "first" ELSE "later", ![i].pgvector = p]
      BY <1>11 DEF EnsureVectorSchema
    <3>2. instances[i].at = "chosen"
      BY <1>11 DEF EnsureVectorSchema
    <3>3. \A j \in Instance \ {i} : instances'[j] = instances[j]
      BY <3>1 DEF SchemaTypes
    <3>4. /\ instances'[i].at \in {"first", "later"}
          /\ instances'[i].list = instances[i].list /\ instances'[i].seen = instances[i].seen
      BY <3>1 DEF SchemaTypes, InstanceState
    <3> QED BY <1>0, <3>2, <3>3, <3>4 DEF Migrating, ListKept
  <2> QED BY <2>1, <2>2, HashQuiet
<1>12. ASSUME NEW i \in Instance, DimensionsMismatch(i)
      PROVE  HashInv'
  <2>1. /\ pgMemories' = pgMemories /\ overtaken' = overtaken /\ replaced' = replaced
        /\ lost' = lost /\ upgraded' = upgraded
        /\ database'.version = database.version
    BY <1>12 DEF DimensionsMismatch, SchemaTypes
  <2>2. \A j \in Instance : ListKept(j)
    BY <1>0, <1>12 DEF DimensionsMismatch, SchemaTypes, InstanceState, Migrating, ListKept
  <2> QED BY <2>1, <2>2, HashQuiet
<1>13. ASSUME NEW i \in Instance, EnsureVectorTables(i)
      PROVE  HashInv'
  <2>1. /\ pgMemories' = pgMemories /\ overtaken' = overtaken /\ replaced' = replaced
        /\ lost' = lost /\ upgraded' = upgraded
        /\ database'.version = database.version
    BY <1>13, WithTableType DEF EnsureVectorTables, SchemaTypes, DatabaseState, InstanceState
  <2>2. \A j \in Instance : ListKept(j)
    BY <1>0, <1>13 DEF EnsureVectorTables, SchemaTypes, InstanceState, Migrating, ListKept
  <2> QED BY <2>1, <2>2, HashQuiet
<1>14. ASSUME NEW i \in Instance, SetEmbeddingDimensions(i)
      PROVE  HashInv'
  <2>1. /\ pgMemories' = pgMemories /\ overtaken' = overtaken /\ replaced' = replaced
        /\ lost' = lost /\ upgraded' = upgraded
        /\ database'.version = database.version
    BY <1>14 DEF SetEmbeddingDimensions, SchemaTypes, DatabaseState
  <2>2. \A j \in Instance : ListKept(j)
    BY <1>0, <1>14 DEF SetEmbeddingDimensions, SchemaTypes, InstanceState, Migrating, ListKept
  <2> QED BY <2>1, <2>2, HashQuiet
<1>15. ASSUME NEW i \in Instance, ClosePool(i)
      PROVE  HashInv'
  <2>1. /\ pgMemories' = pgMemories /\ overtaken' = overtaken /\ replaced' = replaced
        /\ lost' = lost /\ upgraded' = upgraded
        /\ database'.version = database.version
    BY <1>15 DEF ClosePool, SchemaTypes
  <2>2. \A j \in Instance : ListKept(j)
    BY <1>0, <1>15 DEF ClosePool, SchemaTypes, InstanceState, Migrating, ListKept
  <2> QED BY <2>1, <2>2, HashQuiet
<1>16. ASSUME NEW i \in Instance, PgRemember(i)
      PROVE  HashInv'
  BY <1>16, PgRememberHashes
<1>17. ASSUME NEW i \in Instance, NEW m \in DOMAIN pgMemories, PgUpdateText(i, m)
       PROVE  HashInv'
  BY <1>17, PgUpdateTextHashes
<1>18. ASSUME NEW i \in Instance, CrashProcess(ProcessOf[i])
       PROVE  HashInv'
  <2>1. \A j \in Instance :
          \/ instances'[j] = instances[j]
          \/ instances'[j].list = {} /\ instances'[j].at = "closed"
    BY <1>18 DEF CrashProcess
  <2> QED BY <1>0, <1>18, <2>1, HashQuiet DEF CrashProcess, Migrating, ListKept
<1>19. CASE UNCHANGED schemaVars
  BY <1>0, <1>19, HashQuiet DEF schemaVars, ListKept
<1> QED BY <1>1, <1>2, <1>3, <1>4, <1>5, <1>6, <1>7, <1>8, <1>9, <1>10,
           <1>11, <1>12, <1>13, <1>14, <1>15, <1>16, <1>17, <1>18, <1>19,
           <1>20, <1>21, <1>22, <1>23, <1>24
           DEF SchemaNext

--------------------------------------------------------------------------------
(* The invariants *)

LEMMA SchemaStart ==
  ASSUME PgSchemaAssumption, SchemaInit
  PROVE  SchemaInv
<1>1. \A i \in Instance : instances[i] = Asleep
  BY DEF SchemaInit
<1>2. \A i \in Instance : /\ instances[i].at = "closed" /\ instances[i].list = {}
  <2>1. Asleep.at = "closed" /\ Asleep.list = {}
    BY DEF Asleep
  <2> QED BY <1>1, <2>1
<1>3. CASE database = [version |-> 0, dims |-> 0, tables |-> [vector |-> 0, blob |-> 0]]
           /\ pgMemories = << >>
  <2>1. database \in DatabaseState /\ database.version # CurrentVersion /\ database.dims = 0
    <3>1. [vector |-> 0, blob |-> 0] \in [{"vector", "blob"} -> Nat]
      OBVIOUS
    <3> QED BY <1>3, <3>1 DEF DatabaseState, CurrentVersion
  <2>2. pgMemories \in Seq(MemoryState) /\ DOMAIN pgMemories = {}
    BY <1>3
  <2>3. SchemaTypes
    BY <2>1, <2>2, AsleepType DEF SchemaInit, SchemaTypes, ProcessState, Forgetful
  <2>4. DimsInv
    BY <1>2, <2>1 DEF DimsInv, DimsChosen, FirstAgree, LaterAgree, HasTable, Fitting
  <2>5. HashInv
    BY <1>2, <2>1, <2>2 DEF SchemaInit, HashInv, VersionInv, HashOfText, HashOnce,
       ListsTellTexts, SeenIsHashed, TextsAreHashed, HashWithNewest, OvertakenApart, Migrating
  <2> QED BY <2>3, <2>4, <2>5 DEF SchemaInv
<1>4. ASSUME NEW i \in Instance, NEW names \in SUBSET {"vector", "blob"},
             database = [version |-> 2, dims |-> ModelOf[i],
                         tables |-> [n \in {"vector", "blob"} |->
                                       IF n \in names THEN ModelOf[i] ELSE 0]],
             pgMemories = [m \in DOMAIN OldText |-> [text |-> OldText[m], hash |-> Unhashed]]
      PROVE  SchemaInv
  <2>1. ModelOf[i] \in Nat \ {0}
    BY DEF PgSchemaAssumption
  <2>2. /\ database \in DatabaseState /\ database.version # CurrentVersion
        /\ database.tables["vector"] \in {0, database.dims}
    BY <1>4, <2>1 DEF DatabaseState, CurrentVersion
  <2>3. /\ pgMemories \in Seq(MemoryState)
        /\ \A m \in DOMAIN pgMemories : pgMemories[m].hash = Unhashed
    <3>1. DOMAIN OldText = 1 .. Len(OldText) /\ Len(OldText) \in Nat
      BY DEF PgSchemaAssumption
    <3>2. \A m \in DOMAIN OldText : [text |-> OldText[m], hash |-> Unhashed] \in MemoryState
      BY DEF MemoryState, SomeText
    <3> QED BY <1>4, <3>1, <3>2, IsASeq
  <2>4. SchemaTypes
    BY <2>2, <2>3, AsleepType DEF SchemaInit, SchemaTypes, ProcessState, Forgetful
  <2>5. DimsInv
    BY <1>2, <2>2 DEF DimsInv, DimsChosen, FirstAgree, LaterAgree, HasTable, Fitting
  <2>6. HashInv
    BY <1>2, <2>2, <2>3 DEF SchemaInit, HashInv, VersionInv, HashOfText, HashOnce,
       ListsTellTexts, SeenIsHashed, TextsAreHashed, HashWithNewest, OvertakenApart, Migrating
  <2> QED BY <2>4, <2>5, <2>6 DEF SchemaInv
<1> QED BY <1>3, <1>4 DEF SchemaInit

LEMMA SchemaStep ==
  ASSUME PgSchemaAssumption, SchemaInv, [SchemaNext]_schemaVars
  PROVE  SchemaInv'
BY SchemaTypesStep, DimsStep, HashStep DEF SchemaInv, HashInv

LEMMA SchemaInvariant == SchemaSpec => []SchemaInv
<1>1. SchemaInit => SchemaInv
  BY PgSchemaAssumption, SchemaStart
<1>2. SchemaInv /\ [SchemaNext]_schemaVars => SchemaInv'
  BY PgSchemaAssumption, SchemaStep
<1> QED BY <1>1, <1>2, PTL DEF SchemaSpec

\* However many instances of however many processes open a database at once and with
\* whatever models, crashes and cached answers: an instance that has booted agrees
\* with the recorded dimensions and has a table of that length, unless it found none
\* recorded while another model was ahead.
THEOREM TablesFitWhatIsWritten == SchemaSpec => []VectorTablesFit
<1>1. SchemaInv => VectorTablesFit
  BY DEF SchemaInv, DimsInv, LaterAgree, HasTable, VectorTablesFit, OpenAt
<1> QED BY <1>1, SchemaInvariant, PTL

\* However many backfills run at once over whatever old memories, while others already
\* write and queries fail: no hash is used twice or belongs to another text (that of a
\* memory updated while it was listed excepted), and in a database that says it is
\* upgraded every text is found by its hash, if it was not replaced and no query that
\* had to hash it failed.
THEOREM UpgradedTextsAreFound == SchemaSpec => []HashesTellTexts
<1>1. SchemaInv => HashesTellTexts
  BY DEF SchemaInv, HashInv, VersionInv, HashOfText, HashOnce, TextsAreHashed, Hashed, Forgiven,
        HashesTellTexts
<1> QED BY <1>1, SchemaInvariant, PTL

--------------------------------------------------------------------------------
(* PgWriter *)

WriterSpec == PgInit /\ [][PgNext]_pgVars

CallOp == {"none", "remember", "update", "compress"}
CallAt == {"idle", "beginning", "changing", "inserting", "ending", "ok", "merged", "failed"}
CallError == {"none", "aborted", "foreign key", "invalid", "unique", "timeout", "deadlock"}

CallClient == Client \cup {Nobody}

CallState ==
  [op : CallOp, at : CallAt, client : CallClient, error : CallError, tries : Nat,
   poison : BOOLEAN]

ClientState ==
  [owner : PgCall \cup {Nobody}, tx : {"idle", "open", "aborted"}, rows : SUBSET PgCall]

Doing == {"begin", "change", "commit", "rollback", "insert"}

Issued ==
  [do : Doing,
   batch : Seq(PgCall), rest : Seq(PgCall)]

Works == [Client -> Seq(Issued)]

PgTypes ==
  /\ pgCalls \in [PgCall -> CallState] /\ clients \in [Client -> ClientState]
  /\ pgWork \in Works /\ pgQueue \in Seq(PgCall)
  /\ pgTimer \in Client \cup {Nobody} /\ pgKicks \subseteq Client /\ pgRows \subseteq PgCall

NoTwice(s) == \A i, j \in DOMAIN s : s[i] = s[j] => i = j

\* The calls that a statement is about.
Named(s) == ToSet(s.batch) \cup ToSet(s.rest)

Once(s) ==
  /\ NoTwice(s.batch) /\ NoTwice(s.rest) /\ s.batch # << >>
  /\ ToSet(s.batch) \cap ToSet(s.rest) = {}

Disjoint(a, b) == a \cap b = {}

\* No statement that waits is about a call of cs.
Apart(w, cs) == \A k \in Client : \A i \in DOMAIN w[k] : Disjoint(Named(w[k][i]), cs)

\* No two statements that wait are about the same call.
Tidy(w) ==
  \A k, l \in Client : \A i \in DOMAIN w[k], j \in DOMAIN w[l] :
    (k = l /\ i = j) \/ Disjoint(Named(w[k][i]), Named(w[l][j]))

\* The statements of v: those of w, and others that satisfy a condition.
From(w, l, s) == \E j \in DOMAIN w[l] : s = w[l][j]

--------------------------------------------------------------------------------
(* Statements that wait *)

\* Each client of gs has one statement more.
More(w, gs, g, v) ==
  /\ w \in Works /\ Tidy(w) /\ gs \in SUBSET Client /\ g \in [gs -> Issued]
  /\ \A k \in gs : Apart(w, Named(g[k]))
  /\ \A k, l \in gs : k # l => Disjoint(Named(g[k]), Named(g[l]))
  /\ v = [k \in Client |-> IF k \in gs THEN Append(w[k], g[k]) ELSE w[k]]

LEMMA AppendTidy ==
  ASSUME NEW w, NEW gs, NEW g, NEW v, More(w, gs, g, v)
  PROVE  /\ v \in Works /\ Tidy(v)
         /\ \A l \in Client : \A i \in DOMAIN v[l] :
              From(w, l, v[l][i]) \/ (l \in gs /\ v[l][i] = g[l])
<1>0. /\ w \in Works /\ Tidy(w) /\ gs \in SUBSET Client /\ g \in [gs -> Issued]
      /\ \A k \in gs : Apart(w, Named(g[k]))
      /\ \A k, l \in gs : k # l => Disjoint(Named(g[k]), Named(g[l]))
      /\ v = [k \in Client |-> IF k \in gs THEN Append(w[k], g[k]) ELSE w[k]]
  BY DEF More
<1>1. ASSUME NEW k \in Client
      PROVE  /\ v[k] \in Seq(Issued)
             /\ \A i \in DOMAIN v[k] : \/ i \in DOMAIN w[k] /\ v[k][i] = w[k][i]
                                       \/ k \in gs /\ i = Len(w[k]) + 1 /\ v[k][i] = g[k]
  <2>1. w[k] \in Seq(Issued)
    BY <1>0 DEF Works
  <2>2. CASE k \in gs
    <3>1. g[k] \in Issued /\ v[k] = Append(w[k], g[k])
      BY <1>0, <2>2
    <3>2. /\ v[k] \in Seq(Issued) /\ Len(v[k]) = Len(w[k]) + 1
          /\ \A i \in 1 .. Len(w[k]) : v[k][i] = w[k][i]
          /\ v[k][Len(w[k]) + 1] = g[k]
      BY <2>1, <3>1, AppendProperties
    <3>3. DOMAIN v[k] = 1 .. Len(w[k]) + 1 /\ DOMAIN w[k] = 1 .. Len(w[k]) /\ Len(w[k]) \in Nat
      BY <2>1, <3>2
    <3> QED BY <2>2, <3>2, <3>3
  <2>3. CASE k \notin gs
    BY <1>0, <2>1, <2>3
  <2> QED BY <2>2, <2>3
<1>2. v \in Works
  BY <1>0, <1>1 DEF Works
<1>3. \A l \in Client : \A i \in DOMAIN v[l] :
        From(w, l, v[l][i]) \/ (l \in gs /\ v[l][i] = g[l])
  BY <1>1 DEF From
<1>4. Tidy(v)
  <2>1. SUFFICES ASSUME NEW k \in Client, NEW l \in Client, NEW i \in DOMAIN v[k],
                        NEW j \in DOMAIN v[l], ~(k = l /\ i = j)
                 PROVE  Disjoint(Named(v[k][i]), Named(v[l][j]))
    BY DEF Tidy
  <2>2. \/ i \in DOMAIN w[k] /\ v[k][i] = w[k][i]
        \/ k \in gs /\ i = Len(w[k]) + 1 /\ v[k][i] = g[k]
    BY <1>1
  <2>3. \/ j \in DOMAIN w[l] /\ v[l][j] = w[l][j]
        \/ l \in gs /\ j = Len(w[l]) + 1 /\ v[l][j] = g[l]
    BY <1>1
  <2>4. CASE i \in DOMAIN w[k] /\ j \in DOMAIN w[l] /\ v[k][i] = w[k][i] /\ v[l][j] = w[l][j]
    BY <1>0, <2>1, <2>4 DEF Tidy
  <2>5. CASE i \in DOMAIN w[k] /\ v[k][i] = w[k][i] /\ l \in gs /\ v[l][j] = g[l]
    BY <1>0, <2>5 DEF Apart
  <2>6. CASE k \in gs /\ v[k][i] = g[k] /\ j \in DOMAIN w[l] /\ v[l][j] = w[l][j]
    <3>1. Disjoint(Named(w[l][j]), Named(g[k]))
      BY <1>0, <2>6 DEF Apart
    <3> QED BY <2>6, <3>1 DEF Disjoint
  <2>7. CASE /\ k \in gs /\ i = Len(w[k]) + 1 /\ v[k][i] = g[k]
             /\ l \in gs /\ j = Len(w[l]) + 1 /\ v[l][j] = g[l]
    <3>1. k # l
      BY <2>1, <2>7
    <3> QED BY <1>0, <2>7, <3>1
  <2> QED BY <2>2, <2>3, <2>4, <2>5, <2>6, <2>7
<1> QED BY <1>2, <1>3, <1>4

LEMMA IssueTidy ==
  ASSUME NEW w \in Works, Tidy(w), NEW k \in Client, NEW s \in Issued, Apart(w, Named(s))
  PROVE  /\ Issue(w, k, s) \in Works /\ Tidy(Issue(w, k, s))
         /\ \A l \in Client : \A i \in DOMAIN Issue(w, k, s)[l] :
              From(w, l, Issue(w, k, s)[l][i]) \/ (l = k /\ Issue(w, k, s)[l][i] = s)
<1> DEFINE g == [l \in {k} |-> s]
           v == Issue(w, k, s)
<1>1. v = [l \in Client |-> IF l \in {k} THEN Append(w[l], g[l]) ELSE w[l]]
  BY DEF Issue, Works
<1>2. {k} \in SUBSET Client /\ g \in [{k} -> Issued]
  OBVIOUS
<1>3. \A l \in {k} : g[l] = s
  OBVIOUS
<1> HIDE DEF g, v
<1>4. /\ v \in Works /\ Tidy(v)
      /\ \A l \in Client : \A i \in DOMAIN v[l] :
           From(w, l, v[l][i]) \/ (l \in {k} /\ v[l][i] = g[l])
  <2>1. \A l \in {k} : Apart(w, Named(g[l]))
    BY <1>3
  <2>2. \A l, m \in {k} : l # m => Disjoint(Named(g[l]), Named(g[m]))
    OBVIOUS
  <2>3. More(w, {k}, g, v)
    BY <1>1, <1>2, <2>1, <2>2 DEF More
  <2> QED BY <2>3, AppendTidy
<1> QED BY <1>3, <1>4 DEF v

LEMMA AnsweredTidy ==
  ASSUME pgWork \in Works, Tidy(pgWork), NEW k \in Client, pgWork[k] # << >>
  PROVE  /\ Answered(k) \in Works /\ Tidy(Answered(k)) /\ Apart(Answered(k), Named(HeadOf(k)))
         /\ 1 \in DOMAIN pgWork[k] /\ HeadOf(k) = pgWork[k][1]
         /\ \A l \in Client : \A i \in DOMAIN Answered(k)[l] :
              From(pgWork, l, Answered(k)[l][i])
<1> DEFINE v == Answered(k)
           back(l, i) == IF l = k THEN i + 1 ELSE i
<1>1. pgWork[k] \in Seq(Issued) /\ DOMAIN pgWork[k] = 1 .. Len(pgWork[k]) /\ Len(pgWork[k]) \in Nat
  BY DEF Works
<1>2. /\ HeadOf(k) = pgWork[k][1] /\ 1 \in DOMAIN pgWork[k]
      /\ Tail(pgWork[k]) \in Seq(Issued) /\ Len(Tail(pgWork[k])) = Len(pgWork[k]) - 1
      /\ \A i \in 1 .. Len(Tail(pgWork[k])) : Tail(pgWork[k])[i] = pgWork[k][i + 1]
  <2>1. Len(pgWork[k]) > 0
    BY <1>1, EmptySeq
  <2> QED BY <1>1, <2>1, HeadTailProperties DEF HeadOf
<1>3. v = [l \in Client |-> IF l = k THEN Tail(pgWork[k]) ELSE pgWork[l]]
  BY DEF Answered, Works
<1>4. v \in Works
  BY <1>2, <1>3 DEF Works
<1>5. \A l \in Client : \A i \in DOMAIN v[l] :
        /\ back(l, i) \in DOMAIN pgWork[l] /\ v[l][i] = pgWork[l][back(l, i)]
        /\ ~(l = k /\ back(l, i) = 1)
  <2>1. SUFFICES ASSUME NEW l \in Client, NEW i \in DOMAIN v[l]
                 PROVE  /\ back(l, i) \in DOMAIN pgWork[l] /\ v[l][i] = pgWork[l][back(l, i)]
                        /\ ~(l = k /\ back(l, i) = 1)
    OBVIOUS
  <2>2. CASE l = k
    <3>1. v[l] = Tail(pgWork[k]) /\ i \in 1 .. Len(Tail(pgWork[k]))
      BY <1>2, <1>3, <2>1, <2>2
    <3> QED BY <1>1, <1>2, <2>2, <3>1
  <2>3. CASE l # k
    BY <1>3, <2>3
  <2> QED BY <2>2, <2>3
<1>6. \A l \in Client : \A i, j \in DOMAIN v[l] : back(l, i) = back(l, j) => i = j
  <2>1. SUFFICES ASSUME NEW l \in Client, NEW i \in DOMAIN v[l], NEW j \in DOMAIN v[l],
                        back(l, i) = back(l, j)
                 PROVE  i = j
    OBVIOUS
  <2>2. i \in Nat /\ j \in Nat
    BY <1>4 DEF Works
  <2> QED BY <2>1, <2>2
<1> HIDE DEF v, back
<1>7. Tidy(v)
  <2>1. SUFFICES ASSUME NEW a \in Client, NEW l \in Client, NEW i \in DOMAIN v[a],
                        NEW j \in DOMAIN v[l], ~(a = l /\ i = j)
                 PROVE  Disjoint(Named(v[a][i]), Named(v[l][j]))
    BY DEF Tidy
  <2>2. ~(a = l /\ back(a, i) = back(l, j))
    BY <1>6, <2>1
  <2> QED BY <1>5, <2>2 DEF Tidy
<1>8. Apart(v, Named(HeadOf(k)))
  BY <1>2, <1>5 DEF Apart, Tidy
<1>9. \A l \in Client : \A i \in DOMAIN v[l] : From(pgWork, l, v[l][i])
  BY <1>5 DEF From
<1> QED BY <1>2, <1>4, <1>7, <1>8, <1>9 DEF v

About(what, c) == Statement(what, <<c>>, << >>)

\* The calls of cs go on, each with a statement on its own client.
Going(w, cs, f, v) ==
  /\ w \in Works /\ Tidy(w) /\ cs \in SUBSET PgCall /\ Apart(w, cs)
  /\ f \in [PgCall -> {"change", "commit"}]
  /\ \A c \in cs : pgCalls[c].client \in Client
  /\ \A c, d \in cs : pgCalls[c].client = pgCalls[d].client => c = d
  /\ v = [k \in Client |->
            IF \E c \in cs : pgCalls[c].client = k
            THEN Append(w[k], LET c == CHOOSE c \in cs : pgCalls[c].client = k
                              IN  Statement(f[c], <<c>>, << >>))
            ELSE w[k]]

LEMMA NoOne == ToSet(<< >>) = {} /\ NoTwice(<< >>) /\ << >> \in Seq(PgCall)
  BY DEF ToSet, NoTwice

\* A statement about one call, and others after it.
LEMMA NamedOne ==
  \A c \in PgCall, others \in Seq(PgCall),
     what \in Doing :
    /\ Statement(what, <<c>>, others) \in Issued
    /\ Named(Statement(what, <<c>>, others)) = {c} \cup ToSet(others)
    /\ NoTwice(others) /\ c \notin ToSet(others) => Once(Statement(what, <<c>>, others))
    /\ Statement(what, <<c>>, others).do = what
    /\ Statement(what, <<c>>, others).batch = <<c>>
    /\ Statement(what, <<c>>, others).rest = others
<1>1. SUFFICES ASSUME NEW c \in PgCall, NEW others \in Seq(PgCall),
                      NEW what \in Doing,
                      NEW s, s = Statement(what, <<c>>, others)
               PROVE  /\ s \in Issued /\ Named(s) = {c} \cup ToSet(others)
                      /\ NoTwice(others) /\ c \notin ToSet(others) => Once(s)
                      /\ s.do = what /\ s.batch = <<c>> /\ s.rest = others
  OBVIOUS
<1>2. s \in Issued /\ s.do = what /\ s.batch = <<c>> /\ s.rest = others
  BY <1>1 DEF Statement, Issued
<1>3. ToSet(<<c>>) = {c} /\ NoTwice(<<c>>) /\ <<c>> # << >>
  BY DEF ToSet, NoTwice
<1> QED BY <1>2, <1>3 DEF Named, Once

\* A statement about one call.
LEMMA NamedSingle ==
  \A c \in PgCall, what \in Doing :
    /\ Statement(what, <<c>>, << >>) \in Issued
    /\ Named(Statement(what, <<c>>, << >>)) = {c}
    /\ Once(Statement(what, <<c>>, << >>))
    /\ Statement(what, <<c>>, << >>).do = what
    /\ Statement(what, <<c>>, << >>).batch = <<c>>
    /\ Statement(what, <<c>>, << >>).rest = << >>
<1>1. PICK none \in Seq(PgCall) : none = << >>
  BY NoOne
<1>2. ToSet(none) = {} /\ NoTwice(none)
  BY <1>1, NoOne
<1>3. \A c \in PgCall, what \in Doing :
        /\ Statement(what, <<c>>, none) \in Issued
        /\ Named(Statement(what, <<c>>, none)) = {c}
        /\ Once(Statement(what, <<c>>, none))
        /\ Statement(what, <<c>>, none).do = what
        /\ Statement(what, <<c>>, none).batch = <<c>>
        /\ Statement(what, <<c>>, none).rest = none
  BY <1>2, NamedOne
<1> QED BY <1>1, <1>3

LEMMA GoOnTidy ==
  ASSUME NEW w, NEW cs, NEW f, NEW v, Going(w, cs, f, v)
  PROVE  /\ v \in Works /\ Tidy(v)
         /\ \A l \in Client : \A i \in DOMAIN v[l] :
              \/ From(w, l, v[l][i])
              \/ \E c \in cs : pgCalls[c].client = l /\ v[l][i] = About(f[c], c)
<1> DEFINE gs == {k \in Client : \E c \in cs : pgCalls[c].client = k}
           one(k) == CHOOSE c \in cs : pgCalls[c].client = k
           g == [k \in gs |-> About(f[one(k)], one(k))]
<1>1. \A k \in gs : one(k) \in cs /\ pgCalls[one(k)].client = k
  OBVIOUS
<1>2. \A k \in gs : g[k] = About(f[one(k)], one(k))
  OBVIOUS
<1>3. v = [k \in Client |-> IF k \in gs THEN Append(w[k], g[k]) ELSE w[k]]
  BY DEF Going, About
<1>4. gs \in SUBSET Client /\ DOMAIN g = gs /\ g = [k \in gs |-> g[k]]
  OBVIOUS
<1> HIDE DEF gs, one, g
<1>5. \A k \in gs : g[k] \in Issued /\ Named(g[k]) = {one(k)}
  <2>1. SUFFICES ASSUME NEW k \in gs PROVE g[k] \in Issued /\ Named(g[k]) = {one(k)}
    OBVIOUS
  <2>2. one(k) \in PgCall /\ f[one(k)] \in {"change", "commit"}
    BY <1>1 DEF Going
  <2>3. f[one(k)] \in Doing
    BY <2>2 DEF Doing
  <2> QED BY <1>2, <2>2, <2>3, NamedSingle DEF About
<1>6. More(w, gs, g, v)
  <2>1. g \in [gs -> Issued]
    BY <1>4, <1>5
  <2>2. \A k \in gs : Apart(w, Named(g[k]))
    BY <1>1, <1>5 DEF Going, Apart, Disjoint
  <2>3. \A k, l \in gs : k # l => Disjoint(Named(g[k]), Named(g[l]))
    BY <1>1, <1>5 DEF Disjoint
  <2> QED BY <1>3, <1>4, <2>1, <2>2, <2>3 DEF More, Going
<1> QED BY <1>1, <1>2, <1>6, AppendTidy

--------------------------------------------------------------------------------
(* The batches of a flush *)

LEMMA TimesMonotone ==
  ASSUME NEW f \in Nat, NEW a \in Nat, NEW b \in Nat, a <= b
  PROVE  a * f \in Nat /\ b * f \in Nat /\ a * f <= b * f
<1>1. b = a + (b - a) /\ b - a \in Nat
  OBVIOUS
<1>2. b * f = a * f + (b - a) * f
  BY <1>1
<1>3. a * f \in Nat /\ b * f \in Nat /\ (b - a) * f >= 0
  BY <1>1
<1> QED BY <1>2, <1>3

LEMMA DivTimes ==
  ASSUME NEW f \in Nat \ {0}, NEW x \in Nat
  PROVE  (x \div f) \in Nat /\ (x \div f) * f <= x
  OBVIOUS

LEMMA SubSeqPart ==
  ASSUME NEW q \in Seq(PgCall), NEW a \in Nat, NEW b \in Nat, a <= b, b <= Len(q)
  PROVE  LET s == SubSeq(q, a + 1, b)
         IN  /\ s \in Seq(PgCall) /\ Len(s) = b - a
             /\ \A c \in ToSet(s) : \E x \in a + 1 .. b : c = q[x]
             /\ NoTwice(q) => NoTwice(s)
<1> DEFINE s == SubSeq(q, a + 1, b)
<1>1. a + 1 \in Int /\ b \in Int /\ \A x \in a + 1 .. b : q[x] \in PgCall
  <2>1. DOMAIN q = 1 .. Len(q) /\ \A x \in 1 .. Len(q) : q[x] \in PgCall
    OBVIOUS
  <2>2. \A x \in a + 1 .. b : x \in 1 .. Len(q)
    OBVIOUS
  <2> QED BY <2>1, <2>2
<1>2. /\ s \in Seq(PgCall)
      /\ Len(s) = IF a + 1 <= b THEN b - (a + 1) + 1 ELSE 0
      /\ \A x \in 1 .. b - (a + 1) + 1 : s[x] = q[(a + 1) + x - 1]
  BY <1>1, SubSeqProperties
<1>3. Len(s) = b - a
  BY <1>2
<1>4. \A x \in DOMAIN s : x \in Nat /\ a + x \in a + 1 .. b /\ s[x] = q[a + x]
  <2>1. SUFFICES ASSUME NEW x \in DOMAIN s
                 PROVE  x \in Nat /\ a + x \in a + 1 .. b /\ s[x] = q[a + x]
    OBVIOUS
  <2>2. x \in 1 .. b - a
    BY <1>2, <1>3
  <2>3. x \in 1 .. b - (a + 1) + 1 /\ (a + 1) + x - 1 = a + x
    BY <2>2
  <2> QED BY <1>2, <2>2, <2>3
<1> HIDE DEF s
<1>5. \A c \in ToSet(s) : \E x \in a + 1 .. b : c = q[x]
  BY <1>4 DEF ToSet
<1>6. NoTwice(q) => NoTwice(s)
  <2>1. SUFFICES ASSUME NoTwice(q), NEW x \in DOMAIN s, NEW y \in DOMAIN s, s[x] = s[y]
                 PROVE  x = y
    BY DEF NoTwice
  <2>2. a + x \in DOMAIN q /\ a + y \in DOMAIN q
    BY <1>4
  <2>3. a + x = a + y
    BY <1>4, <2>1, <2>2 DEF NoTwice
  <2> QED BY <1>4, <2>3
<1> QED BY <1>2, <1>3, <1>5, <1>6 DEF s

LEMMA RoomIsNat ==
  ASSUME PgAssumption, pgWork \in Works
  PROVE  Room \in Nat
<1> DEFINE part(k) == {k} \X {i \in DOMAIN pgWork[k] : pgWork[k][i].do = "insert"}
           h == [k \in Client |-> part(k)]
           parts == {part(k) : k \in Client}
<1>1. h \in Surjection(Client, parts)
  BY DEF Surjection
<1>2. IsFiniteSet(parts)
  BY <1>1, FS_Surjection DEF PgAssumption
<1>3. \A k \in Client : IsFiniteSet(part(k))
  <2>1. SUFFICES ASSUME NEW k \in Client PROVE IsFiniteSet(part(k))
    OBVIOUS
  <2> DEFINE is == {i \in DOMAIN pgWork[k] : pgWork[k][i].do = "insert"}
  <2>2. DOMAIN pgWork[k] = 1 .. Len(pgWork[k]) /\ Len(pgWork[k]) \in Int
    BY DEF Works
  <2>3. IsFiniteSet(is)
    <3>1. IsFiniteSet(1 .. Len(pgWork[k]))
      BY <2>2, FS_Interval
    <3>2. is \in SUBSET (1 .. Len(pgWork[k]))
      BY <2>2
    <3> QED BY <3>1, <3>2, FS_Subset
  <2>4. IsFiniteSet({k})
    BY FS_Singleton
  <2> QED BY <2>3, <2>4, FS_Product
<1>4. IsFiniteSet(InFlight)
  <2>1. \A p \in parts : IsFiniteSet(p)
    BY <1>3
  <2> QED BY <1>2, <2>1, FS_UNION DEF InFlight
<1>5. Cardinality(InFlight) \in Nat
  BY <1>4, FS_CardinalityType
<1> QED BY <1>5 DEF Room, PgAssumption

\* Batch i of a queue of length n holds the places after low(i), up to high(i).
LEMMA Slices ==
  ASSUME NEW f \in Nat \ {0}, NEW len \in Nat, NEW room \in Nat
  PROVE  LET needed == (len + f - 1) \div f
             n == IF needed < room THEN needed ELSE room
             taken == IF n * f < len THEN n * f ELSE len
             high(i) == IF i * f < len THEN i * f ELSE len
         IN  /\ n \in Nat /\ taken \in 0 .. len
             /\ \A i \in 1 .. n : /\ (i - 1) * f \in Nat /\ (i - 1) * f < high(i)
                                  /\ high(i) <= taken /\ high(i) \in Nat
             /\ \A i, j \in 1 .. n : i < j => high(i) <= (j - 1) * f
<1> DEFINE needed == (len + f - 1) \div f
           n == IF needed < room THEN needed ELSE room
           taken == IF n * f < len THEN n * f ELSE len
           high(i) == IF i * f < len THEN i * f ELSE len
<1>1. needed \in Nat /\ needed * f <= len + f - 1
  BY DivTimes
<1> HIDE DEF needed
<1>2. n \in Nat /\ n <= needed
  BY <1>1
<1> HIDE DEF n
<1>3. n * f \in Nat /\ n * f <= needed * f
  BY <1>1, <1>2, TimesMonotone
<1>4. taken \in 0 .. len
  BY <1>3
<1>5. ASSUME NEW i \in 1 .. n
      PROVE  /\ (i - 1) * f \in Nat /\ (i - 1) * f < high(i)
             /\ high(i) <= taken /\ high(i) \in Nat
  <2>1. i \in Nat /\ i - 1 \in Nat /\ i <= n /\ n \in Nat
    BY <1>2
  <2>2. i * f \in Nat /\ i * f <= n * f
    BY <2>1, TimesMonotone
  <2>3. (i - 1) * f \in Nat /\ i * f = (i - 1) * f + f
    BY <2>1
  <2>4. i * f <= len + f - 1
    BY <1>1, <1>2, <1>3, <2>2
  <2>5. (i - 1) * f < len
    BY <2>2, <2>3, <2>4
  <2> QED BY <1>3, <2>2, <2>3, <2>5
<1>6. ASSUME NEW i \in 1 .. n, NEW j \in 1 .. n, i < j
      PROVE  high(i) <= (j - 1) * f
  <2>1. i \in Nat /\ j - 1 \in Nat /\ i <= j - 1
    BY <1>2, <1>6
  <2>2. i * f \in Nat /\ (j - 1) * f \in Nat /\ i * f <= (j - 1) * f
    BY <2>1, TimesMonotone
  <2> QED BY <2>2
<1> QED BY <1>2, <1>4, <1>5, <1>6 DEF n, needed

LEMMA FlushTidy ==
  ASSUME PgAssumption, pgWork \in Works, NEW w \in Works, Tidy(w),
         NEW q \in Seq(PgCall), NoTwice(q), Apart(w, ToSet(q)), NEW k \in Client,
         FlushOn(w, q, k)
  PROVE  /\ pgWork' \in Works /\ Tidy(pgWork')
         /\ pgQueue' \in Seq(PgCall) /\ NoTwice(pgQueue')
         /\ ToSet(pgQueue') \subseteq ToSet(q) /\ Apart(pgWork', ToSet(pgQueue'))
         /\ \A l \in Client : \A i \in DOMAIN pgWork'[l] :
              \/ From(w, l, pgWork'[l][i])
              \/ /\ pgWork'[l][i].do = "insert" /\ Once(pgWork'[l][i])
                 /\ Named(pgWork'[l][i]) \subseteq ToSet(q)
<1> DEFINE needed == (Len(q) + FlushMax - 1) \div FlushMax
           n == IF needed < Room THEN needed ELSE Room
           taken == IF n * FlushMax < Len(q) THEN n * FlushMax ELSE Len(q)
           at(i) == n + 1 - i
           low(i) == (at(i) - 1) * FlushMax
           high(i) == IF at(i) * FlushMax < Len(q) THEN at(i) * FlushMax ELSE Len(q)
           bs == [i \in 1 .. n |-> Batch(q, at(i))]
<1>1. /\ n \in Nat /\ taken \in 0 .. Len(q)
      /\ \A i \in 1 .. n : low(i) \in Nat /\ low(i) < high(i) /\ high(i) <= taken /\ high(i) \in Nat
      /\ \A i, j \in 1 .. n : i < j => high(j) <= low(i)
  <2>1. Room \in Nat /\ FlushMax \in Nat \ {0} /\ Len(q) \in Nat
    BY RoomIsNat DEF PgAssumption
  <2>2. /\ n \in Nat /\ taken \in 0 .. Len(q)
        /\ \A i \in 1 .. n : LET m == IF i * FlushMax < Len(q) THEN i * FlushMax ELSE Len(q)
                            IN  /\ (i - 1) * FlushMax \in Nat /\ (i - 1) * FlushMax < m
                                /\ m <= taken /\ m \in Nat
        /\ \A i, j \in 1 .. n :
             i < j => (IF i * FlushMax < Len(q) THEN i * FlushMax ELSE Len(q)) <= (j - 1) * FlushMax
    BY <2>1, Slices
  <2> HIDE DEF n, taken
  <2>3. \A i \in 1 .. n : at(i) \in 1 .. n
    BY <2>2
  <2>4. \A i, j \in 1 .. n : i < j => at(j) < at(i)
    BY <2>2
  <2> HIDE DEF at
  <2> QED BY <2>2, <2>3, <2>4
<1>2. /\ pgWork' = [w EXCEPT ![k] = @ \o bs]
      /\ pgQueue' = SubSeq(q, taken + 1, Len(q))
  BY DEF FlushOn
<1>3. \A i \in 1 .. n : bs[i] = Statement("insert", SubSeq(q, low(i) + 1, high(i)), << >>)
  BY DEF Batch
<1>4. DOMAIN bs = 1 .. n /\ bs = [i \in 1 .. n |-> bs[i]]
  OBVIOUS
<1>5. DOMAIN q = 1 .. Len(q) /\ Len(q) \in Nat /\ taken \in Nat /\ taken <= Len(q)
  BY <1>1
<1> HIDE DEF needed, n, taken, at, low, high, bs
<1>6. ASSUME NEW i \in 1 .. n
      PROVE  /\ bs[i] \in Issued /\ bs[i].do = "insert" /\ Once(bs[i])
             /\ \A c \in Named(bs[i]) : \E x \in low(i) + 1 .. high(i) : c = q[x]
  <2> DEFINE s == SubSeq(q, low(i) + 1, high(i))
  <2>1. /\ s \in Seq(PgCall) /\ Len(s) = high(i) - low(i) /\ NoTwice(s)
        /\ \A c \in ToSet(s) : \E x \in low(i) + 1 .. high(i) : c = q[x]
    <3>1. low(i) \in Nat /\ high(i) \in Nat /\ low(i) <= high(i) /\ high(i) <= Len(q)
      BY <1>1, <1>5
    <3> QED BY <3>1, SubSeqPart
  <2> HIDE DEF s
  <2>2. s # << >>
    <3>1. Len(s) > 0
      BY <1>1, <2>1
    <3> QED BY <3>1
  <2>3. bs[i] = Statement("insert", s, << >>)
    BY <1>3 DEF s
  <2>4. /\ bs[i] \in Issued /\ bs[i].do = "insert" /\ bs[i].batch = s /\ bs[i].rest = << >>
    BY <2>1, <2>3, NoOne DEF Statement, Issued, Doing
  <2>5. Once(bs[i]) /\ Named(bs[i]) = ToSet(s)
    BY <2>1, <2>2, <2>4, NoOne DEF Once, Named
  <2> QED BY <2>1, <2>4, <2>5
<1>7. bs \in Seq(Issued) /\ Len(bs) = n
  BY <1>1, <1>4, <1>6
<1>8. ASSUME NEW l \in Client
      PROVE  /\ pgWork'[l] \in Seq(Issued)
             /\ \A i \in DOMAIN pgWork'[l] :
                  \/ i \in DOMAIN w[l] /\ pgWork'[l][i] = w[l][i]
                  \/ l = k /\ i - Len(w[k]) \in 1 .. n /\ pgWork'[l][i] = bs[i - Len(w[k])]
  <2>1. w[l] \in Seq(Issued) /\ DOMAIN w[l] = 1 .. Len(w[l]) /\ Len(w[l]) \in Nat
    BY DEF Works
  <2>2. CASE l = k
    <3>1. pgWork'[l] = w[k] \o bs
      BY <1>2, <2>2 DEF Works
    <3>2. /\ pgWork'[l] \in Seq(Issued) /\ Len(pgWork'[l]) = Len(w[k]) + n
          /\ \A i \in 1 .. Len(w[k]) + n :
               pgWork'[l][i] = IF i <= Len(w[k]) THEN w[k][i] ELSE bs[i - Len(w[k])]
      <4>1. w[k] \in Seq(Issued) /\ bs \in Seq(Issued) /\ Len(bs) = n
        BY <1>7, <2>1, <2>2
      <4>2. /\ w[k] \o bs \in Seq(Issued) /\ Len(w[k] \o bs) = Len(w[k]) + Len(bs)
            /\ \A i \in 1 .. Len(w[k]) + Len(bs) :
                 (w[k] \o bs)[i] = IF i <= Len(w[k]) THEN w[k][i] ELSE bs[i - Len(w[k])]
        <5>1. PICK a \in Seq(Issued) : a = w[k]
          BY <4>1
        <5>2. PICK b \in Seq(Issued) : b = bs
          BY <4>1
        <5>3. /\ a \o b \in Seq(Issued) /\ Len(a \o b) = Len(a) + Len(b)
              /\ \A i \in 1 .. Len(a) + Len(b) :
                   (a \o b)[i] = IF i <= Len(a) THEN a[i] ELSE b[i - Len(a)]
          BY ConcatProperties
        <5> QED BY <5>1, <5>2, <5>3
      <4> QED BY <3>1, <4>1, <4>2
    <3>3. DOMAIN pgWork'[l] = 1 .. Len(w[k]) + n
      BY <3>2
    <3> QED BY <1>1, <2>1, <2>2, <3>2, <3>3
  <2>3. CASE l # k
    BY <1>2, <2>1, <2>3 DEF Works
  <2> QED BY <2>2, <2>3
<1>9. pgWork' \in Works
  BY <1>2, <1>8 DEF Works
<1>10. \A i \in 1 .. n : Named(bs[i]) \subseteq ToSet(q)
  <2>1. SUFFICES ASSUME NEW i \in 1 .. n, NEW c \in Named(bs[i]) PROVE c \in ToSet(q)
    OBVIOUS
  <2>2. PICK x \in low(i) + 1 .. high(i) : c = q[x]
    BY <1>6
  <2>3. x \in DOMAIN q
    BY <1>1, <1>5, <2>2
  <2> QED BY <2>2, <2>3 DEF ToSet
<1>11. \A i, j \in 1 .. n : i # j => Disjoint(Named(bs[i]), Named(bs[j]))
  <2>1. SUFFICES ASSUME NEW i \in 1 .. n, NEW j \in 1 .. n, i # j, NEW c,
                        c \in Named(bs[i]), c \in Named(bs[j])
                 PROVE  FALSE
    BY DEF Disjoint
  <2>2. PICK x \in low(i) + 1 .. high(i) : c = q[x]
    BY <1>6, <2>1
  <2>3. PICK y \in low(j) + 1 .. high(j) : c = q[y]
    BY <1>6, <2>1
  <2>4. x \in DOMAIN q /\ y \in DOMAIN q
    BY <1>1, <1>5, <2>2, <2>3
  <2>5. x = y
    BY <2>2, <2>3, <2>4 DEF NoTwice
  <2>6. i \in Int /\ j \in Int /\ (i < j \/ j < i)
    BY <1>1, <2>1
  <2>7. /\ i < j => high(j) <= low(i)
        /\ j < i => high(i) <= low(j)
    BY <1>1
  <2> QED BY <1>1, <2>2, <2>3, <2>5, <2>6, <2>7
<1>12. Tidy(pgWork')
  <2>1. SUFFICES ASSUME NEW a \in Client, NEW b \in Client, NEW i \in DOMAIN pgWork'[a],
                        NEW j \in DOMAIN pgWork'[b], ~(a = b /\ i = j)
                 PROVE  Disjoint(Named(pgWork'[a][i]), Named(pgWork'[b][j]))
    BY DEF Tidy
  <2>2. \A c \in 1 .. n : \A l \in Client : \A x \in DOMAIN w[l] :
          /\ Disjoint(Named(w[l][x]), Named(bs[c]))
          /\ Disjoint(Named(bs[c]), Named(w[l][x]))
    BY <1>10 DEF Apart, Disjoint
  <2>3. \/ i \in DOMAIN w[a] /\ pgWork'[a][i] = w[a][i]
        \/ a = k /\ i - Len(w[k]) \in 1 .. n /\ pgWork'[a][i] = bs[i - Len(w[k])]
    BY <1>8
  <2>4. \/ j \in DOMAIN w[b] /\ pgWork'[b][j] = w[b][j]
        \/ b = k /\ j - Len(w[k]) \in 1 .. n /\ pgWork'[b][j] = bs[j - Len(w[k])]
    BY <1>8
  <2>5. i \in Int /\ j \in Int /\ Len(w[k]) \in Int
    BY <1>8 DEF Works
  <2>6. i # j => i - Len(w[k]) # j - Len(w[k])
    BY <2>5
  <2>7. CASE i \in DOMAIN w[a] /\ pgWork'[a][i] = w[a][i]
    BY <2>1, <2>2, <2>4, <2>7 DEF Tidy
  <2>8. CASE a = k /\ i - Len(w[k]) \in 1 .. n /\ pgWork'[a][i] = bs[i - Len(w[k])]
    BY <1>11, <2>1, <2>2, <2>4, <2>6, <2>8
  <2> QED BY <2>3, <2>7, <2>8
<1>13. /\ pgQueue' \in Seq(PgCall) /\ NoTwice(pgQueue')
       /\ \A c \in ToSet(pgQueue') : \E x \in taken + 1 .. Len(q) : c = q[x]
  <2>1. taken \in Nat /\ Len(q) \in Nat /\ taken <= Len(q) /\ Len(q) <= Len(q)
    BY <1>5
  <2> QED BY <1>2, <2>1, SubSeqPart
<1>14. ToSet(pgQueue') \subseteq ToSet(q)
  <2>1. \A x \in taken + 1 .. Len(q) : x \in DOMAIN q
    BY <1>5
  <2> QED BY <1>13, <2>1 DEF ToSet
<1>15. \A i \in 1 .. n : Disjoint(Named(bs[i]), ToSet(pgQueue'))
  <2>1. SUFFICES ASSUME NEW i \in 1 .. n, NEW c, c \in Named(bs[i]), c \in ToSet(pgQueue')
                 PROVE  FALSE
    BY DEF Disjoint
  <2>2. PICK x \in low(i) + 1 .. high(i) : c = q[x]
    BY <1>6, <2>1
  <2>3. PICK y \in taken + 1 .. Len(q) : c = q[y]
    BY <1>13, <2>1
  <2>4. high(i) <= taken /\ low(i) \in Nat /\ high(i) \in Nat
    BY <1>1
  <2>5. x \in DOMAIN q /\ y \in DOMAIN q /\ x # y
    BY <1>5, <2>2, <2>3, <2>4
  <2> QED BY <2>2, <2>3, <2>5 DEF NoTwice
<1>16. Apart(pgWork', ToSet(pgQueue'))
  <2>1. SUFFICES ASSUME NEW l \in Client, NEW i \in DOMAIN pgWork'[l]
                 PROVE  Disjoint(Named(pgWork'[l][i]), ToSet(pgQueue'))
    BY DEF Apart
  <2>2. CASE i \in DOMAIN w[l] /\ pgWork'[l][i] = w[l][i]
    BY <1>14, <2>2 DEF Apart, Disjoint
  <2>3. CASE l = k /\ i - Len(w[k]) \in 1 .. n /\ pgWork'[l][i] = bs[i - Len(w[k])]
    BY <1>15, <2>3
  <2> QED BY <1>8, <2>2, <2>3
<1>17. \A l \in Client : \A i \in DOMAIN pgWork'[l] :
         \/ From(w, l, pgWork'[l][i])
         \/ /\ pgWork'[l][i].do = "insert" /\ Once(pgWork'[l][i])
            /\ Named(pgWork'[l][i]) \subseteq ToSet(q)
  <2>1. SUFFICES ASSUME NEW l \in Client, NEW i \in DOMAIN pgWork'[l]
                 PROVE  \/ From(w, l, pgWork'[l][i])
                        \/ /\ pgWork'[l][i].do = "insert" /\ Once(pgWork'[l][i])
                           /\ Named(pgWork'[l][i]) \subseteq ToSet(q)
    OBVIOUS
  <2>2. CASE i \in DOMAIN w[l] /\ pgWork'[l][i] = w[l][i]
    BY <2>2 DEF From
  <2>3. CASE l = k /\ i - Len(w[k]) \in 1 .. n /\ pgWork'[l][i] = bs[i - Len(w[k])]
    BY <1>6, <1>10, <2>3
  <2> QED BY <1>8, <2>2, <2>3
<1> QED BY <1>9, <1>12, <1>13, <1>14, <1>16, <1>17

--------------------------------------------------------------------------------
(* The invariant *)

Active(c) == pgCalls[c].at \in {"beginning", "changing", "inserting", "ending"}

\* A call that runs has a client, and a client that is held is held by such a call.
Owners ==
  /\ \A c \in PgCall :
       Active(c) => pgCalls[c].client \in Client /\ clients[pgCalls[c].client].owner = c
  /\ \A k \in Client :
       clients[k].owner # Nobody =>
         Active(clients[k].owner) /\ pgCalls[clients[k].owner].client = k
  /\ \A k \in Client : /\ clients[k].owner = Nobody => clients[k].tx = "idle"
                       /\ clients[k].tx = "idle" => clients[k].rows = {}
  /\ \A c \in PgCall :
       pgCalls[c].at \in {"beginning", "changing", "inserting"} => pgCalls[c].error = "none"

\* The statement that a call waits for is the one that its stage asks for.
Stage(what, x) ==
  \/ what = "begin" /\ x.at = "beginning"
  \/ what = "change" /\ x.at = "changing"
  \/ what = "commit" /\ x.at = "ending" /\ x.error = "none"
  \/ what = "rollback" /\ x.at = "ending" /\ x.error # "none"

FitsIn(k, s, calls, held) ==
  /\ Once(s)
  /\ s.do = "insert" => \A c \in Named(s) : calls[c].at = "inserting"
  /\ s.do # "insert" =>
       \E c \in PgCall : /\ s.batch = <<c>> /\ s.rest = << >>
                         /\ calls[c].client = k /\ Stage(s.do, calls[c])
  /\ s.do = "begin" => held[k].tx = "idle"

Fits(k, s) == FitsIn(k, s, pgCalls, clients)
FitsNext(k, s) == FitsIn(k, s, pgCalls', clients')

AllFit == \A k \in Client : \A i \in DOMAIN pgWork[k] : Fits(k, pgWork[k][i])

QueueFits ==
  /\ NoTwice(pgQueue) /\ Apart(pgWork, ToSet(pgQueue))
  /\ \A c \in ToSet(pgQueue) : pgCalls[c].at = "inserting"

\* The insert of c has succeeded, as far as c knows.
Claim(c) ==
  /\ pgCalls[c].op # "update"
  /\ \/ pgCalls[c].at \in {"changing", "ok"}
     \/ pgCalls[c].at = "ending" /\ pgCalls[c].error = "none"

Carried(c) == c \in pgRows \/ \E k \in Client : c \in clients[k].rows

\* A failure of another call took the row of c along.
Excused(c) == \E d \in PgCall \ {c} : <<c, d>> \in pgTaken

Claims == \A c \in PgCall : Claim(c) => Carried(c) \/ Excused(c)

PgInv == PgTypes /\ Owners /\ Tidy(pgWork) /\ AllFit /\ QueueFits /\ Claims

--------------------------------------------------------------------------------
(* What the parts of the invariant need of a step *)

LEMMA NamedActive ==
  ASSUME PgTypes, NEW k \in Client, NEW s \in Issued, Fits(k, s), NEW c \in Named(s)
  PROVE  c \in PgCall /\ Active(c)
<1>1. c \in PgCall
  BY DEF Named, ToSet, Issued
<1>2. CASE s.do = "insert"
  BY <1>1, <1>2 DEF FitsIn, Fits, FitsNext, Active
<1>3. CASE s.do # "insert"
  <2>1. PICK d \in PgCall : /\ s.batch = <<d>> /\ s.rest = << >>
                            /\ pgCalls[d].client = k /\ Stage(s.do, pgCalls[d])
    BY <1>3 DEF FitsIn, Fits, FitsNext
  <2>2. c = d
    BY <2>1 DEF Named, ToSet
  <2> QED BY <1>1, <2>1, <2>2 DEF Stage, Active
<1> QED BY <1>2, <1>3

\* The statement that client k executes, and those that remain.
LEMMA HeadFits ==
  ASSUME PgInv, NEW k \in Client, pgWork[k] # << >>
  PROVE  /\ HeadOf(k) \in Issued /\ Fits(k, HeadOf(k))
         /\ Answered(k) \in Works /\ Tidy(Answered(k)) /\ Apart(Answered(k), Named(HeadOf(k)))
         /\ Apart(Answered(k), ToSet(pgQueue)) /\ Disjoint(Named(HeadOf(k)), ToSet(pgQueue))
         /\ \A l \in Client : \A i \in DOMAIN Answered(k)[l] :
              Answered(k)[l][i] \in Issued /\ Fits(l, Answered(k)[l][i])
<1>1. pgWork \in Works /\ Tidy(pgWork) /\ Apart(pgWork, ToSet(pgQueue))
  BY DEF PgInv, PgTypes, QueueFits
<1>2. /\ Answered(k) \in Works /\ Tidy(Answered(k)) /\ Apart(Answered(k), Named(HeadOf(k)))
      /\ 1 \in DOMAIN pgWork[k] /\ HeadOf(k) = pgWork[k][1]
      /\ \A l \in Client : \A i \in DOMAIN Answered(k)[l] :
           From(pgWork, l, Answered(k)[l][i])
  BY <1>1, AnsweredTidy
<1>3. \A l \in Client : \A i \in DOMAIN pgWork[l] : pgWork[l][i] \in Issued /\ Fits(l, pgWork[l][i])
  BY <1>1 DEF Works, PgInv, AllFit
<1>4. Apart(Answered(k), ToSet(pgQueue))
  BY <1>1, <1>2 DEF Apart, From
<1>5. Disjoint(Named(HeadOf(k)), ToSet(pgQueue))
  BY <1>1, <1>2 DEF Apart
<1>6. \A l \in Client : \A i \in DOMAIN Answered(k)[l] :
        Answered(k)[l][i] \in Issued /\ Fits(l, Answered(k)[l][i])
  BY <1>2, <1>3 DEF From
<1> QED BY <1>2, <1>3, <1>4, <1>5, <1>6

\* A statement of control belongs to the call that holds the client.
LEMMA HeadOwner ==
  ASSUME PgInv, NEW k \in Client, pgWork[k] # << >>, HeadOf(k).do # "insert"
  PROVE  LET c == HeadOf(k).batch[1]
         IN  /\ c \in PgCall /\ HeadOf(k).batch = <<c>> /\ Named(HeadOf(k)) = {c}
             /\ pgCalls[c].client = k /\ Stage(HeadOf(k).do, pgCalls[c])
             /\ Active(c) /\ clients[k].owner = c
<1>1. PICK c \in PgCall : /\ HeadOf(k).batch = <<c>> /\ HeadOf(k).rest = << >>
                          /\ pgCalls[c].client = k /\ Stage(HeadOf(k).do, pgCalls[c])
  BY HeadFits DEF FitsIn, Fits, FitsNext
<1>2. HeadOf(k).batch[1] = c /\ Named(HeadOf(k)) = {c}
  BY <1>1 DEF Named, ToSet
<1>3. Active(c)
  BY <1>1 DEF Stage, Active
<1> QED BY <1>1, <1>2, <1>3 DEF PgInv, Owners

LEMMA FitsKept ==
  ASSUME NEW k, NEW s, Fits(k, s), NEW cs, Disjoint(Named(s), cs),
         \A c \in PgCall \ cs : pgCalls'[c] = pgCalls[c], Named(s) \subseteq PgCall,
         s.do = "begin" => (clients[k].tx = "idle" => clients'[k].tx = "idle")
  PROVE  FitsNext(k, s)
<1>1. \A c \in Named(s) : pgCalls'[c] = pgCalls[c]
  BY DEF Disjoint
<1>2. (s.do = "insert" => \A c \in Named(s) : pgCalls[c].at = "inserting")'
  BY <1>1 DEF FitsIn, Fits, FitsNext
<1>3. (s.do # "insert" =>
         \E c \in PgCall : /\ s.batch = <<c>> /\ s.rest = << >>
                           /\ pgCalls[c].client = k /\ Stage(s.do, pgCalls[c]))'
  <2>1. SUFFICES ASSUME s.do # "insert"
                 PROVE  \E c \in PgCall : /\ s.batch = <<c>> /\ s.rest = << >>
                           /\ pgCalls'[c].client = k /\ Stage(s.do, pgCalls'[c])
    OBVIOUS
  <2>2. PICK c \in PgCall : /\ s.batch = <<c>> /\ s.rest = << >>
                            /\ pgCalls[c].client = k /\ Stage(s.do, pgCalls[c])
    BY <2>1 DEF FitsIn, Fits, FitsNext
  <2>3. c \in Named(s)
    BY <2>2 DEF Named, ToSet
  <2> QED BY <1>1, <2>2, <2>3
<1> QED BY <1>2, <1>3 DEF FitsIn, Fits, FitsNext

LEMMA ClaimsKept ==
  ASSUME PgInv, NEW cs, \A c \in PgCall \ cs : pgCalls'[c] = pgCalls[c],
         pgTaken \subseteq pgTaken',
         \A c \in PgCall : Claim(c)' => Claim(c) \/ Carried(c)' \/ Excused(c)',
         \A c \in PgCall : Claim(c)' /\ Carried(c) => Carried(c)' \/ Excused(c)'
  PROVE  Claims'
<1>1. \A c \in PgCall : Excused(c) => Excused(c)'
  BY DEF Excused
<1>2. \A c \in PgCall : Claim(c) => Carried(c) \/ Excused(c)
  BY DEF PgInv, Claims
<1>3. SUFFICES ASSUME NEW c \in PgCall, Claim(c)' PROVE Carried(c)' \/ Excused(c)'
  BY DEF Claims
<1> QED BY <1>1, <1>2, <1>3

\* Nobody takes or leaves a client.
LEMMA OwnersKept ==
  ASSUME PgInv, \A c \in PgCall : /\ Active(c)' <=> Active(c)
                                  /\ pgCalls'[c].client = pgCalls[c].client,
         \A k \in Client : /\ clients'[k].owner = clients[k].owner
                           /\ clients[k].owner = Nobody => clients'[k].tx = clients[k].tx
                           /\ clients'[k].tx = "idle" => clients'[k].rows = {},
         \A c \in PgCall : pgCalls'[c].at \in {"beginning", "changing", "inserting"} =>
                             pgCalls'[c].error = "none"
  PROVE  Owners'
<1>1. \A c \in PgCall : Active(c)' =>
        pgCalls'[c].client \in Client /\ clients'[pgCalls'[c].client].owner = c
  BY DEF PgInv, Owners
<1>2. \A k \in Client : clients'[k].owner # Nobody =>
        Active(clients[k].owner)' /\ pgCalls'[clients'[k].owner].client = k
  <2>1. SUFFICES ASSUME NEW k \in Client, clients[k].owner # Nobody
                 PROVE  Active(clients[k].owner)' /\ pgCalls'[clients[k].owner].client = k
    BY DEF Active
  <2>2. clients[k].owner \in PgCall
    BY <2>1 DEF PgInv, PgTypes, ClientState
  <2> QED BY <2>1, <2>2 DEF PgInv, Owners, Active
<1>3. \A k \in Client : clients'[k].owner = Nobody => clients'[k].tx = "idle"
  BY DEF PgInv, Owners
<1> QED BY <1>1, <1>2, <1>3 DEF Owners

LEMMA AllFitKept ==
  ASSUME PgInv, NEW cs, \A c \in PgCall \ cs : pgCalls'[c] = pgCalls[c], pgWork' \in Works,
         \A l \in Client : \A i \in DOMAIN pgWork'[l] :
           \/ /\ Fits(l, pgWork'[l][i]) /\ Disjoint(Named(pgWork'[l][i]), cs)
              /\ pgWork'[l][i].do = "begin" =>
                   (clients[l].tx = "idle" => clients'[l].tx = "idle")
           \/ FitsNext(l, pgWork'[l][i])
  PROVE  AllFit'
<1>1. SUFFICES ASSUME NEW l \in Client, NEW i \in DOMAIN pgWork'[l]
               PROVE  FitsNext(l, pgWork'[l][i])
  BY DEF AllFit, Fits, FitsNext
<1>2. pgWork'[l][i] \in Issued
  BY DEF Works
<1> DEFINE s == pgWork'[l][i]
<1>3. CASE /\ Fits(l, s) /\ Disjoint(Named(s), cs)
           /\ s.do = "begin" => (clients[l].tx = "idle" => clients'[l].tx = "idle")
  <2>1. Named(s) \subseteq PgCall
    BY <1>2 DEF Named, ToSet, Issued
  <2>2. PICK t : t = s
    OBVIOUS
  <2> HIDE DEF s
  <2>3. FitsNext(l, t)
    BY <1>3, <2>1, <2>2, FitsKept
  <2> QED BY <2>2, <2>3 DEF s, FitsIn, Fits, FitsNext
<1> QED BY <1>1, <1>3

\* A state of a call with other values in some fields.
LEMMA OtherState ==
  ASSUME NEW x \in CallState, NEW op \in CallOp, NEW at \in CallAt, NEW k \in CallClient,
         NEW e \in CallError, NEW n \in Nat, NEW p \in BOOLEAN
  PROVE  /\ [x EXCEPT !.op = op, !.poison = p, !.at = at, !.client = k, !.error = e] \in CallState
         /\ [x EXCEPT !.at = at] \in CallState
         /\ [x EXCEPT !.at = at, !.error = e] \in CallState
         /\ [x EXCEPT !.at = at, !.tries = n] \in CallState
<1>1. \A y \in CallState : [y EXCEPT !.at = at] \in CallState
  BY DEF CallState
<1>2. \A y \in CallState : [y EXCEPT !.poison = p] \in CallState
  BY DEF CallState
<1>3. \A y \in CallState : [y EXCEPT !.error = e] \in CallState
  BY DEF CallState
<1>4. \A y \in CallState : [y EXCEPT !.op = op] \in CallState
  BY DEF CallState
<1>5. \A y \in CallState : [y EXCEPT !.client = k] \in CallState
  BY DEF CallState
<1>6. \A y \in CallState : [y EXCEPT !.tries = n] \in CallState
  BY DEF CallState
<1>7. [x EXCEPT !.op = op, !.poison = p, !.at = at, !.client = k, !.error = e]
        = [[[[[x EXCEPT !.op = op] EXCEPT !.poison = p] EXCEPT !.at = at] EXCEPT !.client = k]
             EXCEPT !.error = e]
  OBVIOUS
<1>8. [x EXCEPT !.at = at, !.error = e] = [[x EXCEPT !.at = at] EXCEPT !.error = e]
  OBVIOUS
<1>9. [x EXCEPT !.at = at, !.tries = n] = [[x EXCEPT !.at = at] EXCEPT !.tries = n]
  OBVIOUS
<1> QED BY <1>1, <1>2, <1>3, <1>4, <1>5, <1>6, <1>7, <1>8, <1>9

LEMMA OtherClient ==
  ASSUME NEW x \in ClientState
  PROVE  /\ [x EXCEPT !.tx = "open", !.rows = {}] \in ClientState
         /\ [x EXCEPT !.tx = "aborted", !.rows = {}] \in ClientState
         /\ \A cs \in SUBSET PgCall : [x EXCEPT !.rows = cs] \in ClientState
<1>1. \A y \in ClientState, t \in {"open", "aborted"} : [y EXCEPT !.tx = t] \in ClientState
  BY DEF ClientState
<1>2. \A y \in ClientState, cs \in SUBSET PgCall : [y EXCEPT !.rows = cs] \in ClientState
  BY DEF ClientState
<1>3. \A t \in {"open", "aborted"} :
        [x EXCEPT !.tx = t, !.rows = {}] = [[x EXCEPT !.tx = t] EXCEPT !.rows = {}]
  OBVIOUS
<1> QED BY <1>1, <1>2, <1>3

LEMMA ConnectKeeps ==
  ASSUME PgAssumption, PgInv, NEW c \in PgCall, Connect(c)
  PROVE  PgInv'
<1> DEFINE s == Statement("begin", <<c>>, << >>)
<1>1. PICK k \in Client, op \in PgOps[c], poison \in BOOLEAN :
        /\ clients[k].owner = Nobody
        /\ clients' = [clients EXCEPT ![k].owner = c]
        /\ pgWork' = Issue(pgWork, k, s)
        /\ pgCalls' = [pgCalls EXCEPT ![c] = [@ EXCEPT !.op = op, !.poison = poison, !.at = "beginning",
                                                      !.client = k, !.error = "none"]]
  BY DEF Connect
<1>2. /\ UNCHANGED <<pgQueue, pgTimer, pgKicks, pgRows>> /\ pgCalls[c].at = "idle"
      /\ pgTaken' = pgTaken \ ({c} \X PgCall)
  BY DEF Connect
<1>3. /\ s \in Issued /\ Named(s) = {c} /\ Once(s) /\ s.do = "begin"
      /\ s.batch = <<c>> /\ s.rest = << >>
  BY NamedSingle DEF Doing
<1> HIDE DEF s
<1>4. /\ pgCalls \in [PgCall -> CallState] /\ clients \in [Client -> ClientState]
      /\ pgWork \in Works /\ Tidy(pgWork) /\ Owners
  BY DEF PgInv, PgTypes
<1>5. Apart(pgWork, {c})
  <2>1. SUFFICES ASSUME NEW l \in Client, NEW i \in DOMAIN pgWork[l], c \in Named(pgWork[l][i])
                 PROVE  FALSE
    BY DEF Apart, Disjoint
  <2>2. pgWork[l][i] \in Issued /\ Fits(l, pgWork[l][i])
    BY <1>4 DEF Works, PgInv, AllFit
  <2>3. PICK t \in Issued : t = pgWork[l][i]
    BY <2>2
  <2>4. Active(c)
    BY <2>1, <2>2, <2>3, NamedActive DEF PgInv
  <2> QED BY <1>2, <2>4 DEF Active
<1>6. /\ pgWork' \in Works /\ Tidy(pgWork')
      /\ \A l \in Client : \A i \in DOMAIN pgWork'[l] :
           From(pgWork, l, pgWork'[l][i]) \/ (l = k /\ pgWork'[l][i] = s)
  <2>1. Apart(pgWork, Named(s))
    BY <1>3, <1>5
  <2>2. PICK t \in Issued : t = s
    BY <1>3
  <2>3. Apart(pgWork, Named(t)) /\ pgWork' = Issue(pgWork, k, t)
    BY <1>1, <2>1, <2>2
  <2> QED BY <1>4, <2>2, <2>3, IssueTidy
<1>7. /\ pgCalls'[c].at = "beginning" /\ pgCalls'[c].client = k /\ pgCalls'[c].error = "none"
      /\ pgCalls'[c].op = op
      /\ \A d \in PgCall \ {c} : pgCalls'[d] = pgCalls[d]
  <2>1. pgCalls'[c] = [pgCalls[c] EXCEPT !.op = op, !.poison = poison, !.at = "beginning",
                                          !.client = k, !.error = "none"]
    BY <1>1, <1>4
  <2>2. pgCalls[c] \in CallState /\ \A d \in PgCall \ {c} : pgCalls'[d] = pgCalls[d]
    BY <1>1, <1>4
  <2> QED BY <2>1, <2>2 DEF CallState
<1>8. pgCalls' \in [PgCall -> CallState]
  <2>1. op \in CallOp /\ "beginning" \in CallAt /\ "none" \in CallError /\ k \in CallClient
    BY DEF PgAssumption, CallOp, CallAt, CallError, CallClient
  <2>2. [pgCalls[c] EXCEPT !.op = op, !.poison = poison, !.at = "beginning", !.client = k,
                           !.error = "none"] \in CallState
    BY <1>4, <2>1, OtherState
  <2> QED BY <1>1, <1>4, <2>2
<1>9. /\ clients' \in [Client -> ClientState]
      /\ clients'[k].owner = c /\ clients'[k].tx = clients[k].tx /\ clients'[k].rows = clients[k].rows
      /\ \A l \in Client \ {k} : clients'[l] = clients[l]
  BY <1>1, <1>4 DEF ClientState
<1>10. PgTypes'
  BY <1>2, <1>6, <1>8, <1>9 DEF PgInv, PgTypes
<1>11. Owners'
  <2>1. c # Nobody
    BY DEF PgAssumption
  <2>2. \A d \in PgCall : Active(d)' =>
          pgCalls'[d].client \in Client /\ clients'[pgCalls'[d].client].owner = d
    <3>1. SUFFICES ASSUME NEW d \in PgCall, Active(d)'
                   PROVE  pgCalls'[d].client \in Client /\ clients'[pgCalls'[d].client].owner = d
      OBVIOUS
    <3>2. CASE d = c
      BY <1>7, <1>9, <3>2
    <3>3. CASE d # c
      <4>1. pgCalls'[d] = pgCalls[d] /\ Active(d)
        BY <1>7, <3>1, <3>3 DEF Active
      <4>2. pgCalls[d].client \in Client /\ clients[pgCalls[d].client].owner = d /\ d # Nobody
        BY <1>4, <4>1 DEF Owners, PgAssumption
      <4> QED BY <1>1, <1>9, <4>1, <4>2
    <3> QED BY <3>2, <3>3
  <2>3. \A l \in Client : clients'[l].owner # Nobody =>
          Active(clients[l].owner)' /\ pgCalls'[clients'[l].owner].client = l
    <3>1. SUFFICES ASSUME NEW l \in Client, clients'[l].owner # Nobody
                   PROVE  Active(clients[l].owner)' /\ pgCalls'[clients'[l].owner].client = l
      OBVIOUS
    <3>2. CASE l = k
      BY <1>7, <1>9, <3>2 DEF Active
    <3>3. CASE l # k
      <4>1. clients'[l] = clients[l] /\ clients[l].owner # Nobody
        BY <1>9, <3>1, <3>3
      <4>2. Active(clients[l].owner) /\ clients[l].owner \in PgCall
            /\ pgCalls[clients[l].owner].client = l
        BY <1>4, <4>1 DEF Owners, ClientState
      <4>3. clients[l].owner # c
        BY <1>2, <4>2 DEF Active
      <4> QED BY <1>7, <4>1, <4>2, <4>3 DEF Active
    <3> QED BY <3>2, <3>3
  <2>4. \A l \in Client : /\ clients'[l].owner = Nobody => clients'[l].tx = "idle"
                          /\ clients'[l].tx = "idle" => clients'[l].rows = {}
    BY <1>4, <1>9, <2>1 DEF Owners
  <2>5. \A d \in PgCall : pgCalls'[d].at \in {"beginning", "changing", "inserting"} =>
          pgCalls'[d].error = "none"
    BY <1>4, <1>7 DEF Owners
  <2> QED BY <2>2, <2>3, <2>4, <2>5 DEF Owners
<1>12. AllFit'
  <2>1. FitsNext(k, s)
    <3>1. clients'[k].tx = "idle"
      BY <1>1, <1>4, <1>9 DEF Owners
    <3>2. Stage(s.do, pgCalls'[c])
      BY <1>3, <1>7 DEF Stage
    <3> QED BY <1>3, <1>7, <3>1, <3>2 DEF FitsIn, Fits, FitsNext
  <2>2. \A l \in Client : clients[l].tx = "idle" => clients'[l].tx = "idle"
    BY <1>9
  <2>3. \A l \in Client : \A i \in DOMAIN pgWork'[l] :
           \/ /\ Fits(l, pgWork'[l][i]) /\ Disjoint(Named(pgWork'[l][i]), {c})
              /\ pgWork'[l][i].do = "begin" =>
                   (clients[l].tx = "idle" => clients'[l].tx = "idle")
           \/ FitsNext(l, pgWork'[l][i])
    <3>1. SUFFICES ASSUME NEW l \in Client, NEW i \in DOMAIN pgWork'[l],
                          From(pgWork, l, pgWork'[l][i])
                   PROVE  Fits(l, pgWork'[l][i]) /\ Disjoint(Named(pgWork'[l][i]), {c})
      BY <1>6, <2>1, <2>2
    <3> QED BY <1>5, <3>1 DEF PgInv, AllFit, From, Apart
  <2> QED BY <1>6, <1>7, <2>3, AllFitKept
<1>13. QueueFits'
  <2>1. c \notin ToSet(pgQueue) /\ ToSet(pgQueue) \subseteq PgCall
    BY <1>2 DEF PgInv, PgTypes, QueueFits, ToSet
  <2>2. Apart(pgWork', ToSet(pgQueue'))
    BY <1>2, <1>3, <1>6, <2>1 DEF PgInv, QueueFits, Apart, From, Disjoint
  <2> QED BY <1>2, <1>7, <2>1, <2>2 DEF PgInv, QueueFits
<1>14. Claims'
  <2>1. \A d \in PgCall : Claim(d)' => Claim(d)
    BY <1>7 DEF Claim
  <2>2. \A d \in PgCall : Carried(d) => Carried(d)'
    BY <1>2, <1>9 DEF Carried
  <2>3. \A d \in PgCall \ {c} : Excused(d) => Excused(d)'
    BY <1>2 DEF Excused
  <2>4. \A d \in PgCall : Claim(d)' => d # c
    BY <1>7 DEF Claim
  <2> QED BY <2>1, <2>2, <2>3, <2>4 DEF PgInv, Claims
<1> QED BY <1>6, <1>10, <1>11, <1>12, <1>13, <1>14 DEF PgInv

\* Statements that remain behind the one that client k has executed.
LEMMA RestFits ==
  ASSUME PgInv, NEW k \in Client, pgWork[k] # << >>,
         \A c \in PgCall \ Named(HeadOf(k)) : pgCalls'[c] = pgCalls[c],
         \A l \in Client : \/ clients[l].tx = "idle" => clients'[l].tx = "idle"
                           \/ l = k /\ HeadOf(k).do # "insert"
  PROVE  \A l \in Client : \A i \in DOMAIN Answered(k)[l] : FitsNext(l, Answered(k)[l][i])
<1>1. SUFFICES ASSUME NEW l \in Client, NEW i \in DOMAIN Answered(k)[l]
               PROVE  FitsNext(l, Answered(k)[l][i])
  OBVIOUS
<1>2. PICK t \in Issued : t = Answered(k)[l][i]
  BY HeadFits
<1>3. Fits(l, t) /\ Disjoint(Named(t), Named(HeadOf(k)))
  BY <1>2, HeadFits DEF Apart
<1>4. Named(t) \subseteq PgCall
  BY DEF Named, ToSet, Issued
<1>5. l = k /\ HeadOf(k).do # "insert" => t.do # "begin"
  <2>1. SUFFICES ASSUME l = k, HeadOf(k).do # "insert", t.do = "begin" PROVE FALSE
    OBVIOUS
  <2>2. PICK d \in PgCall : /\ t.batch = <<d>> /\ pgCalls[d].client = l /\ Stage("begin", pgCalls[d])
    BY <1>3, <2>1 DEF FitsIn, Fits
  <2>3. Active(d) /\ d \in Named(t)
    BY <2>2 DEF Stage, Active, Named, ToSet
  <2>4. clients[k].owner = d
    BY <2>1, <2>2, <2>3 DEF PgInv, Owners
  <2>5. d \in Named(HeadOf(k))
    BY <2>1, <2>4, HeadOwner
  <2> QED BY <1>3, <2>3, <2>5 DEF Disjoint
<1>6. FitsNext(l, t)
  BY <1>3, <1>4, <1>5, FitsKept
<1> QED BY <1>2, <1>6

LEMMA AllFitFrom ==
  ASSUME NEW w, \A l \in Client : \A i \in DOMAIN w[l] : FitsNext(l, w[l][i]),
         \A l \in Client : \A i \in DOMAIN pgWork'[l] :
           From(w, l, pgWork'[l][i]) \/ FitsNext(l, pgWork'[l][i])
  PROVE  AllFit'
  BY DEF From, AllFit, Fits, FitsNext

LEMMA AppendQueue ==
  ASSUME NEW q \in Seq(PgCall), NoTwice(q), NEW c \in PgCall, c \notin ToSet(q)
  PROVE  /\ Append(q, c) \in Seq(PgCall) /\ NoTwice(Append(q, c))
         /\ ToSet(Append(q, c)) = ToSet(q) \cup {c}
<1>1. /\ Append(q, c) \in Seq(PgCall) /\ Len(Append(q, c)) = Len(q) + 1
      /\ \A i \in 1 .. Len(q) : Append(q, c)[i] = q[i]
      /\ Append(q, c)[Len(q) + 1] = c
  BY AppendProperties
<1>2. DOMAIN Append(q, c) = 1 .. Len(q) + 1 /\ DOMAIN q = 1 .. Len(q) /\ Len(q) \in Nat
  BY <1>1
<1>3. \A i \in DOMAIN Append(q, c) : \/ i \in DOMAIN q /\ Append(q, c)[i] = q[i]
                                     \/ i = Len(q) + 1 /\ Append(q, c)[i] = c
  BY <1>1, <1>2
<1>4. \A i \in DOMAIN q : q[i] # c /\ i \in DOMAIN Append(q, c)
  BY <1>2 DEF ToSet
<1>5. NoTwice(Append(q, c))
  BY <1>3, <1>4 DEF NoTwice
<1>6. ToSet(Append(q, c)) = ToSet(q) \cup {c}
  <2>1. Len(q) + 1 \in DOMAIN Append(q, c)
    BY <1>2
  <2> HIDE DEF ToSet
  <2>2. \A x : x \in ToSet(Append(q, c)) => x \in ToSet(q) \cup {c}
    BY <1>3 DEF ToSet
  <2>3. \A x : x \in ToSet(q) \cup {c} => x \in ToSet(Append(q, c))
    BY <1>1, <1>2, <1>4, <2>1 DEF ToSet
  <2> QED BY <2>2, <2>3
<1> QED BY <1>1, <1>5, <1>6

LEMMA BeginKeeps ==
  ASSUME PgAssumption, PgInv, NEW k \in Client, Begin(k)
  PROVE  PgInv'
<1> DEFINE c == HeadOf(k).batch[1]
           w == Answered(k)
<1>1. /\ pgWork[k] # << >> /\ HeadOf(k).do = "begin"
      /\ clients' = [clients EXCEPT ![k].tx = "open", ![k].rows = {}]
      /\ UNCHANGED <<pgKicks, pgRows, pgTaken>>
      /\ \/ /\ pgCalls[c].op = "update"
            /\ pgWork' = Issue(w, k, Statement("change", <<c>>, << >>))
            /\ pgCalls' = [pgCalls EXCEPT ![c].at = "changing"]
            /\ UNCHANGED <<pgQueue, pgTimer>>
         \/ /\ pgCalls[c].op # "update"
            /\ Enqueue(w, c, k)
            /\ pgCalls' = [pgCalls EXCEPT ![c].at = "inserting"]
  BY DEF Begin, Executes
<1>2. /\ c \in PgCall /\ Named(HeadOf(k)) = {c} /\ pgCalls[c].client = k
      /\ pgCalls[c].at = "beginning" /\ Active(c) /\ clients[k].owner = c
  BY <1>1, HeadOwner DEF Stage
<1>3. /\ pgCalls \in [PgCall -> CallState] /\ clients \in [Client -> ClientState]
      /\ pgWork \in Works /\ pgQueue \in Seq(PgCall) /\ Owners
      /\ NoTwice(pgQueue) /\ \A d \in ToSet(pgQueue) : pgCalls[d].at = "inserting"
  BY DEF PgInv, PgTypes, QueueFits
<1>4. /\ w \in Works /\ Tidy(w) /\ Apart(w, {c}) /\ Apart(w, ToSet(pgQueue))
      /\ c \notin ToSet(pgQueue) /\ HeadOf(k) \in Issued
      /\ Fits(k, HeadOf(k))
  BY <1>1, <1>2, HeadFits DEF Disjoint
<1>5. clients[k].tx = "idle" /\ clients[k].rows = {} /\ pgCalls[c].error = "none" /\ c # Nobody
  BY <1>1, <1>2, <1>3, <1>4 DEF FitsIn, Fits, Owners, PgAssumption
<1> HIDE DEF c, w
<1>6. PICK x \in {"changing", "inserting"} : /\ pgCalls' = [pgCalls EXCEPT ![c].at = x]
                                             /\ x = "changing" => pgCalls[c].op = "update"
                                             /\ x = "changing" <=> pgCalls[c].op = "update"
  BY <1>1
<1>7. /\ pgCalls'[c] = [pgCalls[c] EXCEPT !.at = x] /\ pgCalls'[c].at = x
      /\ pgCalls'[c].client = pgCalls[c].client /\ pgCalls'[c].error = pgCalls[c].error
      /\ pgCalls'[c].op = pgCalls[c].op
      /\ \A d \in PgCall \ {c} : pgCalls'[d] = pgCalls[d]
  BY <1>2, <1>3, <1>6 DEF CallState
<1>8. pgCalls' \in [PgCall -> CallState]
  <2>1. x \in CallAt
    BY DEF CallAt
  <2>2. [pgCalls[c] EXCEPT !.at = x] \in CallState
    BY <1>2, <1>3, <2>1 DEF CallState
  <2> QED BY <1>2, <1>3, <1>6, <2>2
<1>9. /\ clients' \in [Client -> ClientState]
      /\ clients'[k].owner = c /\ clients'[k].tx = "open" /\ clients'[k].rows = {}
      /\ \A l \in Client \ {k} : clients'[l] = clients[l]
  <2>1. clients[k] \in ClientState
    BY <1>3
  <2>2. PICK y \in ClientState : y = [clients[k] EXCEPT !.tx = "open", !.rows = {}]
    BY <2>1, OtherClient
  <2>3. y.owner = c /\ y.tx = "open" /\ y.rows = {}
    BY <1>2, <2>1, <2>2 DEF ClientState
  <2>4. clients' = [clients EXCEPT ![k] = y]
    BY <1>1, <2>2
  <2> QED BY <1>3, <2>3, <2>4
<1>10. Owners'
  <2>1. \A d \in PgCall : /\ Active(d)' <=> Active(d)
                          /\ pgCalls'[d].client = pgCalls[d].client
    BY <1>2, <1>7 DEF Active
  <2>2. \A l \in Client : /\ clients'[l].owner = clients[l].owner
                          /\ clients[l].owner = Nobody => clients'[l].tx = clients[l].tx
                          /\ clients'[l].tx = "idle" => clients'[l].rows = {}
    BY <1>2, <1>3, <1>5, <1>9 DEF Owners
  <2>3. \A d \in PgCall : pgCalls'[d].at \in {"beginning", "changing", "inserting"} =>
          pgCalls'[d].error = "none"
    BY <1>3, <1>5, <1>7 DEF Owners
  <2> QED BY <2>1, <2>2, <2>3, OwnersKept
<1>11. Claims'
  <2>1. \A d \in PgCall : Claim(d)' => Claim(d)
    BY <1>6, <1>7 DEF Claim
  <2>2. \A d \in PgCall : Carried(d) => Carried(d)'
    BY <1>1, <1>5, <1>9 DEF Carried
  <2>3. pgTaken \subseteq pgTaken'
    BY <1>1
  <2> QED BY <1>7, <2>1, <2>2, <2>3, ClaimsKept
<1>12. \A l \in Client : \A i \in DOMAIN w[l] : FitsNext(l, w[l][i])
  <2>1. \A d \in PgCall \ Named(HeadOf(k)) : pgCalls'[d] = pgCalls[d]
    BY <1>2, <1>7
  <2>2. \A l \in Client : \/ clients[l].tx = "idle" => clients'[l].tx = "idle"
                          \/ l = k /\ HeadOf(k).do # "insert"
    BY <1>1, <1>9
  <2> QED BY <1>1, <2>1, <2>2, RestFits DEF w
<1>13. CASE x = "changing"
  <2>1. /\ pgWork' = Issue(w, k, Statement("change", <<c>>, << >>))
        /\ UNCHANGED <<pgQueue, pgTimer>>
    BY <1>1, <1>6, <1>13
  <2>2. PICK s \in Issued : /\ s = Statement("change", <<c>>, << >>) /\ Named(s) = {c}
                            /\ Once(s) /\ s.do = "change" /\ s.batch = <<c>> /\ s.rest = << >>
    BY <1>2, NamedSingle DEF Doing
  <2>3. Apart(w, Named(s)) /\ pgWork' = Issue(w, k, s)
    BY <1>4, <2>1, <2>2
  <2>4. /\ pgWork' \in Works /\ Tidy(pgWork')
        /\ \A l \in Client : \A i \in DOMAIN pgWork'[l] :
             From(w, l, pgWork'[l][i]) \/ (l = k /\ pgWork'[l][i] = s)
    BY <1>4, <2>3, IssueTidy
  <2>5. FitsNext(k, s)
    <3>1. Stage(s.do, pgCalls'[c])
      BY <1>7, <1>13, <2>2 DEF Stage
    <3> QED BY <1>2, <1>7, <2>2, <3>1 DEF FitsIn, FitsNext
  <2>6. AllFit'
    BY <1>12, <2>4, <2>5, AllFitFrom
  <2>7. QueueFits'
    <3>1. Disjoint(Named(s), ToSet(pgQueue))
      BY <1>4, <2>2 DEF Disjoint
    <3>2. Apart(pgWork', ToSet(pgQueue))
      BY <1>4, <2>4, <3>1 DEF Apart, From
    <3>3. \A d \in ToSet(pgQueue) : d \in PgCall /\ d # c
      BY <1>3, <1>4 DEF ToSet
    <3> QED BY <1>3, <1>7, <2>1, <3>2, <3>3 DEF QueueFits
  <2>8. PgTypes'
    BY <1>1, <1>8, <1>9, <2>1, <2>4 DEF PgInv, PgTypes
  <2> QED BY <1>10, <1>11, <2>4, <2>6, <2>7, <2>8 DEF PgInv
<1>14. CASE x = "inserting"
  <2> DEFINE q == Append(pgQueue, c)
  <2>1. /\ q \in Seq(PgCall) /\ NoTwice(q) /\ ToSet(q) = ToSet(pgQueue) \cup {c}
    BY <1>2, <1>3, <1>4, AppendQueue
  <2>2. Enqueue(w, c, k)
    BY <1>1, <1>6, <1>14
  <2> HIDE DEF q
  <2>3. Apart(w, ToSet(q))
    BY <1>4, <2>1 DEF Apart, Disjoint
  <2>4. \A d \in ToSet(q) : d \in PgCall /\ pgCalls'[d].at = "inserting"
    <3>1. \A d \in ToSet(pgQueue) : d \in PgCall /\ d # c /\ pgCalls[d].at = "inserting"
      BY <1>3, <1>4 DEF ToSet
    <3>2. pgCalls'[c].at = "inserting"
      BY <1>7, <1>14
    <3>3. \A d \in ToSet(pgQueue) : d \in PgCall /\ pgCalls'[d].at = "inserting"
      BY <1>7, <3>1
    <3>4. \A d \in ToSet(q) : d = c \/ d \in ToSet(pgQueue)
      BY <2>1
    <3>5. c \in PgCall
      BY <1>2
    <3> QED BY <3>2, <3>3, <3>4, <3>5
  <2>5. pgTimer' \in Client \cup {Nobody}
    BY <2>2 DEF Enqueue, PgInv, PgTypes
  <2>6. CASE Len(q) >= FlushThreshold
    <3>1. FlushOn(w, q, k)
      BY <2>2, <2>6 DEF Enqueue, q
    <3>2. /\ pgWork' \in Works /\ Tidy(pgWork')
          /\ pgQueue' \in Seq(PgCall) /\ NoTwice(pgQueue')
          /\ ToSet(pgQueue') \subseteq ToSet(q) /\ Apart(pgWork', ToSet(pgQueue'))
          /\ \A l \in Client : \A i \in DOMAIN pgWork'[l] :
               \/ From(w, l, pgWork'[l][i])
               \/ /\ pgWork'[l][i].do = "insert" /\ Once(pgWork'[l][i])
                  /\ Named(pgWork'[l][i]) \subseteq ToSet(q)
      BY <1>3, <1>4, <2>1, <2>3, <3>1, FlushTidy
    <3>3. AllFit'
      <4>1. \A l \in Client : \A i \in DOMAIN pgWork'[l] :
              /\ pgWork'[l][i].do = "insert" /\ Once(pgWork'[l][i])
              /\ Named(pgWork'[l][i]) \subseteq ToSet(q)
              => FitsNext(l, pgWork'[l][i])
        BY <2>4 DEF FitsIn, FitsNext
      <4> QED BY <1>12, <3>2, <4>1, AllFitFrom
    <3>4. QueueFits'
      BY <2>4, <3>2 DEF QueueFits
    <3>5. PgTypes'
      BY <1>1, <1>8, <1>9, <2>5, <3>2 DEF PgInv, PgTypes
    <3> QED BY <1>10, <1>11, <3>2, <3>3, <3>4, <3>5 DEF PgInv
  <2>7. CASE ~(Len(q) >= FlushThreshold)
    <3>1. pgWork' = w /\ pgQueue' = q
      BY <2>2, <2>7 DEF Enqueue, q
    <3>2. AllFit'
      BY <1>12, <3>1 DEF AllFit, Fits, FitsNext
    <3>3. QueueFits'
      BY <2>1, <2>3, <2>4, <3>1 DEF QueueFits
    <3>4. PgTypes'
      BY <1>1, <1>4, <1>8, <1>9, <2>1, <2>5, <3>1 DEF PgInv, PgTypes
    <3> QED BY <1>4, <1>10, <1>11, <3>1, <3>2, <3>3, <3>4 DEF PgInv
  <2> QED BY <2>6, <2>7
<1> QED BY <1>13, <1>14

\* The call that holds client k has come to its end.
LEMMA EndKeeps ==
  ASSUME PgAssumption, PgInv, NEW k \in Client, pgWork[k] # << >>, HeadOf(k).do # "insert",
         NEW c \in PgCall, c = HeadOf(k).batch[1],
         clients' = Released(k), pgWork' = Answered(k), UNCHANGED <<pgQueue, pgTimer, pgKicks>>,
         pgRows' \subseteq PgCall, pgCalls' \in [PgCall -> CallState],
         \A d \in PgCall \ {c} : pgCalls'[d] = pgCalls[d],
         pgCalls'[c].at \in {"idle", "ok", "merged", "failed"}, Claims'
  PROVE  PgInv'
<1>1. /\ Named(HeadOf(k)) = {c} /\ pgCalls[c].client = k /\ Active(c) /\ clients[k].owner = c
  BY HeadOwner
<1>2. /\ clients \in [Client -> ClientState] /\ pgCalls \in [PgCall -> CallState] /\ Owners
      /\ \A d \in ToSet(pgQueue) : pgCalls[d].at = "inserting" /\ d \in PgCall
      /\ NoTwice(pgQueue) /\ pgQueue \in Seq(PgCall)
  BY DEF PgInv, PgTypes, QueueFits, ToSet
<1>3. /\ Answered(k) \in Works /\ Tidy(Answered(k)) /\ Apart(Answered(k), ToSet(pgQueue))
      /\ c \notin ToSet(pgQueue)
  BY <1>1, HeadFits DEF Disjoint
<1>4. /\ clients' \in [Client -> ClientState]
      /\ clients'[k].owner = Nobody /\ clients'[k].tx = "idle" /\ clients'[k].rows = {}
      /\ \A l \in Client \ {k} : clients'[l] = clients[l]
  BY <1>2 DEF Released, ClientState
<1>5. ~Active(c)'
  BY DEF Active
<1>6. PgTypes'
  BY <1>3, <1>4 DEF PgInv, PgTypes
<1>7. Owners'
  <2>1. \A d \in PgCall : Active(d)' =>
          pgCalls'[d].client \in Client /\ clients'[pgCalls'[d].client].owner = d
    <3>1. SUFFICES ASSUME NEW d \in PgCall, Active(d)'
                   PROVE  pgCalls'[d].client \in Client /\ clients'[pgCalls'[d].client].owner = d
      OBVIOUS
    <3>2. d # c /\ pgCalls'[d] = pgCalls[d]
      BY <1>5, <3>1
    <3>3. pgCalls[d].client \in Client /\ clients[pgCalls[d].client].owner = d
      BY <1>2, <3>1, <3>2 DEF Owners, Active
    <3>4. pgCalls[d].client # k
      BY <1>1, <3>2, <3>3
    <3> QED BY <1>4, <3>2, <3>3, <3>4
  <2>2. \A l \in Client : clients'[l].owner # Nobody =>
          Active(clients[l].owner)' /\ pgCalls'[clients'[l].owner].client = l
    <3>1. SUFFICES ASSUME NEW l \in Client, clients'[l].owner # Nobody
                   PROVE  Active(clients[l].owner)' /\ pgCalls'[clients'[l].owner].client = l
      OBVIOUS
    <3>2. l # k /\ clients'[l] = clients[l]
      BY <1>4, <3>1
    <3>3. /\ clients[l].owner \in PgCall /\ Active(clients[l].owner)
          /\ pgCalls[clients[l].owner].client = l
      BY <1>2, <3>1, <3>2 DEF Owners, ClientState
    <3>4. clients[l].owner # c
      BY <1>1, <3>2, <3>3
    <3> QED BY <3>2, <3>3, <3>4 DEF Active
  <2>3. \A l \in Client : /\ clients'[l].owner = Nobody => clients'[l].tx = "idle"
                          /\ clients'[l].tx = "idle" => clients'[l].rows = {}
    BY <1>2, <1>4 DEF Owners
  <2>4. \A d \in PgCall : pgCalls'[d].at \in {"beginning", "changing", "inserting"} =>
          pgCalls'[d].error = "none"
    <3>1. SUFFICES ASSUME NEW d \in PgCall,
                          pgCalls'[d].at \in {"beginning", "changing", "inserting"}
                   PROVE  pgCalls'[d].error = "none"
      OBVIOUS
    <3>2. d # c
      BY <3>1
    <3> QED BY <1>2, <3>1, <3>2 DEF Owners
  <2> QED BY <2>1, <2>2, <2>3, <2>4 DEF Owners
<1>8. AllFit'
  <2>1. \A d \in PgCall \ Named(HeadOf(k)) : pgCalls'[d] = pgCalls[d]
    BY <1>1
  <2>2. \A l \in Client : clients[l].tx = "idle" => clients'[l].tx = "idle"
    BY <1>4
  <2>3. \A l \in Client : \A i \in DOMAIN Answered(k)[l] : FitsNext(l, Answered(k)[l][i])
    BY <2>1, <2>2, RestFits
  <2> QED BY <2>3 DEF AllFit, Fits, FitsNext
<1>9. QueueFits'
  <2>1. \A d \in ToSet(pgQueue) : pgCalls'[d].at = "inserting"
    BY <1>2, <1>3
  <2> QED BY <1>2, <1>3, <2>1 DEF QueueFits
<1> QED BY <1>3, <1>6, <1>7, <1>8, <1>9 DEF PgInv

LEMMA CommitKeeps ==
  ASSUME PgAssumption, PgInv, NEW k \in Client, Commit(k)
  PROVE  PgInv'
<1> DEFINE c == HeadOf(k).batch[1]
<1>1. /\ pgWork[k] # << >> /\ HeadOf(k).do = "commit"
      /\ pgCalls' = [pgCalls EXCEPT ![c].at = "ok"]
      /\ pgRows' = pgRows \cup clients[k].rows
      /\ clients' = Released(k) /\ pgWork' = Answered(k)
      /\ UNCHANGED <<pgQueue, pgTimer, pgKicks, pgTaken>>
  BY DEF Commit, Executes
<1>2. /\ c \in PgCall /\ pgCalls[c].at = "ending" /\ pgCalls[c].error = "none"
  BY <1>1, HeadOwner DEF Stage
<1>3. /\ pgCalls \in [PgCall -> CallState] /\ clients \in [Client -> ClientState]
      /\ pgRows \subseteq PgCall
  BY DEF PgInv, PgTypes
<1> HIDE DEF c
<1>4. /\ pgCalls'[c] = [pgCalls[c] EXCEPT !.at = "ok"]
      /\ pgCalls'[c].at = "ok" /\ pgCalls'[c].op = pgCalls[c].op
  BY <1>1, <1>2, <1>3 DEF CallState
<1>5. \A d \in PgCall \ {c} : pgCalls'[d] = pgCalls[d]
  BY <1>1, <1>3
<1>6. pgCalls' \in [PgCall -> CallState]
  <2>1. "ok" \in CallAt
    BY DEF CallAt
  <2>2. [pgCalls[c] EXCEPT !.at = "ok"] \in CallState
    BY <1>2, <1>3, <2>1 DEF CallState
  <2> QED BY <1>1, <1>2, <1>3, <2>2
<1>7. pgRows' \subseteq PgCall
  BY <1>1, <1>3 DEF ClientState
<1>8. Claims'
  <2>1. \A d \in PgCall : Claim(d)' => Claim(d)
    BY <1>2, <1>4, <1>5 DEF Claim
  <2>2. \A d \in PgCall : Carried(d) => Carried(d)'
    <3>1. \A l \in Client \ {k} : clients'[l] = clients[l]
      BY <1>1, <1>3 DEF Released
    <3> QED BY <1>1, <3>1 DEF Carried
  <2>3. pgTaken \subseteq pgTaken'
    BY <1>1
  <2> QED BY <1>5, <2>1, <2>2, <2>3, ClaimsKept
<1> QED BY <1>1, <1>2, <1>4, <1>5, <1>6, <1>7, <1>8, EndKeeps DEF c

\* What a failure of the calls of ds undoes on client k is known to be taken along.
LEMMA TakenKeeps ==
  ASSUME PgInv, NEW k \in Client, NEW ds \in SUBSET PgCall, TakenAlong(k, ds),
         \A l \in Client \ {k} : clients'[l] = clients[l], UNCHANGED pgRows,
         \A e \in PgCall : Claim(e)' => Claim(e) /\ \E d \in ds : d # e
  PROVE  Claims'
<1>1. SUFFICES ASSUME NEW e \in PgCall, Claim(e)' PROVE Carried(e)' \/ Excused(e)'
  BY DEF Claims
<1>2. Carried(e) \/ Excused(e)
  BY <1>1 DEF PgInv, Claims
<1>3. PICK d \in ds : d # e
  BY <1>1
<1>4. pgTaken' = pgTaken \cup (clients[k].rows \X ds)
  BY DEF TakenAlong
<1>5. CASE Excused(e)
  BY <1>4, <1>5 DEF Excused
<1>6. CASE e \in clients[k].rows
  BY <1>3, <1>4, <1>6 DEF Excused
<1>7. CASE Carried(e) /\ e \notin clients[k].rows
  BY <1>7 DEF Carried
<1> QED BY <1>2, <1>5, <1>6, <1>7

\* A call that rolls back may take the rows of others along.
LEMMA RollbackKeeps ==
  ASSUME PgAssumption, PgInv, NEW k \in Client, Rollback(k)
  PROVE  PgInv'
<1> DEFINE c == HeadOf(k).batch[1]
           n == IF AfterRollback(c) = "idle" THEN pgCalls[c].tries + 1 ELSE pgCalls[c].tries
<1>1. /\ pgWork[k] # << >> /\ HeadOf(k).do = "rollback" /\ UNCHANGED pgRows
      /\ clients' = Released(k) /\ pgWork' = Answered(k)
      /\ UNCHANGED <<pgQueue, pgTimer, pgKicks>> /\ TakenAlong(k, ToSet(HeadOf(k).batch))
  BY DEF Rollback, Executes
<1>2. c \in PgCall /\ HeadOf(k).batch = <<c>>
  BY <1>1, HeadOwner
<1>3. /\ pgCalls \in [PgCall -> CallState] /\ clients \in [Client -> ClientState]
      /\ pgRows \subseteq PgCall
  BY DEF PgInv, PgTypes
<1>4. AfterRollback(c) \in {"idle", "merged", "failed"}
  BY DEF AfterRollback
<1>5. PICK x \in {"idle", "merged", "failed"} : x = AfterRollback(c)
  BY <1>4
<1>6. PICK m \in Nat : m = n
  BY <1>2, <1>3 DEF CallState
<1>7. pgCalls' = [pgCalls EXCEPT ![c] = [pgCalls[c] EXCEPT !.at = x, !.tries = m]]
  BY <1>2, <1>3, <1>5, <1>6 DEF Rollback, CallState
<1> HIDE DEF c, n
<1>8. /\ pgCalls'[c] = [pgCalls[c] EXCEPT !.at = x, !.tries = m]
      /\ \A d \in PgCall \ {c} : pgCalls'[d] = pgCalls[d]
  BY <1>2, <1>3, <1>7
<1>9. pgCalls'[c].at = x
  BY <1>2, <1>3, <1>8 DEF CallState
<1>10. pgCalls' \in [PgCall -> CallState]
  <2>1. x \in CallAt
    BY DEF CallAt
  <2>2. [pgCalls[c] EXCEPT !.at = x, !.tries = m] \in CallState
    <3>1. PICK y \in CallState : y = pgCalls[c]
      BY <1>2, <1>3
    <3>2. \A z \in CallState : [z EXCEPT !.at = x] \in CallState
      BY <2>1 DEF CallState
    <3>3. \A z \in CallState : [z EXCEPT !.tries = m] \in CallState
      BY DEF CallState
    <3>4. [y EXCEPT !.at = x, !.tries = m] = [[y EXCEPT !.at = x] EXCEPT !.tries = m]
      OBVIOUS
    <3> QED BY <3>1, <3>2, <3>3, <3>4
  <2> QED BY <1>2, <1>3, <1>7, <2>2
<1>11. Claims'
  <2>1. \A d \in PgCall : Claim(d)' => Claim(d)
    BY <1>8, <1>9 DEF Claim
  <2>2. \A d \in PgCall : Claim(d)' => d # c
    BY <1>9 DEF Claim
  <2>3. ToSet(HeadOf(k).batch) = {c}
    BY <1>2 DEF ToSet
  <2>4. \A l \in Client \ {k} : clients'[l] = clients[l]
    BY <1>1, <1>3 DEF Released
  <2>5. TakenAlong(k, {c}) /\ {c} \in SUBSET PgCall
    BY <1>1, <1>2, <2>3
  <2>6. \A e \in PgCall : Claim(e)' => Claim(e) /\ \E d \in {c} : d # e
    BY <2>1, <2>2
  <2> QED BY <1>1, <2>4, <2>5, <2>6, TakenKeeps
<1>12. pgRows' \subseteq PgCall
  BY <1>1, <1>3
<1> QED BY <1>1, <1>2, <1>8, <1>9, <1>10, <1>11, <1>12, EndKeeps DEF c

LEMMA FlushKeeps ==
  ASSUME PgAssumption, PgInv, NEW k \in Client, FlushOn(pgWork, pgQueue, k),
         UNCHANGED <<pgCalls, clients, pgRows, pgTaken>>, pgTimer' \in Client \cup {Nobody},
         pgKicks' \subseteq Client
  PROVE  PgInv'
<1>1. /\ pgWork \in Works /\ Tidy(pgWork) /\ pgQueue \in Seq(PgCall) /\ NoTwice(pgQueue)
      /\ Apart(pgWork, ToSet(pgQueue)) /\ \A c \in ToSet(pgQueue) : pgCalls[c].at = "inserting"
  BY DEF PgInv, PgTypes, QueueFits
<1>2. /\ pgWork' \in Works /\ Tidy(pgWork')
      /\ pgQueue' \in Seq(PgCall) /\ NoTwice(pgQueue')
      /\ ToSet(pgQueue') \subseteq ToSet(pgQueue) /\ Apart(pgWork', ToSet(pgQueue'))
      /\ \A l \in Client : \A i \in DOMAIN pgWork'[l] :
           \/ From(pgWork, l, pgWork'[l][i])
           \/ /\ pgWork'[l][i].do = "insert" /\ Once(pgWork'[l][i])
              /\ Named(pgWork'[l][i]) \subseteq ToSet(pgQueue)
  BY <1>1, FlushTidy
<1>3. PgTypes'
  BY <1>2 DEF PgInv, PgTypes
<1>4. Owners'
  BY DEF PgInv, Owners, Active
<1>5. AllFit'
  <2>1. \A l \in Client : \A i \in DOMAIN pgWork[l] : FitsNext(l, pgWork[l][i])
    BY DEF PgInv, AllFit, Fits, FitsNext
  <2>2. \A l \in Client : \A i \in DOMAIN pgWork'[l] :
          /\ pgWork'[l][i].do = "insert" /\ Once(pgWork'[l][i])
          /\ Named(pgWork'[l][i]) \subseteq ToSet(pgQueue)
          => FitsNext(l, pgWork'[l][i])
    BY <1>1 DEF FitsIn, FitsNext
  <2> QED BY <1>2, <2>1, <2>2, AllFitFrom
<1>6. QueueFits'
  BY <1>1, <1>2 DEF QueueFits
<1>7. Claims'
  BY DEF PgInv, Claims, Claim, Carried, Excused
<1> QED BY <1>2, <1>3, <1>4, <1>5, <1>6, <1>7 DEF PgInv

LEMMA FlushTimerKeeps ==
  ASSUME PgAssumption, PgInv, FlushTimer
  PROVE  PgInv'
<1>1. pgTimer \in Client /\ FlushOn(pgWork, pgQueue, pgTimer)
  BY DEF FlushTimer, PgInv, PgTypes
<1>2. pgTimer' \in Client \cup {Nobody} /\ pgKicks' \subseteq Client
  BY DEF FlushTimer, PgInv, PgTypes
<1> QED BY <1>1, <1>2, FlushKeeps DEF FlushTimer

LEMMA FlushKickKeeps ==
  ASSUME PgAssumption, PgInv, FlushKick
  PROVE  PgInv'
<1>1. PICK k \in pgKicks : FlushOn(pgWork, pgQueue, k) /\ pgKicks' = pgKicks \ {k}
  BY DEF FlushKick
<1>2. k \in Client /\ pgKicks' \subseteq Client
  BY <1>1 DEF PgInv, PgTypes
<1>3. pgTimer' \in Client \cup {Nobody}
  BY DEF FlushKick
<1> QED BY <1>1, <1>2, <1>3, FlushKeeps DEF FlushKick

\* A failed statement on client k leaves the client with who holds it.
LEMMA AbortedKeeps ==
  ASSUME PgInv, NEW k \in Client, clients' = Aborted(k)
  PROVE  /\ clients' \in [Client -> ClientState]
         /\ \A l \in Client : /\ clients'[l].owner = clients[l].owner
                              /\ clients[l].owner = Nobody => clients'[l].tx = clients[l].tx
                              /\ clients'[l].tx = "idle" <=> clients[l].tx = "idle"
                              /\ clients'[l].tx = "idle" => clients'[l].rows = {}
                              /\ l # k => clients'[l] = clients[l]
<1>1. clients \in [Client -> ClientState] /\ Owners
  BY DEF PgInv, PgTypes
<1>2. clients[k] \in ClientState /\ \A l \in Client \ {k} : clients'[l] = clients[l]
  BY <1>1 DEF Aborted
<1>3. CASE clients[k].tx = "idle"
  <2>1. clients' = clients
    BY <1>1, <1>3 DEF Aborted
  <2> QED BY <1>1, <2>1 DEF Owners
<1>4. CASE clients[k].tx # "idle"
  <2>1. PICK y \in ClientState : y = [clients[k] EXCEPT !.tx = "aborted", !.rows = {}]
    BY <1>2, OtherClient
  <2>2. y.owner = clients[k].owner /\ y.tx = "aborted" /\ y.rows = {}
    BY <1>2, <2>1 DEF ClientState
  <2>3. clients' = [clients EXCEPT ![k] = y]
    BY <1>1, <1>4, <2>1 DEF Aborted
  <2>4. clients[k].owner # Nobody
    BY <1>1, <1>4 DEF Owners
  <2> QED BY <1>1, <1>2, <1>4, <2>2, <2>3, <2>4 DEF Owners
<1> QED BY <1>3, <1>4

\* What a step adds its statements to.
Spare(w, cs) ==
  /\ w \in Works /\ Tidy(w) /\ Apart(w, cs) /\ Apart(w, ToSet(pgQueue))
  /\ \A l \in Client : \A i \in DOMAIN w[l] : Fits(l, w[l][i])

LEMMA SpareNext ==
  ASSUME NEW w, NEW cs, Spare(w, cs), \A c \in PgCall \ cs : pgCalls'[c] = pgCalls[c],
         \A l \in Client : clients[l].tx = "idle" => clients'[l].tx = "idle"
  PROVE  \A l \in Client : \A i \in DOMAIN w[l] : FitsNext(l, w[l][i])
<1>1. SUFFICES ASSUME NEW l \in Client, NEW i \in DOMAIN w[l] PROVE FitsNext(l, w[l][i])
  OBVIOUS
<1>2. PICK s \in Issued : s = w[l][i]
  BY DEF Spare, Works
<1>3. Fits(l, s) /\ Disjoint(Named(s), cs) /\ Named(s) \subseteq PgCall
  BY <1>2 DEF Spare, Apart, Named, ToSet, Issued
<1>4. FitsNext(l, s)
  BY <1>3, FitsKept
<1> QED BY <1>2, <1>4

\* A call whose statement on client k failed gives up.
LEMMA GiveUpKeeps ==
  ASSUME PgAssumption, PgInv, NEW k \in Client, NEW c \in PgCall, NEW w, Spare(w, {c}),
         c \notin ToSet(pgQueue), Active(c), NEW err \in CallError \ {"none"},
         GiveUp(w, c, err), clients' = Aborted(k), UNCHANGED <<pgQueue, pgTimer, pgRows>>,
         TakenAlong(k, {c}), pgKicks' \subseteq Client
  PROVE  PgInv'
<1> DEFINE s == Statement("rollback", <<c>>, << >>)
           l == pgCalls[c].client
<1>1. /\ pgCalls' = [pgCalls EXCEPT ![c] = [@ EXCEPT !.at = "ending", !.error = err]]
      /\ pgWork' = Issue(w, l, s)
  BY DEF GiveUp
<1>2. /\ s \in Issued /\ Named(s) = {c} /\ Once(s) /\ s.do = "rollback"
      /\ s.batch = <<c>> /\ s.rest = << >>
  BY NamedSingle DEF Doing
<1> HIDE DEF s
<1>3. /\ pgCalls \in [PgCall -> CallState] /\ Owners /\ l \in Client
      /\ \A d \in ToSet(pgQueue) : pgCalls[d].at = "inserting" /\ d \in PgCall
      /\ NoTwice(pgQueue) /\ pgQueue \in Seq(PgCall)
  BY DEF PgInv, PgTypes, QueueFits, Owners, ToSet
<1> HIDE DEF l
<1>4. /\ pgCalls'[c] = [pgCalls[c] EXCEPT !.at = "ending", !.error = err]
      /\ \A d \in PgCall \ {c} : pgCalls'[d] = pgCalls[d]
  BY <1>1, <1>3
<1>5. /\ pgCalls'[c].at = "ending" /\ pgCalls'[c].error = err
      /\ pgCalls'[c].client = pgCalls[c].client
  BY <1>3, <1>4 DEF CallState
<1>6. pgCalls' \in [PgCall -> CallState]
  <2>1. "ending" \in CallAt /\ pgCalls[c] \in CallState /\ err \in CallError
    BY <1>3 DEF CallAt
  <2>2. [pgCalls[c] EXCEPT !.at = "ending", !.error = err] \in CallState
    <3>1. \A y \in CallState : [y EXCEPT !.at = "ending"] \in CallState
      BY <2>1 DEF CallState
    <3>2. \A y \in CallState : [y EXCEPT !.error = err] \in CallState
      BY DEF CallState
    <3>3. [pgCalls[c] EXCEPT !.at = "ending", !.error = err]
            = [[pgCalls[c] EXCEPT !.at = "ending"] EXCEPT !.error = err]
      OBVIOUS
    <3> QED BY <2>1, <3>1, <3>2, <3>3
  <2> QED BY <1>1, <1>3, <2>2
<1>7. /\ clients' \in [Client -> ClientState]
      /\ \A m \in Client : /\ clients'[m].owner = clients[m].owner
                           /\ clients[m].owner = Nobody => clients'[m].tx = clients[m].tx
                           /\ clients'[m].tx = "idle" <=> clients[m].tx = "idle"
                           /\ clients'[m].tx = "idle" => clients'[m].rows = {}
                           /\ m # k => clients'[m] = clients[m]
  BY AbortedKeeps
<1>8. /\ pgWork' \in Works /\ Tidy(pgWork')
      /\ \A m \in Client : \A i \in DOMAIN pgWork'[m] :
           From(w, m, pgWork'[m][i]) \/ (m = l /\ pgWork'[m][i] = s)
  <2>1. Apart(w, Named(s))
    BY <1>2 DEF Spare
  <2>2. PICK t \in Issued : t = s
    BY <1>2
  <2>3. PICK v \in Works : v = w
    BY DEF Spare
  <2>4. Apart(v, Named(t)) /\ pgWork' = Issue(v, l, t) /\ Tidy(v)
    BY <1>1, <2>1, <2>2, <2>3 DEF Spare
  <2> QED BY <1>3, <2>2, <2>3, <2>4, IssueTidy
<1>9. PgTypes'
  BY <1>6, <1>7, <1>8 DEF PgInv, PgTypes
<1>10. Owners'
  <2>1. \A d \in PgCall : /\ Active(d)' <=> Active(d)
                          /\ pgCalls'[d].client = pgCalls[d].client
    BY <1>4, <1>5 DEF Active
  <2>2. \A d \in PgCall : pgCalls'[d].at \in {"beginning", "changing", "inserting"} =>
          pgCalls'[d].error = "none"
    BY <1>3, <1>4, <1>5 DEF Owners
  <2> QED BY <1>7, <2>1, <2>2, OwnersKept
<1>11. AllFit'
  <2>1. FitsNext(l, s)
    <3>1. Stage(s.do, pgCalls'[c])
      BY <1>2, <1>5 DEF Stage
    <3> QED BY <1>2, <1>5, <3>1 DEF FitsIn, FitsNext, l
  <2>2. \A m \in Client : \A i \in DOMAIN w[m] : FitsNext(m, w[m][i])
    BY <1>4, <1>7, SpareNext
  <2> QED BY <1>8, <2>1, <2>2, AllFitFrom
<1>12. QueueFits'
  <2>1. \A d \in ToSet(pgQueue) : pgCalls'[d].at = "inserting"
    BY <1>3, <1>4
  <2>2. Disjoint(Named(s), ToSet(pgQueue))
    BY <1>2 DEF Disjoint
  <2>3. Apart(pgWork', ToSet(pgQueue))
    BY <1>8, <2>2 DEF Apart, From, Spare
  <2> QED BY <1>3, <2>1, <2>3 DEF QueueFits
<1>13. Claims'
  <2>1. ~Claim(c)'
    BY <1>5 DEF Claim
  <2>2. \A d \in PgCall : Claim(d)' => Claim(d) /\ \E x \in {c} : x # d
    BY <1>4, <2>1 DEF Claim
  <2>3. \A m \in Client \ {k} : clients'[m] = clients[m]
    BY <1>7
  <2> QED BY <2>2, <2>3, TakenKeeps
<1> QED BY <1>8, <1>9, <1>10, <1>11, <1>12, <1>13 DEF PgInv

GoneOn(w, cs, f) ==
  /\ pgCalls' = [c \in PgCall |->
                   IF c \in cs THEN [pgCalls[c] EXCEPT !.at = AtOf(f[c])] ELSE pgCalls[c]]
  /\ pgWork' = [k \in Client |->
                  IF \E c \in cs : pgCalls[c].client = k
                  THEN Append(w[k], LET c == CHOOSE c \in cs : pgCalls[c].client = k
                                    IN  Statement(f[c], <<c>>, << >>))
                  ELSE w[k]]

\* The calls of cs go on, and nobody takes or leaves a client.
LEMMA GoOnKeeps ==
  ASSUME PgAssumption, PgInv, NEW cs \in SUBSET PgCall, NEW w, Spare(w, cs),
         Disjoint(cs, ToSet(pgQueue)),
         NEW f \in [PgCall -> {"change", "commit"}],
         \A c \in cs : Active(c) /\ pgCalls[c].error = "none",
         GoneOn(w, cs, f),
         clients' \in [Client -> ClientState],
         \A l \in Client : /\ clients'[l].owner = clients[l].owner
                           /\ clients'[l].tx = clients[l].tx
                           /\ clients'[l].tx = "idle" => clients'[l].rows = {},
         UNCHANGED <<pgQueue, pgTimer>>, pgRows' \subseteq PgCall, pgKicks' \subseteq Client,
         Claims'
  PROVE  PgInv'
<1>1. /\ pgCalls \in [PgCall -> CallState] /\ Owners
      /\ \A d \in ToSet(pgQueue) : pgCalls[d].at = "inserting" /\ d \in PgCall
      /\ NoTwice(pgQueue) /\ pgQueue \in Seq(PgCall)
  BY DEF PgInv, PgTypes, QueueFits, ToSet
<1>2. \A c \in PgCall \ cs : pgCalls'[c] = pgCalls[c]
  BY DEF GoneOn
<1>3. \A c \in cs : /\ pgCalls'[c].at = AtOf(f[c]) /\ pgCalls'[c].error = "none"
                    /\ pgCalls'[c].client = pgCalls[c].client
  BY <1>1 DEF CallState, GoneOn
<1>4. \A c \in cs : \/ f[c] = "change" /\ AtOf(f[c]) = "changing"
                    \/ f[c] = "commit" /\ AtOf(f[c]) = "ending"
  <2>1. AtOf("change") = "changing" /\ AtOf("commit") = "ending"
    BY DEF AtOf
  <2> QED BY <2>1
<1>5. pgCalls' \in [PgCall -> CallState]
  <2>1. \A c \in cs : AtOf(f[c]) \in CallAt
    BY <1>4 DEF CallAt
  <2>2. \A y \in CallState, x \in CallAt : [y EXCEPT !.at = x] \in CallState
    BY DEF CallState
  <2>3. \A c \in cs : [pgCalls[c] EXCEPT !.at = AtOf(f[c])] \in CallState
    BY <1>1, <2>1, <2>2
  <2> QED BY <1>1, <2>3 DEF GoneOn
<1>6. Going(w, cs, f, pgWork')
  <2>1. \A c \in cs : pgCalls[c].client \in Client
    BY <1>1 DEF Owners
  <2>2. \A c, d \in cs : pgCalls[c].client = pgCalls[d].client => c = d
    BY <1>1 DEF Owners
  <2> QED BY <2>1, <2>2 DEF Going, Spare, GoneOn
<1>7. /\ pgWork' \in Works /\ Tidy(pgWork')
      /\ \A l \in Client : \A i \in DOMAIN pgWork'[l] :
           \/ From(w, l, pgWork'[l][i])
           \/ \E c \in cs : pgCalls[c].client = l /\ pgWork'[l][i] = About(f[c], c)
  <2>1. PICK v : v = pgWork'
    OBVIOUS
  <2>2. Going(w, cs, f, v)
    BY <1>6, <2>1
  <2>3. /\ v \in Works /\ Tidy(v)
        /\ \A l \in Client : \A i \in DOMAIN v[l] :
             \/ From(w, l, v[l][i])
             \/ \E c \in cs : pgCalls[c].client = l /\ v[l][i] = About(f[c], c)
    BY <2>2, GoOnTidy
  <2> QED BY <2>1, <2>3
<1>8. \A c \in cs : /\ Named(About(f[c], c)) = {c}
                    /\ FitsNext(pgCalls[c].client, About(f[c], c))
  <2>1. SUFFICES ASSUME NEW c \in cs, NEW s, s = About(f[c], c)
                 PROVE  Named(s) = {c} /\ FitsNext(pgCalls[c].client, s)
    OBVIOUS
  <2>2. f[c] \in Doing
    BY <1>4 DEF Doing
  <2>3. Named(s) = {c} /\ Once(s) /\ s.do = f[c] /\ s.batch = <<c>> /\ s.rest = << >>
    BY <2>1, <2>2, NamedSingle DEF About
  <2>4. Stage(s.do, pgCalls'[c])
    BY <1>3, <1>4, <2>3 DEF Stage
  <2> QED BY <1>3, <1>4, <2>3, <2>4 DEF FitsIn, FitsNext
<1>9. PgTypes'
  BY <1>5, <1>7 DEF PgInv, PgTypes
<1>10. Owners'
  <2>1. \A d \in PgCall : /\ Active(d)' <=> Active(d)
                          /\ pgCalls'[d].client = pgCalls[d].client
    <3>1. \A d \in cs : Active(d)'
      BY <1>3, <1>4 DEF Active
    <3> QED BY <1>2, <1>3, <3>1 DEF Active
  <2>2. \A d \in PgCall : pgCalls'[d].at \in {"beginning", "changing", "inserting"} =>
          pgCalls'[d].error = "none"
    BY <1>1, <1>2, <1>3 DEF Owners
  <2> QED BY <2>1, <2>2, OwnersKept
<1>11. AllFit'
  <2>1. \A l \in Client : \A i \in DOMAIN w[l] : FitsNext(l, w[l][i])
    BY <1>2, SpareNext
  <2>2. \A l \in Client : \A i \in DOMAIN pgWork'[l] :
          From(w, l, pgWork'[l][i]) \/ FitsNext(l, pgWork'[l][i])
    <3>1. SUFFICES ASSUME NEW l \in Client, NEW i \in DOMAIN pgWork'[l],
                          ~From(w, l, pgWork'[l][i])
                   PROVE  FitsNext(l, pgWork'[l][i])
      OBVIOUS
    <3>2. PICK c \in cs : pgCalls[c].client = l /\ pgWork'[l][i] = About(f[c], c)
      BY <1>7, <3>1
    <3>3. FitsNext(pgCalls[c].client, About(f[c], c))
      BY <1>8
    <3> QED BY <3>2, <3>3
  <2> QED BY <2>1, <2>2, AllFitFrom
<1>12. QueueFits'
  <2>1. \A d \in ToSet(pgQueue) : pgCalls'[d].at = "inserting"
    BY <1>1, <1>2 DEF Disjoint
  <2>2. Apart(pgWork', ToSet(pgQueue))
    <3>1. SUFFICES ASSUME NEW l \in Client, NEW i \in DOMAIN pgWork'[l]
                   PROVE  Disjoint(Named(pgWork'[l][i]), ToSet(pgQueue))
      BY DEF Apart
    <3>2. CASE From(w, l, pgWork'[l][i])
      BY <3>2 DEF From, Spare, Apart
    <3>3. CASE \E c \in cs : pgWork'[l][i] = About(f[c], c)
      <4>1. PICK c \in cs : pgWork'[l][i] = About(f[c], c)
        BY <3>3
      <4>2. Named(pgWork'[l][i]) = {c}
        BY <1>8, <4>1
      <4> QED BY <4>2 DEF Disjoint
    <3> QED BY <1>7, <3>2, <3>3
  <2> QED BY <1>1, <2>1, <2>2 DEF QueueFits
<1> QED BY <1>7, <1>9, <1>10, <1>11, <1>12 DEF PgInv

LEMMA ChangeKeeps ==
  ASSUME PgAssumption, PgInv, NEW k \in Client, Change(k)
  PROVE  PgInv'
<1> DEFINE c == HeadOf(k).batch[1]
           err == IF pgCalls[c].op = "update" THEN UpdateRefusal(k) ELSE ArchiveRefusal(k, c)
<1>1. /\ pgWork[k] # << >> /\ HeadOf(k).do = "change"
      /\ UNCHANGED <<pgQueue, pgTimer, pgKicks, pgRows>>
      /\ IF err = "none"
         THEN GoOn(Answered(k), {c}, LAMBDA x : "commit") /\ UNCHANGED <<clients, pgTaken>>
         ELSE GiveUp(Answered(k), c, err) /\ clients' = Aborted(k) /\ TakenAlong(k, {c})
  BY DEF Change, Executes
<1>2. /\ c \in PgCall /\ Named(HeadOf(k)) = {c} /\ pgCalls[c].at = "changing" /\ Active(c)
  BY <1>1, HeadOwner DEF Stage
<1>3. Spare(Answered(k), {c}) /\ c \notin ToSet(pgQueue)
  BY <1>1, <1>2, HeadFits DEF Spare, Disjoint
<1>4. /\ pgCalls \in [PgCall -> CallState] /\ clients \in [Client -> ClientState]
      /\ pgRows \subseteq PgCall /\ pgKicks \subseteq Client /\ Owners
  BY DEF PgInv, PgTypes
<1>5. PICK w : w = Answered(k)
  OBVIOUS
<1>6. CASE err = "none"
  <2> DEFINE f == [d \in PgCall |-> "commit"]
  <2>1. UNCHANGED <<clients, pgTaken>> /\ GoOn(w, {c}, LAMBDA x : "commit")
    BY <1>1, <1>5, <1>6
  <2> HIDE DEF c, err
  <2>2. GoneOn(w, {c}, f)
    BY <1>2, <2>1 DEF GoOn, GoneOn
  <2>3. f \in [PgCall -> {"change", "commit"}] /\ f[c] = "commit"
    BY <1>2
  <2> HIDE DEF f
  <2>4. pgCalls[c].error = "none"
    BY <1>2, <1>4 DEF Owners
  <2>5. /\ \A d \in PgCall \ {c} : pgCalls'[d] = pgCalls[d]
        /\ pgCalls'[c] = [pgCalls[c] EXCEPT !.at = AtOf(f[c])]
    BY <1>2, <2>2 DEF GoneOn
  <2>6. pgCalls'[c].op = pgCalls[c].op
    BY <1>2, <1>4, <2>5 DEF CallState
  <2>7. Claims'
    <3>1. \A d \in PgCall : Claim(d)' => Claim(d)
      BY <1>2, <2>5, <2>6 DEF Claim
    <3>2. \A d \in PgCall : Carried(d) => Carried(d)'
      BY <1>1, <2>1 DEF Carried
    <3>3. pgTaken \subseteq pgTaken'
      BY <2>1
    <3> QED BY <2>5, <3>1, <3>2, <3>3, ClaimsKept
  <2>8. /\ clients' \in [Client -> ClientState]
        /\ \A l \in Client : /\ clients'[l].owner = clients[l].owner
                             /\ clients'[l].tx = clients[l].tx
                             /\ clients'[l].tx = "idle" => clients'[l].rows = {}
    BY <1>4, <2>1 DEF Owners
  <2>9. Disjoint({c}, ToSet(pgQueue)) /\ {c} \in SUBSET PgCall
    BY <1>2, <1>3 DEF Disjoint
  <2>10. \A d \in {c} : Active(d) /\ pgCalls[d].error = "none"
    BY <1>2, <2>4
  <2>11. pgRows' \subseteq PgCall /\ pgKicks' \subseteq Client
    BY <1>1, <1>4
  <2>12. Spare(w, {c})
    BY <1>3, <1>5
  <2> QED BY <1>1, <2>2, <2>3, <2>7, <2>8, <2>9, <2>10, <2>11, <2>12, GoOnKeeps
<1>7. CASE err # "none"
  <2>1. GiveUp(Answered(k), c, err) /\ clients' = Aborted(k) /\ TakenAlong(k, {c})
    BY <1>1, <1>7
  <2>2. err \in CallError \ {"none"}
    BY <1>7 DEF UpdateRefusal, ArchiveRefusal, CallError
  <2>3. pgKicks' \subseteq Client
    BY <1>1, <1>4
  <2> HIDE DEF c, err
  <2> QED BY <1>1, <1>2, <1>3, <2>1, <2>2, <2>3, GiveUpKeeps
<1> QED BY <1>6, <1>7

\* The rows of a batch that are still to be tried, one by one.
LEMMA OneByOne ==
  ASSUME PgInv, NEW k \in Client, pgWork[k] # << >>, HeadOf(k).do = "insert",
         NEW cs \in SUBSET Named(HeadOf(k)),
         NEW more \in Seq(PgCall), NoTwice(more), more # << >>,
         ToSet(more) \subseteq Named(HeadOf(k)) \ cs
  PROVE  Spare(Issue(Answered(k), k, Statement("insert", <<Head(more)>>, Tail(more))), cs)
<1> DEFINE s == Statement("insert", <<Head(more)>>, Tail(more))
           w == Answered(k)
           v == Issue(w, k, s)
<1>1. /\ HeadOf(k) \in Issued /\ Fits(k, HeadOf(k))
      /\ w \in Works /\ Tidy(w) /\ Apart(w, Named(HeadOf(k)))
      /\ Apart(w, ToSet(pgQueue)) /\ Disjoint(Named(HeadOf(k)), ToSet(pgQueue))
      /\ \A l \in Client : \A i \in DOMAIN w[l] : Fits(l, w[l][i])
  BY HeadFits
<1>2. /\ Head(more) \in PgCall /\ Tail(more) \in Seq(PgCall) /\ NoTwice(Tail(more))
      /\ Head(more) \notin ToSet(Tail(more)) /\ Head(more) \in ToSet(more)
      /\ ToSet(Tail(more)) \subseteq ToSet(more)
  <2>1. DOMAIN more = 1 .. Len(more) /\ Len(more) \in Nat /\ Len(more) > 0
    BY EmptySeq
  <2>2. /\ Head(more) = more[1] /\ more[1] \in PgCall /\ Tail(more) \in Seq(PgCall)
        /\ Len(Tail(more)) = Len(more) - 1
        /\ \A i \in 1 .. Len(Tail(more)) : Tail(more)[i] = more[i + 1]
    BY <2>1, HeadTailProperties
  <2>3. DOMAIN Tail(more) = 1 .. Len(more) - 1
    BY <2>2
  <2>4. \A i \in DOMAIN Tail(more) :
          /\ i \in Nat /\ i + 1 \in DOMAIN more /\ i + 1 # 1 /\ Tail(more)[i] = more[i + 1]
    BY <2>1, <2>2, <2>3
  <2>5. 1 \in DOMAIN more
    BY <2>1
  <2>6. Head(more) \in ToSet(more) /\ ToSet(Tail(more)) \subseteq ToSet(more)
    BY <2>2, <2>4, <2>5 DEF ToSet
  <2>7. Head(more) \notin ToSet(Tail(more))
    BY <2>2, <2>4, <2>5 DEF ToSet, NoTwice
  <2>8. NoTwice(Tail(more))
    <3>1. SUFFICES ASSUME NEW i \in DOMAIN Tail(more), NEW j \in DOMAIN Tail(more),
                          Tail(more)[i] = Tail(more)[j]
                   PROVE  i = j
      BY DEF NoTwice
    <3>2. i + 1 = j + 1
      BY <2>4, <3>1 DEF NoTwice
    <3> QED BY <2>4, <3>2
  <2> QED BY <2>2, <2>6, <2>7, <2>8
<1>3. /\ s \in Issued /\ Named(s) = {Head(more)} \cup ToSet(Tail(more)) /\ Once(s)
      /\ s.do = "insert"
  <2>1. "insert" \in Doing
    BY DEF Doing
  <2>2. PICK c \in PgCall : c = Head(more)
    BY <1>2
  <2>3. PICK t \in Seq(PgCall) : t = Tail(more)
    BY <1>2
  <2>4. s = Statement("insert", <<c>>, t)
    BY <2>2, <2>3
  <2> HIDE DEF s
  <2>5. /\ s \in Issued /\ Named(s) = {c} \cup ToSet(t) /\ s.do = "insert"
        /\ NoTwice(t) /\ c \notin ToSet(t) => Once(s)
    BY <2>1, <2>4, NamedOne
  <2> QED BY <1>2, <2>2, <2>3, <2>5
<1> HIDE DEF s
<1>4. Named(s) \subseteq Named(HeadOf(k)) \ cs
  BY <1>2, <1>3
<1>5. Apart(w, Named(s)) /\ Apart(w, cs)
  BY <1>1, <1>4 DEF Apart, Disjoint
<1> HIDE DEF w
<1>6. /\ v \in Works /\ Tidy(v)
      /\ \A l \in Client : \A i \in DOMAIN v[l] :
           From(w, l, v[l][i]) \/ (l = k /\ v[l][i] = s)
  <2>1. PICK t \in Issued : t = s
    BY <1>3
  <2>2. PICK u \in Works : u = w
    BY <1>1
  <2>3. Tidy(u) /\ Apart(u, Named(t)) /\ v = Issue(u, k, t)
    BY <1>1, <1>5, <2>1, <2>2
  <2> HIDE DEF v
  <2> QED BY <2>1, <2>2, <2>3, IssueTidy
<1> HIDE DEF v
<1>7. Fits(k, s)
  <2>1. \A c \in Named(HeadOf(k)) : pgCalls[c].at = "inserting"
    BY <1>1 DEF Fits, FitsIn
  <2> QED BY <1>3, <1>4, <2>1 DEF Fits, FitsIn
<1>8. /\ \A l \in Client : \A i \in DOMAIN v[l] : Fits(l, v[l][i])
      /\ Apart(v, cs) /\ Apart(v, ToSet(pgQueue))
  <2>1. Disjoint(Named(s), cs) /\ Disjoint(Named(s), ToSet(pgQueue))
    BY <1>1, <1>4 DEF Disjoint
  <2>2. SUFFICES ASSUME NEW l \in Client, NEW i \in DOMAIN v[l]
                 PROVE  /\ Fits(l, v[l][i]) /\ Disjoint(Named(v[l][i]), cs)
                        /\ Disjoint(Named(v[l][i]), ToSet(pgQueue))
    BY DEF Apart
  <2>3. CASE From(w, l, v[l][i])
    BY <1>1, <1>5, <2>3 DEF From, Apart, w
  <2>4. CASE l = k /\ v[l][i] = s
    BY <1>7, <2>1, <2>4
  <2> QED BY <1>6, <2>3, <2>4
<1>9. Spare(v, cs)
  BY <1>6, <1>8 DEF Spare
<1> QED BY <1>9 DEF v, w, s

LEMMA InsertSucceedsKeeps ==
  ASSUME PgAssumption, PgInv, NEW k \in Client, InsertSucceeds(k)
  PROVE  PgInv'
<1> DEFINE s == HeadOf(k)
           cs == ToSet(s.batch)
           w == IF s.rest = << >> THEN Answered(k)
                ELSE Issue(Answered(k), k, Statement("insert", <<Head(s.rest)>>, Tail(s.rest)))
           f == [c \in PgCall |-> Proceed(c)]
<1>1. /\ pgWork[k] # << >> /\ s.do = "insert" /\ UNCHANGED <<pgQueue, pgTimer, pgTaken>>
      /\ IF clients[k].tx = "idle" THEN pgRows' = pgRows \cup cs /\ UNCHANGED clients
         ELSE /\ clients' = [clients EXCEPT ![k].rows = @ \cup cs]
              /\ UNCHANGED pgRows
      /\ GoOn(w, cs, Proceed) /\ pgKicks' \in {pgKicks, pgKicks \cup {k}}
  BY DEF InsertSucceeds, Executes, FlushEnds
<1>2. /\ s \in Issued /\ Once(s) /\ \A c \in Named(s) : pgCalls[c].at = "inserting"
      /\ Apart(Answered(k), Named(s)) /\ Disjoint(Named(s), ToSet(pgQueue))
      /\ Answered(k) \in Works /\ Tidy(Answered(k)) /\ Apart(Answered(k), ToSet(pgQueue))
      /\ \A l \in Client : \A i \in DOMAIN Answered(k)[l] : Fits(l, Answered(k)[l][i])
  BY <1>1, HeadFits DEF Fits, FitsIn
<1>3. /\ pgCalls \in [PgCall -> CallState] /\ clients \in [Client -> ClientState]
      /\ pgRows \subseteq PgCall /\ pgKicks \subseteq Client /\ Owners
  BY DEF PgInv, PgTypes
<1>4. /\ cs \subseteq Named(s) /\ cs \in SUBSET PgCall /\ ToSet(s.rest) \subseteq Named(s) \ cs
      /\ NoTwice(s.rest) /\ s.rest \in Seq(PgCall) /\ Disjoint(cs, ToSet(pgQueue))
  <2>1. s.batch \in Seq(PgCall) /\ s.rest \in Seq(PgCall)
    BY <1>2 DEF Issued
  <2>2. cs \in SUBSET PgCall
    BY <2>1 DEF ToSet
  <2>3. cs \subseteq Named(s) /\ ToSet(s.rest) \subseteq Named(s) \ cs /\ NoTwice(s.rest)
    BY <1>2 DEF Named, Once
  <2> QED BY <1>2, <2>1, <2>2, <2>3 DEF Disjoint
<1>5. Spare(w, cs)
  <2>1. CASE s.rest = << >>
    <3>1. Apart(Answered(k), cs)
      BY <1>2, <1>4 DEF Apart, Disjoint
    <3> QED BY <1>2, <2>1, <3>1 DEF Spare
  <2>2. CASE s.rest # << >>
    BY <1>1, <1>4, <2>2, OneByOne
  <2> QED BY <2>1, <2>2
<1>6. GoneOn(w, cs, f)
  <2>1. PICK u : u = w
    OBVIOUS
  <2>2. PICK ds \in SUBSET PgCall : ds = cs
    BY <1>4
  <2>3. GoOn(u, ds, Proceed)
    BY <1>1, <2>1, <2>2
  <2> HIDE DEF w, cs, s
  <2>4. \A c \in ds : f[c] = Proceed(c)
    OBVIOUS
  <2> HIDE DEF f
  <2>5. pgCalls' = [c \in PgCall |->
                      IF c \in ds THEN [pgCalls[c] EXCEPT !.at = AtOf(f[c])] ELSE pgCalls[c]]
    BY <2>3, <2>4 DEF GoOn
  <2>6. pgWork' = [l \in Client |->
                     IF \E c \in ds : pgCalls[c].client = l
                     THEN Append(u[l], LET c == CHOOSE c \in ds : pgCalls[c].client = l
                                       IN  Statement(f[c], <<c>>, << >>))
                     ELSE u[l]]
    <3> DEFINE one(l) == CHOOSE c \in ds : pgCalls[c].client = l
    <3>1. \A l \in Client : (\E c \in ds : pgCalls[c].client = l) => f[one(l)] = Proceed(one(l))
      BY <2>4
    <3> QED BY <2>3, <3>1 DEF GoOn
  <2> QED BY <2>1, <2>2, <2>5, <2>6 DEF GoneOn
<1>7. f \in [PgCall -> {"change", "commit"}]
  BY DEF Proceed
<1> HIDE DEF s, cs, w, f
<1>8. \A c \in cs : Active(c) /\ pgCalls[c].error = "none"
  BY <1>2, <1>3, <1>4 DEF Active, Owners
<1>9. /\ clients' \in [Client -> ClientState]
      /\ \A l \in Client : /\ clients'[l].owner = clients[l].owner
                           /\ clients'[l].tx = clients[l].tx
                           /\ clients[l].rows \subseteq clients'[l].rows
                           /\ clients'[l].tx = "idle" => clients'[l].rows = {}
      /\ clients[k].tx # "idle" => cs \subseteq clients'[k].rows
  <2>1. CASE clients[k].tx = "idle"
    BY <1>1, <1>3, <2>1 DEF Owners
  <2>2. CASE clients[k].tx # "idle"
    <3>1. clients' = [clients EXCEPT ![k].rows = @ \cup cs]
      BY <1>1, <2>2
    <3>2. clients[k] \in ClientState /\ clients[k].rows \cup cs \in SUBSET PgCall
      BY <1>3, <1>4 DEF ClientState
    <3>3. PICK y \in ClientState : y = [clients[k] EXCEPT !.rows = clients[k].rows \cup cs]
      BY <3>2, OtherClient
    <3>4. /\ y.owner = clients[k].owner /\ y.tx = clients[k].tx
          /\ y.rows = clients[k].rows \cup cs
      BY <3>2, <3>3 DEF ClientState
    <3>5. clients' = [clients EXCEPT ![k] = y]
      BY <3>1, <3>3
    <3> QED BY <1>3, <2>2, <3>4, <3>5 DEF Owners
  <2> QED BY <2>1, <2>2
<1>10. /\ pgRows \subseteq pgRows' /\ pgRows' \subseteq PgCall
       /\ \A c \in cs : Carried(c)'
  BY <1>1, <1>3, <1>4, <1>9 DEF Carried
<1>11. pgKicks' \subseteq Client
  BY <1>1, <1>3
<1>12. Claims'
  <2>1. \A c \in PgCall \ cs : pgCalls'[c] = pgCalls[c]
    BY <1>6 DEF GoneOn
  <2>2. pgTaken \subseteq pgTaken'
    BY <1>1
  <2>3. \A c \in PgCall : Carried(c) => Carried(c)'
    BY <1>9, <1>10 DEF Carried
  <2>4. \A c \in PgCall : Claim(c)' => Claim(c) \/ Carried(c)'
    BY <1>10, <2>1 DEF Claim
  <2> QED BY <2>1, <2>2, <2>3, <2>4, ClaimsKept
<1>13. UNCHANGED <<pgQueue, pgTimer>>
  BY <1>1
<1>14. \A l \in Client : /\ clients'[l].owner = clients[l].owner
                         /\ clients'[l].tx = clients[l].tx
                         /\ clients'[l].tx = "idle" => clients'[l].rows = {}
  BY <1>9
<1> QED BY <1>4, <1>5, <1>6, <1>7, <1>8, <1>9, <1>10, <1>11, <1>12, <1>13, <1>14, GoOnKeeps

\* The rows of a batch are tried again; what the transaction held is gone.
LEMMA RetryKeeps ==
  ASSUME PgAssumption, PgInv, NEW k \in Client, NEW cs \in SUBSET PgCall, Spare(pgWork', {}),
         NEW c \in cs, \A d \in cs : ~Claim(d), TakenAlong(k, cs),
         clients' = Aborted(k), UNCHANGED <<pgCalls, pgQueue, pgTimer, pgRows>>,
         pgKicks' \subseteq Client
  PROVE  PgInv'
<1>1. /\ clients' \in [Client -> ClientState]
      /\ \A m \in Client : /\ clients'[m].owner = clients[m].owner
                           /\ clients[m].owner = Nobody => clients'[m].tx = clients[m].tx
                           /\ clients'[m].tx = "idle" <=> clients[m].tx = "idle"
                           /\ clients'[m].tx = "idle" => clients'[m].rows = {}
                           /\ m # k => clients'[m] = clients[m]
  BY AbortedKeeps
<1>2. PgTypes'
  BY <1>1 DEF PgInv, PgTypes, Spare
<1>3. Owners'
  <2>1. \A e \in PgCall : /\ Active(e)' <=> Active(e)
                          /\ pgCalls'[e].client = pgCalls[e].client
    BY DEF Active
  <2>2. \A e \in PgCall : pgCalls'[e].at \in {"beginning", "changing", "inserting"} =>
          pgCalls'[e].error = "none"
    BY DEF PgInv, Owners
  <2> QED BY <1>1, <2>1, <2>2, OwnersKept
<1>4. AllFit'
  <2>1. \A l \in Client : clients[l].tx = "idle" => clients'[l].tx = "idle"
    BY <1>1
  <2>2. \A l \in Client : \A i \in DOMAIN pgWork'[l] : FitsNext(l, pgWork'[l][i])
    BY <2>1 DEF Spare, Fits, FitsNext, FitsIn
  <2> QED BY <2>2 DEF AllFit, Fits, FitsNext
<1>5. QueueFits'
  BY DEF PgInv, QueueFits, Spare
<1>6. Claims'
  <2>1. \A e \in PgCall : Claim(e)' => Claim(e) /\ \E d \in cs : d # e
    BY DEF Claim
  <2>2. \A m \in Client \ {k} : clients'[m] = clients[m]
    BY <1>1
  <2> QED BY <2>1, <2>2, TakenKeeps
<1> QED BY <1>2, <1>3, <1>4, <1>5, <1>6 DEF PgInv, Spare

LEMMA InsertFailsKeeps ==
  ASSUME PgAssumption, PgInv, NEW k \in Client, Executes(k, "insert"),
         NEW err \in CallError \ {"none"}, InsertFails(k, err)
  PROVE  PgInv'
<1> DEFINE s == HeadOf(k)
           more == IF Len(s.batch) > 1 THEN s.batch ELSE s.rest
           w == IF more = << >> THEN Answered(k)
                ELSE Issue(Answered(k), k, Statement("insert", <<Head(more)>>, Tail(more)))
<1>1. /\ pgWork[k] # << >> /\ s.do = "insert" /\ UNCHANGED <<pgQueue, pgTimer, pgRows>>
      /\ clients' = Aborted(k) /\ pgKicks' \in {pgKicks, pgKicks \cup {k}}
      /\ TakenAlong(k, ToSet(s.batch))
      /\ IF Len(s.batch) = 1 THEN GiveUp(w, s.batch[1], err)
         ELSE pgWork' = w /\ UNCHANGED pgCalls
  BY DEF InsertFails, Executes, FlushEnds
<1>2. /\ s \in Issued /\ Once(s) /\ \A c \in Named(s) : pgCalls[c].at = "inserting"
      /\ Apart(Answered(k), Named(s)) /\ Disjoint(Named(s), ToSet(pgQueue))
      /\ Answered(k) \in Works /\ Tidy(Answered(k)) /\ Apart(Answered(k), ToSet(pgQueue))
      /\ \A l \in Client : \A i \in DOMAIN Answered(k)[l] : Fits(l, Answered(k)[l][i])
  BY <1>1, HeadFits DEF Fits, FitsIn
<1>3. pgKicks' \subseteq Client
  BY <1>1 DEF PgInv, PgTypes
<1>4. /\ s.batch \in Seq(PgCall) /\ s.rest \in Seq(PgCall) /\ s.batch # << >>
      /\ NoTwice(s.batch) /\ NoTwice(s.rest) /\ ToSet(s.batch) \cap ToSet(s.rest) = {}
      /\ ToSet(s.batch) \subseteq Named(s) /\ ToSet(s.rest) \subseteq Named(s)
  BY <1>2 DEF Issued, Once, Named
<1>5. Len(s.batch) \in Nat /\ Len(s.batch) > 0 /\ DOMAIN s.batch = 1 .. Len(s.batch)
  BY <1>4, EmptySeq
<1>6. CASE Len(s.batch) = 1
  <2> DEFINE c == s.batch[1]
  <2>1. c \in ToSet(s.batch) /\ c \in PgCall /\ more = s.rest
    BY <1>4, <1>5, <1>6 DEF ToSet
  <2>2. c \in Named(s) /\ c \notin ToSet(s.rest) /\ c \notin ToSet(pgQueue) /\ Active(c)
    BY <1>2, <1>4, <2>1 DEF Disjoint, Active
  <2>3. Spare(w, {c})
    <3>1. CASE s.rest = << >>
      <4>1. Apart(Answered(k), {c})
        BY <1>2, <2>2 DEF Apart, Disjoint
      <4>2. w = Answered(k)
        BY <2>1, <3>1
      <4> QED BY <1>2, <4>1, <4>2 DEF Spare
    <3>2. CASE s.rest # << >>
      <4>1. w = Issue(Answered(k), k, Statement("insert", <<Head(s.rest)>>, Tail(s.rest)))
        BY <2>1, <3>2
      <4>2. {c} \in SUBSET Named(s) /\ ToSet(s.rest) \subseteq Named(s) \ {c}
        BY <1>4, <2>2
      <4> HIDE DEF w, c
      <4> QED BY <1>1, <1>4, <3>2, <4>1, <4>2, OneByOne
    <3> QED BY <3>1, <3>2
  <2>4. GiveUp(w, c, err)
    BY <1>1, <1>6
  <2>5. ToSet(s.batch) = {c}
    BY <1>5, <1>6 DEF ToSet
  <2>6. TakenAlong(k, {c})
    BY <1>1, <2>5
  <2> HIDE DEF w, c, s, more
  <2> QED BY <1>1, <1>3, <2>1, <2>2, <2>3, <2>4, <2>6, GiveUpKeeps
<1>7. CASE Len(s.batch) # 1
  <2> DEFINE c == s.batch[1]
             cs == ToSet(s.batch)
  <2>1. Len(s.batch) > 1
    <3>1. PICK n \in Nat : n = Len(s.batch)
      BY <1>5
    <3>2. n > 0 /\ n # 1
      BY <1>5, <1>7, <3>1
    <3>3. n > 1
      BY <3>2
    <3> QED BY <3>1, <3>3
  <2>2. more = s.batch /\ 1 \in DOMAIN s.batch
    BY <1>5, <2>1
  <2>3. c \in cs /\ cs \in SUBSET PgCall
    BY <1>4, <2>2 DEF ToSet
  <2>4. Spare(w, {})
    <3>1. w = Issue(Answered(k), k, Statement("insert", <<Head(s.batch)>>, Tail(s.batch)))
      BY <1>4, <2>2
    <3>2. {} \in SUBSET Named(s) /\ ToSet(s.batch) \subseteq Named(s) \ {}
      BY <1>4
    <3> HIDE DEF w
    <3> QED BY <1>1, <1>4, <3>1, <3>2, OneByOne
  <2>5. pgWork' = w /\ UNCHANGED pgCalls /\ TakenAlong(k, cs)
    BY <1>1, <1>7
  <2>6. \A d \in cs : ~Claim(d)
    BY <1>2, <1>4 DEF Claim
  <2> HIDE DEF w, c, cs, s, more
  <2>7. Spare(pgWork', {})
    BY <2>4, <2>5
  <2> QED BY <1>1, <1>3, <2>3, <2>5, <2>6, <2>7, RetryKeeps
<1> QED BY <1>6, <1>7

--------------------------------------------------------------------------------
(* Every state *)

LEMMA PgStart ==
  ASSUME PgAssumption, PgInit
  PROVE  PgInv
<1>1. PgTypes
  <2>1. "none" \in CallOp /\ "idle" \in CallAt /\ Nobody \in CallClient /\ "none" \in CallError
    BY DEF CallOp, CallAt, CallClient, CallError
  <2>2. pgCalls \in [PgCall -> CallState]
    BY <2>1 DEF PgInit, CallState
  <2>3. clients \in [Client -> ClientState]
    BY DEF PgInit, ClientState
  <2>4. pgWork \in Works /\ pgQueue \in Seq(PgCall)
    BY DEF PgInit, Works
  <2> QED BY <2>2, <2>3, <2>4 DEF PgInit, PgTypes
<1>2. Owners
  BY DEF PgInit, Owners, Active
<1>3. \A k \in Client : DOMAIN pgWork[k] = {}
  BY DEF PgInit
<1>4. Tidy(pgWork) /\ AllFit /\ QueueFits
  BY <1>3, NoOne DEF PgInit, Tidy, AllFit, QueueFits, Apart
<1>5. Claims
  BY DEF PgInit, Claims, Claim
<1> QED BY <1>1, <1>2, <1>4, <1>5 DEF PgInv

LEMMA PgStep ==
  ASSUME PgAssumption, PgInv, [PgNext]_pgVars
  PROVE  PgInv'
<1>1. CASE \E c \in PgCall : Connect(c)
  BY <1>1, ConnectKeeps
<1>2. ASSUME NEW k \in Client, PgExecutes(k) \/ InsertDeadlocks(k) PROVE PgInv'
  <2>1. CASE Begin(k)
    BY <2>1, BeginKeeps
  <2>2. CASE Change(k)
    BY <2>2, ChangeKeeps
  <2>3. CASE Commit(k)
    BY <2>3, CommitKeeps
  <2>4. CASE Rollback(k)
    BY <2>4, RollbackKeeps
  <2>5. CASE InsertSucceeds(k)
    BY <2>5, InsertSucceedsKeeps
  <2>6. CASE InsertRefused(k)
    <3>1. Refusal(k, HeadOf(k).batch) \in CallError \ {"none"}
      BY <2>6 DEF InsertRefused, Refusal, CallError
    <3> QED BY <2>6, <3>1, InsertFailsKeeps DEF InsertRefused
  <2>7. CASE InsertTimesOut(k)
    <3>1. "timeout" \in CallError \ {"none"}
      BY DEF CallError
    <3> QED BY <2>7, <3>1, InsertFailsKeeps DEF InsertTimesOut
  <2>8. CASE InsertDeadlocks(k)
    <3>1. "deadlock" \in CallError \ {"none"}
      BY DEF CallError
    <3> QED BY <2>8, <3>1, InsertFailsKeeps DEF InsertDeadlocks
  <2> QED BY <1>2, <2>1, <2>2, <2>3, <2>4, <2>5, <2>6, <2>7, <2>8 DEF PgExecutes
<1>3. CASE FlushTimer \/ FlushKick
  BY <1>3, FlushTimerKeeps, FlushKickKeeps
<1>4. CASE UNCHANGED pgVars
  <2>1. UNCHANGED <<pgCalls, clients, pgWork, pgQueue, pgTimer, pgKicks, pgRows, pgTaken>>
    BY <1>4 DEF pgVars
  <2> QED BY <2>1 DEF PgInv, PgTypes, Owners, Active, Tidy, AllFit, Fits, QueueFits, Apart,
                      Claims, Claim, Carried, Excused
<1> QED BY <1>1, <1>2, <1>3, <1>4 DEF PgNext

\* Each queued or inserting call has one place, each transaction its client, and each
\* answer its row, whatever inserts are refused, time out or deadlock.
THEOREM WriterInvariant == WriterSpec => []PgInv
<1>1. PgInit => PgInv
  BY PgStart, PgAssumption
<1>2. PgInv /\ [PgNext]_pgVars => PgInv'
  BY PgStep, PgAssumption
<1> QED BY <1>1, <1>2, PTL DEF WriterSpec

\* A call that reported success has its row committed, or carried by the open
\* transaction of another call, or a statement of another call failed in the very
\* transaction that carried the row.
THEOREM AnsweredRowsAreKept == WriterSpec => []PgAckedIsStored
<1>1. PgInv => PgAckedIsStored
  <2>1. SUFFICES ASSUME PgInv, NEW c \in PgCall, pgCalls[c].at = "ok", pgCalls[c].op # "update",
                        c \notin pgRows, ~Excused(c)
                 PROVE  \E k \in Client : /\ c \in clients[k].rows
                                          /\ clients[k].owner \notin {c, Nobody}
    BY DEF PgAckedIsStored, Excused
  <2>2. Claim(c)
    BY <2>1 DEF Claim
  <2>3. PICK k \in Client : c \in clients[k].rows
    BY <2>1, <2>2 DEF PgInv, Claims, Carried
  <2>4. clients[k].owner # Nobody
    BY <2>1, <2>3 DEF PgInv, Owners
  <2>5. clients[k].owner # c
    BY <2>1, <2>4 DEF PgInv, Owners, Active
  <2> QED BY <2>3, <2>4, <2>5
<1> QED BY <1>1, WriterInvariant, PTL

================================================================================
