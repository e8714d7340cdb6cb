------------------------------- MODULE PgListener ------------------------------
(***************************************************************************)
(* The LISTEN connection of subscribe() on Postgres                        *)
(* (PostgresSubscribeListener of src/subscribe/postgres-listener.ts): it   *)
(* is opened by the first subscription, opened again after a delay when it *)
(* breaks, and given back by close().                                      *)
(***************************************************************************)
EXTENDS Naturals, FiniteSets

CONSTANTS
  MaxLinks,     \* bound on the connections opened
  MaxTrouble,   \* bound on the refusals and breaks
  MaxSubscriptions

ASSUME ListenerAssumption ==
  MaxLinks \in Nat /\ MaxTrouble \in Nat /\ MaxSubscriptions \in Nat

VARIABLES
  links,          \* state of each connection that was asked for
  client,         \* the one that this.client names, 0 if none
  listenInFlight, \* the one that openListenConnection waits for, 0 if none
  reconnecting,   \* no, delay or waits, by what handleDisconnect waits for
  subscriptions,
  listenerClosed,
  listenerCloser, \* a call of close()
  trouble,
  stranded        \* history: an opening failed that subscribe() had started

listenerVars == <<links, client, listenInFlight, reconnecting, subscriptions,
                  listenerClosed, listenerCloser, trouble, stranded>>

Asked == Cardinality({i \in DOMAIN links : links[i] # "unused"})

\* Connections whose notifications are dispatched.  One that is given back keeps its
\* handlers until it ends.
Attached == {i \in DOMAIN links : links[i] \in {"asks", "listens", "deaf", "released"}}

\* prev.release(true)
ReleaseClient(ls) ==
  [i \in DOMAIN ls |-> IF i = client /\ ls[i] # "ended" THEN "released" ELSE ls[i]]

\* Faulty variant: an opening that is under way does not keep another from starting.
EnsureListening_Twice ==
  IF client # 0 THEN UNCHANGED <<links, listenInFlight>>
  ELSE /\ Asked < MaxLinks
       /\ links' = [links EXCEPT ![Asked + 1] = "connects"]
       /\ listenInFlight' = Asked + 1

EnsureListening ==
  IF client # 0 \/ listenInFlight # 0 THEN UNCHANGED <<links, listenInFlight>>
  ELSE /\ Asked < MaxLinks
       /\ links' = [links EXCEPT ![Asked + 1] = "connects"]
       /\ listenInFlight' = Asked + 1

Subscribe ==
  /\ ~listenerClosed /\ subscriptions < MaxSubscriptions
  /\ subscriptions' = subscriptions + 1
  /\ EnsureListening
  /\ UNCHANGED <<client, reconnecting, listenerClosed, listenerCloser, trouble, stranded>>

\* handleDisconnect up to its delay, with connections ls.
Disconnect(ls) ==
  /\ links' = ReleaseClient(ls) /\ client' = 0
  /\ reconnecting' = "delay"

\* The opening i fails: reconnecting tries again, unless the backend is closed; that
\* of subscribe() is an unhandled rejection.
OpeningFails(ls) ==
  /\ listenInFlight' = 0
  /\ stranded' = (stranded \/ reconnecting # "waits")
  /\ IF reconnecting = "waits" /\ ~listenerClosed THEN Disconnect(ls)
     ELSE /\ links' = ls
          /\ reconnecting' = IF reconnecting = "waits" THEN "no" ELSE reconnecting
          /\ UNCHANGED client

OpeningSucceeds ==
  /\ listenInFlight' = 0
  /\ reconnecting' = IF reconnecting = "waits" THEN "no" ELSE reconnecting

\* connect() answers: the client is kept and LISTEN sent, or given back.
Connected(i) ==
  /\ links[i] = "connects"
  /\ IF listenerClosed
     THEN /\ links' = [links EXCEPT ![i] = "released"]
          /\ OpeningSucceeds /\ UNCHANGED client
     ELSE /\ links' = [links EXCEPT ![i] = "asks"] /\ client' = i
          /\ UNCHANGED <<listenInFlight, reconnecting>>
  /\ UNCHANGED <<subscriptions, listenerClosed, listenerCloser, trouble, stranded>>

Listening(i) ==
  /\ links[i] = "asks"
  /\ links' = [links EXCEPT ![i] = "listens"]
  /\ OpeningSucceeds
  /\ UNCHANGED <<client, subscriptions, listenerClosed, listenerCloser, trouble, stranded>>

\* connect() fails, or the server refuses LISTEN: the client stays, and hears nothing.
ListenRefused(i) ==
  /\ trouble < MaxTrouble /\ links[i] \in {"connects", "asks"}
  /\ OpeningFails([links EXCEPT ![i] = IF @ = "connects" THEN "ended" ELSE "deaf"])
  /\ trouble' = trouble + 1
  /\ UNCHANGED <<subscriptions, listenerClosed, listenerCloser>>

\* "end", or "error" and "end" later, of a connection, leaving ls: a LISTEN under way
\* on it is rejected, and the handler drops whatever client there is.
Gone(i, ls) ==
  LET rejects == listenInFlight = i
  IN  /\ listenInFlight' = IF rejects THEN 0 ELSE listenInFlight
      /\ IF ~listenerClosed /\ (reconnecting = "no" \/ (rejects /\ reconnecting = "waits"))
         THEN Disconnect(ls)
         ELSE /\ links' = ls /\ UNCHANGED client
              /\ reconnecting' = IF rejects /\ reconnecting = "waits" THEN "no" ELSE reconnecting
      /\ stranded' = (stranded \/ (client' = i /\ ~listenerClosed))
      /\ UNCHANGED <<subscriptions, listenerClosed, listenerCloser>>

Breaks(i) ==
  /\ trouble < MaxTrouble /\ links[i] \in {"asks", "listens", "deaf"}
  /\ \E last \in {links[i], "ended"} : Gone(i, [links EXCEPT ![i] = last])
  /\ trouble' = trouble + 1

\* A released connection has ended; if subscribe() has opened the next one during
\* the delay, that one is dropped with it.
Ends(i) ==
  /\ links[i] = "released"
  /\ Gone(i, [links EXCEPT ![i] = "ended"])
  /\ UNCHANGED trouble

\* Faulty variant: the delay is not followed by an opening.
Reconnect_Forgets ==
  /\ reconnecting = "delay"
  /\ reconnecting' = "no"
  /\ UNCHANGED <<links, client, listenInFlight, subscriptions, listenerClosed,
                 listenerCloser, trouble, stranded>>

\* The delay is over; connections take less time than that to end.
Reconnect ==
  /\ reconnecting = "delay"
  /\ \A i \in DOMAIN links : links[i] # "released"
  /\ IF listenerClosed THEN reconnecting' = "no" /\ UNCHANGED <<links, listenInFlight>>
     ELSE /\ EnsureListening
          /\ reconnecting' = IF client # 0 THEN "no" ELSE "waits"
  /\ UNCHANGED <<client, subscriptions, listenerClosed, listenerCloser, trouble, stranded>>

ListenerClose ==
  /\ listenerCloser = "none"
  /\ listenerClosed' = TRUE /\ subscriptions' = 0
  /\ listenerCloser' = "waits"
  /\ UNCHANGED <<links, client, listenInFlight, reconnecting, trouble, stranded>>

\* close() has waited for the opening under way.
ListenerCloseEnds ==
  /\ listenerCloser = "waits" /\ listenInFlight = 0
  /\ links' = ReleaseClient(links) /\ client' = 0
  /\ listenerCloser' = "done"
  /\ UNCHANGED <<listenInFlight, reconnecting, subscriptions, listenerClosed, trouble, stranded>>

ListenerInit ==
  /\ links = [i \in 1 .. MaxLinks |-> "unused"]
  /\ client = 0 /\ listenInFlight = 0 /\ reconnecting = "no"
  /\ subscriptions = 0 /\ listenerClosed = FALSE /\ listenerCloser = "none"
  /\ trouble = 0 /\ stranded = FALSE

ListenerAnswers(i) == Connected(i) \/ Listening(i)

ListenerNext ==
  \/ Subscribe \/ Reconnect \/ ListenerClose \/ ListenerCloseEnds
  \/ \E i \in DOMAIN links : ListenerAnswers(i) \/ ListenRefused(i) \/ Breaks(i) \/ Ends(i)

ConnectionStep == \E i \in DOMAIN links : ListenerAnswers(i) \/ Ends(i)

\* The server answers, timers fire.
ListenerFairness ==
  WF_listenerVars(ConnectionStep) /\ WF_listenerVars(Reconnect \/ ListenerCloseEnds)

--------------------------------------------------------------------------------
(* Properties *)

\* Every connection whose notifications are dispatched is the one that the backend
\* holds, or was given back and has still to end; so an event is never delivered twice,
\* but within the delay, when subscribe() may open the next connection before the one
\* given back has ended.  After close() none is held, and nobody is subscribed.
ListenersAreHeld ==
  /\ \A i \in Attached : i = client \/ links[i] = "released"
  /\ \A i, j \in Attached :
       i # j => reconnecting = "delay" \/ (listenerClosed /\ subscriptions = 0)
  /\ listenerCloser = "done" => client = 0

\* A subscriber hears of changes in the end, however often the connection breaks or
\* opening it again fails, with two exceptions.  An opening failed that subscribe()
\* had started: nobody tries again, and after a refused LISTEN no later one does
\* either.  Or a connection that subscribe() opened during the delay broke before the
\* delay was over: the backend keeps the dead client.
SubscriberHears ==
  subscriptions > 0 /\ ~stranded ~>
    \/ stranded \/ listenerClosed
    \/ client # 0 /\ links[client] = "listens"

================================================================================
