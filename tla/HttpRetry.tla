-------------------------------- MODULE HttpRetry -------------------------------
(***************************************************************************)
(* Requests to a remote model: request() of the embedding provider         *)
(* (src/embedding/index.ts) and of the LLM provider (src/llm/index.ts),    *)
(* with the back-off of src/utils/backoff.ts.                              *)
(*                                                                         *)
(* HTTP 429 is retried after a delay, nothing else is.  One timer covers   *)
(* the fetch and the reading of its body; the signal of the caller, which  *)
(* only embeddings have, cancels the fetch, but no delay.                  *)
(***************************************************************************)
EXTENDS Naturals, FiniteSetsExt

CONSTANTS
  MaxHttpRetries,   \* maxRetries
  HttpDeadline,     \* deadlineMs, in ticks
  HttpTimeout,      \* timeoutMs, in ticks
  HttpDelays,       \* delays by Retry-After, at most 120 s, or by jitter
  MaxTexts          \* bound on the texts of embedBatch()

ASSUME HttpAssumption ==
  /\ MaxHttpRetries \in Nat /\ HttpDeadline \in Nat \ {0} /\ HttpTimeout \in Nat
  /\ HttpDelays \subseteq Nat /\ MaxTexts \in Nat
  /\ \E longest \in HttpDelays : \A delay \in HttpDelays : delay <= longest

VARIABLES
  httpCall,   \* complete, embed or batch, and the texts still to be embedded singly
  request,    \* attempt, what it waits for, the time it has taken and the timer
  aborted,    \* the signal of the caller
  defiant     \* history: an attempt was sent after the signal

httpVars == <<httpCall, request, aborted, defiant>>

\* embed() and embedBatch() have a signal, complete() has none.
Cancelled == aborted /\ httpCall.op # "complete"

Sends(attempt, elapsed) ==
  /\ request' = [at |-> "fetch", attempt |-> attempt, elapsed |-> elapsed, timer |-> HttpTimeout]
  /\ defiant' = (defiant \/ Cancelled)

Over(how) == request' = [request EXCEPT !.at = how] /\ UNCHANGED defiant

\* The first attempt, with a deadline of its own.
FirstAttempt == IF Cancelled THEN Over("cancelled") ELSE Sends(0, 0)

HttpStarts ==
  /\ request.at = "idle"
  /\ FirstAttempt
  /\ UNCHANGED <<httpCall, aborted>>

\* fetch() answers, and the body is read under the same timer.
HttpHeaders ==
  /\ request.at = "fetch"
  /\ request' = [request EXCEPT !.at = "body"]
  /\ UNCHANGED <<httpCall, aborted, defiant>>

\* A batch whose answer has another length is embedded text by text, each by a
\* request of its own.
HttpAnswer ==
  /\ request.at = "body"
  /\ \E texts \in IF httpCall.op = "batch" /\ httpCall.texts = 0 THEN {0} \cup 2 .. MaxTexts
                  ELSE {Max({httpCall.texts - 1, 0})} :
       IF texts = 0 THEN Over("ok") /\ UNCHANGED httpCall
       ELSE httpCall' = [httpCall EXCEPT !.texts = texts] /\ FirstAttempt
  /\ UNCHANGED aborted

RateLimited ==
  /\ request.at = "body"
  /\ IF request.attempt >= MaxHttpRetries \/ request.elapsed >= HttpDeadline
     THEN Over("failed")
     ELSE /\ \E delay \in HttpDelays :
               request' = [request EXCEPT !.at = "delay", !.timer = delay]
          /\ UNCHANGED defiant
  /\ UNCHANGED <<httpCall, aborted>>

\* Faulty variant: the deadline is only looked at when 429 is answered.
HttpRetries_Late ==
  /\ request.at = "delay" /\ request.timer = 0
  /\ IF Cancelled THEN Over("cancelled") ELSE Sends(request.attempt + 1, request.elapsed)
  /\ UNCHANGED <<httpCall, aborted>>

\* The head of the loop, after the delay.
HttpRetries ==
  /\ request.at = "delay" /\ request.timer = 0
  /\ IF Cancelled THEN Over("cancelled")
     ELSE IF request.elapsed >= HttpDeadline THEN Over("failed")
     ELSE Sends(request.attempt + 1, request.elapsed)
  /\ UNCHANGED <<httpCall, aborted>>

\* Another status, a network error, no JSON, or the timer.  Cancelling while the body
\* is read also ends here: the catch of res.json() calls it no JSON.
HttpFails ==
  /\ request.at \in {"fetch", "body"}
  /\ request.at = "fetch" => ~Cancelled
  /\ Over("failed")
  /\ UNCHANGED <<httpCall, aborted>>

HttpCancels ==
  /\ request.at = "fetch" /\ Cancelled
  /\ Over("cancelled")
  /\ UNCHANGED <<httpCall, aborted>>

Abort ==
  /\ ~aborted /\ httpCall.op # "complete"
  /\ aborted' = TRUE
  /\ UNCHANGED <<httpCall, request, defiant>>

\* Timers fire when they are due, and a cancelled fetch ends at once.
HttpTick ==
  /\ request.at \in {"fetch", "body", "delay"} /\ request.timer > 0
  /\ request.at = "delay" \/ ~Cancelled
  /\ request' = [request EXCEPT !.timer = @ - 1, !.elapsed = @ + 1]
  /\ UNCHANGED <<httpCall, aborted, defiant>>

HttpInit ==
  /\ \E op \in {"complete", "embed", "batch"} : httpCall = [op |-> op, texts |-> 0]
  /\ request = [at |-> "idle", attempt |-> 0, elapsed |-> 0, timer |-> 0]
  /\ aborted = FALSE /\ defiant = FALSE

HttpNext ==
  \/ HttpStarts \/ HttpHeaders \/ HttpAnswer \/ RateLimited \/ HttpRetries \/ HttpFails
  \/ HttpCancels \/ Abort \/ HttpTick

--------------------------------------------------------------------------------
(* Properties *)

\* A request ends less than one delay or one timeout after its deadline (a delay is
\* not cut short by it), with at most MaxHttpRetries attempts after the first, and
\* once its caller has cancelled it nothing more is sent.
RetriesAreBounded ==
  /\ request.elapsed < HttpDeadline + Max(HttpDelays \cup {HttpTimeout})
  /\ request.attempt <= MaxHttpRetries
  /\ ~defiant

================================================================================
