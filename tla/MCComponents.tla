----------------------------- MODULE MCComponents -----------------------------
(* The components that share no state, in one run of TLC: an initial state      *)
(* chooses the component that runs, and the others rest.                        *)
EXTENDS MCRecall, MCPgWriter, EmbeddingCache, TelemetryQueue, Migration, Lifecycle,
        PgListener, Filters, Chunking, HttpRetry, PgSchema

CONSTANTS m1, m2, m3

VARIABLE part    \* the component that runs

TheMem == {m1, m2, m3}
TheTextOf == [m \in TheMem |-> IF m = m3 THEN "y" ELSE "x"]
TheUpdatedAt == [m \in TheMem |-> CASE m = m1 -> 2 [] m = m2 -> 1 [] m = m3 -> 3]

\* Strings and the text of the list ["b"], in their order, some of which contain
\* others: as such, by a wildcard, or but for the case of a letter.
TheSpelling == <<<<"%">>, <<"B">>, <<"[", "quote", "b", "quote", "]">>, <<"a", "_">>,
                 <<"a", "b">>, <<"b">>>>
TheLower == [c \in {"%", "B", "[", "]", "quote", "_", "a", "b", "0", "1", "2", "true"} |->
               IF c = "B" THEN "b" ELSE c]
TheNumeral == [n \in 0 .. 2 |-> CASE n = 0 -> <<"0">> [] n = 1 -> <<"1">> [] n = 2 -> <<"2">>]
TheWord == [n \in {1} |-> <<"true">>]

TheValues ==
  {[kind |-> k, n |-> 0] : k \in {"missing", "null"}}
    \cup {[kind |-> "num", n |-> n] : n \in 0 .. 2}
    \cup {[kind |-> "str", n |-> n] : n \in {2, 5, 6}}
    \cup {[kind |-> "bool", n |-> 1], [kind |-> "list", n |-> 6]}

Num(n) == [kind |-> "num", n |-> n]
Str(n) == [kind |-> "str", n |-> n]

TheOperations ==
  {[name |-> "eq", operand |-> w] :
     w \in {[kind |-> "null", n |-> 0], Num(1), Str(6), [kind |-> "bool", n |-> 1],
            [kind |-> "list", n |-> 6]}}
    \cup {[name |-> "contains", operand |-> Str(n)] : n \in {1, 4, 6}}
    \cup {[name |-> "between", low |-> Num(0), high |-> Num(1)]}
    \cup {[name |-> o, operand |-> w] : o \in {"gt", "gte", "lt", "lte"}, w \in {Num(1), Str(5)}}

\* Two processes, each with a model of its own, and an old database with a duplicate.
TheProcessOf == [i \in 1 .. 2 |-> i]
TheModelOf == [i \in 1 .. 2 |-> i]
TheOldText == <<"x", "x", "y">>

AllParts == {"cache", "telemetry", "migration", "lifecycle", "postgres", "listener",
             "recall", "filters", "chunking", "http", "schema"}

vars == <<part, cacheVars, telemetryVars, migrationVars, lifeVars, pgVars, listenerVars,
          recallVars, filterVars, chunkingVars, httpVars, schemaVars>>

Init ==
  /\ part \in AllParts
  /\ CacheInit /\ TelemetryInit /\ LifeInit /\ PgInit /\ ListenerInit
  /\ IF part = "http" THEN HttpInit
     ELSE /\ httpCall = [op |-> "embed", texts |-> 0]
          /\ request = [at |-> "idle", attempt |-> 0, elapsed |-> 0, timer |-> 0]
          /\ aborted = FALSE /\ defiant = FALSE
  /\ IF part = "migration" THEN MigrationInit
     ELSE /\ file = OldFile(2, {})
          /\ step = "closed" /\ rest = {} /\ crashes = 0 /\ hurt = {}
  /\ IF part = "recall" THEN RecallInit
     ELSE /\ rows = << >> /\ query = << >> /\ stage = "embedded" /\ asked = 0 /\ nearest = << >>
          /\ semantic = << >> /\ keyword = << >> /\ missing = {} /\ byId = << >>
          /\ heard = {} /\ reply = << >> /\ fitting = {} /\ touched = {}
  /\ IF part = "schema" THEN SchemaInit
     ELSE /\ database = [version |-> 0, dims |-> 0, tables |-> [vector |-> 0, blob |-> 0]]
          /\ pgMemories = << >> /\ usable = FALSE
          /\ statics = << >> /\ instances = [i \in Instance |-> Asleep]
          /\ pgEdits = 0 /\ pgUpsets = 0
          /\ overtaken = {} /\ replaced = {} /\ lost = {} /\ upgraded = FALSE /\ ahead = FALSE
  /\ IF part = "filters" THEN FilterInit ELSE filter = NoFilter
  /\ IF part = "chunking" THEN ChunkingInit
     ELSE /\ document = [text |-> << >>, pieces |-> << >>]
          /\ options = [strategy |-> "fixed", chunkSize |-> 1, overlap |-> 0]

\* Only the component p takes a step.
Only(p) ==
  /\ part = p
  /\ UNCHANGED <<part, filterVars, chunkingVars>>
  /\ p # "cache" => UNCHANGED cacheVars
  /\ p # "telemetry" => UNCHANGED telemetryVars
  /\ p # "migration" => UNCHANGED migrationVars
  /\ p # "lifecycle" => UNCHANGED lifeVars
  /\ p # "postgres" => UNCHANGED pgVars
  /\ p # "listener" => UNCHANGED listenerVars
  /\ p # "recall" => UNCHANGED recallVars
  /\ p # "http" => UNCHANGED httpVars
  /\ p # "schema" => UNCHANGED schemaVars

Next ==
  \/ Only("cache") /\ CacheNext
  \/ Only("telemetry") /\ TelemetryNext
  \/ Only("migration") /\ MigrationNext
  \/ Only("lifecycle") /\ LifeNext
  \/ Only("postgres") /\ PgNext
  \/ Only("listener") /\ ListenerNext
  \/ Only("recall") /\ RecallNext
  \/ Only("http") /\ HttpNext
  \/ Only("schema") /\ SchemaNext

\* The fairness of TelemetryFairness, PgFairness and ListenerFairness.
Fairness ==
  /\ WF_vars(Only("telemetry") /\ FlushStep)
  /\ WF_vars(Only("telemetry") /\ CloserStep)
  /\ WF_vars(Only("postgres") /\ Answers)
  /\ WF_vars(Only("postgres") /\ FlushDue)
  /\ WF_vars(Only("listener") /\ ConnectionStep)
  /\ WF_vars(Only("listener") /\ (Reconnect \/ ListenerCloseEnds))

Spec == Init /\ [][Next]_vars /\ Fairness

================================================================================
