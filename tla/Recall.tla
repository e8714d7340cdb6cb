--------------------------------- MODULE Recall --------------------------------
(***************************************************************************)
(* recall() of src/core/wolbarg.ts with the operators of                   *)
(* src/retrieval/index.ts: the semantic search, the keyword search, the    *)
(* rows that only the second has found, the fusion of the two scores, MMR  *)
(* and the reranker.                                                       *)
(*                                                                         *)
(* Each search and each row is read at its own moment, and other calls     *)
(* write between them.  A text is known by how close it is to the query,   *)
(* how relevant its words are, and how much it shares with other texts;    *)
(* similarities are integers over the scale that the field names.          *)
(***************************************************************************)
EXTENDS Naturals, Integers, FiniteSets, Sequences, SequencesExt, FiniteSetsExt, Functions

CONSTANTS
  Stored,        \* memories, numbered by id
  Text,
  Closeness,     \* cosine similarity of a text to the query, over Precision
  Relevance,     \* how well the words of a text match the query, 0 if not at all
  Shared,        \* Jaccard similarity of two texts, over Precision
  Precision,
  SemanticWeight, KeywordWeight,  \* in tenths
  OverFetch,     \* retrieval.overFetchFactor
  TopKs,         \* values of topK that calls may ask for
  Threshold,
  Channels,      \* keyword channels of the instance: sqlite, postgres, bm25, off
  Outsiders,     \* memories that the filter of a call may exclude
  MaxRecallWrites

ASSUME RecallAssumption ==
  /\ Stored \subseteq Nat /\ IsFiniteSet(Stored) /\ Outsiders \subseteq Stored
  /\ Precision \in Nat \ {0}
  /\ Closeness \in [Text -> 0 .. Precision] /\ Relevance \in [Text -> Nat]
  /\ Shared \in [Text -> [Text -> 0 .. Precision]]
  /\ SemanticWeight \in Nat /\ KeywordWeight \in Nat
  /\ OverFetch \in Nat \ {0} /\ TopKs \subseteq Nat \ {0} /\ Threshold \in Nat
  /\ Channels \subseteq {"sqlite", "postgres", "bm25", "off"}

VARIABLES
  rows,       \* text of each memory, whether it is active, and whether it fits
  query,      \* the options of the call
  stage,      \* what the call does next
  asked,      \* how many memories the next vector search asks for
  nearest,    \* what the last one has found, whose rows are still to be read: its scores
  semantic,   \* semanticScores
  keyword,    \* keywordScores
  missing,    \* hits of the keyword search whose rows are still to be read
  byId,       \* similarity and text of each candidate
  heard,      \* history: what the keyword search looked at
  reply,      \* the memories returned
  fitting,    \* history: memories that were active and fitted during the call
  touched     \* history: memories written during the call

searchVars == <<asked, nearest>>

recallVars == <<rows, query, stage, searchVars, semantic, keyword, missing, byId, heard, reply,
                fitting, touched>>

Visible(m) == rows[m].active /\ rows[m].there
Fitting == {m \in Stored : Visible(m) /\ rows[m].fits}

TopK == query.topK
HasFilters == query.filter # "none"

\* A filter of one agent goes to the vector search, one of metadata does not.
Passes(m) == query.filter = "none" \/ rows[m].fits

Smaller(a, b) == IF a < b THEN a ELSE b
Larger(a, b) == IF a < b THEN b ELSE a

\* adaptiveFetchK
FetchK ==
  LET factor == IF HasFilters THEN Larger(OverFetch, 4) ELSE OverFetch
  IN  Smaller(Larger(TopK * factor, TopK), 1000)

\* The first n of ms in an order that better() gives; ties are broken anyhow.
BestOf(ms, n, better(_, _)) ==
  {s \in SUBSET ms : /\ Cardinality(s) = Smaller(n, Cardinality(ms))
                     /\ \A a \in s, b \in ms \ s : ~better(b, a)}

Closer(a, b) == Closeness[rows[a].text] > Closeness[rows[b].text]
Older(a, b) == a < b
MoreRelevant(a, b) == Relevance[rows[a].text] > Relevance[rows[b].text]

\* Faulty variant: every channel scores like a distance.
KeywordScore_Distance(r) == 60 \div (1 + r)

\* The score of a hit: 1 / (1 + |rank|) of searchKeyword on SQLite, where the better
\* match has the greater |rank|, over 60; the rank itself elsewhere.
KeywordScore(r) == IF query.channel = "sqlite" THEN 60 \div (1 + r) ELSE r

Highest(scores) == Max({scores[m] : m \in DOMAIN scores} \cup {0})

\* fuseScores: each channel over its maximum, weighted; over FusedScale.
Fused(m) ==
  LET s == IF m \in DOMAIN semantic THEN semantic[m] ELSE 0
      k == IF m \in DOMAIN keyword THEN keyword[m] ELSE 0
  IN  SemanticWeight * s * Larger(Highest(keyword), 1)
        + KeywordWeight * k * Larger(Highest(semantic), 1)

FusedScale == 10 * Larger(Highest(keyword), 1) * Larger(Highest(semantic), 1)

UsesFusion == DOMAIN keyword # {}

Scale == IF UsesFusion THEN FusedScale ELSE Precision

Similarity(m) == IF UsesFusion THEN Fused(m) ELSE byId[m].similarity

Precedes(a, b) ==
  Similarity(a) > Similarity(b) \/ (Similarity(a) = Similarity(b) /\ a < b)

\* results.sort: by similarity, then by id, which leaves no choice.
Sorted(ms) ==
  {s \in Bijection(1 .. Cardinality(ms), ms) :
     \A i, j \in DOMAIN s : i < j => Precedes(s[i], s[j])}

\* The score of applyMmr with lambda one half.
MmrScore(m, chosen) ==
  Similarity(m) * Precision
    - Scale * Max({Shared[byId[m].text][byId[c].text] : c \in chosen} \cup {0})

MmrPrefers(m, n, chosen) ==
  \/ MmrScore(m, chosen) > MmrScore(n, chosen)
  \/ MmrScore(m, chosen) = MmrScore(n, chosen) /\ m < n

\* Each choice of applyMmr is the best of those that are left.
ApplyMmr(ms) ==
  {s \in Injection(1 .. TopK, ms) :
     \A i \in 1 .. TopK :
       LET chosen == {s[j] : j \in 1 .. i - 1}
       IN  \A n \in ms \ (chosen \cup {s[i]}) : MmrPrefers(s[i], n, chosen)}

Ranked ==
  LET ms == DOMAIN byId
  IN  IF query.mmr /\ Cardinality(ms) > TopK THEN ApplyMmr(ms) ELSE Sorted(ms)

Cut(s) == SubSeq(s, 1, Smaller(TopK, Len(s)))

--------------------------------------------------------------------------------
(* The call *)

\* The rows that recall() keeps of what a vector search has found with the scores of
\* found, by its filter and its threshold.
Keep(ms, found) ==
  LET kept == {m \in ms : Passes(m) /\ found[m] >= Threshold}
  IN  /\ semantic' = [m \in kept |-> found[m]]
      /\ byId' = [m \in kept |-> [similarity |-> found[m], text |-> rows[m].text]]
      /\ stage' = IF query.channel = "off" THEN "rank" ELSE "keyword"

OfAgent(m) == Visible(m) /\ (query.filter = "agent" => rows[m].fits)

\* searchVectorsWithMemories of Postgres, one statement.
SearchJoined ==
  /\ stage = "embedded" /\ query.channel = "postgres"
  /\ \E top \in BestOf({m \in Stored : OfAgent(m)}, FetchK, Closer) :
       Keep(top, [m \in top |-> Closeness[rows[m].text]])
  /\ UNCHANGED <<rows, query, searchVars, keyword, missing, heard, reply, fitting, touched>>

\* That of SQLite: a search of the index, which knows neither agents nor archived rows.
SearchVectors ==
  /\ stage = "embedded" /\ query.channel # "postgres"
  /\ \E found \in BestOf({m \in Stored : Visible(m)}, asked, Closer) :
       nearest' = [m \in found |-> Closeness[rows[m].text]]
  /\ stage' = "hits"
  /\ UNCHANGED <<rows, query, asked, semantic, keyword, missing, byId, heard, reply, fitting,
                 touched>>

MaxFetch == Smaller(Larger(64 * FetchK, 512), 8192)

CloserHit(a, b) == nearest[a] > nearest[b]

\* getMemoriesByRowids, and another search if too few of the rows are left.
ReadHits ==
  /\ stage = "hits"
  /\ LET left == {m \in DOMAIN nearest : OfAgent(m)}
     IN  IF /\ Cardinality(left) < FetchK
            /\ Cardinality(DOMAIN nearest) = asked /\ asked < MaxFetch
         THEN /\ asked' = Smaller(4 * asked, MaxFetch)
              /\ stage' = "embedded" /\ UNCHANGED <<semantic, byId>>
         ELSE /\ \E top \in BestOf(left, FetchK, CloserHit) : Keep(top, nearest)
              /\ UNCHANGED asked
  /\ nearest' = << >>
  /\ UNCHANGED <<rows, query, keyword, missing, heard, reply, fitting, touched>>

Matching(ms) == {m \in ms : Relevance[rows[m].text] > 0}

\* searchKeyword of the storage: all active memories of the organization.
SearchKeyword ==
  /\ stage = "keyword" /\ query.channel \in {"sqlite", "postgres"}
  /\ heard' = {m \in Stored : Visible(m)}
  /\ \E hits \in BestOf(Matching(heard'), FetchK, MoreRelevant) :
       /\ keyword' = [m \in hits |-> KeywordScore(Relevance[rows[m].text])]
       /\ missing' = hits \ DOMAIN byId
  /\ stage' = "fetch"
  /\ UNCHANGED <<rows, query, searchVars, semantic, byId, reply, fitting, touched>>

\* A provider like bm25() is given the oldest rows that pass the filter; rows keeps
\* the memories in the order of their creation.
SearchCorpus ==
  /\ stage = "keyword" /\ query.channel = "bm25"
  /\ LET pool == {m \in Stored : Visible(m) /\ Passes(m)}
     IN  heard' \in BestOf(pool, Smaller(2 * FetchK, 2000), Older)
  /\ \E hits \in BestOf(Matching(heard'), FetchK, MoreRelevant) :
       /\ keyword' = [m \in hits |-> KeywordScore(Relevance[rows[m].text])]
       /\ byId' = [m \in DOMAIN byId \cup hits |->
                     IF m \in DOMAIN byId THEN byId[m]
                     ELSE [similarity |-> 0, text |-> rows[m].text]]
  /\ stage' = "rank"
  /\ UNCHANGED <<rows, query, searchVars, semantic, missing, reply, fitting, touched>>

\* hybrid fails closed.
KeywordFails ==
  /\ stage \in {"keyword", "fetch"}
  /\ stage' = "failed"
  /\ UNCHANGED <<rows, query, searchVars, semantic, keyword, missing, byId, heard, reply, fitting,
                 touched>>

\* Faulty variant: a row that only the keyword search found is not filtered.
FetchMissing_Unfiltered(m) ==
  /\ stage = "fetch" /\ m \in missing
  /\ missing' = missing \ {m}
  /\ byId' = IF rows[m].there
             THEN [n \in DOMAIN byId \cup {m} |-> IF n # m THEN byId[n]
                     ELSE [similarity |-> 0, text |-> rows[m].text]]
             ELSE byId
  /\ UNCHANGED <<rows, query, stage, searchVars, semantic, keyword, heard, reply, fitting, touched>>

\* getMemoryById of one of the hits without a row.
FetchMissing(m) ==
  /\ stage = "fetch" /\ m \in missing
  /\ missing' = missing \ {m}
  /\ byId' = IF Visible(m) /\ Passes(m)
             THEN [n \in DOMAIN byId \cup {m} |-> IF n # m THEN byId[n]
                     ELSE [similarity |-> 0, text |-> rows[m].text]]
             ELSE byId
  /\ UNCHANGED <<rows, query, stage, searchVars, semantic, keyword, heard, reply, fitting, touched>>

Fetched ==
  /\ stage = "fetch" /\ missing = {}
  /\ stage' = "rank"
  /\ UNCHANGED <<rows, query, searchVars, semantic, keyword, missing, byId, heard, reply, fitting,
                 touched>>

Reply ==
  /\ stage = "rank" /\ ~query.rerank
  /\ \E s \in Ranked : reply' = Cut(s)
  /\ stage' = "done"
  /\ UNCHANGED <<rows, query, searchVars, semantic, keyword, missing, byId, heard, fitting,
                 touched>>

\* The reranker answers with some of its documents, in its order, or with numbers
\* that are none of them; or fails, by itself or because it answers with nothing.
Rerank ==
  /\ stage = "rank" /\ query.rerank
  /\ \/ /\ \E n \in 0 .. Smaller(TopK, Cardinality(DOMAIN byId)) :
             reply' \in Injection(1 .. n, DOMAIN byId)
        /\ stage' = "done"
     \/ stage' = "failed" /\ UNCHANGED reply
  /\ UNCHANGED <<rows, query, searchVars, semantic, keyword, missing, byId, heard, fitting,
                 touched>>

--------------------------------------------------------------------------------
(* Other calls, after the first read of this one: update(), forget(), compress() *)

Writes(m, row) ==
  /\ stage \in {"embedded", "hits", "keyword", "fetch"}
  /\ stage = "embedded" => asked # FetchK
  /\ Cardinality(touched) < MaxRecallWrites /\ Visible(m) /\ row # rows[m]
  /\ rows' = [rows EXCEPT ![m] = row]
  /\ fitting' = fitting \cup IF row.there /\ row.active /\ row.fits THEN {m} ELSE {}
  /\ touched' = touched \cup {m}
  /\ UNCHANGED <<query, stage, searchVars, semantic, keyword, missing, byId, heard, reply>>

UpdateText(m) == \E t \in Text : Writes(m, [rows[m] EXCEPT !.text = t])
UpdateMetadata(m) == query.filter = "metadata" /\ Writes(m, [rows[m] EXCEPT !.fits = ~@])
Archive(m) == Writes(m, [rows[m] EXCEPT !.active = FALSE])
ForgetRow(m) == Writes(m, [rows[m] EXCEPT !.there = FALSE])

RecallInit ==
  /\ \E texts \in [Stored -> Text], scope \in {"none", "agent", "metadata"} :
       /\ rows = [m \in Stored |-> [text |-> texts[m], active |-> TRUE, there |-> TRUE,
                                    fits |-> scope = "none" \/ m \notin Outsiders]]
       /\ \E channel \in Channels, topK \in TopKs, mmr, rerank \in BOOLEAN :
            /\ ~(mmr /\ rerank)
            /\ query = [filter |-> scope, channel |-> channel, topK |-> topK,
                        mmr |-> mmr, rerank |-> rerank]
  /\ stage = "embedded" /\ asked = FetchK /\ nearest = << >>
  /\ semantic = << >> /\ keyword = << >> /\ missing = {} /\ byId = << >>
  /\ heard = {} /\ reply = << >>
  /\ fitting = Fitting /\ touched = {}

RecallNext ==
  \/ SearchJoined \/ SearchVectors \/ ReadHits \/ SearchKeyword \/ SearchCorpus \/ KeywordFails
  \/ Fetched \/ Reply \/ Rerank
  \/ \E m \in Stored : \/ FetchMissing(m)
                       \/ UpdateText(m) \/ UpdateMetadata(m) \/ Archive(m) \/ ForgetRow(m)

--------------------------------------------------------------------------------
(* Properties *)

\* Whatever is returned was active and passed the filter at some moment of the call,
\* though reads at several moments make the answer.
OnlyFittingReturned == stage = "done" => ToSet(reply) \subseteq fitting

Position(m) == CHOOSE i \in DOMAIN reply : reply[i] = m

\* Closer to the query, and more relevant if the keyword search is used.
Beats(a, b) ==
  /\ Closer(a, b)
  /\ query.channel # "off" => MoreRelevant(a, b) /\ {a, b} \subseteq heard

\* A memory that is both closer to the query and more relevant than another one never
\* stays behind it, whatever the limits of the two searches cut off and however the
\* scores are scaled; MMR may only put it behind for what its first choice has said.
\* (Both memories are unchanged during the call, and pass its filter.)
BetterInBothComesFirst ==
  stage = "done" /\ ~query.rerank =>
    \A a, b \in Fitting \ touched :
      Beats(a, b) /\ b \in ToSet(reply) =>
        \/ a \in ToSet(reply) /\ Position(a) < Position(b)
        \/ query.mmr /\ Position(b) > 1

================================================================================
