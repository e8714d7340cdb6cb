-------------------------------- MODULE Chunking -------------------------------
(***************************************************************************)
(* The chunking strategies of src/chunking/index.ts.  A text is a sequence *)
(* of characters, of which only the blanks matter: TRUE is a character     *)
(* that trim() leaves.  A chunk is its place in the text, from and to; the *)
(* windows of a text and the pieces of a document are such places, too.    *)
(*                                                                         *)
(* The loops are recursive functions of the place at which they go on.     *)
(***************************************************************************)
EXTENDS Naturals, Sequences, SequencesExt, FiniteSets, FiniteSetsExt, Functions

CONSTANTS
  Sizes, Overlaps,    \* values of the options chunkSize and overlap
  MinSize,            \* the smallest chunk size, 32
  MaxLength           \* bound on the characters of a document

ASSUME ChunkingAssumption ==
  /\ Sizes \subseteq Nat /\ Overlaps \subseteq Nat
  /\ MinSize \in Nat \ {0, 1} /\ MaxLength \in Nat

VARIABLES
  document,     \* characters, and the pieces of sentences or sections, in their order
  options       \* the strategy and its options

chunkingVars == <<document, options>>

Least(a, b) == IF a < b THEN a ELSE b
Most(a, b) == IF a < b THEN b ELSE a

\* clampOptions
ChunkSize == Most(MinSize, options.chunkSize)
Overlap == Least(options.overlap, ChunkSize \div 2)

\* trim() of the characters from .. to of t: nothing, or the place of what is left.
Trimmed(t, from, to) ==
  LET solid == {i \in from .. to : t[i]}
  IN  IF solid = {} THEN << >> ELSE <<[from |-> Min(solid), to |-> Max(solid)]>>

\* Faulty variant: the next window starts one character too late.
NextStart_Late(start, end) == Most((end + 2) - Overlap, start + 1)

\* start = Math.max(end - overlap, start + 1), for windows of places from 1.
NextStart(start, end) == Most((end + 1) - Overlap, start + 1)

SlidingWindow(t) ==
  LET from[start \in 1 .. Len(t) + 1] ==
        LET end == Least(start + ChunkSize - 1, Len(t))
        IN  IF start > Len(t) THEN << >>
            ELSE Trimmed(t, start, end) \o
                   (IF end >= Len(t) THEN << >> ELSE from[NextStart(start, end)])
  IN  from[1]

\* The hard split of a piece longer than a chunk: no overlap, and blanks stay chunks.
HardSplit(t, p) ==
  LET from[start \in p.from .. p.to + 1] ==
        LET end == Least(start + ChunkSize - 1, p.to)
            text == Trimmed(t, start, end)
        IN  IF start > p.to THEN << >>
            ELSE (IF text = << >> THEN <<[from |-> start, to |-> start - 1]>> ELSE text)
                   \o from[end + 1]
  IN  from[p.from]

Length(p) == (p.to - p.from) + 1

\* A piece is joined to buf if both fit into a chunk; otherwise buf is flushed.
Merge(t, state, p) ==
  LET whole == [from |-> state.buf.from, to |-> p.to]
      flushed == state.chunks \o (IF state.empty THEN << >> ELSE <<state.buf>>)
  IN  IF ~state.empty /\ Length(whole) <= ChunkSize
      THEN [state EXCEPT !.buf = whole]
      ELSE IF Length(p) <= ChunkSize
      THEN [chunks |-> flushed, buf |-> p, empty |-> FALSE]
      ELSE [chunks |-> flushed \o HardSplit(t, p), buf |-> p, empty |-> TRUE]

NothingMerged == [chunks |-> << >>, buf |-> [from |-> 1, to |-> 0], empty |-> TRUE]

MergedChunks(t, pieces) ==
  LET merged[k \in 0 .. Len(pieces)] ==
        IF k = 0 THEN NothingMerged ELSE Merge(t, merged[k - 1], pieces[k])
      last == merged[Len(pieces)]
  IN  last.chunks \o (IF last.empty THEN << >> ELSE <<last.buf>>)

\* windowChunks: with an overlap, more than one chunk is replaced by windows over the
\* joined pieces.
WindowChunks(t, pieces) ==
  LET chunks == MergedChunks(t, pieces)
  IN  IF Overlap > 0 /\ Len(chunks) > 1 THEN SlidingWindow(t) ELSE chunks

--------------------------------------------------------------------------------
(* A document after split, trim and filter: pieces with joining blanks between. *)

\* One blank joins sentences, two join paragraphs and sections.
Joiner == IF options.strategy = "sentence" THEN 1 ELSE 2

\* What is between two of these ends.
Pieces(t, ends) ==
  {p \in [from : 1 .. Len(t), to : 1 .. Len(t)] :
     /\ p.from = 1 \/ p.from - 1 \in ends
     /\ p.to = Len(t) \/ p.to + 1 \in ends
     /\ \A i \in p.from .. p.to : i \notin ends
     /\ p.from <= p.to}

Orders(ps) ==
  {s \in Bijection(1 .. Cardinality(ps), ps) :
     \A i, j \in DOMAIN s : i < j => s[i].from < s[j].from}

\* The pieces are trimmed and not empty, and a joiner stands between two of them.
Splits(t, ends) ==
  /\ \A e \in ends : e > 1 /\ e < Len(t)
  /\ \A p \in Pieces(t, ends) : t[p.from] /\ t[p.to]
  /\ \A e \in ends : e - 1 \notin ends =>
       e .. e + Joiner - 1 \subseteq ends /\ e + Joiner \notin ends

Chunks ==
  IF options.strategy = "fixed" THEN SlidingWindow(document.text)
  ELSE WindowChunks(document.text, document.pieces)

ChunkingInit ==
  /\ \E size \in Sizes, overlap \in Overlaps, strategy \in {"fixed", "sentence", "paragraph"} :
       options = [strategy |-> strategy, chunkSize |-> size, overlap |-> overlap]
  /\ \E n \in 1 .. MaxLength : \E t \in [1 .. n -> BOOLEAN] :
       IF options.strategy = "fixed" THEN document = [text |-> t, pieces |-> << >>]
       ELSE \E ends \in SUBSET {i \in 1 .. n : ~t[i]} :
              /\ Splits(t, ends)
              /\ \E pieces \in Orders(Pieces(t, ends)) :
                   document = [text |-> t, pieces |-> pieces]

--------------------------------------------------------------------------------
(* Properties *)

\* Chunking loses no character and makes no chunk too long.  Where windows overlap, a
\* phrase no longer than the overlap and one more character is never cut in two by
\* every chunk: some chunk holds all of it.
PhrasesSurvive ==
  LET t == document.text
      chunks == Chunks
      windowed == options.strategy = "fixed" \/ (Overlap > 0 /\ Len(chunks) > 1)
      length == IF windowed THEN Overlap + 1 ELSE 1
      held(from, to) == \E c \in ToSet(chunks) : c.from <= from /\ to <= c.to
  IN  /\ \A c \in ToSet(chunks) : Length(c) <= ChunkSize
      /\ \A from, to \in 1 .. Len(t) :
           /\ from <= to /\ (to - from) + 1 <= length
           /\ \A i \in from .. to : t[i]
           => held(from, to)

================================================================================
