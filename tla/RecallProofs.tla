----------------------------- MODULE RecallProofs ------------------------------
(***************************************************************************)
(* Proofs about Filters, Recall and Chunking: that the translations of a   *)
(* filter and matchesFilter() select the same rows, that recall() returns  *)
(* only what its filter accepted, that the two scores of a memory and the  *)
(* limits of the two searches keep the better of two memories first, and   *)
(* that chunking loses no phrase; for any fields, values, memories, texts, *)
(* options and limits.                                                     *)
(***************************************************************************)
EXTENDS Filters, Recall, Chunking, FiniteSetTheorems, SequenceTheorems,
        WellFoundedInduction, TLAPS

--------------------------------------------------------------------------------
(* Filters *)

FilterSpec == FilterInit /\ [][UNCHANGED filterVars]_filterVars

FilterShape ==
  /\ filter.join \in {"and", "or"} /\ filter.left \in Comparison /\ filter.right \in Comparison

\* A truth value of SQL that selects a row when b is true, and is no error.
Selects(x, b) == x \in {"yes", "no", "null"} /\ (x = "yes" <=> b)

Negation(c, x) == IF c.negated THEN SqlNot(x) ELSE x

\* A truth value of SQL that selects a row at least when b is true, and is no error.
Covers(x, b) == x \in {"yes", "no", "null"} /\ (b => x = "yes")

--------------------------------------------------------------------------------
(* LIKE *)

SomeString == Seq(DOMAIN Lower)

\* What is included stands at the place where LIKE finds it.
LEMMA IncludedIsLike ==
  ASSUME NEW S, NEW s \in Seq(S), NEW T, NEW t \in Seq(T),
         NEW fold, Includes(s, t)
  PROVE  Like(s, t, fold)
<1> DEFINE solid == {j \in DOMAIN t : t[j] # "%"}
<1>1. PICK k \in 0 .. Len(s) : k + Len(t) <= Len(s) /\ \A j \in DOMAIN t : s[k + j] = t[j]
  BY DEF Includes
<1>2. /\ DOMAIN s = 1 .. Len(s) /\ Len(s) \in Nat
      /\ DOMAIN t = 1 .. Len(t) /\ Len(t) \in Nat
  OBVIOUS
<1> DEFINE at == [j \in solid |-> k + j]
<1>3. at \in [solid -> DOMAIN s]
  BY <1>1, <1>2
<1>4. \A j \in solid : s[at[j]] = t[j]
  BY <1>1
<1>5. \A i, j \in solid : i < j => at[i] < at[j] /\ at[j] = at[i] + (j - i)
  BY <1>1, <1>2
<1> HIDE DEF at
<1> QED BY <1>3, <1>4, <1>5 DEF Like

\* Without wildcards, and with no character that only the fold takes for another, what
\* LIKE finds is included.
LEMMA LikeIsIncluded ==
  ASSUME NEW S, NEW s \in Seq(S), NEW T, NEW t \in Seq(T),
         NEW fold
  PROVE  (/\ Like(s, t, fold)
          /\ \A j \in DOMAIN t : t[j] \notin {"%", "_"}
          /\ \A i \in DOMAIN s, j \in DOMAIN t : fold[s[i]] = fold[t[j]] => s[i] = t[j])
         => Includes(s, t)
<1>1. /\ DOMAIN s = 1 .. Len(s) /\ Len(s) \in Nat
      /\ DOMAIN t = 1 .. Len(t) /\ Len(t) \in Nat
  OBVIOUS
<1>0. SUFFICES ASSUME Like(s, t, fold),
                      \A j \in DOMAIN t : t[j] \notin {"%", "_"},
                      \A i \in DOMAIN s, j \in DOMAIN t :
                        fold[s[i]] = fold[t[j]] => s[i] = t[j]
               PROVE  Includes(s, t)
  OBVIOUS
<1>2. {j \in DOMAIN t : t[j] # "%"} = DOMAIN t
  BY <1>0
<1>3. PICK at \in [DOMAIN t -> DOMAIN s] :
        /\ \A j \in DOMAIN t : t[j] = "_" \/ fold[s[at[j]]] = fold[t[j]]
        /\ \A i, j \in DOMAIN t : i < j =>
             /\ at[i] < at[j]
             /\ i .. j \subseteq DOMAIN t => at[j] = at[i] + (j - i)
  <2> DEFINE solid == {j \in DOMAIN t : t[j] # "%"}
  <2>1. \E at \in [solid -> DOMAIN s] :
          /\ \A j \in solid : t[j] = "_" \/ fold[s[at[j]]] = fold[t[j]]
          /\ \A i, j \in solid : i < j =>
               /\ at[i] < at[j]
               /\ i .. j \subseteq solid => at[j] = at[i] + (j - i)
    BY <1>0 DEF Like
  <2>2. solid = DOMAIN t
    BY <1>2
  <2> HIDE DEF solid
  <2> QED BY <2>1, <2>2
<1>4. \A j \in DOMAIN t : s[at[j]] = t[j]
  BY <1>0, <1>3
<1>5. CASE Len(t) = 0
  BY <1>1, <1>5 DEF Includes
<1>6. CASE Len(t) > 0
  <2>1. 1 \in DOMAIN t /\ Len(t) \in DOMAIN t
    BY <1>1, <1>6
  <2>2. \A j \in DOMAIN t : at[j] = at[1] + (j - 1)
    <3>0. at[1] \in Nat
      <4>1. at[1] \in DOMAIN s
        BY <1>3, <2>1
      <4>2. \A i \in DOMAIN s : i \in Nat
        BY <1>1
      <4> QED BY <4>1, <4>2
    <3>1. SUFFICES ASSUME NEW j \in DOMAIN t, j # 1 PROVE at[j] = at[1] + (j - 1)
      BY <3>0
    <3>2. 1 < j /\ 1 .. j \subseteq DOMAIN t
      BY <1>1, <3>1
    <3> QED BY <1>3, <2>1, <3>2
  <2> DEFINE k == at[1] - 1
  <2>3. at[1] \in 1 .. Len(s) /\ at[Len(t)] \in 1 .. Len(s)
    BY <1>1, <1>3, <2>1
  <2>4. k \in 0 .. Len(s) /\ k + Len(t) <= Len(s)
    BY <1>1, <2>1, <2>2, <2>3
  <2>5. \A j \in DOMAIN t : s[k + j] = t[j]
    <3>1. \A j \in DOMAIN t : at[j] = k + j
      BY <1>1, <2>2, <2>3
    <3> QED BY <1>4, <3>1
  <2> QED BY <2>4, <2>5 DEF Includes
<1> QED BY <1>1, <1>5, <1>6

\* The text of a list of one string includes what the string includes, and nothing
\* else that has none of the characters around it.
LEMMA ListIncludes ==
  ASSUME NEW S, NEW s \in Seq(S), NEW t \in Seq(S)
  PROVE  /\ ListText(s) \in Seq(S \cup {"[", "quote", "]"})
         /\ Includes(s, t) => Includes(ListText(s), t)
         /\ (\A j \in DOMAIN t : t[j] \notin {"[", "quote", "]"}) =>
              (Includes(ListText(s), t) => Includes(s, t))
<1> DEFINE u == ListText(s)
           C == S \cup {"[", "quote", "]"}
<1>1. /\ DOMAIN s = 1 .. Len(s) /\ Len(s) \in Nat
      /\ DOMAIN t = 1 .. Len(t) /\ Len(t) \in Nat
  OBVIOUS
<1>2. /\ u \in Seq(C) /\ Len(u) = Len(s) + 4
      /\ u[1] = "[" /\ u[2] = "quote" /\ u[Len(s) + 3] = "quote" /\ u[Len(s) + 4] = "]"
      /\ \A i \in 1 .. Len(s) : u[i + 2] = s[i]
  <2>1. <<"[", "quote">> \in Seq(C) /\ <<"quote", "]">> \in Seq(C) /\ s \in Seq(C)
    BY <1>1
  <2>2. /\ <<"[", "quote">> \o s \in Seq(C) /\ Len(<<"[", "quote">> \o s) = Len(s) + 2
        /\ \A i \in 1 .. Len(s) + 2 :
             (<<"[", "quote">> \o s)[i] = IF i <= 2 THEN <<"[", "quote">>[i] ELSE s[i - 2]
    BY <1>1, <2>1
  <2> DEFINE front == <<"[", "quote">> \o s
  <2>3. u = front \o <<"quote", "]">>
    BY DEF ListText
  <2> HIDE DEF front, u
  <2>4. front \in Seq(C) /\ Len(front) = Len(s) + 2
    BY <2>2 DEF front
  <2>5. /\ u \in Seq(C) /\ Len(u) = Len(front) + 2
        /\ \A i \in 1 .. Len(front) + 2 :
             u[i] = IF i <= Len(front) THEN front[i] ELSE <<"quote", "]">>[i - Len(front)]
    BY <2>1, <2>3, <2>4
  <2>6. \A i \in 1 .. Len(s) : u[i + 2] = s[i]
    BY <1>1, <2>2, <2>4, <2>5 DEF front
  <2>7. u[1] = "[" /\ u[2] = "quote"
    BY <1>1, <2>2, <2>4, <2>5 DEF front
  <2>8. u[Len(s) + 3] = "quote" /\ u[Len(s) + 4] = "]"
    <3>1. /\ Len(s) + 3 \in 1 .. Len(front) + 2 /\ ~(Len(s) + 3 <= Len(front))
          /\ Len(s) + 4 \in 1 .. Len(front) + 2 /\ ~(Len(s) + 4 <= Len(front))
          /\ (Len(s) + 3) - Len(front) = 1 /\ (Len(s) + 4) - Len(front) = 2
      BY <1>1, <2>4
    <3>2. /\ u[Len(s) + 3] = <<"quote", "]">>[(Len(s) + 3) - Len(front)]
          /\ u[Len(s) + 4] = <<"quote", "]">>[(Len(s) + 4) - Len(front)]
      BY <2>5, <3>1
    <3>3. <<"quote", "]">>[1] = "quote" /\ <<"quote", "]">>[2] = "]"
      OBVIOUS
    <3>4. /\ u[Len(s) + 3] = <<"quote", "]">>[1]
          /\ u[Len(s) + 4] = <<"quote", "]">>[2]
      BY <3>1, <3>2, Zenon
    <3> QED BY <3>3, <3>4, Zenon
  <2> QED BY <1>1, <2>4, <2>5, <2>6, <2>7, <2>8
<1> HIDE DEF u
<1>3. ASSUME Includes(s, t) PROVE Includes(u, t)
  <2>1. PICK k \in 0 .. Len(s) : k + Len(t) <= Len(s) /\ \A j \in DOMAIN t : s[k + j] = t[j]
    BY <1>3 DEF Includes
  <2>2. k + 2 \in 0 .. Len(u) /\ k + 2 + Len(t) <= Len(u)
    BY <1>1, <1>2, <2>1
  <2>3. \A j \in DOMAIN t : u[k + 2 + j] = t[j]
    <3>1. SUFFICES ASSUME NEW j \in DOMAIN t PROVE u[k + 2 + j] = t[j]
      OBVIOUS
    <3>2. k + j \in 1 .. Len(s) /\ (k + j) + 2 = k + 2 + j
      BY <1>1, <2>1
    <3> QED BY <1>2, <2>1, <3>2
  <2> QED BY <2>2, <2>3 DEF Includes
<1>4. ASSUME \A j \in DOMAIN t : t[j] \notin {"[", "quote", "]"}, Includes(u, t)
      PROVE  Includes(s, t)
  <2>1. PICK k \in 0 .. Len(u) : k + Len(t) <= Len(u) /\ \A j \in DOMAIN t : u[k + j] = t[j]
    BY <1>4 DEF Includes
  <2>2. CASE Len(t) = 0
    BY <1>1, <2>2 DEF Includes
  <2>3. CASE Len(t) > 0
    <3>1. \A j \in DOMAIN t : k + j \notin {1, 2, Len(s) + 3, Len(s) + 4}
      BY <1>2, <1>4, <2>1
    <3>2. 1 \in DOMAIN t /\ Len(t) \in DOMAIN t
      BY <1>1, <2>3
    <3>3. k >= 2
      BY <1>1, <2>1, <3>1, <3>2
    <3>4. k + Len(t) <= Len(s) + 2
      <4>1. k + Len(t) \notin {Len(s) + 3, Len(s) + 4}
        BY <3>1, <3>2
      <4>2. k + Len(t) <= Len(s) + 4 /\ k \in Nat
        BY <1>1, <1>2, <2>1
      <4> QED BY <1>1, <4>1, <4>2
    <3>5. k - 2 \in 0 .. Len(s) /\ (k - 2) + Len(t) <= Len(s)
      BY <1>1, <1>2, <2>1, <3>3, <3>4
    <3>6. \A j \in DOMAIN t : s[(k - 2) + j] = t[j]
      <4>1. SUFFICES ASSUME NEW j \in DOMAIN t PROVE s[(k - 2) + j] = t[j]
        OBVIOUS
      <4>2. (k - 2) + j \in 1 .. Len(s) /\ (k - 2) + j + 2 = k + j
        BY <1>1, <2>1, <3>3, <3>4
      <4> QED BY <1>2, <2>1, <4>2
    <3> QED BY <3>5, <3>6 DEF Includes
  <2> QED BY <1>1, <2>2, <2>3
<1> QED BY <1>2, <1>3, <1>4 DEF u

--------------------------------------------------------------------------------
(* Comparisons *)

LEMMA JoinSelects ==
  ASSUME NEW x, NEW y, NEW a \in BOOLEAN, NEW b \in BOOLEAN, Selects(x, a), Selects(y, b)
  PROVE  /\ SqlAnd({x, y}) = "yes" <=> a /\ b
         /\ SqlOr({x, y}) = "yes" <=> a \/ b
  BY DEF Selects, SqlAnd, SqlOr

LEMMA NegationSelects ==
  ASSUME NEW c, c.negated \in BOOLEAN, NEW x, NEW a \in BOOLEAN, Selects(x, a),
         c.negated => x # "null"
  PROVE  Selects(Negation(c, x), a # c.negated)
  BY DEF Selects, Negation, SqlNot

LEMMA OrderedSelects ==
  ASSUME FilterAssumption, NEW v \in Value, NEW op \in Operation,
         op.name \notin {"eq", "contains"}, \A p \in Parts(op) : Nothing(v) \/ v.kind = p[2].kind
  PROVE  LET a == \A p \in Parts(op) : JsOrdered(p[1], v, p[2])
             x == SqlAnd({SqliteOrdered(p[1], v, p[2]) : p \in Parts(op)})
             y == SqlAnd({PostgresOrdered(p[1], v, p[2]) : p \in Parts(op)})
         IN  /\ Selects(x, a) /\ (~Nothing(v) => x # "null")
             /\ (\A p \in Parts(op) : p[2].kind = "num") =>
                  Selects(y, a) /\ (~Nothing(v) => y # "null")
<1> DEFINE a == \A p \in Parts(op) : JsOrdered(p[1], v, p[2])
           xs == {SqliteOrdered(p[1], v, p[2]) : p \in Parts(op)}
           ys == {PostgresOrdered(p[1], v, p[2]) : p \in Parts(op)}
<1>1. /\ Parts(op) # {} /\ \A p \in Parts(op) : p[2].kind \in {"num", "str"}
  <2>1. CASE op.name = "between"
    BY <2>1 DEF Parts, FilterAssumption
  <2>2. CASE op.name # "between"
    <3>1. op.operand.kind \in {"num", "str"} /\ Parts(op) = {<<op.name, op.operand>>}
      BY <2>2 DEF Parts, FilterAssumption
    <3> QED BY <3>1
  <2> QED BY <2>1, <2>2
<1>2. CASE Nothing(v)
  <2>1. xs = {"null"} /\ ~a
    BY <1>1, <1>2 DEF SqliteOrdered, JsOrdered
  <2>2. (\A p \in Parts(op) : p[2].kind = "num") => ys = {"null"}
    BY <1>1, <1>2 DEF PostgresOrdered
  <2> QED BY <1>2, <2>1, <2>2 DEF Selects, SqlAnd
<1>3. CASE ~Nothing(v)
  <2>1. \A p \in Parts(op) : v.kind = p[2].kind
    BY <1>3
  <2>2. \A p \in Parts(op) : /\ JsOrdered(p[1], v, p[2]) <=> Ordered(p[1], v.n, p[2].n)
                             /\ SqliteOrdered(p[1], v, p[2]) = Truth(Ordered(p[1], v.n, p[2].n))
    <3>1. PlaceOf(v) = v.n /\ \A p \in Parts(op) : PlaceOf(p[2]) = p[2].n
      BY <1>1, <2>1 DEF PlaceOf
    <3> QED BY <1>1, <1>3, <2>1, <3>1 DEF JsOrdered, SqliteOrdered, SqliteText
  <2>3. (\A p \in Parts(op) : p[2].kind = "num") =>
          \A p \in Parts(op) : PostgresOrdered(p[1], v, p[2]) = Truth(Ordered(p[1], v.n, p[2].n))
    BY <1>3, <2>1 DEF PostgresOrdered
  <2>4. \A zs : zs = {Truth(Ordered(p[1], v.n, p[2].n)) : p \in Parts(op)} =>
          SqlAnd(zs) \in {"yes", "no"} /\ (SqlAnd(zs) = "yes" <=> a)
    BY <2>2 DEF SqlAnd, Truth
  <2>5. xs = {Truth(Ordered(p[1], v.n, p[2].n)) : p \in Parts(op)}
    BY <2>2
  <2>6. (\A p \in Parts(op) : p[2].kind = "num") =>
          ys = {Truth(Ordered(p[1], v.n, p[2].n)) : p \in Parts(op)}
    BY <2>3
  <2>7. SqlAnd(xs) \in {"yes", "no"} /\ (SqlAnd(xs) = "yes" <=> a)
    BY <2>4, <2>5
  <2>8. (\A p \in Parts(op) : p[2].kind = "num") =>
          SqlAnd(ys) \in {"yes", "no"} /\ (SqlAnd(ys) = "yes" <=> a)
    BY <2>4, <2>6
  <2> HIDE DEF xs, ys, a
  <2>9. Selects(SqlAnd(xs), a) /\ SqlAnd(xs) # "null"
    BY <2>7 DEF Selects
  <2>10. (\A p \in Parts(op) : p[2].kind = "num") => Selects(SqlAnd(ys), a) /\ SqlAnd(ys) # "null"
    BY <2>8 DEF Selects
  <2> QED BY <2>9, <2>10 DEF xs, ys, a
<1> QED BY <1>2, <1>3

LEMMA JsonRecord ==
  ASSUME NEW v \in Json
  PROVE  /\ v = [kind |-> v.kind, n |-> v.n] /\ v.n \in Nat
         /\ v.kind \in {"missing", "null"} => v.n = 0
         /\ v.kind \in {"str", "list"} => v.n \in DOMAIN Spelling
BY DEF Json

\* LIKE selects what JavaScript finds, and without wildcards nothing else, but for the
\* case of letters on SQLite.
LEMMA ContainsSelects ==
  ASSUME FilterAssumption, NEW c \in Comparison, NEW v \in Value, Regular(v, c),
         c.op.name = "contains"
  PROVE  LET a == JsCompare(v, c.op)
             x == SqliteCompare(v, c.op)
             y == PostgresCompare(v, c.op)
         IN  /\ Covers(x, a) /\ Covers(y, a)
             /\ ~Nothing(v) => x # "null" /\ y # "null"
             /\ Literal(v, c) => (y = "yes" => a)
             /\ Literal(v, c) /\ OneCase(v, c) => (x = "yes" => a)
<1> DEFINE op == c.op
           a == JsCompare(v, op)
           x == SqliteCompare(v, op)
           y == PostgresCompare(v, op)
           C == DOMAIN Lower
           s == Spelling[v.n]
           t == Spelling[op.operand.n]
           u == TextOfValue(v)
<1>1. /\ op \in Operation /\ v \in Json /\ op.operand \in Json /\ op.operand.kind = "str"
      /\ Nothing(v) \/ v.kind \in {"str", "list"}
  BY DEF Comparison, FilterAssumption, Regular, SameKind
<1>2. /\ a <=> v.kind \in {"str", "list"} /\ Includes(s, t)
      /\ x = IF Nothing(v) THEN "null" ELSE Truth(Like(u, t, Lower))
      /\ v.kind # "bool" => y = IF Nothing(v) THEN "null" ELSE Truth(Like(u, t, Exact))
  BY DEF JsCompare, SqliteCompare, PostgresCompare, SqliteContains, PostgresContains
<1>3. CASE Nothing(v)
  BY <1>2, <1>3 DEF Nothing, Covers
<1>4. CASE ~Nothing(v)
  <2>1. v.kind \in {"str", "list"} /\ v.n \in DOMAIN Spelling /\ op.operand.n \in DOMAIN Spelling
    BY <1>1, <1>4, JsonRecord
  <2>2. s \in Seq(C) /\ t \in Seq(C) /\ {"[", "quote", "]"} \subseteq C
    BY <2>1, ElementOfSeq DEF FilterAssumption
  <2>3. /\ v.kind = "str" => u = s
        /\ v.kind = "list" => u = ListText(s)
    BY <2>1 DEF TextOfValue
  <2> HIDE DEF s, t, u, C
  <2>4. /\ u \in Seq(C) /\ (Includes(s, t) => Includes(u, t))
        /\ (v.kind = "list" => \A j \in DOMAIN t : t[j] \notin {"[", "quote", "]"}) =>
             (Includes(u, t) => Includes(s, t))
    <3>1. CASE v.kind = "str"
      BY <2>2, <2>3, <3>1
    <3>2. CASE v.kind = "list"
      <4>1. C \cup {"[", "quote", "]"} = C
        BY <2>2
      <4> QED BY <2>2, <2>3, <3>2, <4>1, ListIncludes
    <3> QED BY <2>1, <3>1, <3>2
  <2>5. Includes(u, t) => Like(u, t, Lower) /\ Like(u, t, Exact)
    BY <2>2, <2>4, IncludedIsLike
  <2>6. ASSUME Literal(v, c)
        PROVE  /\ \A j \in DOMAIN t : t[j] \notin {"%", "_"}
               /\ v.kind = "list" => \A j \in DOMAIN t : t[j] \notin {"[", "quote", "]"}
    BY <2>6 DEF Literal, t
  <2>7. ASSUME Literal(v, c), Like(u, t, Exact) PROVE Includes(s, t)
    <3>1. \A i \in DOMAIN u, j \in DOMAIN t : Exact[u[i]] = Exact[t[j]] => u[i] = t[j]
      <4>1. SUFFICES ASSUME NEW i \in DOMAIN u, NEW j \in DOMAIN t
                     PROVE  Exact[u[i]] = u[i] /\ Exact[t[j]] = t[j]
        OBVIOUS
      <4>2. u[i] \in C /\ t[j] \in C
        BY <2>2, <2>4, ElementOfSeq
      <4> QED BY <4>2 DEF Exact, C
    <3>2. Includes(u, t)
      BY <2>2, <2>4, <2>6, <2>7, <3>1, LikeIsIncluded
    <3> QED BY <2>4, <2>6, <2>7, <3>2
  <2>8. ASSUME Literal(v, c), OneCase(v, c), Like(u, t, Lower) PROVE Includes(s, t)
    <3>1. \A i \in DOMAIN u, j \in DOMAIN t : Lower[u[i]] = Lower[t[j]] => u[i] = t[j]
      BY <1>4, <2>8 DEF OneCase, u, t
    <3>2. Includes(u, t)
      BY <2>2, <2>4, <2>6, <2>8, <3>1, LikeIsIncluded
    <3> QED BY <2>4, <2>6, <2>8, <3>2
  <2>9. /\ x = Truth(Like(u, t, Lower)) /\ y = Truth(Like(u, t, Exact)) /\ (a <=> Includes(s, t))
    BY <1>2, <1>4, <2>1
  <2> HIDE DEF a, x, y
  <2> QED BY <2>4, <2>5, <2>7, <2>8, <2>9 DEF Covers, Truth, a, x, y
<1> QED BY <1>3, <1>4

\* A comparison selects by SQL what it matches in memory.
LEMMA CompareSelects ==
  ASSUME FilterAssumption, NEW c \in Comparison, NEW v \in Value, Regular(v, c),
         Literal(v, c), c.op.name = "eq" => c.op.operand.kind \notin {"list", "missing"}
  PROVE  LET a == JsCompare(v, c.op) # c.negated
         IN  /\ OneCase(v, c) => Selects(Negation(c, SqliteCompare(v, c.op)), a)
             /\ OnPostgres(c) => Selects(Negation(c, PostgresCompare(v, c.op)), a)
<1> DEFINE op == c.op
           a == JsCompare(v, op)
<1>1. c.negated \in BOOLEAN /\ op \in Operation /\ (Nothing(v) => ~c.negated) /\ v \in Json
  BY DEF Comparison, Regular, FilterAssumption
<1>2. /\ OneCase(v, c) => /\ Selects(SqliteCompare(v, op), a)
                          /\ ~Nothing(v) => SqliteCompare(v, op) # "null"
      /\ OnPostgres(c) => /\ Selects(PostgresCompare(v, op), a)
                          /\ ~Nothing(v) => PostgresCompare(v, op) # "null"
  <2>1. CASE op.name = "eq"
    <3>1. op.operand \in Json /\ op.operand.kind \notin {"list", "bool", "missing"} /\ v.kind # "list"
          /\ (Nothing(v) \/ v.kind = op.operand.kind \/ op.operand.kind = "null")
      BY <1>1, <2>1 DEF FilterAssumption, Regular, SameKind
    <3>2. v = op.operand <=> v.kind = op.operand.kind /\ v.n = op.operand.n
      BY <1>1, <3>1, JsonRecord
    <3>3. a <=> v = op.operand
      BY <2>1, <3>1 DEF JsCompare
    <3>4. PostgresCompare(v, op) = Truth(v = op.operand)
      BY <2>1 DEF PostgresCompare
    <3>5. CASE op.operand.kind = "null"
      <4>1. SqliteCompare(v, op) = IF v.kind = "missing" THEN "null" ELSE Truth(v.kind = "null")
        BY <2>1, <3>5 DEF SqliteCompare, SqliteEqual
      <4>2. v.kind = "null" => v.n = op.operand.n
        BY <1>1, <3>1, <3>5, JsonRecord
      <4> QED BY <3>2, <3>3, <3>4, <3>5, <4>1, <4>2 DEF Selects, Truth, Nothing
    <3>6. CASE op.operand.kind # "null"
      <4>1. SqliteCompare(v, op) =
              IF Nothing(v) THEN "null"
              ELSE Truth(SqliteText(v) = SqliteText(op.operand) /\ v.n = op.operand.n)
        <5>1. PlaceOf(v) = v.n /\ PlaceOf(op.operand) = op.operand.n
          BY <3>1 DEF PlaceOf
        <5> QED BY <2>1, <3>1, <3>6, <5>1 DEF SqliteCompare, SqliteEqual
      <4>2. CASE Nothing(v)
        <5>1. v # op.operand
          BY <3>1, <3>6, <4>2 DEF Nothing
        <5> QED BY <3>3, <3>4, <4>1, <4>2, <5>1 DEF Selects, Truth
      <4>3. CASE ~Nothing(v)
        BY <3>1, <3>2, <3>3, <3>4, <3>6, <4>1, <4>3 DEF Selects, Truth, SqliteText
      <4> QED BY <4>2, <4>3
    <3> QED BY <3>5, <3>6
  <2>2. CASE op.name = "contains"
    <3>1. LET x == SqliteCompare(v, c.op)
              y == PostgresCompare(v, c.op)
          IN  /\ Covers(x, a) /\ Covers(y, a)
              /\ ~Nothing(v) => x # "null" /\ y # "null"
              /\ y = "yes" => a
              /\ OneCase(v, c) => (x = "yes" => a)
      BY <2>2, ContainsSelects
    <3> HIDE DEF a
    <3> QED BY <3>1 DEF Selects, Covers
  <2>3. CASE op.name \notin {"eq", "contains"}
    <3>1. \A p \in Parts(op) : Nothing(v) \/ v.kind = p[2].kind
      BY <2>3 DEF Regular
    <3>2. /\ a <=> \A p \in Parts(op) : JsOrdered(p[1], v, p[2])
          /\ SqliteCompare(v, op) = SqlAnd({SqliteOrdered(p[1], v, p[2]) : p \in Parts(op)})
          /\ PostgresCompare(v, op) = SqlAnd({PostgresOrdered(p[1], v, p[2]) : p \in Parts(op)})
      BY <2>3 DEF JsCompare, SqliteCompare, PostgresCompare
    <3>3. OnPostgres(c) => \A p \in Parts(op) : p[2].kind = "num"
      BY <2>3 DEF OnPostgres
    <3> DEFINE b == \A p \in Parts(op) : JsOrdered(p[1], v, p[2])
               x == SqlAnd({SqliteOrdered(p[1], v, p[2]) : p \in Parts(op)})
               y == SqlAnd({PostgresOrdered(p[1], v, p[2]) : p \in Parts(op)})
    <3>4. /\ Selects(x, b) /\ (~Nothing(v) => x # "null")
          /\ (\A p \in Parts(op) : p[2].kind = "num") =>
               Selects(y, b) /\ (~Nothing(v) => y # "null")
      <4> HIDE DEF op
      <4> QED BY <1>1, <2>3, <3>1, OrderedSelects
    <3> HIDE DEF b, x, y
    <3>5. (a <=> b) /\ SqliteCompare(v, op) = x /\ PostgresCompare(v, op) = y
      BY <3>2 DEF b, x, y
    <3> QED BY <3>3, <3>4, <3>5 DEF Selects
  <2> QED BY <2>1, <2>2, <2>3
<1>3. a \in BOOLEAN
  BY DEF JsCompare, JsOrdered
<1> HIDE DEF op, a
<1>4. OneCase(v, c) => Selects(Negation(c, SqliteCompare(v, op)), a # c.negated)
  BY <1>1, <1>2, <1>3, NegationSelects
<1>5. OnPostgres(c) => Selects(Negation(c, PostgresCompare(v, op)), a # c.negated)
  BY <1>1, <1>2, <1>3, NegationSelects
<1> QED BY <1>4, <1>5 DEF op, a

\* Without a negation, SQL selects whatever matches in memory.
LEMMA CompareCovers ==
  ASSUME FilterAssumption, NEW c \in Comparison, NEW v \in Value, Regular(v, c), ~c.negated,
         c.op.name = "eq" => c.op.operand.kind \notin {"list", "missing"}
  PROVE  /\ Covers(SqliteCompare(v, c.op), JsCompare(v, c.op))
         /\ OnPostgres(c) => Covers(PostgresCompare(v, c.op), JsCompare(v, c.op))
<1>1. CASE c.op.name = "contains"
  BY <1>1, ContainsSelects
<1>2. CASE c.op.name # "contains"
  <2>1. Literal(v, c) /\ OneCase(v, c)
    BY <1>2 DEF Literal, OneCase
  <2>2. /\ Selects(Negation(c, SqliteCompare(v, c.op)), JsCompare(v, c.op) # c.negated)
        /\ OnPostgres(c) =>
             Selects(Negation(c, PostgresCompare(v, c.op)), JsCompare(v, c.op) # c.negated)
    BY <2>1, CompareSelects
  <2>3. /\ c.negated = FALSE /\ JsCompare(v, c.op) \in BOOLEAN
        /\ \A z : Negation(c, z) = z
    BY DEF Comparison, Negation, JsCompare, JsOrdered
  <2> QED BY <2>2, <2>3 DEF Selects, Covers
<1> QED BY <1>1, <1>2

LEMMA JoinCovers ==
  ASSUME NEW x, NEW y, NEW a \in BOOLEAN, NEW b \in BOOLEAN, Covers(x, a), Covers(y, b)
  PROVE  /\ a /\ b => SqlAnd({x, y}) = "yes"
         /\ a \/ b => SqlOr({x, y}) = "yes"
BY DEF Covers, SqlAnd, SqlOr

LEMMA FilterStep == FilterShape /\ [UNCHANGED filterVars]_filterVars => FilterShape'
  BY DEF FilterShape, filterVars

LEMMA FilterStart == FilterInit => FilterShape
  BY DEF FilterInit, FilterShape

\* recall() and listMemories() keep the same rows, for every filter of two comparisons
\* and every metadata whose values have the kinds that the filter is about, and in
\* which LIKE finds no wildcards and no letters of the other case; where it does, and
\* nothing is negated, listMemories() has all rows that recall() keeps.
THEOREM OneFilterOneMeaning == FilterSpec => []FiltersAgree
<1>1. ASSUME FilterShape PROVE FiltersAgree
  <2> DEFINE l == filter.left
             r == filter.right
             ordered == OnPostgres(l) /\ OnPostgres(r)
  <2>1. SUFFICES ASSUME NEW md \in Metadata, Both(Regular, md)
                 PROVE  LET kept == MatchesMetadata(filter, md) = "yes"
                            onSqlite == SqliteSelects(filter, md) = "yes"
                            onPostgres == PostgresSelects(filter, md) = "yes"
                        IN  /\ Both(Literal, md) /\ Both(OneCase, md) => (onSqlite <=> kept)
                            /\ Both(Literal, md) /\ ordered => (onPostgres <=> kept)
                            /\ ~l.negated /\ ~r.negated /\ kept =>
                                 onSqlite /\ (ordered => onPostgres)
    BY DEF FiltersAgree
  <2>2. CASE ~Compiles(filter)
    BY <2>2 DEF SqliteSelects, PostgresSelects
  <2>3. CASE Compiles(filter)
    <3>1. /\ l \in Comparison /\ r \in Comparison /\ md[l.field] \in Value /\ md[r.field] \in Value
          /\ l.op.name = "eq" => l.op.operand.kind \notin {"list", "missing"}
          /\ r.op.name = "eq" => r.op.operand.kind \notin {"list", "missing"}
          /\ l.negated \in BOOLEAN /\ r.negated \in BOOLEAN
      BY <1>1, <2>3 DEF FilterShape, Metadata, Comparison, Compiles
    <3>2. /\ Regular(md[l.field], l) /\ Regular(md[r.field], r)
          /\ Both(Literal, md) => Literal(md[l.field], l) /\ Literal(md[r.field], r)
          /\ Both(OneCase, md) => OneCase(md[l.field], l) /\ OneCase(md[r.field], r)
      BY <2>1 DEF Both
    <3> DEFINE a == JsMatches(l, md)
               b == JsMatches(r, md)
               x == Negation(l, SqliteCompare(md[l.field], l.op))
               y == Negation(r, SqliteCompare(md[r.field], r.op))
               v == Negation(l, PostgresCompare(md[l.field], l.op))
               w == Negation(r, PostgresCompare(md[r.field], r.op))
    <3>3. /\ SqliteSelects(filter, md) = IF filter.join = "and" THEN SqlAnd({x, y})
                                         ELSE SqlOr({x, y})
          /\ PostgresSelects(filter, md) = IF filter.join = "and" THEN SqlAnd({v, w})
                                           ELSE SqlOr({v, w})
      BY <2>3 DEF SqliteSelects, PostgresSelects, SqlJoin, Negation
    <3>4. MatchesMetadata(filter, md) = "yes" <=> IF filter.join = "and" THEN a /\ b ELSE a \/ b
      BY DEF MatchesMetadata, Truth
    <3>5. a \in BOOLEAN /\ b \in BOOLEAN
      BY DEF JsMatches
    <3>6. /\ Literal(md[l.field], l) /\ OneCase(md[l.field], l) => Selects(x, a)
          /\ Literal(md[l.field], l) /\ OnPostgres(l) => Selects(v, a)
      BY <3>1, <3>2, FilterAssumption, CompareSelects DEF JsMatches
    <3>7. /\ Literal(md[r.field], r) /\ OneCase(md[r.field], r) => Selects(y, b)
          /\ Literal(md[r.field], r) /\ OnPostgres(r) => Selects(w, b)
      BY <3>1, <3>2, FilterAssumption, CompareSelects DEF JsMatches
    <3>8. ~l.negated => Covers(x, a) /\ (OnPostgres(l) => Covers(v, a))
      <4>1. ~l.negated => /\ \A z : Negation(l, z) = z
                          /\ a <=> JsCompare(md[l.field], l.op)
        BY <3>1 DEF Negation, JsMatches, JsCompare, JsOrdered
      <4> QED BY <3>1, <3>2, <4>1, FilterAssumption, CompareCovers DEF Covers
    <3>9. ~r.negated => Covers(y, b) /\ (OnPostgres(r) => Covers(w, b))
      <4>1. ~r.negated => /\ \A z : Negation(r, z) = z
                          /\ b <=> JsCompare(md[r.field], r.op)
        BY <3>1 DEF Negation, JsMatches, JsCompare, JsOrdered
      <4> QED BY <3>1, <3>2, <4>1, FilterAssumption, CompareCovers DEF Covers
    <3> HIDE DEF l, r, a, b, x, y, v, w
    <3>10. Both(Literal, md) /\ Both(OneCase, md) =>
             /\ SqlAnd({x, y}) = "yes" <=> a /\ b
             /\ SqlOr({x, y}) = "yes" <=> a \/ b
      BY <3>2, <3>5, <3>6, <3>7, JoinSelects
    <3>11. Both(Literal, md) /\ ordered => /\ SqlAnd({v, w}) = "yes" <=> a /\ b
                                           /\ SqlOr({v, w}) = "yes" <=> a \/ b
      BY <3>2, <3>5, <3>6, <3>7, JoinSelects
    <3>12. ~l.negated /\ ~r.negated => /\ a /\ b => SqlAnd({x, y}) = "yes"
                                       /\ a \/ b => SqlOr({x, y}) = "yes"
      BY <3>5, <3>8, <3>9, JoinCovers
    <3>13. ~l.negated /\ ~r.negated /\ ordered => /\ a /\ b => SqlAnd({v, w}) = "yes"
                                                  /\ a \/ b => SqlOr({v, w}) = "yes"
      BY <3>5, <3>8, <3>9, JoinCovers
    <3> QED BY <3>3, <3>4, <3>10, <3>11, <3>12, <3>13
  <2> QED BY <2>2, <2>3
<1> QED BY <1>1, FilterStart, FilterStep, PTL DEF FilterSpec

--------------------------------------------------------------------------------
(* Recall *)

RecallSpec == RecallInit /\ [][RecallNext]_recallVars

--------------------------------------------------------------------------------
(* Finite sets of numbers *)

LEMMA FiniteIsBounded ==
  ASSUME NEW S \in SUBSET Nat, IsFiniteSet(S)
  PROVE  \E b \in Nat : \A x \in S : x <= b
<1> DEFINE Bounded(s) == \E b \in Nat : \A x \in s : x <= b
           Cards == {n \in Nat : \E s \in SUBSET Nat :
                       IsFiniteSet(s) /\ Cardinality(s) = n /\ ~Bounded(s)}
<1>1. SUFFICES ASSUME ~Bounded(S) PROVE FALSE
  OBVIOUS
<1>2. Cards \subseteq Nat /\ Cardinality(S) \in Cards
  BY <1>1, FS_CardinalityType
<1>3. PICK n \in Cards : \A k \in Cards : ~(<<k, n>> \in OpToRel(<, Nat))
  BY <1>2, NatLessThanWellFounded, WFMin
<1>4. \A k \in Cards : ~(k < n)
  BY <1>2, <1>3 DEF OpToRel
<1>5. PICK s \in SUBSET Nat : IsFiniteSet(s) /\ Cardinality(s) = n /\ ~Bounded(s)
  OBVIOUS
<1>6. PICK x \in s : TRUE
  BY <1>5
<1>7. IsFiniteSet(s \ {x}) /\ Cardinality(s \ {x}) = n - 1
  BY <1>5, <1>6, FS_RemoveElement
<1>8. n - 1 \in Nat /\ n - 1 < n
  BY <1>7, FS_CardinalityType, <1>2
<1>9. Bounded(s \ {x})
  BY <1>4, <1>7, <1>8
<1>10. PICK b \in Nat : \A y \in s \ {x} : y <= b
  BY <1>9
<1>11. \A y \in s : y <= b + x
  BY <1>6, <1>10
<1>12. b + x \in Nat
  BY <1>6, <1>10
<1> QED BY <1>5, <1>11, <1>12

LEMMA FiniteHasMax ==
  ASSUME NEW S \in SUBSET Nat, IsFiniteSet(S), S # {}
  PROVE  Max(S) \in S /\ \A x \in S : Max(S) >= x
<1> DEFINE T == {n \in Nat : \A x \in S : x <= n}
<1>1. T \subseteq Nat /\ T # {}
  BY FiniteIsBounded
<1>2. PICK n \in T : \A k \in T : ~(<<k, n>> \in OpToRel(<, Nat))
  BY <1>1, NatLessThanWellFounded, WFMin
<1>3. \A k \in T : ~(k < n)
  BY <1>1, <1>2 DEF OpToRel
<1>4. n \in S
  <2>1. SUFFICES ASSUME n \notin S PROVE FALSE
    OBVIOUS
  <2>2. PICK x \in S : TRUE
    OBVIOUS
  <2>3. n \in Nat /\ x \in Nat /\ x <= n /\ x # n
    BY <2>1, <2>2
  <2>4. n - 1 \in Nat
    BY <2>3
  <2>5. n - 1 \in T
    BY <2>1, <2>4
  <2> QED BY <1>3, <2>3, <2>5
<1>5. \E m \in S : \A x \in S : m >= x
  BY <1>4
<1> HIDE DEF T
<1> QED BY <1>5 DEF Max

\* The greatest score of a channel, or 0.
LEMMA HighestIsNat ==
  ASSUME NEW scores, IsFiniteSet(DOMAIN scores), \A m \in DOMAIN scores : scores[m] \in Nat
  PROVE  Highest(scores) \in Nat
<1> DEFINE D == DOMAIN scores
           T == {scores[m] : m \in D}
           f == [m \in D |-> scores[m]]
<1>1. f \in Surjection(D, T)
  BY DEF Surjection
<1>2. IsFiniteSet(T)
  BY <1>1, FS_Surjection
<1>3. IsFiniteSet(T \cup {0})
  BY <1>2, FS_AddElement
<1>4. T \cup {0} \in SUBSET Nat /\ T \cup {0} # {}
  OBVIOUS
<1>5. Max(T \cup {0}) \in T \cup {0}
  BY <1>3, <1>4, FiniteHasMax
<1>6. Highest(scores) = Max(T \cup {0})
  BY DEF Highest
<1> QED BY <1>4, <1>5, <1>6

--------------------------------------------------------------------------------
(* What each variable holds *)

Row == [text : Text, active : BOOLEAN, there : BOOLEAN, fits : BOOLEAN]

Stage == {"embedded", "hits", "keyword", "fetch", "rank", "done", "failed"}

Query == [filter : {"none", "agent", "metadata"}, channel : Channels, topK : TopKs,
          mmr : BOOLEAN, rerank : BOOLEAN]

Scores(f) == DOMAIN f \subseteq Stored /\ \A m \in DOMAIN f : f[m] \in Nat

Candidate == [similarity : Nat, text : Text]

RecallTyped ==
  /\ rows \in [Stored -> Row]
  /\ query \in Query
  /\ stage \in Stage
  /\ Scores(nearest)
  /\ Scores(semantic)
  /\ Scores(keyword)
  /\ DOMAIN byId \subseteq Stored
  /\ \A m \in DOMAIN byId : byId[m] \in Candidate
  /\ missing \subseteq Stored
  /\ heard \subseteq Stored

\* A call without a filter takes every row.
NothingFilteredOut == query.filter = "none" => \A m \in Stored : rows[m].fits

\* What fits now did so at some moment of the call, and so did each candidate.
SeenFitting == Fitting \subseteq fitting /\ DOMAIN byId \subseteq fitting

LEMMA KeywordScoreIsNat ==
  ASSUME NEW r \in Nat
  PROVE  KeywordScore(r) \in Nat
<1>1. 60 \div (1 + r) \in Nat
  OBVIOUS
<1> QED BY <1>1 DEF KeywordScore

\* The rows of a vector search that pass the filter, and those of a keyword search.
LEMMA HitsAreStored ==
  ASSUME RecallTyped
  PROVE  /\ \A m \in Stored : /\ rows[m].text \in Text
                              /\ Closeness[rows[m].text] \in Nat
                              /\ Relevance[rows[m].text] \in Nat
         /\ \A ms, n : \A hits \in BestOf(ms, n, Closer) : hits \subseteq ms
         /\ \A ms, n : \A hits \in BestOf(ms, n, MoreRelevant) : hits \subseteq ms
         /\ \A ms : Matching(ms) \subseteq ms
<1>1. \A m \in Stored : rows[m].text \in Text
  BY DEF RecallTyped, Row
<1>2. \A t \in Text : Closeness[t] \in Nat /\ Relevance[t] \in Nat
  BY RecallAssumption
<1>3. \A ms, n : \A hits \in BestOf(ms, n, Closer) : hits \subseteq ms
  BY DEF BestOf
<1>4. \A ms, n : \A hits \in BestOf(ms, n, MoreRelevant) : hits \subseteq ms
  BY DEF BestOf
<1>5. \A ms : Matching(ms) \subseteq ms
  BY DEF Matching
<1> QED BY <1>1, <1>2, <1>3, <1>4, <1>5

\* The candidates after a row that only the keyword search has found is added.
WithRow(m) == [n \in DOMAIN byId \cup {m} |-> IF n # m THEN byId[n]
                 ELSE [similarity |-> 0, text |-> rows[m].text]]

LEMMA FetchMissingAdds ==
  ASSUME NEW m, FetchMissing(m)
  PROVE  /\ byId' = byId \/ (Visible(m) /\ Passes(m) /\ byId' = WithRow(m))
         /\ Visible(m) /\ Passes(m) => byId' = WithRow(m)
         /\ missing' = missing \ {m} /\ m \in missing /\ stage = "fetch"
         /\ UNCHANGED <<rows, query, stage, searchVars, semantic, keyword, heard, reply, fitting, touched>>
BY DEF FetchMissing, WithRow

\* A write of another call.
RowWrite ==
  \E m \in Stored : UpdateText(m) \/ UpdateMetadata(m) \/ Archive(m) \/ ForgetRow(m)

LEMMA WritesOneRow ==
  ASSUME RecallTyped, RowWrite
  PROVE  \E m \in Stored, row \in Row :
           Writes(m, row) /\ (row.fits = rows[m].fits \/ query.filter = "metadata")
<1>1. PICK m \in Stored : UpdateText(m) \/ UpdateMetadata(m) \/ Archive(m) \/ ForgetRow(m)
  BY DEF RowWrite
<1>2. rows[m] \in Row
  BY DEF RecallTyped
<1>3. CASE UpdateText(m)
  <2>1. PICK t \in Text : Writes(m, [rows[m] EXCEPT !.text = t])
    BY <1>3 DEF UpdateText
  <2>2. [rows[m] EXCEPT !.text = t] \in Row
        /\ [rows[m] EXCEPT !.text = t].fits = rows[m].fits
    BY <1>2 DEF Row
  <2> QED BY <2>1, <2>2
<1>4. CASE UpdateMetadata(m)
  <2>1. [rows[m] EXCEPT !.fits = ~@] \in Row
    BY <1>2 DEF Row
  <2> QED BY <1>4, <2>1 DEF UpdateMetadata
<1>5. CASE Archive(m)
  <2>1. [rows[m] EXCEPT !.active = FALSE] \in Row
        /\ [rows[m] EXCEPT !.active = FALSE].fits = rows[m].fits
    BY <1>2 DEF Row
  <2> QED BY <1>5, <2>1 DEF Archive
<1>6. CASE ForgetRow(m)
  <2>1. [rows[m] EXCEPT !.there = FALSE] \in Row
        /\ [rows[m] EXCEPT !.there = FALSE].fits = rows[m].fits
    BY <1>2 DEF Row
  <2> QED BY <1>6, <2>1 DEF ForgetRow
<1> QED BY <1>1, <1>3, <1>4, <1>5, <1>6

\* What Writes does to the rows, and to nothing else.
LEMMA WriteChanges ==
  ASSUME RecallTyped, NEW m \in Stored, NEW row \in Row, Writes(m, row)
  PROVE  /\ rows' \in [Stored -> Row] /\ rows'[m] = row
         /\ \A n \in Stored \ {m} : rows'[n] = rows[n]
         /\ fitting \subseteq fitting' /\ touched' = touched \cup {m}
         /\ row.there /\ row.active /\ row.fits => m \in fitting'
         /\ stage \in {"embedded", "hits", "keyword", "fetch"}
         /\ UNCHANGED <<query, stage, searchVars, semantic, keyword, missing, byId, heard, reply>>
BY DEF Writes, RecallTyped

LEMMA RecallTypesInit ==
  ASSUME RecallInit
  PROVE  RecallTyped /\ NothingFilteredOut /\ SeenFitting
<1>1. PICK texts \in [Stored -> Text], scope \in {"none", "agent", "metadata"} :
        /\ rows = [m \in Stored |-> [text |-> texts[m], active |-> TRUE, there |-> TRUE,
                                     fits |-> scope = "none" \/ m \notin Outsiders]]
        /\ \E channel \in Channels, topK \in TopKs, mmr, rerank \in BOOLEAN :
             /\ ~(mmr /\ rerank)
             /\ query = [filter |-> scope, channel |-> channel, topK |-> topK,
                         mmr |-> mmr, rerank |-> rerank]
  BY Zenon DEF RecallInit
<1>2. rows \in [Stored -> Row]
  BY <1>1 DEF Row
<1>3. query \in Query /\ query.filter = scope
  BY <1>1 DEF Query
<1>4. NothingFilteredOut
  BY <1>1, <1>3 DEF NothingFilteredOut
<1>5. DOMAIN nearest = {} /\ DOMAIN semantic = {} /\ DOMAIN keyword = {} /\ DOMAIN byId = {}
  <2>1. nearest = << >> /\ semantic = << >> /\ keyword = << >> /\ byId = << >>
    BY DEF RecallInit
  <2>2. DOMAIN << >> = {}
    OBVIOUS
  <2> QED BY <2>1, <2>2
<1>6. RecallTyped
  BY <1>2, <1>3, <1>5 DEF RecallTyped, RecallInit, Stage, Scores
<1>7. SeenFitting
  BY <1>5 DEF SeenFitting, RecallInit
<1> QED BY <1>4, <1>6, <1>7

RecallKept == RecallTyped /\ NothingFilteredOut /\ SeenFitting

LEMMA PassingFits ==
  ASSUME RecallKept, NEW m \in Stored, Visible(m), Passes(m)
  PROVE  m \in Fitting /\ m \in fitting
BY DEF RecallKept, NothingFilteredOut, SeenFitting, Fitting, Passes

--------------------------------------------------------------------------------
(* One step keeps what each variable holds *)

\* Every step that reads rows for a vector search, written without its pool: the rows
\* it takes are visible and of the agent, with the scores that the search has given.
LEMMA RowsTaken ==
  ASSUME RecallKept, SearchJoined \/ ReadHits
  PROVE  \/ stage' = "embedded" /\ UNCHANGED <<semantic, byId>>
         \/ \E ms \in SUBSET Stored : \E found :
              /\ \A m \in ms : OfAgent(m) /\ found[m] \in Nat
              /\ Keep(ms, found)
<1>1. CASE SearchJoined
  <2>1. PICK top \in BestOf({m \in Stored : OfAgent(m)}, FetchK, Closer) :
          Keep(top, [m \in top |-> Closeness[rows[m].text]])
    BY <1>1 DEF SearchJoined
  <2>2. top \subseteq {m \in Stored : OfAgent(m)}
    BY <2>1, HitsAreStored DEF RecallKept
  <2>3. \A m \in top : [n \in top |-> Closeness[rows[n].text]][m] \in Nat
    BY <2>2, HitsAreStored DEF RecallKept
  <2> QED BY <2>1, <2>2, <2>3
<1>2. CASE ReadHits
  <2> DEFINE left == {m \in DOMAIN nearest : OfAgent(m)}
  <2>1. \/ stage' = "embedded" /\ UNCHANGED <<semantic, byId>>
        \/ \E top \in BestOf(left, FetchK, CloserHit) : Keep(top, nearest)
    BY <1>2 DEF ReadHits
  <2>2. \A top \in BestOf(left, FetchK, CloserHit) :
          /\ top \in SUBSET Stored
          /\ \A m \in top : OfAgent(m) /\ nearest[m] \in Nat
    BY DEF BestOf, RecallKept, RecallTyped, Scores
  <2> HIDE DEF left
  <2> QED BY <2>1, <2>2
<1> QED BY <1>1, <1>2

\* The rows that are kept pass the filter.
LEMMA KeepTakes ==
  ASSUME RecallKept, NEW ms \in SUBSET Stored, NEW found,
         \A m \in ms : OfAgent(m) /\ found[m] \in Nat, Keep(ms, found)
  PROVE  \E kept \in SUBSET ms :
           /\ kept = {m \in ms : Passes(m) /\ found[m] >= Threshold}
           /\ kept \subseteq Fitting
           /\ semantic' = [m \in kept |-> found[m]]
           /\ byId' = [m \in kept |-> [similarity |-> found[m], text |-> rows[m].text]]
           /\ stage' \in {"rank", "keyword"}
           /\ stage' = "rank" <=> query.channel = "off"
<1> DEFINE kept == {m \in ms : Passes(m) /\ found[m] >= Threshold}
<1>1. kept \subseteq Fitting
  BY PassingFits DEF OfAgent
<1> QED BY <1>1 DEF Keep

LEMMA RowsTakenKeeps ==
  ASSUME RecallKept, SearchJoined \/ ReadHits
  PROVE  RecallKept'
<1>1. /\ UNCHANGED <<rows, query, keyword, missing, heard, reply, fitting, touched>>
      /\ nearest' = nearest \/ nearest' = << >>
  BY DEF SearchJoined, ReadHits, searchVars
<1>2. Scores(nearest')
  <2>1. DOMAIN << >> = {}
    OBVIOUS
  <2> QED BY <1>1, <2>1 DEF RecallKept, RecallTyped, Scores
<1>3. /\ stage' \in Stage /\ Scores(semantic')
      /\ DOMAIN byId' \subseteq Stored /\ DOMAIN byId' \subseteq fitting
      /\ \A m \in DOMAIN byId' : byId'[m] \in Candidate
  <2>1. CASE stage' = "embedded" /\ UNCHANGED <<semantic, byId>>
    BY <2>1 DEF RecallKept, RecallTyped, SeenFitting, Stage, Scores
  <2>2. CASE \E ms \in SUBSET Stored : \E found :
               /\ \A m \in ms : OfAgent(m) /\ found[m] \in Nat
               /\ Keep(ms, found)
    <3>0. PICK ms \in SUBSET Stored :
            \E found : (\A m \in ms : OfAgent(m) /\ found[m] \in Nat) /\ Keep(ms, found)
      BY <2>2
    <3>1. PICK found : (\A m \in ms : OfAgent(m) /\ found[m] \in Nat) /\ Keep(ms, found)
      BY <3>0
    <3>2. PICK kept \in SUBSET ms :
            /\ kept \subseteq Fitting
            /\ semantic' = [m \in kept |-> found[m]]
            /\ byId' = [m \in kept |-> [similarity |-> found[m], text |-> rows[m].text]]
            /\ stage' \in {"rank", "keyword"}
      BY <3>1, KeepTakes
    <3>3. \A m \in kept : rows[m].text \in Text /\ found[m] \in Nat
      BY <3>1, HitsAreStored DEF RecallKept
    <3> QED BY <3>2, <3>3 DEF Scores, Candidate, Stage, RecallKept, SeenFitting
  <2> QED BY <2>1, <2>2, RowsTaken
<1>4. RecallTyped'
  BY <1>1, <1>2, <1>3 DEF RecallTyped, RecallKept, Scores
<1>5. Fitting' = Fitting
  BY <1>1 DEF Fitting, Visible
<1> QED BY <1>1, <1>3, <1>4, <1>5 DEF RecallKept, SeenFitting, NothingFilteredOut

\* The index tells which memories it has found, and how close they are.
LEMMA SearchVectorsTakes ==
  ASSUME RecallKept, SearchVectors
  PROVE  \E found \in SUBSET Stored :
           /\ nearest' = [m \in found |-> Closeness[rows[m].text]]
           /\ \A a \in Fitting, b \in found : Closer(a, b) => a \in found
<1> DEFINE pool == {m \in Stored : Visible(m)}
<1>1. PICK found \in BestOf(pool, asked, Closer) :
        nearest' = [m \in found |-> Closeness[rows[m].text]]
  BY DEF SearchVectors
<1>2. found \subseteq pool /\ \A a \in pool \ found, b \in found : ~Closer(a, b)
  BY <1>1 DEF BestOf
<1> QED BY <1>1, <1>2 DEF Fitting

LEMMA SearchVectorsKeeps ==
  ASSUME RecallKept, SearchVectors
  PROVE  RecallKept'
<1>1. PICK found \in SUBSET Stored : nearest' = [m \in found |-> Closeness[rows[m].text]]
  BY SearchVectorsTakes
<1>2. /\ stage' \in Stage
      /\ UNCHANGED <<rows, query, semantic, keyword, missing, byId, heard, reply, fitting, touched>>
  BY DEF SearchVectors, Stage
<1>3. Scores(nearest')
  BY <1>1, HitsAreStored DEF Scores, RecallKept
<1>4. RecallTyped'
  BY <1>2, <1>3 DEF RecallTyped, RecallKept, Scores
<1>5. Fitting' = Fitting
  BY <1>2 DEF Fitting, Visible
<1> QED BY <1>2, <1>4, <1>5 DEF RecallKept, SeenFitting, NothingFilteredOut

LEMMA SearchKeywordKeeps ==
  ASSUME RecallKept, SearchKeyword
  PROVE  RecallKept'
<1>1. heard' \subseteq Stored
  BY DEF SearchKeyword
<1>2. PICK hits \in BestOf(Matching(heard'), FetchK, MoreRelevant) :
        /\ keyword' = [m \in hits |-> KeywordScore(Relevance[rows[m].text])]
        /\ missing' = hits \ DOMAIN byId
  BY DEF SearchKeyword
<1>3. hits \subseteq Stored
  BY <1>1, <1>2, HitsAreStored DEF RecallKept
<1>4. /\ stage' \in Stage
      /\ UNCHANGED <<rows, query, searchVars, semantic, byId, reply, fitting, touched>>
  BY DEF SearchKeyword, Stage
<1>5. \A m \in hits : KeywordScore(Relevance[rows[m].text]) \in Nat
  BY <1>3, HitsAreStored, KeywordScoreIsNat DEF RecallKept
<1>6. Scores(keyword')
  BY <1>2, <1>3, <1>5 DEF Scores
<1>7. RecallTyped'
  BY <1>1, <1>2, <1>3, <1>4, <1>6 DEF RecallTyped, RecallKept, Scores, searchVars
<1>8. Fitting' = Fitting
  BY <1>4 DEF Fitting, Visible
<1> QED BY <1>4, <1>7, <1>8 DEF RecallKept, SeenFitting, NothingFilteredOut

LEMMA SearchCorpusTakes ==
  ASSUME RecallKept, SearchCorpus
  PROVE  /\ heard' \subseteq Fitting
         /\ \E hits \in SUBSET Stored :
              /\ hits \subseteq heard' /\ hits \in BestOf(Matching(heard'), FetchK, MoreRelevant)
              /\ keyword' = [m \in hits |-> KeywordScore(Relevance[rows[m].text])]
              /\ byId' = [m \in DOMAIN byId \cup hits |->
                            IF m \in DOMAIN byId THEN byId[m]
                            ELSE [similarity |-> 0, text |-> rows[m].text]]
<1> DEFINE pool == {m \in Stored : Visible(m) /\ Passes(m)}
<1>1. heard' \subseteq pool
  BY DEF SearchCorpus, BestOf
<1>2. pool \subseteq Fitting
  BY PassingFits
<1>3. PICK hits \in BestOf(Matching(heard'), FetchK, MoreRelevant) :
        /\ keyword' = [m \in hits |-> KeywordScore(Relevance[rows[m].text])]
        /\ byId' = [m \in DOMAIN byId \cup hits |->
                      IF m \in DOMAIN byId THEN byId[m]
                      ELSE [similarity |-> 0, text |-> rows[m].text]]
  BY DEF SearchCorpus
<1>4. hits \subseteq heard'
  BY HitsAreStored DEF RecallKept
<1>5. hits \in SUBSET Stored
  BY <1>1, <1>4
<1> QED BY <1>1, <1>2, <1>3, <1>4, <1>5

LEMMA SearchCorpusKeeps ==
  ASSUME RecallKept, SearchCorpus
  PROVE  RecallKept'
<1>1. heard' \subseteq Fitting
  BY SearchCorpusTakes
<1>2. PICK hits \in SUBSET Stored :
        /\ hits \subseteq heard'
        /\ keyword' = [m \in hits |-> KeywordScore(Relevance[rows[m].text])]
        /\ byId' = [m \in DOMAIN byId \cup hits |->
                      IF m \in DOMAIN byId THEN byId[m]
                      ELSE [similarity |-> 0, text |-> rows[m].text]]
  BY SearchCorpusTakes
<1>3. /\ stage' \in Stage
      /\ UNCHANGED <<rows, query, searchVars, semantic, missing, reply, fitting, touched>>
  BY DEF SearchCorpus, Stage
<1>4. \A m \in hits : KeywordScore(Relevance[rows[m].text]) \in Nat /\ rows[m].text \in Text
  BY HitsAreStored, KeywordScoreIsNat DEF RecallKept
<1>5. Scores(keyword')
  BY <1>2, <1>4 DEF Scores
<1>6. DOMAIN byId' = DOMAIN byId \cup hits /\ \A m \in DOMAIN byId' : byId'[m] \in Candidate
  <2>1. \A m \in DOMAIN byId : byId[m] \in Candidate
    BY DEF RecallKept, RecallTyped
  <2>2. \A m \in hits : [similarity |-> 0, text |-> rows[m].text] \in Candidate
    BY <1>4 DEF Candidate
  <2> QED BY <1>2, <2>1, <2>2
<1>7. heard' \subseteq Stored
  BY <1>1 DEF Fitting
<1>8. RecallTyped'
  BY <1>3, <1>5, <1>6, <1>7 DEF RecallTyped, RecallKept, Scores, searchVars
<1>9. Fitting' = Fitting
  BY <1>3 DEF Fitting, Visible
<1> QED BY <1>1, <1>2, <1>3, <1>6, <1>8, <1>9 DEF RecallKept, SeenFitting, NothingFilteredOut

LEMMA FetchMissingKeeps ==
  ASSUME RecallKept, NEW m, FetchMissing(m)
  PROVE  RecallKept'
<1>1. /\ m \in Stored /\ missing' \subseteq Stored
      /\ UNCHANGED <<rows, query, stage, searchVars, semantic, keyword, heard, reply, fitting, touched>>
  BY FetchMissingAdds DEF RecallKept, RecallTyped
<1>2. /\ DOMAIN byId' \subseteq Stored /\ DOMAIN byId' \subseteq fitting
      /\ \A n \in DOMAIN byId' : byId'[n] \in Candidate
  <2>1. CASE byId' = byId
    BY <2>1 DEF RecallKept, RecallTyped, SeenFitting
  <2>2. CASE Visible(m) /\ Passes(m) /\ byId' = WithRow(m)
    <3>1. m \in fitting
      BY <1>1, <2>2, PassingFits
    <3>2. [similarity |-> 0, text |-> rows[m].text] \in Candidate
      BY <1>1, HitsAreStored DEF Candidate, RecallKept
    <3> QED BY <1>1, <2>2, <3>1, <3>2 DEF WithRow, RecallKept, RecallTyped, SeenFitting
  <2> QED BY <2>1, <2>2, FetchMissingAdds
<1>3. RecallTyped'
  BY <1>1, <1>2 DEF RecallTyped, RecallKept, Scores, searchVars
<1>4. Fitting' = Fitting
  BY <1>1 DEF Fitting, Visible
<1> QED BY <1>1, <1>2, <1>3, <1>4 DEF RecallKept, SeenFitting, NothingFilteredOut

LEMMA RowWriteKeeps ==
  ASSUME RecallKept, RowWrite
  PROVE  RecallKept'
<1>1. PICK m \in Stored, row \in Row :
        Writes(m, row) /\ (row.fits = rows[m].fits \/ query.filter = "metadata")
  BY WritesOneRow DEF RecallKept
<1>2. /\ rows' \in [Stored -> Row] /\ rows'[m] = row
      /\ \A n \in Stored \ {m} : rows'[n] = rows[n]
      /\ fitting \subseteq fitting'
      /\ row.there /\ row.active /\ row.fits => m \in fitting'
      /\ UNCHANGED <<query, stage, searchVars, semantic, keyword, missing, byId, heard, reply>>
  BY <1>1, WriteChanges DEF RecallKept
<1>3. RecallTyped'
  BY <1>2 DEF RecallTyped, RecallKept, Scores, searchVars
<1>4. Fitting' \subseteq fitting'
  BY <1>2 DEF Fitting, Visible, RecallKept, SeenFitting
<1>5. NothingFilteredOut'
  BY <1>1, <1>2 DEF NothingFilteredOut, RecallKept
<1> QED BY <1>2, <1>3, <1>4, <1>5 DEF RecallKept, SeenFitting

LEMMA RestKeeps ==
  ASSUME RecallKept, KeywordFails \/ Fetched \/ Reply \/ Rerank \/ UNCHANGED recallVars
  PROVE  RecallKept'
<1>1. /\ stage' \in Stage
      /\ UNCHANGED <<rows, query, searchVars, semantic, keyword, missing, byId, heard, fitting, touched>>
  BY DEF KeywordFails, Fetched, Reply, Rerank, recallVars, Stage, RecallKept, RecallTyped
<1>2. RecallTyped'
  BY <1>1 DEF RecallTyped, RecallKept, Scores, searchVars
<1>3. Fitting' = Fitting
  BY <1>1 DEF Fitting, Visible
<1> QED BY <1>1, <1>2, <1>3 DEF RecallKept, SeenFitting, NothingFilteredOut

LEMMA RecallSteps ==
  ASSUME RecallNext
  PROVE  \/ SearchJoined \/ SearchVectors \/ ReadHits \/ SearchKeyword \/ SearchCorpus
         \/ KeywordFails \/ Fetched \/ Reply \/ Rerank
         \/ \E m \in Stored : FetchMissing(m)
         \/ RowWrite
BY DEF RecallNext, RowWrite

LEMMA RecallKeptNext ==
  ASSUME RecallKept, [RecallNext]_recallVars
  PROVE  RecallKept'
BY RecallSteps, RowsTakenKeeps, SearchVectorsKeeps, SearchKeywordKeeps, SearchCorpusKeeps,
   FetchMissingKeeps, RowWriteKeeps, RestKeeps

--------------------------------------------------------------------------------
(* What is returned *)

LEMMA FewStored ==
  ASSUME NEW ms \in SUBSET Stored
  PROVE  IsFiniteSet(ms) /\ Cardinality(ms) \in Nat
<1>1. IsFiniteSet(ms)
  BY RecallAssumption, FS_Subset
<1> QED BY <1>1, FS_CardinalityType

\* An order of some of the candidates, each of them once.
InOrder(s, n) ==
  /\ s \in [1 .. n -> DOMAIN byId]
  /\ \A i, j \in 1 .. n : s[i] = s[j] => i = j

LEMMA TopKIsPositive ==
  ASSUME RecallTyped
  PROVE  TopK \in Nat \ {0}
BY RecallAssumption DEF RecallTyped, Query, TopK

LEMMA RankedAreCandidates ==
  ASSUME RecallTyped, NEW s \in Ranked
  PROVE  \E n \in Nat : InOrder(s, n) /\ Len(s) = n /\ s \in Seq(DOMAIN byId)
<1>1. DOMAIN byId \in SUBSET Stored
  BY DEF RecallTyped
<1>2. Cardinality(DOMAIN byId) \in Nat /\ TopK \in Nat
  BY <1>1, FewStored, TopKIsPositive
<1>3. PICK n \in Nat : s \in Injection(1 .. n, DOMAIN byId)
  <2>1. CASE s \in ApplyMmr(DOMAIN byId)
    BY <1>2, <2>1 DEF ApplyMmr
  <2>2. CASE s \in Sorted(DOMAIN byId)
    BY <1>2, <2>2 DEF Sorted, Bijection
  <2> QED BY <2>1, <2>2 DEF Ranked
<1>4. s \in [1 .. n -> DOMAIN byId] /\ \A i, j \in 1 .. n : s[i] = s[j] => i = j
  BY <1>3 DEF Injection, IsInjective
<1>5. s \in Seq(DOMAIN byId) /\ Len(s) = n
  BY <1>4
<1> QED BY <1>4, <1>5 DEF InOrder

LEMMA CutIsPrefix ==
  ASSUME RecallTyped, NEW s \in Seq(DOMAIN byId)
  PROVE  \E k \in 0 .. Len(s) :
           /\ k = Smaller(TopK, Len(s))
           /\ Cut(s) \in Seq(DOMAIN byId)
           /\ Len(Cut(s)) = k /\ DOMAIN Cut(s) = 1 .. k
           /\ \A i \in 1 .. k : Cut(s)[i] = s[i]
<1> DEFINE k == Smaller(TopK, Len(s))
<1>1. TopK \in Nat /\ Len(s) \in Nat
  BY TopKIsPositive, LenProperties
<1>2. k \in 0 .. Len(s)
  BY <1>1 DEF Smaller
<1>3. Cut(s) = SubSeq(s, 1, k)
  BY DEF Cut
<1>4. /\ SubSeq(s, 1, k) \in Seq(DOMAIN byId)
      /\ Len(SubSeq(s, 1, k)) = k
      /\ \A i \in 1 .. k : SubSeq(s, 1, k)[i] = s[i]
  BY <1>1, <1>2
<1>5. DOMAIN SubSeq(s, 1, k) = 1 .. k
  BY <1>4, LenProperties
<1> QED BY <1>2, <1>3, <1>4, <1>5

LEMMA ReplyFits ==
  ASSUME RecallKept, Reply
  PROVE  ToSet(reply') \subseteq DOMAIN byId
<1>1. RecallTyped
  BY DEF RecallKept
<1>2. PICK s \in Ranked : reply' = Cut(s)
  BY DEF Reply
<1>3. s \in Seq(DOMAIN byId)
  BY <1>1, RankedAreCandidates
<1>4. PICK k \in 0 .. Len(s) :
        /\ DOMAIN Cut(s) = 1 .. k
        /\ \A i \in 1 .. k : Cut(s)[i] = s[i]
  BY <1>1, <1>3, CutIsPrefix
<1>5. \A i \in 1 .. k : s[i] \in DOMAIN byId
  BY <1>3
<1> QED BY <1>2, <1>4, <1>5 DEF ToSet

LEMMA RerankFits ==
  ASSUME RecallKept, Rerank, stage' = "done"
  PROVE  ToSet(reply') \subseteq DOMAIN byId
<1>1. PICK n \in 0 .. Smaller(TopK, Cardinality(DOMAIN byId)) :
        reply' \in Injection(1 .. n, DOMAIN byId)
  BY DEF Rerank
<1>2. reply' \in [1 .. n -> DOMAIN byId]
  BY <1>1 DEF Injection
<1> QED BY <1>2 DEF ToSet

\* Only Reply and Rerank end a call with an answer, and nothing follows.
LEMMA AnswersEnd ==
  ASSUME RecallNext
  PROVE  stage # "done" /\ (stage' = "done" => Reply \/ Rerank)
<1>1. CASE SearchJoined \/ SearchVectors \/ ReadHits
  BY <1>1 DEF SearchJoined, SearchVectors, ReadHits, Keep
<1>2. CASE SearchKeyword
  BY <1>2 DEF SearchKeyword
<1>3. CASE SearchCorpus
  BY <1>3 DEF SearchCorpus
<1>4. CASE KeywordFails \/ Fetched
  BY <1>4 DEF KeywordFails, Fetched
<1>5. CASE Reply \/ Rerank
  BY <1>5 DEF Reply, Rerank
<1>6. CASE \E m \in Stored : FetchMissing(m)
  BY <1>6, FetchMissingAdds
<1>7. CASE RowWrite
  BY <1>7 DEF RowWrite, UpdateText, UpdateMetadata, Archive, ForgetRow, Writes
<1> QED BY <1>1, <1>2, <1>3, <1>4, <1>5, <1>6, <1>7, RecallSteps

\* What recall() returns was active and passed its filter at some moment of the call:
\* the vector search, the keyword search and getMemoryById each read the rows at
\* their own moment, and every candidate is one that a read has just accepted.
THEOREM OnlyWhatFitsIsReturned == RecallSpec => []OnlyFittingReturned
<1> DEFINE Inv == RecallKept /\ OnlyFittingReturned
<1>1. RecallInit => Inv
  BY RecallTypesInit DEF RecallKept, OnlyFittingReturned, RecallInit
<1>2. Inv /\ [RecallNext]_recallVars => Inv'
  <2>1. SUFFICES ASSUME Inv, [RecallNext]_recallVars PROVE OnlyFittingReturned'
    BY RecallKeptNext
  <2>2. CASE UNCHANGED recallVars
    BY <2>1, <2>2 DEF OnlyFittingReturned, recallVars
  <2>3. CASE RecallNext
    <3>1. SUFFICES ASSUME stage' = "done" PROVE ToSet(reply') \subseteq fitting'
      BY DEF OnlyFittingReturned
    <3>2. ToSet(reply') \subseteq DOMAIN byId /\ fitting' = fitting
      BY <2>1, <2>3, <3>1, AnswersEnd, ReplyFits, RerankFits DEF Reply, Rerank
    <3> QED BY <2>1, <3>2 DEF RecallKept, SeenFitting
  <2> QED BY <2>1, <2>2, <2>3
<1>3. Inv => OnlyFittingReturned
  OBVIOUS
<1> QED BY <1>1, <1>2, <1>3, PTL DEF RecallSpec

--------------------------------------------------------------------------------
(* Products and scores *)

LEMMA PositiveProduct ==
  ASSUME NEW x \in Nat \ {0}, NEW y \in Nat \ {0}
  PROVE  x * y \in Nat \ {0}
OBVIOUS

LEMMA WeightedScores ==
  ASSUME NEW w \in Nat \ {0}, NEW h \in Nat \ {0}, NEW x \in Nat, NEW y \in Nat
  PROVE  /\ w * x * h \in Nat
         /\ x > y => w * x * h > w * y * h
         /\ x >= y => w * x * h >= w * y * h
<1> DEFINE c == w * h
<1>1. c \in Nat \ {0}
  BY PositiveProduct
<1>2. w * x * h = x * c /\ w * y * h = y * c
  OBVIOUS
<1>3. ASSUME x > y PROVE x * c > y * c
  <2> DEFINE d == x - y
  <2>1. d \in Nat \ {0}
    BY <1>3
  <2>2. d * c \in Nat \ {0}
    BY <1>1, <2>1, PositiveProduct
  <2>3. x * c = y * c + d * c
    <3>1. x = y + d
      BY <1>3
    <3> HIDE DEF d, c
    <3>2. (y + d) * c = y * c + d * c
      BY <1>1, <2>1
    <3> QED BY <3>1, <3>2
  <2>4. y * c \in Nat
    BY <1>1
  <2> HIDE DEF d, c
  <2> QED BY <2>2, <2>3, <2>4
<1>4. x * c \in Nat /\ y * c \in Nat
  BY <1>1
<1>5. x = y \/ x > y \/ y > x
  OBVIOUS
<1> HIDE DEF c
<1> QED BY <1>2, <1>3, <1>4, <1>5

\* The better score of the two channels, none behind in the other.
LEMMA SumOfScores ==
  ASSUME NEW v \in Nat \ {0}, NEW w \in Nat \ {0}, NEW g \in Nat \ {0}, NEW h \in Nat \ {0},
         NEW x \in Nat, NEW y \in Nat, NEW k \in Nat, NEW l \in Nat,
         x >= y, k >= l, x > y \/ k > l
  PROVE  v * x * g + w * k * h > v * y * g + w * l * h
<1>1. /\ v * x * g \in Nat /\ v * y * g \in Nat
      /\ v * x * g >= v * y * g /\ (x > y => v * x * g > v * y * g)
  BY WeightedScores
<1>2. /\ w * k * h \in Nat /\ w * l * h \in Nat
      /\ w * k * h >= w * l * h /\ (k > l => w * k * h > w * l * h)
  BY WeightedScores
<1> QED BY <1>1, <1>2

--------------------------------------------------------------------------------
(* What the two searches leave behind *)

\* The memories that the property is about: as they were when the call began.
Untouched == Fitting \ touched

\* The index has found the closest memories, with their scores.
NearestFound ==
  stage = "hits" =>
    /\ \A m \in Untouched : m \in DOMAIN nearest => nearest[m] = Closeness[rows[m].text]
    /\ \A a, b \in Untouched : b \in DOMAIN nearest /\ Closer(a, b) => a \in DOMAIN nearest

\* So has the call.
ClosestFound ==
  /\ stage \in {"embedded", "hits"} => DOMAIN semantic = {} /\ DOMAIN byId = {}
  /\ DOMAIN semantic \subseteq DOMAIN byId
  /\ \A m \in DOMAIN semantic : byId[m].similarity = semantic[m]
  /\ \A m \in Untouched : m \in DOMAIN semantic => semantic[m] = Closeness[rows[m].text]
  /\ \A a, b \in Untouched :
       b \in DOMAIN semantic /\ Closer(a, b) => a \in DOMAIN semantic

\* The keyword search has taken the most relevant of what it looked at, with their
\* scores, and each row it has found is a candidate or still to be read.
RelevantFound ==
  /\ stage \in {"embedded", "hits", "keyword"} \/ query.channel = "off" => DOMAIN keyword = {}
  /\ \A m \in Untouched : m \in DOMAIN keyword /\ query.channel # "sqlite" =>
                            keyword[m] = Relevance[rows[m].text]
  /\ \A a, b \in Untouched :
       {a, b} \subseteq heard /\ b \in DOMAIN keyword /\ MoreRelevant(a, b) =>
         a \in DOMAIN keyword
  /\ \A m \in Untouched : m \in DOMAIN keyword => m \in DOMAIN byId \cup missing

\* A candidate is what one of the searches has found; what is still to be read is
\* none yet.
CandidatesFound ==
  /\ DOMAIN byId \subseteq DOMAIN semantic \cup DOMAIN keyword
  /\ missing \subseteq DOMAIN keyword /\ missing \cap DOMAIN byId = {}
  /\ missing # {} => stage \in {"fetch", "failed"}

BestFound == NearestFound /\ ClosestFound /\ RelevantFound /\ CandidatesFound

LEMMA BestFoundInit ==
  ASSUME RecallInit
  PROVE  BestFound
<1>1. semantic = << >> /\ keyword = << >> /\ byId = << >> /\ missing = {}
  BY DEF RecallInit
<1>2. DOMAIN << >> = {}
  OBVIOUS
<1>3. DOMAIN semantic = {} /\ DOMAIN keyword = {} /\ DOMAIN byId = {}
  BY <1>1, <1>2
<1>4. stage = "embedded"
  BY DEF RecallInit
<1> QED BY <1>1, <1>3, <1>4 DEF BestFound, NearestFound, ClosestFound, RelevantFound, CandidatesFound

\* Of the memories that nothing has changed, the rows that are read are those that are
\* closest to the query, with their scores.
LEMMA ClosestRead ==
  ASSUME RecallKept, BestFound, SearchJoined \/ ReadHits, stage' # "embedded"
  PROVE  \E ms \in SUBSET Stored : \E found :
           /\ \A m \in ms : OfAgent(m) /\ found[m] \in Nat
           /\ Keep(ms, found)
           /\ \A m \in Untouched : m \in ms => found[m] = Closeness[rows[m].text]
           /\ \A a, b \in Untouched : b \in ms /\ Closer(a, b) => a \in ms
<1>0. \A m \in Untouched : m \in Stored /\ OfAgent(m) /\ Closeness[rows[m].text] \in Nat
  BY HitsAreStored DEF RecallKept, Untouched, Fitting, OfAgent
<1>1. CASE SearchJoined
  <2> DEFINE pool == {m \in Stored : OfAgent(m)}
  <2>1. PICK top \in BestOf(pool, FetchK, Closer) :
          Keep(top, [m \in top |-> Closeness[rows[m].text]])
    BY <1>1 DEF SearchJoined
  <2>2. top \subseteq pool /\ \A a \in pool \ top, b \in top : ~Closer(a, b)
    BY <2>1 DEF BestOf
  <2>3. \A m \in top : [n \in top |-> Closeness[rows[n].text]][m] \in Nat
    BY <2>2, HitsAreStored DEF RecallKept
  <2> QED BY <1>0, <2>1, <2>2, <2>3
<1>2. CASE ReadHits
  <2> DEFINE left == {m \in DOMAIN nearest : OfAgent(m)}
  <2>1. stage = "hits" /\ \E top \in BestOf(left, FetchK, CloserHit) : Keep(top, nearest)
    BY <1>2 DEF ReadHits
  <2>2. PICK top \in BestOf(left, FetchK, CloserHit) : Keep(top, nearest)
    BY <2>1
  <2>3. top \subseteq left /\ \A a \in left \ top, b \in top : ~(nearest[a] > nearest[b])
    BY <2>2 DEF BestOf, CloserHit
  <2>4. left \in SUBSET Stored /\ \A m \in left : OfAgent(m) /\ nearest[m] \in Nat
    BY DEF RecallKept, RecallTyped, Scores
  <2>5. \A m \in Untouched : m \in DOMAIN nearest => nearest[m] = Closeness[rows[m].text]
    BY <2>1 DEF BestFound, NearestFound
  <2>6. ASSUME NEW a \in Untouched, NEW b \in Untouched, b \in top, Closer(a, b)
        PROVE  a \in top
    <3>1. b \in DOMAIN nearest
      BY <2>3, <2>6
    <3>2. a \in DOMAIN nearest
      BY <2>1, <2>6, <3>1 DEF BestFound, NearestFound
    <3>3. nearest[a] > nearest[b]
      BY <2>5, <2>6, <3>1, <3>2 DEF Closer
    <3>4. a \in left
      BY <1>0, <3>2
    <3> QED BY <2>3, <2>6, <3>3, <3>4
  <2>7. \A m \in Untouched : m \in top => nearest[m] = Closeness[rows[m].text]
    BY <2>3, <2>5
  <2>8. top \in SUBSET Stored /\ \A m \in top : OfAgent(m) /\ nearest[m] \in Nat
    BY <2>3, <2>4
  <2> HIDE DEF left
  <2> QED BY <2>2, <2>6, <2>7, <2>8
<1> QED BY <1>1, <1>2

LEMMA RowsTakenFinds ==
  ASSUME RecallKept, BestFound, SearchJoined \/ ReadHits
  PROVE  BestFound'
<1>1. /\ stage \in {"embedded", "hits"}
      /\ UNCHANGED <<rows, query, keyword, missing, heard, reply, fitting, touched>>
  BY DEF SearchJoined, ReadHits
<1>2. Untouched' = Untouched /\ Untouched \subseteq Fitting
  BY <1>1 DEF Untouched, Fitting, Visible
<1>3. DOMAIN keyword = {} /\ missing = {}
  BY <1>1 DEF BestFound, RelevantFound, CandidatesFound
<1>4. CASE stage' = "embedded"
  <2>1. UNCHANGED <<semantic, byId>>
    BY <1>4, RowsTaken DEF Keep
  <2>2. ClosestFound'
    BY <1>1, <1>2, <2>1 DEF BestFound, ClosestFound, Closer
  <2>3. RelevantFound' /\ CandidatesFound'
    BY <1>1, <1>2, <1>3, <1>4, <2>1 DEF BestFound, RelevantFound, CandidatesFound
  <2> QED BY <1>4, <2>2, <2>3 DEF BestFound, NearestFound
<1>5. CASE stage' # "embedded"
  <2> DEFINE Read(ms, found) ==
               /\ \A m \in ms : OfAgent(m) /\ found[m] \in Nat
               /\ Keep(ms, found)
               /\ \A m \in Untouched : m \in ms => found[m] = Closeness[rows[m].text]
               /\ \A a, b \in Untouched : b \in ms /\ Closer(a, b) => a \in ms
  <2>0. PICK ms \in SUBSET Stored : \E found : Read(ms, found)
    BY <1>5, ClosestRead
  <2>1. PICK found : Read(ms, found)
    BY <2>0
  <2>2. PICK kept \in SUBSET ms :
          /\ kept = {m \in ms : Passes(m) /\ found[m] >= Threshold}
          /\ kept \subseteq Fitting
          /\ semantic' = [m \in kept |-> found[m]]
          /\ byId' = [m \in kept |-> [similarity |-> found[m], text |-> rows[m].text]]
          /\ stage' \in {"rank", "keyword"}
          /\ stage' = "rank" <=> query.channel = "off"
    BY <2>1, KeepTakes
  <2>3. ASSUME NEW a \in Untouched, NEW b \in Untouched, b \in kept, Closer(a, b)
        PROVE  a \in kept
    <3>1. a \in ms /\ Passes(a)
      BY <1>2, <2>1, <2>3 DEF Passes, Fitting
    <3>2. found[a] > found[b] /\ found[b] >= Threshold
      BY <2>1, <2>2, <2>3, <3>1 DEF Closer
    <3>3. found[a] \in Nat /\ found[b] \in Nat /\ Threshold \in Nat
      BY <2>1, <2>3, <3>1, RecallAssumption
    <3>4. found[a] >= Threshold
      BY <3>2, <3>3
    <3> QED BY <2>2, <3>1, <3>4
  <2>4. \A m \in Untouched : m \in kept => found[m] = Closeness[rows[m].text]
    BY <2>1
  <2>5. DOMAIN semantic' = kept /\ DOMAIN byId' = kept
        /\ \A m \in kept : semantic'[m] = found[m] /\ byId'[m].similarity = found[m]
    BY <2>2
  <2>6. ClosestFound'
    BY <1>1, <1>2, <2>2, <2>3, <2>4, <2>5 DEF ClosestFound, Closer
  <2>7. RelevantFound' /\ CandidatesFound'
    BY <1>1, <1>3, <2>2, <2>5 DEF RelevantFound, CandidatesFound
  <2> QED BY <2>2, <2>6, <2>7 DEF BestFound, NearestFound
<1> QED BY <1>4, <1>5

LEMMA SearchVectorsFinds ==
  ASSUME RecallKept, BestFound, SearchVectors
  PROVE  BestFound'
<1>1. PICK found \in SUBSET Stored :
        /\ nearest' = [m \in found |-> Closeness[rows[m].text]]
        /\ \A a \in Fitting, b \in found : Closer(a, b) => a \in found
  BY SearchVectorsTakes
<1>2. /\ stage = "embedded" /\ stage' = "hits"
      /\ UNCHANGED <<rows, query, semantic, keyword, missing, byId, heard, reply, fitting, touched>>
  BY DEF SearchVectors
<1>3. Untouched' = Untouched /\ Untouched \subseteq Fitting
  BY <1>2 DEF Untouched, Fitting, Visible
<1>4. NearestFound'
  BY <1>1, <1>2, <1>3 DEF NearestFound, Closer
<1>5. ClosestFound'
  BY <1>2, <1>3 DEF BestFound, ClosestFound, Closer
<1>6. RelevantFound' /\ CandidatesFound'
  BY <1>2, <1>3 DEF BestFound, RelevantFound, CandidatesFound, MoreRelevant
<1> QED BY <1>4, <1>5, <1>6 DEF BestFound

\* The most relevant of what a keyword search looks at.
LEMMA RelevantTaken ==
  ASSUME RecallKept, NEW ms \in SUBSET Stored,
         NEW hits \in BestOf(Matching(ms), FetchK, MoreRelevant)
  PROVE  /\ hits \subseteq ms
         /\ \A a \in ms, b \in hits : MoreRelevant(a, b) => a \in hits
<1>1. /\ hits \subseteq Matching(ms)
      /\ \A a \in Matching(ms) \ hits, b \in hits : ~MoreRelevant(a, b)
  BY DEF BestOf
<1>2. Matching(ms) \subseteq ms
  BY DEF Matching
<1>3. ASSUME NEW a \in ms, NEW b \in hits, MoreRelevant(a, b) PROVE a \in Matching(ms)
  <2>1. Relevance[rows[a].text] \in Nat /\ Relevance[rows[b].text] \in Nat
    BY <1>1, <1>2, HitsAreStored DEF RecallKept
  <2>2. Relevance[rows[a].text] > Relevance[rows[b].text]
    BY <1>3 DEF MoreRelevant
  <2>3. Relevance[rows[a].text] > 0
    BY <2>1, <2>2
  <2> QED BY <2>3 DEF Matching
<1> QED BY <1>1, <1>2, <1>3

LEMMA SearchKeywordFinds ==
  ASSUME RecallKept, BestFound, SearchKeyword
  PROVE  BestFound'
<1>1. heard' \in SUBSET Stored
  BY DEF SearchKeyword
<1>2. PICK hits \in BestOf(Matching(heard'), FetchK, MoreRelevant) :
        /\ keyword' = [m \in hits |-> KeywordScore(Relevance[rows[m].text])]
        /\ missing' = hits \ DOMAIN byId
  BY DEF SearchKeyword
<1>3. hits \subseteq heard' /\ \A a \in heard', b \in hits : MoreRelevant(a, b) => a \in hits
  BY <1>1, <1>2, RelevantTaken
<1>4. /\ stage = "keyword" /\ stage' = "fetch" /\ query.channel # "off"
      /\ UNCHANGED <<rows, query, searchVars, semantic, byId, reply, fitting, touched>>
  BY DEF SearchKeyword
<1>5. Untouched' = Untouched
  BY <1>4 DEF Untouched, Fitting, Visible
<1>6. ClosestFound'
  BY <1>4, <1>5 DEF BestFound, ClosestFound, Closer
<1>7. DOMAIN keyword' = hits /\ \A m \in hits :
        query.channel # "sqlite" => keyword'[m] = Relevance[rows[m].text]
  BY <1>2 DEF KeywordScore
<1>8. RelevantFound'
  BY <1>2, <1>3, <1>4, <1>5, <1>7 DEF RelevantFound, MoreRelevant
<1>9. DOMAIN byId \subseteq DOMAIN semantic
  BY <1>4 DEF BestFound, RelevantFound, CandidatesFound
<1>10. CandidatesFound'
  BY <1>2, <1>4, <1>7, <1>9 DEF CandidatesFound
<1> QED BY <1>4, <1>6, <1>8, <1>10 DEF BestFound, NearestFound

LEMMA SearchCorpusFinds ==
  ASSUME RecallKept, BestFound, SearchCorpus
  PROVE  BestFound'
<1>1. heard' \in SUBSET Stored
  BY SearchCorpusTakes DEF Fitting
<1>2. PICK hits \in SUBSET Stored :
        /\ hits \in BestOf(Matching(heard'), FetchK, MoreRelevant)
        /\ keyword' = [m \in hits |-> KeywordScore(Relevance[rows[m].text])]
        /\ byId' = [m \in DOMAIN byId \cup hits |->
                      IF m \in DOMAIN byId THEN byId[m]
                      ELSE [similarity |-> 0, text |-> rows[m].text]]
  BY SearchCorpusTakes
<1>3. hits \subseteq heard' /\ \A a \in heard', b \in hits : MoreRelevant(a, b) => a \in hits
  BY <1>1, <1>2, RelevantTaken
<1>4. /\ stage = "keyword" /\ stage' = "rank" /\ query.channel # "off"
      /\ UNCHANGED <<rows, query, searchVars, semantic, missing, reply, fitting, touched>>
  BY DEF SearchCorpus
<1>5. Untouched' = Untouched
  BY <1>4 DEF Untouched, Fitting, Visible
<1>6. /\ DOMAIN byId' = DOMAIN byId \cup hits
      /\ \A m \in DOMAIN byId : byId'[m] = byId[m]
  BY <1>2
<1>7. ClosestFound'
  BY <1>4, <1>5, <1>6 DEF BestFound, ClosestFound, Closer
<1>8. DOMAIN keyword' = hits /\ \A m \in hits :
        query.channel # "sqlite" => keyword'[m] = Relevance[rows[m].text]
  BY <1>2 DEF KeywordScore
<1>9. RelevantFound'
  BY <1>3, <1>4, <1>5, <1>6, <1>8 DEF RelevantFound, MoreRelevant
<1>10. DOMAIN byId \subseteq DOMAIN semantic /\ missing = {}
  BY <1>4 DEF BestFound, RelevantFound, CandidatesFound
<1>11. CandidatesFound'
  BY <1>4, <1>6, <1>8, <1>10 DEF CandidatesFound
<1> QED BY <1>4, <1>7, <1>9, <1>11 DEF BestFound, NearestFound

LEMMA FetchMissingFinds ==
  ASSUME RecallKept, BestFound, NEW m, FetchMissing(m)
  PROVE  BestFound'
<1>1. /\ byId' = byId \/ (Visible(m) /\ Passes(m) /\ byId' = WithRow(m))
      /\ Visible(m) /\ Passes(m) => byId' = WithRow(m)
      /\ missing' = missing \ {m} /\ m \in missing /\ stage = "fetch"
      /\ UNCHANGED <<rows, query, stage, searchVars, semantic, keyword, heard, reply, fitting, touched>>
  BY FetchMissingAdds
<1>2. m \notin DOMAIN byId /\ m \in DOMAIN keyword
  BY <1>1 DEF BestFound, CandidatesFound
<1>3. /\ DOMAIN byId \subseteq DOMAIN byId' /\ DOMAIN byId' \subseteq DOMAIN byId \cup {m}
      /\ \A n \in DOMAIN byId : byId'[n] = byId[n]
  BY <1>1, <1>2 DEF WithRow
<1>4. Untouched' = Untouched
  BY <1>1 DEF Untouched, Fitting, Visible
<1>5. m \in Untouched => m \in DOMAIN byId'
  <2>1. m \in Untouched => Visible(m) /\ Passes(m)
    BY DEF Untouched, Fitting, Passes
  <2> QED BY <1>1, <2>1 DEF WithRow
<1>6. ClosestFound'
  BY <1>1, <1>3, <1>4 DEF BestFound, ClosestFound, Closer
<1>7. RelevantFound'
  BY <1>1, <1>3, <1>4, <1>5 DEF BestFound, RelevantFound, MoreRelevant
<1>8. CandidatesFound'
  BY <1>1, <1>2, <1>3 DEF BestFound, CandidatesFound
<1> QED BY <1>1, <1>6, <1>7, <1>8 DEF BestFound, NearestFound

\* Steps that find nothing.
LEMMA OthersFind ==
  ASSUME RecallKept, BestFound,
         UNCHANGED <<query, nearest, semantic, keyword, missing, byId, heard>>,
         \A m \in Untouched' : m \in Untouched /\ rows'[m] = rows[m],
         stage' \in {"embedded", "hits", "keyword"} => stage' = stage,
         missing # {} => stage' \in {"fetch", "failed"}
  PROVE  BestFound'
<1>1. NearestFound' /\ ClosestFound'
  BY DEF BestFound, NearestFound, ClosestFound, Closer
<1>2. RelevantFound'
  BY DEF BestFound, RelevantFound, MoreRelevant
<1>3. CandidatesFound'
  BY DEF BestFound, CandidatesFound
<1> QED BY <1>1, <1>2, <1>3 DEF BestFound

LEMMA RowWriteFinds ==
  ASSUME RecallKept, BestFound, RowWrite
  PROVE  BestFound'
<1>1. PICK m \in Stored, row \in Row : Writes(m, row)
  BY WritesOneRow DEF RecallKept
<1>2. /\ \A n \in Stored \ {m} : rows'[n] = rows[n]
      /\ touched' = touched \cup {m}
      /\ UNCHANGED <<query, stage, searchVars, semantic, keyword, missing, byId, heard, reply>>
  BY <1>1, WriteChanges DEF RecallKept
<1>3. \A n \in Untouched' : n \in Untouched /\ rows'[n] = rows[n]
  BY <1>2 DEF Untouched, Fitting, Visible
<1>4. missing # {} => stage' \in {"fetch", "failed"}
  BY <1>2 DEF BestFound, CandidatesFound
<1> QED BY <1>2, <1>3, <1>4, OthersFind DEF searchVars

LEMMA RestFinds ==
  ASSUME RecallKept, BestFound, KeywordFails \/ Fetched \/ Reply \/ Rerank \/ UNCHANGED recallVars
  PROVE  BestFound'
<1>1. /\ UNCHANGED <<rows, query, searchVars, semantic, keyword, missing, byId, heard, fitting, touched>>
      /\ \/ stage' \in {"failed", stage}
         \/ stage = "rank" /\ stage' = "done"
         \/ missing = {} /\ stage' = "rank"
  <2>1. CASE KeywordFails
    BY <2>1 DEF KeywordFails
  <2>2. CASE Fetched
    BY <2>2 DEF Fetched
  <2>3. CASE Reply
    BY <2>3 DEF Reply
  <2>4. CASE Rerank
    BY <2>4 DEF Rerank
  <2>5. CASE UNCHANGED recallVars
    BY <2>5 DEF recallVars
  <2> QED BY <2>1, <2>2, <2>3, <2>4, <2>5
<1>2. \A m \in Untouched' : m \in Untouched /\ rows'[m] = rows[m]
  BY <1>1 DEF Untouched, Fitting, Visible
<1>3. missing # {} => stage' \in {"fetch", "failed"}
  BY <1>1 DEF BestFound, CandidatesFound
<1> QED BY <1>1, <1>2, <1>3, OthersFind DEF searchVars

LEMMA BestFoundNext ==
  ASSUME RecallKept, BestFound, [RecallNext]_recallVars
  PROVE  BestFound'
BY RecallSteps, RowsTakenFinds, SearchVectorsFinds, SearchKeywordFinds, SearchCorpusFinds,
   FetchMissingFinds, RowWriteFinds, RestFinds

--------------------------------------------------------------------------------
(* How candidates are ordered *)

\* The numbers that the scores are scaled by.
LEMMA HighestAreNat ==
  ASSUME RecallTyped
  PROVE  /\ Highest(keyword) \in Nat /\ Highest(semantic) \in Nat
         /\ Scale \in Nat
<1>1. DOMAIN keyword \in SUBSET Stored /\ DOMAIN semantic \in SUBSET Stored
  BY DEF RecallTyped, Scores
<1>2. IsFiniteSet(DOMAIN keyword) /\ IsFiniteSet(DOMAIN semantic)
  BY <1>1, FewStored
<1>3. /\ \A m \in DOMAIN keyword : keyword[m] \in Nat
      /\ \A m \in DOMAIN semantic : semantic[m] \in Nat
  BY DEF RecallTyped, Scores
<1>4. Highest(keyword) \in Nat /\ Highest(semantic) \in Nat
  BY <1>2, <1>3, HighestIsNat
<1>5. Larger(Highest(keyword), 1) \in Nat \ {0} /\ Larger(Highest(semantic), 1) \in Nat \ {0}
  BY <1>4 DEF Larger
<1>6. 10 * Larger(Highest(keyword), 1) \in Nat \ {0}
  BY <1>5, PositiveProduct
<1>7. FusedScale \in Nat
  BY <1>5, <1>6, PositiveProduct DEF FusedScale
<1> QED BY <1>4, <1>7, RecallAssumption DEF Scale

\* Of two candidates that nothing has changed, the one that beats the other has the
\* greater similarity, with one score or with two.
LEMMA BetterIsMoreSimilar ==
  ASSUME RecallKept, BestFound, stage = "rank",
         "sqlite" \notin Channels, SemanticWeight > 0, KeywordWeight > 0,
         NEW a \in Untouched, NEW b \in Untouched, Beats(a, b), b \in DOMAIN byId
  PROVE  a \in DOMAIN byId /\ Similarity(a) > Similarity(b)
         /\ Similarity(a) \in Nat /\ Similarity(b) \in Nat
<1>1. /\ a \in Stored /\ b \in Stored /\ Closer(a, b)
      /\ query.channel # "off" => MoreRelevant(a, b) /\ {a, b} \subseteq heard
  BY DEF Untouched, Fitting, Beats
<1>2. /\ Closeness[rows[a].text] \in Nat /\ Closeness[rows[b].text] \in Nat
      /\ Relevance[rows[a].text] \in Nat /\ Relevance[rows[b].text] \in Nat
  BY <1>1, HitsAreStored DEF RecallKept
<1>3. Closeness[rows[a].text] > Closeness[rows[b].text]
  BY <1>1 DEF Closer
<1>4. query.channel # "off" => Relevance[rows[a].text] > Relevance[rows[b].text]
  BY <1>1 DEF MoreRelevant
<1>5. query.channel # "sqlite"
  BY DEF RecallKept, RecallTyped, Query
<1>6. missing = {}
  BY DEF BestFound, CandidatesFound
<1>7. b \in DOMAIN semantic => a \in DOMAIN semantic
  BY <1>1 DEF BestFound, ClosestFound
<1>8. /\ \A m \in {a, b} : m \in DOMAIN semantic =>
           /\ semantic[m] = Closeness[rows[m].text]
           /\ m \in DOMAIN byId /\ byId[m].similarity = semantic[m]
  BY DEF BestFound, ClosestFound
<1>9. \A m \in {a, b} : m \in DOMAIN keyword =>
        keyword[m] = Relevance[rows[m].text] /\ m \in DOMAIN byId
  BY <1>5, <1>6 DEF BestFound, RelevantFound
<1>10. b \in DOMAIN semantic \/ b \in DOMAIN keyword
  BY DEF BestFound, CandidatesFound
<1>11. CASE ~UsesFusion
  <2>1. b \in DOMAIN semantic
    BY <1>10, <1>11 DEF UsesFusion
  <2>2. a \in DOMAIN byId /\ byId[a].similarity = Closeness[rows[a].text]
        /\ byId[b].similarity = Closeness[rows[b].text]
    BY <1>7, <1>8, <2>1
  <2> QED BY <1>2, <1>3, <1>11, <2>2 DEF Similarity
<1>12. CASE UsesFusion
  <2> DEFINE s(m) == IF m \in DOMAIN semantic THEN semantic[m] ELSE 0
             k(m) == IF m \in DOMAIN keyword THEN keyword[m] ELSE 0
             g == Larger(Highest(keyword), 1)
             h == Larger(Highest(semantic), 1)
  <2>1. query.channel # "off" /\ DOMAIN keyword # {}
    BY <1>12 DEF UsesFusion, BestFound, RelevantFound
  <2>2. b \in DOMAIN keyword => a \in DOMAIN keyword
    BY <1>1, <2>1 DEF BestFound, RelevantFound
  <2>3. /\ s(a) \in Nat /\ s(b) \in Nat /\ s(a) >= s(b)
        /\ b \in DOMAIN semantic => s(a) > s(b)
    BY <1>2, <1>3, <1>7, <1>8
  <2>4. /\ k(a) \in Nat /\ k(b) \in Nat /\ k(a) >= k(b)
        /\ b \in DOMAIN keyword => k(a) > k(b)
    BY <1>2, <1>4, <1>9, <2>1, <2>2
  <2>5. a \in DOMAIN byId
    BY <1>7, <1>8, <1>9, <1>10, <2>2
  <2>6. Highest(keyword) \in Nat /\ Highest(semantic) \in Nat
    BY HighestAreNat DEF RecallKept
  <2>7. g \in Nat \ {0} /\ h \in Nat \ {0}
    BY <2>6 DEF Larger
  <2>8. SemanticWeight \in Nat \ {0} /\ KeywordWeight \in Nat \ {0}
    BY RecallAssumption
  <2>9. \A m \in {a, b} : Similarity(m) = SemanticWeight * s(m) * g + KeywordWeight * k(m) * h
    BY <1>12 DEF Similarity, Fused
  <2>10. s(a) > s(b) \/ k(a) > k(b)
    BY <1>10, <2>3, <2>4
  <2> HIDE DEF s, k, g, h
  <2>11. SemanticWeight * s(a) * g + KeywordWeight * k(a) * h
           > SemanticWeight * s(b) * g + KeywordWeight * k(b) * h
    BY <2>3, <2>4, <2>7, <2>8, <2>10, SumOfScores
  <2>12. \A m \in {a, b} : /\ SemanticWeight * s(m) * g \in Nat
                           /\ KeywordWeight * k(m) * h \in Nat
    BY <2>3, <2>4, <2>7, <2>8, WeightedScores
  <2>13. \A m \in {a, b} : Similarity(m) \in Nat
    BY <2>9, <2>12
  <2> QED BY <2>5, <2>9, <2>11, <2>13
<1> QED BY <1>11, <1>12

\* The only place of a memory in an order that has each once.
LEMMA PositionIs ==
  ASSUME NEW m, NEW i \in DOMAIN reply, reply[i] = m,
         \A j \in DOMAIN reply : reply[j] = m => j = i
  PROVE  Position(m) = i
BY DEF Position

LEMMA MaxOfNone == Max({} \cup {0}) = 0
<1>1. \E x \in {0} : \A y \in {0} : x >= y
  OBVIOUS
<1>2. Max({0}) \in {0}
  BY <1>1 DEF Max
<1> QED BY <1>2

\* What applyMmr takes first is the most similar.
LEMMA FirstOfMmr ==
  ASSUME RecallKept, NEW s \in ApplyMmr(DOMAIN byId), NEW n \in DOMAIN byId, n # s[1],
         Similarity(s[1]) \in Nat, Similarity(n) \in Nat
  PROVE  Similarity(s[1]) >= Similarity(n)
<1>1. 1 \in 1 .. TopK
  BY TopKIsPositive DEF RecallKept
<1>2. {s[j] : j \in 1 .. 1 - 1} = {}
  OBVIOUS
<1>3. MmrPrefers(s[1], n, {})
  <2>1. \A k \in DOMAIN byId \ ({s[j] : j \in 1 .. 1 - 1} \cup {s[1]}) :
          MmrPrefers(s[1], k, {s[j] : j \in 1 .. 1 - 1})
    BY <1>1 DEF ApplyMmr
  <2>2. n \in DOMAIN byId \ ({s[j] : j \in 1 .. 1 - 1} \cup {s[1]})
    BY <1>2
  <2> QED BY <1>2, <2>1, <2>2
<1>4. \A m : MmrScore(m, {}) = Similarity(m) * Precision - Scale * 0
  <2> SUFFICES ASSUME NEW m PROVE MmrScore(m, {}) = Similarity(m) * Precision - Scale * 0
    OBVIOUS
  <2>1. {Shared[byId[m].text][byId[c].text] : c \in {}} = {}
    OBVIOUS
  <2>2. MmrScore(m, {}) = Similarity(m) * Precision - Scale * Max({} \cup {0})
    BY <2>1 DEF MmrScore
  <2> QED BY <2>2, MaxOfNone
<1>5. Scale * 0 = 0 /\ Precision \in Nat \ {0}
  BY HighestAreNat, RecallAssumption DEF RecallKept
<1>6. MmrScore(s[1], {}) = Similarity(s[1]) * Precision
      /\ MmrScore(n, {}) = Similarity(n) * Precision
  <2>1. Similarity(s[1]) * Precision \in Nat /\ Similarity(n) * Precision \in Nat
    BY <1>5
  <2> QED BY <1>4, <1>5, <2>1
<1>7. SUFFICES ASSUME Similarity(n) > Similarity(s[1]) PROVE FALSE
  OBVIOUS
<1>8. Similarity(n) * Precision > Similarity(s[1]) * Precision
      /\ Similarity(n) * Precision \in Nat
  <2>1. 1 * Similarity(n) * Precision > 1 * Similarity(s[1]) * Precision
    BY <1>5, <1>7, WeightedScores
  <2> QED BY <1>5, <2>1
<1>9. Similarity(s[1]) * Precision \in Nat
  BY <1>5
<1> QED BY <1>3, <1>6, <1>8, <1>9 DEF MmrPrefers

LEMMA ReplyKeepsOrder ==
  ASSUME RecallKept, BestFound, Reply,
         "sqlite" \notin Channels, SemanticWeight > 0, KeywordWeight > 0
  PROVE  BetterInBothComesFirst'
<1>1. PICK s \in Ranked : reply' = Cut(s)
  BY DEF Reply
<1>2. stage = "rank" /\ UNCHANGED <<rows, query, semantic, keyword, byId, heard, fitting, touched>>
  BY DEF Reply
<1>3. PICK n \in Nat : InOrder(s, n) /\ Len(s) = n /\ s \in Seq(DOMAIN byId)
  BY RankedAreCandidates DEF RecallKept
<1>4. PICK k \in 0 .. n :
        /\ k = Smaller(TopK, n) /\ DOMAIN reply' = 1 .. k
        /\ \A i \in 1 .. k : reply'[i] = s[i]
  BY <1>1, <1>3, CutIsPrefix DEF RecallKept
<1>5. /\ 1 .. k \subseteq 1 .. n /\ DOMAIN s = 1 .. n
      /\ \A i, j \in 1 .. n : s[i] = s[j] => i = j
      /\ \A i \in 1 .. n : s[i] \in DOMAIN byId
  BY <1>3 DEF InOrder
<1>6. \A i \in 1 .. k : Position(s[i])' = i
  BY <1>4, <1>5 DEF Position
<1>7. SUFFICES ASSUME NEW a \in Untouched, NEW b \in Untouched, Beats(a, b),
                      b \in ToSet(reply')
               PROVE  \/ a \in ToSet(reply') /\ Position(a)' < Position(b)'
                      \/ query.mmr /\ Position(b)' > 1
  <2>1. /\ Fitting' = Fitting
        /\ \A a, b : Beats(a, b)' <=> Beats(a, b)
    BY <1>2 DEF Fitting, Visible, Beats, Closer, MoreRelevant
  <2> QED BY <1>2, <2>1 DEF BetterInBothComesFirst, Untouched
<1>8. PICK j \in 1 .. k : b = s[j]
  BY <1>4, <1>7 DEF ToSet
<1>9. b \in DOMAIN byId
  BY <1>5, <1>8
<1>10. /\ a \in DOMAIN byId /\ Similarity(a) > Similarity(b)
       /\ Similarity(a) \in Nat /\ Similarity(b) \in Nat
  BY <1>2, <1>7, <1>9, BetterIsMoreSimilar
<1>11. a # b
  BY <1>10
<1>12. CASE query.mmr /\ Cardinality(DOMAIN byId) > TopK
  <2>1. s \in ApplyMmr(DOMAIN byId)
    BY <1>1, <1>12 DEF Ranked
  <2>2. j # 1
    <3>1. SUFFICES ASSUME j = 1 PROVE FALSE
      OBVIOUS
    <3>2. Similarity(s[1]) >= Similarity(a)
      BY <2>1, <3>1, <1>8, <1>10, <1>11, FirstOfMmr
    <3> QED BY <3>1, <3>2, <1>8, <1>10
  <2> QED BY <1>6, <1>8, <1>12, <2>2
<1>13. CASE ~(query.mmr /\ Cardinality(DOMAIN byId) > TopK)
  <2>1. s \in Sorted(DOMAIN byId)
    BY <1>1, <1>13 DEF Ranked
  <2>2. \A t \in DOMAIN byId : \E i \in DOMAIN s : s[i] = t
    BY <2>1 DEF Sorted, Bijection, Surjection
  <2>3. PICK i \in 1 .. n : s[i] = a
    BY <1>5, <1>10, <2>2
  <2>4. ~(j < i)
    <3>1. SUFFICES ASSUME j < i PROVE FALSE
      OBVIOUS
    <3>2. Precedes(s[j], s[i])
      BY <1>5, <2>1, <2>3, <3>1, <1>8 DEF Sorted
    <3> QED BY <1>8, <1>10, <2>3, <3>2 DEF Precedes
  <2>5. i < j
    BY <1>4, <1>8, <1>11, <2>3, <2>4
  <2>6. i \in 1 .. k
    BY <2>5, <1>4, <1>8
  <2>7. a \in ToSet(reply')
    BY <1>4, <2>3, <2>6 DEF ToSet
  <2> QED BY <1>6, <1>8, <2>3, <2>5, <2>6, <2>7
<1> QED BY <1>12, <1>13

\* Where both weights count and the keyword scores grow with the relevance, a memory
\* closer to the query and more relevant than another never comes behind it, for any
\* limits of the two searches, any scores and any number of memories.  Each hypothesis
\* is one that the code does not enforce: the configuration may give a channel the
\* weight 0, which leaves equal similarities to the ids, and searchKeyword of SQLite
\* scores a better match lower, which KeywordRank shows to break the property.
THEOREM BetterComesFirst ==
  ASSUME "sqlite" \notin Channels, SemanticWeight > 0, KeywordWeight > 0
  PROVE  RecallSpec => []BetterInBothComesFirst
<1> DEFINE Inv == RecallKept /\ BestFound /\ BetterInBothComesFirst
<1>1. RecallInit => Inv
  BY RecallTypesInit, BestFoundInit DEF RecallKept, BetterInBothComesFirst, RecallInit
<1>2. Inv /\ [RecallNext]_recallVars => Inv'
  <2>1. SUFFICES ASSUME Inv, [RecallNext]_recallVars PROVE BetterInBothComesFirst'
    BY RecallKeptNext, BestFoundNext
  <2>2. CASE UNCHANGED recallVars
    BY <2>1, <2>2 DEF BetterInBothComesFirst, Fitting, Visible, Beats, Closer, MoreRelevant,
                      Position, recallVars
  <2>3. CASE RecallNext
    <3>1. CASE stage' = "done"
      <4>1. CASE Reply
        BY <2>1, <4>1, ReplyKeepsOrder
      <4>2. CASE Rerank
        BY <4>2 DEF Rerank, BetterInBothComesFirst
      <4> QED BY <2>3, <3>1, <4>1, <4>2, AnswersEnd
    <3>2. CASE stage' # "done"
      BY <3>2 DEF BetterInBothComesFirst
    <3> QED BY <3>1, <3>2
  <2> QED BY <2>1, <2>2, <2>3
<1>3. Inv => BetterInBothComesFirst
  OBVIOUS
<1> QED BY <1>1, <1>2, <1>3, PTL DEF RecallSpec

--------------------------------------------------------------------------------
(* Chunking *)

ChunkingSpec == ChunkingInit /\ [][UNCHANGED chunkingVars]_chunkingVars

--------------------------------------------------------------------------------
(* Recursion over places *)

\* Induction, over a set of numbers.
LEMMA NatInSet ==
  ASSUME NEW S, 0 \in S, \A n \in Nat : n \in S => n + 1 \in S
  PROVE  \A n \in Nat : n \in S
<1> DEFINE T == Nat \ S
<1>1. SUFFICES ASSUME T # {} PROVE FALSE
  OBVIOUS
<1>2. PICK n \in T : \A k \in T : ~(<<k, n>> \in OpToRel(<, Nat))
  BY <1>1, NatLessThanWellFounded, WFMin
<1>3. \A k \in T : ~(k < n)
  BY <1>2 DEF OpToRel
<1>4. n - 1 \in Nat
  OBVIOUS
<1>5. n - 1 \in S
  BY <1>3, <1>4
<1>6. (n - 1) + 1 \in S
  BY <1>4, <1>5
<1> QED BY <1>4, <1>6

LEMMA LeastIsIn ==
  ASSUME NEW S \in SUBSET Nat, S # {}
  PROVE  Min(S) \in S /\ \A x \in S : Min(S) <= x
<1>1. PICK n \in S : \A k \in S : ~(<<k, n>> \in OpToRel(<, Nat))
  BY NatLessThanWellFounded, WFMin
<1>2. \A k \in S : ~(k < n)
  BY <1>1 DEF OpToRel
<1>3. \A k \in S : n <= k
  BY <1>2
<1> QED BY <1>3 DEF Min

\* A loop that collects heads on its way up to hi.
LoopStep(f, hi, head, next, stop, s) ==
  IF s > hi THEN << >>
  ELSE head[s] \o (IF s \in stop THEN << >> ELSE f[next[s]])

Climbs(lo, hi, next, stop) ==
  \A s \in lo .. hi : s \notin stop => next[s] \in lo .. hi + 1 /\ next[s] > s

IsLoop(f, lo, hi, head, next, stop) ==
  f = [s \in lo .. hi + 1 |-> LoopStep(f, hi, head, next, stop, s)]

LEMMA LoopExists ==
  ASSUME NEW lo \in Nat, NEW hi \in Nat, NEW head, NEW next, NEW stop,
         Climbs(lo, hi, next, stop)
  PROVE  \E f : IsLoop(f, lo, hi, head, next, stop)
<1> DEFINE D == lo .. hi + 1
           Right(f, s) == f[s] = LoopStep(f, hi, head, next, stop, s)
           S == {k \in Nat : \E f : /\ f = [s \in D |-> f[s]]
                                    /\ \A s \in D : s + k > hi + 1 => Right(f, s)}
<1>1. 0 \in S
  <2> DEFINE f == [s \in D |-> << >>]
  <2>1. f = [s \in D |-> f[s]]
    OBVIOUS
  <2>2. \A s \in D : ~(s + 0 > hi + 1)
    OBVIOUS
  <2> HIDE DEF f
  <2> QED BY <2>1, <2>2
<1>2. ASSUME NEW k \in Nat, k \in S PROVE k + 1 \in S
  <2>1. PICK f : /\ f = [s \in D |-> f[s]]
                 /\ \A s \in D : s + k > hi + 1 => Right(f, s)
    BY <1>2
  <2> DEFINE g == [s \in D |-> IF s + k = hi + 1 THEN LoopStep(f, hi, head, next, stop, s)
                               ELSE f[s]]
  <2>2. g = [s \in D |-> g[s]]
    OBVIOUS
  <2>3. ASSUME NEW s \in D, s + (k + 1) > hi + 1 PROVE Right(g, s)
    <3>1. g[s] = LoopStep(f, hi, head, next, stop, s)
      BY <2>1, <2>3
    <3>2. s <= hi /\ s \notin stop => g[next[s]] = f[next[s]]
      BY <2>3 DEF Climbs
    <3> HIDE DEF g
    <3> QED BY <3>1, <3>2 DEF LoopStep
  <2> HIDE DEF g
  <2>4. \A s \in D : s + (k + 1) > hi + 1 => Right(g, s)
    BY <2>3
  <2> HIDE DEF Right, D
  <2> QED BY <2>2, <2>4
<1> HIDE DEF S
<1>3. hi + 2 \in S
  BY <1>1, <1>2, NatInSet
<1>4. PICK f : /\ f = [s \in D |-> f[s]]
               /\ \A s \in D : s + (hi + 2) > hi + 1 => Right(f, s)
  BY <1>3 DEF S
<1>5. \A s \in D : Right(f, s)
  BY <1>4
<1>6. [s \in D |-> f[s]] = [s \in D |-> LoopStep(f, hi, head, next, stop, s)]
  BY <1>5
<1> QED BY <1>4, <1>6 DEF IsLoop

--------------------------------------------------------------------------------
(* Sequences of chunks *)

Places == [from : Nat, to : Nat]

LEMMA SetOfJoined ==
  ASSUME NEW cs \in Seq(Places), NEW ds \in Seq(Places)
  PROVE  cs \o ds \in Seq(Places) /\ ToSet(cs \o ds) = ToSet(cs) \cup ToSet(ds)
<1>1. /\ Len(cs \o ds) = Len(cs) + Len(ds) /\ Len(cs) \in Nat /\ Len(ds) \in Nat
      /\ DOMAIN (cs \o ds) = 1 .. Len(cs) + Len(ds)
      /\ DOMAIN cs = 1 .. Len(cs) /\ DOMAIN ds = 1 .. Len(ds)
  OBVIOUS
<1>2. \A i \in 1 .. Len(cs) : (cs \o ds)[i] = cs[i]
  OBVIOUS
<1>3. \A i \in 1 .. Len(ds) : (cs \o ds)[Len(cs) + i] = ds[i]
  OBVIOUS
<1>4. ASSUME NEW i \in DOMAIN (cs \o ds) PROVE (cs \o ds)[i] \in ToSet(cs) \cup ToSet(ds)
  <2>1. CASE i <= Len(cs)
    BY <1>1, <1>2, <2>1 DEF ToSet
  <2>2. CASE i > Len(cs)
    <3>1. i - Len(cs) \in 1 .. Len(ds) /\ Len(cs) + (i - Len(cs)) = i
      BY <1>1, <2>2
    <3> QED BY <1>1, <1>3, <3>1 DEF ToSet
  <2> QED BY <1>1, <2>1, <2>2
<1>5. \A i \in DOMAIN cs : cs[i] \in ToSet(cs \o ds)
  BY <1>1, <1>2 DEF ToSet
<1>6. \A i \in DOMAIN ds : ds[i] \in ToSet(cs \o ds)
  <2>1. SUFFICES ASSUME NEW i \in DOMAIN ds PROVE ds[i] \in ToSet(cs \o ds)
    OBVIOUS
  <2>2. Len(cs) + i \in DOMAIN (cs \o ds) /\ (cs \o ds)[Len(cs) + i] = ds[i]
    BY <1>1, <1>3
  <2> QED BY <2>2 DEF ToSet
<1>7. cs \o ds \in Seq(Places)
  OBVIOUS
<1>8. ToSet(cs \o ds) \subseteq ToSet(cs) \cup ToSet(ds)
  BY Zenon, <1>4 DEF ToSet
<1>9. ToSet(cs) \subseteq ToSet(cs \o ds) /\ ToSet(ds) \subseteq ToSet(cs \o ds)
  BY Zenon, <1>5, <1>6 DEF ToSet
<1> QED BY <1>7, <1>8, <1>9

Short(cs) == \A c \in ToSet(cs) : Length(c) <= ChunkSize

\* Some chunk has all of these places.
Holds(cs, from, to) == \E c \in ToSet(cs) : c.from <= from /\ to <= c.to

OptionsChosen ==
  options.chunkSize \in Nat /\ options.overlap \in Nat /\ MinSize \in Nat \ {0, 1}

LEMMA ClampedOptions ==
  ASSUME OptionsChosen
  PROVE  ChunkSize \in Nat /\ Overlap \in Nat /\ Overlap < ChunkSize
<1>1. ChunkSize \in Nat /\ ChunkSize >= 2
  BY DEF ChunkSize, Most, OptionsChosen
<1>2. ChunkSize \div 2 \in Nat /\ ChunkSize \div 2 < ChunkSize
  BY <1>1
<1> QED BY <1>1, <1>2 DEF Overlap, Least, OptionsChosen

LEMMA TrimmedHolds ==
  ASSUME NEW t \in Seq(BOOLEAN), NEW from \in Nat, NEW to \in Nat, from <= to
  PROVE  /\ Trimmed(t, from, to) \in Seq(Places)
         /\ \A c \in ToSet(Trimmed(t, from, to)) : Length(c) <= (to - from) + 1
         /\ \A i, j \in from .. to : t[i] /\ t[j] => Holds(Trimmed(t, from, to), i, j)
         /\ Trimmed(t, from, to) = << >> => \A i \in from .. to : ~t[i]
<1> DEFINE solid == {i \in from .. to : t[i]}
<1>1. CASE solid = {}
  <2>1. Trimmed(t, from, to) = << >>
    BY <1>1 DEF Trimmed
  <2>2. \A i \in from .. to : ~t[i]
    BY <1>1
  <2> QED BY <2>1, <2>2 DEF ToSet
<1>2. CASE solid # {}
  <2> DEFINE c == [from |-> Min(solid), to |-> Max(solid)]
  <2>1. Trimmed(t, from, to) = <<c>>
    BY <1>2 DEF Trimmed
  <2>2. solid \in SUBSET Nat /\ IsFiniteSet(solid)
    <3>1. IsFiniteSet(from .. to) /\ solid \in SUBSET (from .. to)
      BY FS_Interval
    <3> QED BY <3>1, FS_Subset
  <2>3. /\ Min(solid) \in from .. to /\ \A i \in solid : Min(solid) <= i
        /\ Max(solid) \in from .. to /\ \A i \in solid : Max(solid) >= i
    BY <1>2, <2>2, LeastIsIn, FiniteHasMax
  <2>4. ToSet(<<c>>) = {c} /\ <<c>> # << >>
    <3> HIDE DEF c
    <3>1. DOMAIN <<c>> = {1} /\ <<c>>[1] = c /\ <<c>> # << >>
      OBVIOUS
    <3> QED BY <3>1 DEF ToSet
  <2>5. c \in Places /\ Length(c) <= (to - from) + 1
    BY <2>3 DEF Places, Length
  <2>6. \A i, j \in from .. to : t[i] /\ t[j] => c.from <= i /\ j <= c.to
    BY <2>3
  <2> HIDE DEF c
  <2> QED BY <2>1, <2>4, <2>5, <2>6 DEF Holds
<1> QED BY <1>1, <1>2

LEMMA TrimmedShort ==
  ASSUME OptionsChosen, NEW t \in Seq(BOOLEAN), NEW from \in Nat, NEW to \in Nat, from <= to,
         (to - from) + 1 <= ChunkSize
  PROVE  Trimmed(t, from, to) \in Seq(Places) /\ Short(Trimmed(t, from, to))
<1> DEFINE cs == Trimmed(t, from, to)
<1>1. cs \in Seq(Places) /\ \A c \in ToSet(cs) : Length(c) <= (to - from) + 1
  BY TrimmedHolds
<1>2. ToSet(cs) \subseteq Places
  BY <1>1 DEF ToSet
<1>3. \A c \in ToSet(cs) : Length(c) \in Int
  BY <1>2 DEF Length, Places
<1> HIDE DEF cs
<1> QED BY <1>1, <1>3, ClampedOptions DEF Short, cs

--------------------------------------------------------------------------------
(* Windows *)

WindowEnd(t, start) == Least(start + ChunkSize - 1, Len(t))

LEMMA WindowsDef ==
  ASSUME OptionsChosen, NEW t \in Seq(BOOLEAN)
  PROVE  \E f : /\ SlidingWindow(t) = f[1]
                /\ \A start \in 1 .. Len(t) + 1 :
                     f[start] =
                       LET end == WindowEnd(t, start)
                       IN  IF start > Len(t) THEN << >>
                           ELSE Trimmed(t, start, end) \o
                                  (IF end >= Len(t) THEN << >> ELSE f[NextStart(start, end)])
<1> DEFINE L == Len(t)
           D == 1 .. L + 1
           Body(f, start) ==
             LET end == Least(start + ChunkSize - 1, Len(t))
             IN  IF start > Len(t) THEN << >>
                 ELSE Trimmed(t, start, end) \o
                        (IF end >= Len(t) THEN << >> ELSE f[NextStart(start, end)])
           Windows(f) == f = [start \in 1 .. Len(t) + 1 |-> Body(f, start)]
           head == [s \in 1 .. L |-> Trimmed(t, s, WindowEnd(t, s))]
           next == [s \in 1 .. L |-> NextStart(s, WindowEnd(t, s))]
           stop == {s \in 1 .. L : WindowEnd(t, s) >= L}
<1>1. L \in Nat
  OBVIOUS
<1>2. Climbs(1, L, next, stop)
  <2>1. SUFFICES ASSUME NEW s \in 1 .. L, s \notin stop
                 PROVE  next[s] \in 1 .. L + 1 /\ next[s] > s
    BY DEF Climbs
  <2>2. WindowEnd(t, s) = s + ChunkSize - 1 /\ WindowEnd(t, s) < L
    BY <1>1, <2>1, ClampedOptions DEF WindowEnd, Least
  <2>3. next[s] = NextStart(s, WindowEnd(t, s))
    OBVIOUS
  <2> HIDE DEF next, stop, L
  <2> QED BY <1>1, <2>2, <2>3, ClampedOptions DEF NextStart, Most
<1>3. PICK f : IsLoop(f, 1, L, head, next, stop)
  <2>1. 1 \in Nat
    OBVIOUS
  <2> HIDE DEF next, stop, L, head
  <2> QED BY Zenon, <1>1, <1>2, <2>1, LoopExists
<1>4. \A s \in 1 .. L + 1 : LoopStep(f, L, head, next, stop, s) = Body(f, s)
  <2>1. SUFFICES ASSUME NEW s \in 1 .. L + 1
                 PROVE  LoopStep(f, L, head, next, stop, s) = Body(f, s)
    OBVIOUS
  <2>2. CASE s > L
    BY <2>2 DEF LoopStep
  <2>3. CASE ~(s > L)
    <3>1. s \in 1 .. L
      BY <2>3, <1>1
    <3>2. /\ head[s] = Trimmed(t, s, WindowEnd(t, s))
          /\ next[s] = NextStart(s, WindowEnd(t, s))
          /\ s \in stop <=> WindowEnd(t, s) >= L
      BY <3>1
    <3>3. LoopStep(f, L, head, next, stop, s)
            = head[s] \o (IF s \in stop THEN << >> ELSE f[next[s]])
      BY Zenon, <2>3 DEF LoopStep
    <3>4. Body(f, s) = Trimmed(t, s, WindowEnd(t, s)) \o
                         (IF WindowEnd(t, s) >= Len(t) THEN << >>
                          ELSE f[NextStart(s, WindowEnd(t, s))])
      BY Zenon, <2>3 DEF WindowEnd
    <3> HIDE DEF head, next, stop, Body
    <3> QED BY Zenon, <3>2, <3>3, <3>4
  <2> QED BY <2>2, <2>3
<1>5. Windows(f)
  <2>1. [s \in 1 .. L + 1 |-> LoopStep(f, L, head, next, stop, s)]
          = [s \in 1 .. L + 1 |-> Body(f, s)]
    <3> HIDE DEF Body, L, head, next, stop
    <3> QED BY <1>4
  <2> HIDE DEF Body, head, next, stop
  <2> QED BY <1>3, <2>1 DEF IsLoop
<1> DEFINE g == CHOOSE h : Windows(h)
<1>6. Windows(g)
  <2> HIDE DEF Windows
  <2> QED BY Zenon, <1>5
<1>7. SlidingWindow(t) = g[1]
  BY Zenon DEF SlidingWindow
<1>8. \A s \in 1 .. Len(t) + 1 : g[s] = Body(g, s)
  <2> HIDE DEF g, Body
  <2> QED BY <1>6
<1> HIDE DEF g
<1> QED BY <1>7, <1>8 DEF WindowEnd

\* The windows from some place on hold each phrase that begins there or later.
LEMMA WindowsHold ==
  ASSUME OptionsChosen, NEW t \in Seq(BOOLEAN), Len(t) > 0
  PROVE  /\ SlidingWindow(t) \in Seq(Places) /\ Short(SlidingWindow(t))
         /\ \A i, j \in 1 .. Len(t) :
              i <= j /\ j - i <= Overlap /\ t[i] /\ t[j] => Holds(SlidingWindow(t), i, j)
<1> DEFINE L == Len(t)
           Good(cs, s) ==
             /\ cs \in Seq(Places) /\ Short(cs)
             /\ \A i, j \in s .. L : i <= j /\ j - i <= Overlap /\ t[i] /\ t[j] => Holds(cs, i, j)
<1>1. PICK f : /\ SlidingWindow(t) = f[1]
               /\ \A start \in 1 .. Len(t) + 1 :
                     f[start] =
                       LET end == WindowEnd(t, start)
                       IN  IF start > Len(t) THEN << >>
                           ELSE Trimmed(t, start, end) \o
                                  (IF end >= Len(t) THEN << >> ELSE f[NextStart(start, end)])
  BY WindowsDef
<1> DEFINE S == {k \in Nat : \A s \in 1 .. L + 1 : s + k > L => Good(f[s], s)}
<1>2. L \in Nat
  OBVIOUS
<1>3. 0 \in S
  <2>1. SUFFICES ASSUME NEW s \in 1 .. L + 1, s > L PROVE Good(f[s], s)
    BY <1>2
  <2>2. f[s] = << >>
    BY <1>1, <2>1
  <2>3. << >> \in Seq(Places) /\ ToSet(<< >>) = {}
    BY DEF ToSet
  <2>4. \A i \in s .. L : FALSE
    BY <2>1, <1>2
  <2> QED BY <2>2, <2>3, <2>4 DEF Short
<1>4. ASSUME NEW k \in Nat, k \in S PROVE k + 1 \in S
  <2>1. SUFFICES ASSUME NEW s \in 1 .. L + 1, s + (k + 1) > L PROVE Good(f[s], s)
    OBVIOUS
  <2>2. CASE s + k > L
    BY <1>4, <2>2
  <2>3. CASE ~(s + k > L)
    <3> DEFINE end == WindowEnd(t, s)
               here == Trimmed(t, s, end)
               later == IF end >= L THEN << >> ELSE f[NextStart(s, end)]
    <3>1. s \in 1 .. L /\ end \in s .. L /\ (end - s) + 1 <= ChunkSize
      BY <1>2, <2>3, ClampedOptions DEF WindowEnd, Least
    <3>2. f[s] = here \o later
      <4>1. s \in 1 .. Len(t) + 1 /\ ~(s > Len(t))
        BY <1>2, <3>1
      <4> QED BY Zenon, <1>1, <4>1
    <3>5. here \in Seq(Places) /\ Short(here)
      <4> HIDE DEF end
      <4> QED BY <1>2, <3>1, TrimmedShort
    <3>6. \A i, j \in s .. end : t[i] /\ t[j] => Holds(here, i, j)
      <4> HIDE DEF end
      <4>1. end \in Nat /\ s \in Nat /\ s <= end
        BY <1>2, <3>1
      <4> QED BY Zenon, <4>1, TrimmedHolds
    <3>3. CASE end >= L
      <4>1. end = L
        BY <1>2, <3>1, <3>3
      <4>2. later = << >>
        BY <3>3
      <4> HIDE DEF here, later, end
      <4>3. f[s] = here
        BY <3>2, <3>5, <4>2
      <4> QED BY <3>5, <3>6, <4>1, <4>3
    <3>4. CASE end < L
      <4> DEFINE n == NextStart(s, end)
      <4>1. end = s + ChunkSize - 1
        BY <1>2, <3>1, <3>4, ClampedOptions DEF WindowEnd, Least
      <4>2. n = (end + 1) - Overlap /\ n \in 1 .. L /\ n > s
        BY <1>2, <3>1, <3>4, <4>1, ClampedOptions DEF NextStart, Most
      <4>3. Good(f[n], n)
        BY <1>2, <1>4, <2>1, <4>2
      <4>4. later = f[n]
        BY <1>2, <3>1, <3>4
      <4>6. f[s] \in Seq(Places) /\ ToSet(f[s]) = ToSet(here) \cup ToSet(later)
        BY <3>2, <3>5, <4>3, <4>4, SetOfJoined
      <4>7. Short(f[s])
        BY <3>5, <4>3, <4>4, <4>6 DEF Short
      <4>8. ASSUME NEW i \in s .. L, NEW j \in s .. L, i <= j, j - i <= Overlap, t[i], t[j]
            PROVE  Holds(f[s], i, j)
        <5>1. CASE j <= end
          <6>1. i \in s .. end /\ j \in s .. end
            BY <1>2, <3>1, <4>8, <5>1
          <6>2. Holds(here, i, j)
            BY <3>6, <4>8, <6>1
          <6> QED BY <4>6, <6>2 DEF Holds
        <5>2. CASE j > end
          <6>1. i \in n .. L /\ j \in n .. L
            BY <1>2, <3>1, <4>2, <4>8, <5>2, ClampedOptions
          <6>2. Holds(f[n], i, j)
            BY <4>3, <4>8, <6>1
          <6> QED BY <4>4, <4>6, <6>2 DEF Holds
        <5> QED BY <1>2, <3>1, <4>8, <5>1, <5>2
      <4> QED BY <4>6, <4>7, <4>8
    <3> QED BY <1>2, <3>1, <3>3, <3>4
  <2> QED BY <2>2, <2>3
<1>5. L \in S
  <2> HIDE DEF S
  <2> QED BY <1>2, <1>3, <1>4, NatInSet
<1>6. Good(f[1], 1)
  BY <1>2, <1>5
<1> QED BY <1>1, <1>6

--------------------------------------------------------------------------------
(* Hard splits *)

\* A piece of the text.
PieceOf(t, p) == p \in Places /\ 1 <= p.from /\ p.from <= p.to /\ p.to <= Len(t)

SplitEnd(p, start) == Least(start + ChunkSize - 1, p.to)

\* What becomes of these characters, blanks included.
SplitChunk(t, start, end) ==
  IF Trimmed(t, start, end) = << >> THEN <<[from |-> start, to |-> start - 1]>>
  ELSE Trimmed(t, start, end)

LEMMA HardSplitDef ==
  ASSUME OptionsChosen, NEW t, NEW p, PieceOf(t, p)
  PROVE  \E f : /\ HardSplit(t, p) = f[p.from]
                /\ \A start \in p.from .. p.to + 1 :
                     f[start] = IF start > p.to THEN << >>
                                ELSE SplitChunk(t, start, SplitEnd(p, start))
                                       \o f[SplitEnd(p, start) + 1]
<1> DEFINE Body(f, start) ==
             LET end == Least(start + ChunkSize - 1, p.to)
                 text == Trimmed(t, start, end)
             IN  IF start > p.to THEN << >>
                 ELSE (IF text = << >> THEN <<[from |-> start, to |-> start - 1]>> ELSE text)
                        \o f[end + 1]
           Split(f) == f = [start \in p.from .. p.to + 1 |-> Body(f, start)]
           head == [s \in p.from .. p.to |-> SplitChunk(t, s, SplitEnd(p, s))]
           next == [s \in p.from .. p.to |-> SplitEnd(p, s) + 1]
<1>1. p.from \in Nat /\ p.to \in Nat
  BY DEF PieceOf, Places
<1>2. Climbs(p.from, p.to, next, {})
  <2>1. SUFFICES ASSUME NEW s \in p.from .. p.to
                 PROVE  next[s] \in p.from .. p.to + 1 /\ next[s] > s
    BY DEF Climbs
  <2>2. SplitEnd(p, s) \in s .. p.to
    BY <1>1, <2>1, ClampedOptions DEF SplitEnd, Least
  <2>3. next[s] = SplitEnd(p, s) + 1
    OBVIOUS
  <2> HIDE DEF next
  <2> QED BY <1>1, <2>2, <2>3
<1>3. PICK f : IsLoop(f, p.from, p.to, head, next, {})
  <2> HIDE DEF next, head
  <2> QED BY Zenon, <1>1, <1>2, LoopExists
<1>4. \A s \in p.from .. p.to + 1 : LoopStep(f, p.to, head, next, {}, s) = Body(f, s)
  <2>1. SUFFICES ASSUME NEW s \in p.from .. p.to + 1
                 PROVE  LoopStep(f, p.to, head, next, {}, s) = Body(f, s)
    OBVIOUS
  <2>2. CASE s > p.to
    BY <2>2 DEF LoopStep
  <2>3. CASE ~(s > p.to)
    <3>1. s \in p.from .. p.to
      BY <2>3, <1>1
    <3>2. head[s] = SplitChunk(t, s, SplitEnd(p, s)) /\ next[s] = SplitEnd(p, s) + 1
      BY <3>1
    <3>3. LoopStep(f, p.to, head, next, {}, s) = head[s] \o f[next[s]]
      BY Zenon, <2>3 DEF LoopStep
    <3>4. Body(f, s) = SplitChunk(t, s, SplitEnd(p, s)) \o f[SplitEnd(p, s) + 1]
      BY Zenon, <2>3 DEF SplitEnd, SplitChunk
    <3> HIDE DEF head, next, Body
    <3> QED BY Zenon, <3>2, <3>3, <3>4
  <2> QED BY <2>2, <2>3
<1>5. Split(f)
  <2>1. [s \in p.from .. p.to + 1 |-> LoopStep(f, p.to, head, next, {}, s)]
          = [s \in p.from .. p.to + 1 |-> Body(f, s)]
    <3> HIDE DEF Body, head, next
    <3> QED BY <1>4
  <2> HIDE DEF Body, head, next
  <2> QED BY <1>3, <2>1 DEF IsLoop
<1> DEFINE g == CHOOSE h : Split(h)
<1>6. Split(g)
  <2> HIDE DEF Split
  <2> QED BY Zenon, <1>5
<1>7. HardSplit(t, p) = g[p.from]
  BY Zenon DEF HardSplit
<1>8. \A s \in p.from .. p.to + 1 : g[s] = Body(g, s)
  <2> HIDE DEF g, Body
  <2> QED BY <1>6
<1> HIDE DEF g
<1> QED BY <1>7, <1>8 DEF SplitEnd, SplitChunk

LEMMA SplitChunkHolds ==
  ASSUME OptionsChosen, NEW t \in Seq(BOOLEAN), NEW from \in Nat \ {0}, NEW to \in Nat,
         from <= to, (to - from) + 1 <= ChunkSize
  PROVE  LET cs == SplitChunk(t, from, to)
         IN  /\ cs \in Seq(Places) /\ Short(cs)
             /\ \A i \in from .. to : t[i] => Holds(cs, i, i)
<1>1. CASE Trimmed(t, from, to) = << >>
  <2> DEFINE c == [from |-> from, to |-> from - 1]
  <2>1. SplitChunk(t, from, to) = <<c>>
    BY <1>1 DEF SplitChunk
  <2>2. c \in Places /\ Length(c) = 0
    BY DEF Places, Length
  <2>3. <<c>> \in Seq(Places) /\ ToSet(<<c>>) = {c}
    <3> HIDE DEF c
    <3>1. DOMAIN <<c>> = {1} /\ <<c>>[1] = c /\ <<c>> \in Seq(Places)
      BY <2>2
    <3> QED BY <3>1 DEF ToSet
  <2>4. Short(<<c>>)
    <3> HIDE DEF c
    <3> QED BY <2>2, <2>3, ClampedOptions DEF Short
  <2>5. \A i \in from .. to : ~t[i]
    BY <1>1, TrimmedHolds
  <2> HIDE DEF c
  <2> QED BY <2>1, <2>3, <2>4, <2>5
<1>2. CASE Trimmed(t, from, to) # << >>
  <2>1. SplitChunk(t, from, to) = Trimmed(t, from, to)
    BY <1>2 DEF SplitChunk
  <2>2. \A i \in from .. to : t[i] => Holds(Trimmed(t, from, to), i, i)
    BY Zenon, TrimmedHolds
  <2> QED BY <2>1, <2>2, TrimmedShort
<1> QED BY <1>1, <1>2

LEMMA HardSplitHolds ==
  ASSUME OptionsChosen, NEW t \in Seq(BOOLEAN), NEW p, PieceOf(t, p)
  PROVE  /\ HardSplit(t, p) \in Seq(Places) /\ Short(HardSplit(t, p))
         /\ \A i \in p.from .. p.to : t[i] => Holds(HardSplit(t, p), i, i)
<1> DEFINE Good(cs, s) ==
             /\ cs \in Seq(Places) /\ Short(cs)
             /\ \A i \in s .. p.to : t[i] => Holds(cs, i, i)
<1>1. PICK f : /\ HardSplit(t, p) = f[p.from]
               /\ \A start \in p.from .. p.to + 1 :
                     f[start] = IF start > p.to THEN << >>
                                ELSE SplitChunk(t, start, SplitEnd(p, start))
                                       \o f[SplitEnd(p, start) + 1]
  BY HardSplitDef
<1> DEFINE S == {k \in Nat : \A s \in p.from .. p.to + 1 : s + k > p.to => Good(f[s], s)}
<1>2. p.from \in Nat \ {0} /\ p.to \in Nat /\ p.from <= p.to
  BY DEF PieceOf, Places
<1>3. 0 \in S
  <2>1. SUFFICES ASSUME NEW s \in p.from .. p.to + 1, s > p.to PROVE Good(f[s], s)
    BY <1>2
  <2>2. f[s] = << >>
    BY <1>1, <2>1
  <2>3. << >> \in Seq(Places) /\ ToSet(<< >>) = {}
    BY DEF ToSet
  <2>4. \A i \in s .. p.to : FALSE
    BY <2>1, <1>2
  <2> QED BY <2>2, <2>3, <2>4 DEF Short
<1>4. ASSUME NEW k \in Nat, k \in S PROVE k + 1 \in S
  <2>1. SUFFICES ASSUME NEW s \in p.from .. p.to + 1, s + (k + 1) > p.to PROVE Good(f[s], s)
    OBVIOUS
  <2>2. CASE s + k > p.to
    BY <1>4, <2>2
  <2>3. CASE ~(s + k > p.to)
    <3> DEFINE end == SplitEnd(p, s)
               here == SplitChunk(t, s, end)
    <3>1. s \in p.from .. p.to /\ end \in s .. p.to /\ (end - s) + 1 <= ChunkSize
      <4>1. s \in Nat /\ s <= p.to
        BY <1>2, <2>3
      <4> QED BY <1>2, <4>1, ClampedOptions DEF SplitEnd, Least
    <3>2. f[s] = here \o f[end + 1]
      <4>1. ~(s > p.to)
        BY <1>2, <3>1
      <4> QED BY Zenon, <1>1, <2>1, <4>1
    <3> HIDE DEF end
    <3>3. /\ here \in Seq(Places) /\ Short(here)
          /\ \A i \in s .. end : t[i] => Holds(here, i, i)
      <4>1. end \in Nat /\ s \in Nat \ {0} /\ s <= end
        BY <1>2, <3>1
      <4> QED BY Zenon, <3>1, <4>1, SplitChunkHolds
    <3> HIDE DEF here
    <3>4. end + 1 \in p.from .. p.to + 1 /\ (end + 1) + k > p.to
      BY <1>2, <2>1, <3>1
    <3>5. Good(f[end + 1], end + 1)
      BY <1>4, <3>4
    <3>6. f[s] \in Seq(Places) /\ ToSet(f[s]) = ToSet(here) \cup ToSet(f[end + 1])
      BY <3>2, <3>3, <3>5, SetOfJoined
    <3>7. Short(f[s])
      BY <3>3, <3>5, <3>6 DEF Short
    <3>8. ASSUME NEW i \in s .. p.to, t[i] PROVE Holds(f[s], i, i)
      <4>1. CASE i <= end
        <5>1. i \in s .. end
          BY <1>2, <3>1, <4>1
        <5> QED BY <3>3, <3>6, <3>8, <5>1 DEF Holds
      <4>2. CASE i > end
        <5>1. i \in end + 1 .. p.to
          BY <1>2, <3>1, <4>2
        <5> QED BY <3>5, <3>6, <3>8, <5>1 DEF Holds
      <4> QED BY <1>2, <3>1, <4>1, <4>2
    <3> QED BY <3>6, <3>7, <3>8
  <2> QED BY <2>2, <2>3
<1>5. p.to \in S
  <2> HIDE DEF S
  <2> QED BY <1>2, <1>3, <1>4, NatInSet
<1>6. Good(f[p.from], p.from)
  BY <1>2, <1>5
<1> QED BY <1>1, <1>6

--------------------------------------------------------------------------------
(* Merged pieces *)

\* Pieces of the text, one after the other, with all of its characters.
PiecesOf(t, pieces) ==
  /\ pieces \in Seq(Places) /\ \A k \in DOMAIN pieces : PieceOf(t, pieces[k])
  /\ \A k, l \in DOMAIN pieces :
       k < l => pieces[k].from < pieces[l].from /\ pieces[k].to < pieces[l].to
  /\ \A i \in 1 .. Len(t) : t[i] => \E k \in DOMAIN pieces : i \in pieces[k].from .. pieces[k].to

MergeState == [chunks : Seq(Places), buf : Places, empty : BOOLEAN]

\* Where a character is after some pieces.
Kept(state, i) ==
  \/ Holds(state.chunks, i, i)
  \/ ~state.empty /\ state.buf.from <= i /\ i <= state.buf.to

\* The pieces up to k have been merged.
MergedTo(t, pieces, k, state) ==
  /\ state \in MergeState /\ Short(state.chunks)
  /\ ~state.empty => /\ Length(state.buf) <= ChunkSize /\ k > 0
                     /\ state.buf.from <= pieces[k].from /\ state.buf.to = pieces[k].to
  /\ \A l \in 1 .. k : \A i \in pieces[l].from .. pieces[l].to : t[i] => Kept(state, i)

LEMMA ShortJoined ==
  ASSUME NEW cs \in Seq(Places), NEW ds \in Seq(Places), Short(cs), Short(ds)
  PROVE  Short(cs \o ds)
BY SetOfJoined DEF Short

LEMMA OneChunk ==
  ASSUME NEW c \in Places
  PROVE  <<c>> \in Seq(Places) /\ ToSet(<<c>>) = {c}
<1>1. DOMAIN <<c>> = {1} /\ <<c>>[1] = c /\ <<c>> \in Seq(Places)
  OBVIOUS
<1> QED BY <1>1 DEF ToSet

\* flush() moves what is kept.
LEMMA FlushKeeps ==
  ASSUME NEW state \in MergeState, Short(state.chunks),
         ~state.empty => Length(state.buf) <= ChunkSize
  PROVE  LET flushed == state.chunks \o (IF state.empty THEN << >> ELSE <<state.buf>>)
         IN  /\ flushed \in Seq(Places) /\ Short(flushed)
             /\ \A i \in Nat : Kept(state, i) => Holds(flushed, i, i)
<1> DEFINE rest == IF state.empty THEN << >> ELSE <<state.buf>>
<1>1. state.chunks \in Seq(Places) /\ state.buf \in Places /\ state.empty \in BOOLEAN
  BY DEF MergeState
<1>2. rest \in Seq(Places) /\ ToSet(rest) = IF state.empty THEN {} ELSE {state.buf}
  <2>1. << >> \in Seq(Places) /\ ToSet(<< >>) = {}
    BY DEF ToSet
  <2> QED BY <1>1, <2>1, OneChunk
<1>3. Short(rest)
  BY <1>2 DEF Short
<1> HIDE DEF rest
<1>4. /\ state.chunks \o rest \in Seq(Places) /\ Short(state.chunks \o rest)
      /\ ToSet(state.chunks \o rest) = ToSet(state.chunks) \cup ToSet(rest)
  BY <1>1, <1>2, <1>3, SetOfJoined, ShortJoined
<1>5. ASSUME NEW i \in Nat, Kept(state, i) PROVE Holds(state.chunks \o rest, i, i)
  <2>1. CASE Holds(state.chunks, i, i)
    BY <1>4, <2>1 DEF Holds
  <2>2. CASE ~state.empty /\ state.buf.from <= i /\ i <= state.buf.to
    BY <1>2, <1>4, <2>2 DEF Holds
  <2> QED BY <1>5, <2>1, <2>2 DEF Kept
<1> QED BY <1>4, <1>5 DEF rest

LEMMA MergeKeeps ==
  ASSUME OptionsChosen, NEW t \in Seq(BOOLEAN), NEW pieces, PiecesOf(t, pieces),
         NEW k \in Nat, k + 1 \in DOMAIN pieces, NEW state, MergedTo(t, pieces, k, state)
  PROVE  MergedTo(t, pieces, k + 1, Merge(t, state, pieces[k + 1]))
<1> DEFINE p == pieces[k + 1]
           whole == [from |-> state.buf.from, to |-> p.to]
           flushed == state.chunks \o (IF state.empty THEN << >> ELSE <<state.buf>>)
           next == Merge(t, state, p)
<1>1. /\ state.chunks \in Seq(Places) /\ state.buf \in Places /\ state.empty \in BOOLEAN
      /\ state = [chunks |-> state.chunks, buf |-> state.buf, empty |-> state.empty]
  BY DEF MergedTo, MergeState
<1>2. PieceOf(t, p) /\ p.from \in Nat \ {0} /\ p.to \in Nat /\ p.from <= p.to /\ p \in Places
  BY DEF PiecesOf, PieceOf, Places
<1>3. /\ flushed \in Seq(Places) /\ Short(flushed)
      /\ \A i \in Nat : Kept(state, i) => Holds(flushed, i, i)
  BY FlushKeeps DEF MergedTo
<1>4. \A l \in 1 .. k : /\ pieces[l].from \in Nat /\ pieces[l].to \in Nat
                        /\ pieces[l].from < p.from /\ pieces[l].to < p.to
  <2>1. \A l \in 1 .. k : l \in DOMAIN pieces /\ l < k + 1
    BY DEF PiecesOf
  <2> QED BY <2>1 DEF PiecesOf, PieceOf, Places
<1>5. \A l \in 1 .. k : \A i \in pieces[l].from .. pieces[l].to : t[i] => i \in Nat /\ Kept(state, i)
  BY <1>4 DEF MergedTo
<1>6. ASSUME NEW s \in MergeState, Short(s.chunks),
             ~s.empty => /\ Length(s.buf) <= ChunkSize
                         /\ s.buf.from <= p.from /\ s.buf.to = p.to,
             \A i \in Nat : Kept(state, i) => Kept(s, i),
             \A i \in p.from .. p.to : t[i] => Kept(s, i)
      PROVE  MergedTo(t, pieces, k + 1, s)
  <2>1. ASSUME NEW l \in 1 .. k + 1, NEW i \in pieces[l].from .. pieces[l].to, t[i]
        PROVE  Kept(s, i)
    <3>1. CASE l = k + 1
      BY <1>6, <2>1, <3>1
    <3>2. CASE l # k + 1
      <4>1. l \in 1 .. k
        BY <3>2
      <4> QED BY <1>5, <1>6, <2>1, <4>1
    <3> QED BY <3>1, <3>2
  <2> QED BY <1>6, <2>1 DEF MergedTo
<1>7. CASE ~state.empty /\ Length(whole) <= ChunkSize
  <2>1. next = [chunks |-> state.chunks, buf |-> whole, empty |-> FALSE]
    BY <1>1, <1>7 DEF Merge
  <2>2. k > 0 /\ state.buf.from <= pieces[k].from /\ state.buf.to = pieces[k].to
    BY <1>7 DEF MergedTo
  <2>3. k \in 1 .. k
    BY <2>2
  <2>4. /\ state.buf.from \in Nat /\ state.buf.to \in Nat
        /\ state.buf.from <= p.from /\ state.buf.to < p.to
    BY <1>1, <1>2, <1>4, <2>2, <2>3 DEF Places
  <2>5. whole \in Places /\ next \in MergeState
    BY <1>1, <1>2, <2>1, <2>4 DEF Places, MergeState
  <2>6. next.chunks = state.chunks /\ next.buf = whole /\ ~next.empty
    BY <2>1
  <2>7. whole.from = state.buf.from /\ whole.to = p.to
    OBVIOUS
  <2> HIDE DEF whole, next
  <2>8. \A i \in Nat : Kept(state, i) => Kept(next, i)
    BY <1>2, <2>4, <2>6, <2>7 DEF Kept
  <2>9. \A i \in p.from .. p.to : Kept(next, i)
    BY <1>2, <2>4, <2>6, <2>7 DEF Kept
  <2>10. Short(next.chunks)
    BY <2>6 DEF MergedTo
  <2> QED BY <1>6, <1>7, <2>4, <2>5, <2>6, <2>7, <2>8, <2>9, <2>10 DEF next
<1>8. CASE ~(~state.empty /\ Length(whole) <= ChunkSize) /\ Length(p) <= ChunkSize
  <2>1. next = [chunks |-> flushed, buf |-> p, empty |-> FALSE]
    BY <1>8 DEF Merge
  <2> HIDE DEF flushed
  <2>2. next \in MergeState /\ next.chunks = flushed /\ next.buf = p /\ ~next.empty
    BY <1>2, <1>3, <2>1 DEF MergeState
  <2> HIDE DEF next, p
  <2>3. \A i \in Nat : Kept(state, i) => Kept(next, i)
    BY <1>3, <2>2 DEF Kept
  <2>4. \A i \in p.from .. p.to : Kept(next, i)
    BY <1>2, <2>2 DEF Kept
  <2> QED BY <1>2, <1>3, <1>6, <1>8, <2>2, <2>3, <2>4 DEF next, p
<1>9. CASE ~(~state.empty /\ Length(whole) <= ChunkSize) /\ ~(Length(p) <= ChunkSize)
  <2> DEFINE split == HardSplit(t, p)
  <2>1. next = [chunks |-> flushed \o split, buf |-> p, empty |-> TRUE]
    BY <1>9 DEF Merge
  <2>2. /\ split \in Seq(Places) /\ Short(split)
        /\ \A i \in p.from .. p.to : t[i] => Holds(split, i, i)
    BY <1>2, HardSplitHolds
  <2> HIDE DEF flushed, split
  <2>3. /\ flushed \o split \in Seq(Places) /\ Short(flushed \o split)
        /\ ToSet(flushed \o split) = ToSet(flushed) \cup ToSet(split)
    BY <1>3, <2>2, SetOfJoined, ShortJoined
  <2>4. next \in MergeState /\ next.chunks = flushed \o split /\ next.empty
    BY <1>2, <2>1, <2>3 DEF MergeState
  <2> HIDE DEF next, p
  <2>5. \A i \in Nat : Kept(state, i) => Kept(next, i)
    BY <1>3, <2>3, <2>4 DEF Kept, Holds
  <2>6. \A i \in p.from .. p.to : t[i] => Kept(next, i)
    BY <2>2, <2>3, <2>4 DEF Kept, Holds
  <2> QED BY <1>6, <2>3, <2>4, <2>5, <2>6 DEF next, p
<1> QED BY <1>7, <1>8, <1>9

MergeStep(t, pieces, f, k) ==
  IF k = 0 THEN NothingMerged ELSE Merge(t, f[k - 1], pieces[k])

IsMerge(t, pieces, f) ==
  f = [k \in 0 .. Len(pieces) |-> MergeStep(t, pieces, f, k)]

LEMMA MergeExists ==
  ASSUME NEW t, NEW pieces, Len(pieces) \in Nat
  PROVE  \E f : IsMerge(t, pieces, f)
<1> DEFINE D == 0 .. Len(pieces)
           Right(f, k) == f[k] = MergeStep(t, pieces, f, k)
           S == {n \in Nat : \E f : /\ f = [k \in D |-> f[k]]
                                    /\ \A k \in D : k <= n => Right(f, k)}
<1>1. 0 \in S
  <2> DEFINE f == [k \in D |-> NothingMerged]
  <2>1. f = [k \in D |-> f[k]]
    OBVIOUS
  <2>2. \A k \in D : k <= 0 => k = 0 /\ f[k] = NothingMerged
    OBVIOUS
  <2> HIDE DEF f
  <2>3. \A k \in D : k <= 0 => Right(f, k)
    BY <2>2 DEF MergeStep
  <2> HIDE DEF Right
  <2> QED BY <2>1, <2>3
<1>2. ASSUME NEW n \in Nat, n \in S PROVE n + 1 \in S
  <2>1. PICK f : /\ f = [k \in D |-> f[k]]
                 /\ \A k \in D : k <= n => Right(f, k)
    BY <1>2
  <2> DEFINE g == [k \in D |-> IF k = n + 1 THEN MergeStep(t, pieces, f, k) ELSE f[k]]
  <2>2. g = [k \in D |-> g[k]]
    OBVIOUS
  <2>3. ASSUME NEW k \in D, k <= n + 1 PROVE Right(g, k)
    <3>1. g[k] = MergeStep(t, pieces, f, k)
      BY <2>1, <2>3
    <3>2. k # 0 => g[k - 1] = f[k - 1]
      BY <2>3
    <3> HIDE DEF g
    <3> QED BY <3>1, <3>2 DEF MergeStep
  <2> HIDE DEF g
  <2>4. \A k \in D : k <= n + 1 => Right(g, k)
    BY <2>3
  <2> HIDE DEF Right, D
  <2> QED BY <2>2, <2>4
<1> HIDE DEF S
<1>3. Len(pieces) \in S
  BY <1>1, <1>2, NatInSet
<1>4. PICK f : /\ f = [k \in D |-> f[k]]
               /\ \A k \in D : k <= Len(pieces) => Right(f, k)
  BY <1>3 DEF S
<1>5. \A k \in D : Right(f, k)
  BY <1>4
<1>6. [k \in D |-> f[k]] = [k \in D |-> MergeStep(t, pieces, f, k)]
  BY <1>5
<1> QED BY <1>4, <1>6 DEF IsMerge

LEMMA MergedDef ==
  ASSUME NEW t, NEW pieces, Len(pieces) \in Nat
  PROVE  \E f : /\ MergedChunks(t, pieces) =
                     LET last == f[Len(pieces)]
                     IN  last.chunks \o (IF last.empty THEN << >> ELSE <<last.buf>>)
                /\ \A k \in 0 .. Len(pieces) : f[k] = MergeStep(t, pieces, f, k)
<1> DEFINE g == CHOOSE f : f = [k \in 0 .. Len(pieces) |->
                                  IF k = 0 THEN NothingMerged ELSE Merge(t, f[k - 1], pieces[k])]
<1>1. g = CHOOSE f : IsMerge(t, pieces, f)
  BY Zenon DEF IsMerge, MergeStep
<1>2. MergedChunks(t, pieces) =
        LET last == g[Len(pieces)]
        IN  last.chunks \o (IF last.empty THEN << >> ELSE <<last.buf>>)
  BY Zenon DEF MergedChunks
<1> HIDE DEF g
<1>3. IsMerge(t, pieces, g)
  BY Zenon, <1>1, MergeExists
<1>4. \A k \in 0 .. Len(pieces) : g[k] = MergeStep(t, pieces, g, k)
  BY <1>3 DEF IsMerge
<1> QED BY <1>2, <1>4

LEMMA MergedHolds ==
  ASSUME OptionsChosen, NEW t \in Seq(BOOLEAN), NEW pieces, PiecesOf(t, pieces)
  PROVE  LET cs == MergedChunks(t, pieces)
         IN  /\ cs \in Seq(Places) /\ Short(cs)
             /\ \A i \in 1 .. Len(t) : t[i] => Holds(cs, i, i)
<1> DEFINE N == Len(pieces)
<1>1. N \in Nat /\ DOMAIN pieces = 1 .. N
  BY DEF PiecesOf
<1>2. PICK f : /\ MergedChunks(t, pieces) =
                    LET last == f[N]
                    IN  last.chunks \o (IF last.empty THEN << >> ELSE <<last.buf>>)
               /\ \A k \in 0 .. N : f[k] = MergeStep(t, pieces, f, k)
  BY <1>1, MergedDef
<1> DEFINE S == {k \in Nat : k <= N => MergedTo(t, pieces, k, f[k])}
<1>3. 0 \in S
  <2>1. f[0] = NothingMerged
    BY <1>1, <1>2 DEF MergeStep
  <2>2. /\ NothingMerged \in MergeState /\ NothingMerged.empty
        /\ NothingMerged.chunks = << >>
    BY DEF NothingMerged, MergeState, Places
  <2>3. Short(<< >>)
    BY DEF Short, ToSet
  <2>4. MergedTo(t, pieces, 0, NothingMerged)
    BY <2>2, <2>3 DEF MergedTo
  <2> QED BY <2>1, <2>4
<1>4. ASSUME NEW k \in Nat, k \in S PROVE k + 1 \in S
  <2>1. SUFFICES ASSUME k + 1 <= N PROVE MergedTo(t, pieces, k + 1, f[k + 1])
    OBVIOUS
  <2>2. MergedTo(t, pieces, k, f[k]) /\ k + 1 \in DOMAIN pieces
    BY <1>1, <1>4, <2>1
  <2>3. f[k + 1] = Merge(t, f[k], pieces[k + 1])
    <3>1. k + 1 \in 0 .. N /\ k + 1 # 0 /\ (k + 1) - 1 = k
      BY <1>1, <2>1
    <3> QED BY <1>2, <3>1 DEF MergeStep
  <2> QED BY <2>2, <2>3, MergeKeeps
<1>5. N \in S
  <2> HIDE DEF S
  <2> QED BY <1>1, <1>3, <1>4, NatInSet
<1>6. MergedTo(t, pieces, N, f[N])
  BY <1>1, <1>5
<1> HIDE DEF S, N
<1>7. /\ MergedChunks(t, pieces) \in Seq(Places) /\ Short(MergedChunks(t, pieces))
      /\ \A i \in Nat : Kept(f[N], i) => Holds(MergedChunks(t, pieces), i, i)
  BY <1>2, <1>6, FlushKeeps DEF MergedTo
<1>8. ASSUME NEW i \in 1 .. Len(t), t[i] PROVE Kept(f[N], i)
  <2>1. PICK k \in 1 .. N : i \in pieces[k].from .. pieces[k].to
    BY <1>1, <1>8 DEF PiecesOf
  <2> QED BY <1>6, <1>8, <2>1 DEF MergedTo
<1>9. \A i \in 1 .. Len(t) : i \in Nat
  OBVIOUS
<1> QED BY <1>7, <1>8, <1>9

--------------------------------------------------------------------------------
(* Documents *)

\* What is between the ends around a character is a piece.
LEMMA CharacterInPiece ==
  ASSUME NEW t \in Seq(BOOLEAN), NEW ends \in SUBSET (1 .. Len(t)),
         NEW i \in 1 .. Len(t), i \notin ends
  PROVE  \E p \in Pieces(t, ends) : i \in p.from .. p.to
<1> DEFINE L == Len(t)
           before == {e \in ends : e < i} \cup {0}
           after == {e \in ends : e > i} \cup {L + 1}
           a == Max(before) + 1
           b == Min(after) - 1
           p == [from |-> a, to |-> b]
<1>1. L \in Nat /\ i \in 1 .. L /\ ends \in SUBSET (1 .. L)
  OBVIOUS
<1> HIDE DEF L
<1>13. L \in Nat /\ i \in Nat /\ 1 <= i /\ i <= L /\ \A e \in ends : e \in Nat /\ 1 <= e /\ e <= L
  BY <1>1
<1>2. IsFiniteSet(before) /\ before \in SUBSET Nat /\ before # {}
  <2>1. ASSUME NEW e \in before PROVE e \in 0 .. L
    BY <1>13, <2>1
  <2>2. 0 \in before /\ 0 \in Int /\ L \in Int
    BY <1>13
  <2> HIDE DEF before
  <2>3. IsFiniteSet(0 .. L)
    BY <2>2, FS_Interval
  <2>4. before \in SUBSET (0 .. L)
    BY <2>1
  <2>5. IsFiniteSet(before)
    BY <2>3, <2>4, FS_Subset
  <2> QED BY <1>13, <2>2, <2>4, <2>5
<1>3. after \in SUBSET Nat /\ after # {}
  <2>1. ASSUME NEW e \in after PROVE e \in Nat
    BY <1>13, <2>1
  <2>2. L + 1 \in after
    OBVIOUS
  <2> HIDE DEF after
  <2> QED BY <2>1, <2>2
<1>4. Max(before) \in before /\ \A e \in before : Max(before) >= e
  <2> HIDE DEF before
  <2> QED BY <1>2, FiniteHasMax
<1>5. Min(after) \in after /\ \A e \in after : Min(after) <= e
  <2> HIDE DEF after
  <2> QED BY <1>3, LeastIsIn
<1>6. a \in 1 .. i /\ b \in i .. L
  <2>1. Max(before) \in Nat /\ Max(before) < i
    BY <1>2, <1>4, <1>13
  <2>2. Min(after) \in Nat /\ i < Min(after) /\ Min(after) <= L + 1
    BY <1>3, <1>5, <1>13
  <2> HIDE DEF before, after
  <2> QED BY <1>13, <2>1, <2>2
<1>7. a = 1 \/ a - 1 \in ends
  <2>1. Max(before) \in Nat /\ (Max(before) \in ends \/ Max(before) = 0)
    BY <1>2, <1>4
  <2> HIDE DEF before
  <2> QED BY <2>1
<1>8. b = L \/ b + 1 \in ends
  <2>1. Min(after) \in Nat /\ (Min(after) \in ends \/ Min(after) = L + 1)
    BY <1>3, <1>5
  <2> HIDE DEF after
  <2> QED BY <1>1, <2>1
<1>9. \A e \in a .. b : e \notin ends
  <2>1. SUFFICES ASSUME NEW e \in a .. b, e \in ends PROVE FALSE
    OBVIOUS
  <2>2. e \in Nat /\ e # i
    BY <1>13, <2>1
  <2>3. CASE e < i
    <3>1. Max(before) >= e /\ Max(before) \in Nat
      BY <1>2, <1>4, <2>1, <2>3
    <3> HIDE DEF before
    <3> QED BY <2>1, <2>2, <3>1
  <2>4. CASE e > i
    <3>1. Min(after) <= e /\ Min(after) \in Nat
      BY <1>3, <1>5, <2>1, <2>4
    <3> HIDE DEF after
    <3> QED BY <2>1, <2>2, <3>1
  <2> QED BY <1>13, <2>2, <2>3, <2>4
<1> HIDE DEF a, b
<1>10. p.from = a /\ p.to = b /\ p \in [from : 1 .. Len(t), to : 1 .. Len(t)] /\ a <= b
  BY <1>1, <1>6 DEF L
<1> HIDE DEF p
<1>11. p \in Pieces(t, ends)
  BY <1>7, <1>8, <1>9, <1>10 DEF Pieces, L
<1>12. i \in p.from .. p.to
  BY <1>1, <1>6, <1>10
<1> QED BY <1>11, <1>12

LEMMA PiecesInOrder ==
  ASSUME NEW t \in Seq(BOOLEAN), NEW ends \in SUBSET {i \in 1 .. Len(t) : ~t[i]},
         NEW pieces \in Orders(Pieces(t, ends))
  PROVE  PiecesOf(t, pieces)
<1> DEFINE ps == Pieces(t, ends)
           N == Cardinality(ps)
<1>1. IsFiniteSet(ps)
  <2> DEFINE I == 1 .. Len(t)
             f == [q \in I \X I |-> [from |-> q[1], to |-> q[2]]]
  <2>1. IsFiniteSet(I \X I)
    <3>1. Len(t) \in Int /\ 1 \in Int
      OBVIOUS
    <3>2. IsFiniteSet(I)
      BY <3>1, FS_Interval
    <3> HIDE DEF I
    <3> QED BY <3>2, FS_Product
  <2> DEFINE T == {f[q] : q \in I \X I}
  <2>4. f \in Surjection(I \X I, T)
    BY DEF Surjection
  <2>2. IsFiniteSet(T)
    BY <2>1, <2>4, FS_Surjection
  <2>3. ps \subseteq T
    <3>1. SUFFICES ASSUME NEW p \in ps PROVE \E q \in I \X I : f[q] = p
      OBVIOUS
    <3>2. p.from \in I /\ p.to \in I /\ p = [from |-> p.from, to |-> p.to]
      BY DEF Pieces
    <3>3. <<p.from, p.to>> \in I \X I /\ f[<<p.from, p.to>>] = p
      BY <3>2
    <3> QED BY <3>3
  <2> QED BY <2>2, <2>3, FS_Subset
<1>2. N \in Nat
  BY <1>1, FS_CardinalityType
<1>3. /\ pieces \in [1 .. N -> ps] /\ \A p \in ps : \E k \in 1 .. N : pieces[k] = p
      /\ \A k, l \in 1 .. N : k < l => pieces[k].from < pieces[l].from
  BY DEF Orders, Bijection, Injection, Surjection
<1>4. DOMAIN pieces = 1 .. N
  BY <1>3
<1>5. \A p \in ps : PieceOf(t, p)
  BY DEF Pieces, PieceOf, Places
<1>6. pieces \in Seq(Places)
  BY <1>2, <1>3, <1>5 DEF PieceOf
<1>7. ASSUME NEW p \in ps, NEW q \in ps, p.from < q.from PROVE p.to < q.to
  <2>1. PieceOf(t, p) /\ PieceOf(t, q)
    BY <1>5
  <2>2. q.from - 1 \in ends
    BY <1>7, <2>1 DEF Pieces, PieceOf, Places
  <2>3. q.from - 1 \notin p.from .. p.to
    BY <2>2 DEF Pieces
  <2> QED BY <1>7, <2>1, <2>3 DEF PieceOf, Places
<1>8. ASSUME NEW i \in 1 .. Len(t), t[i] PROVE \E k \in 1 .. N : i \in pieces[k].from .. pieces[k].to
  <2>1. i \notin ends /\ ends \in SUBSET (1 .. Len(t))
    BY <1>8
  <2>2. PICK p \in ps : i \in p.from .. p.to
    BY <2>1, CharacterInPiece
  <2> QED BY <1>3, <2>2
<1> HIDE DEF ps, N
<1> QED BY <1>3, <1>4, <1>5, <1>6, <1>7, <1>8 DEF PiecesOf

DocumentShape ==
  /\ OptionsChosen /\ document.text \in Seq(BOOLEAN) /\ Len(document.text) > 0
  /\ options.strategy # "fixed" => PiecesOf(document.text, document.pieces)

LEMMA DocumentStart == ChunkingInit => DocumentShape
<1>1. SUFFICES ASSUME ChunkingInit PROVE DocumentShape
  OBVIOUS
<1>2. OptionsChosen
  <2>1. PICK size \in Sizes, overlap \in Overlaps, strategy \in {"fixed", "sentence", "paragraph"} :
          options = [strategy |-> strategy, chunkSize |-> size, overlap |-> overlap]
    BY Zenon, <1>1 DEF ChunkingInit
  <2> QED BY <2>1, ChunkingAssumption DEF OptionsChosen, ChunkingAssumption
<1>3. PICK n \in 1 .. MaxLength : \E t \in [1 .. n -> BOOLEAN] :
        IF options.strategy = "fixed" THEN document = [text |-> t, pieces |-> << >>]
        ELSE \E ends \in SUBSET {i \in 1 .. n : ~t[i]} :
               \E pieces \in Orders(Pieces(t, ends)) :
                 document = [text |-> t, pieces |-> pieces]
  BY Zenon, <1>1 DEF ChunkingInit
<1>7. PICK t \in [1 .. n -> BOOLEAN] :
        IF options.strategy = "fixed" THEN document = [text |-> t, pieces |-> << >>]
        ELSE \E ends \in SUBSET {i \in 1 .. n : ~t[i]} :
               \E pieces \in Orders(Pieces(t, ends)) :
                 document = [text |-> t, pieces |-> pieces]
  BY <1>3
<1>4. t \in Seq(BOOLEAN) /\ Len(t) = n /\ n > 0
  BY ChunkingAssumption DEF ChunkingAssumption
<1>5. CASE options.strategy = "fixed"
  BY <1>2, <1>7, <1>4, <1>5 DEF DocumentShape
<1>6. CASE options.strategy # "fixed"
  <2>1. PICK ends \in SUBSET {i \in 1 .. n : ~t[i]} :
          \E pieces \in Orders(Pieces(t, ends)) : document = [text |-> t, pieces |-> pieces]
    BY <1>7, <1>6
  <2>2. PICK pieces \in Orders(Pieces(t, ends)) : document = [text |-> t, pieces |-> pieces]
    BY <2>1
  <2>3. PiecesOf(t, pieces)
    BY <1>4, PiecesInOrder
  <2> QED BY <1>2, <1>4, <2>2, <2>3 DEF DocumentShape
<1> QED BY <1>5, <1>6

LEMMA DocumentStep == DocumentShape /\ [UNCHANGED chunkingVars]_chunkingVars => DocumentShape'
BY DEF DocumentShape, chunkingVars, OptionsChosen, PiecesOf, PieceOf

LEMMA ChunksHold ==
  ASSUME DocumentShape
  PROVE  PhrasesSurvive
<1> DEFINE t == document.text
           windowed == options.strategy = "fixed" \/ (Overlap > 0 /\ Len(Chunks) > 1)
           length == IF windowed THEN Overlap + 1 ELSE 1
           Phrase(i, j) == i <= j /\ (j - i) + 1 <= length /\ \A k \in i .. j : t[k]
<1>1. SUFFICES /\ Short(Chunks)
               /\ \A i, j \in 1 .. Len(t) : Phrase(i, j) => Holds(Chunks, i, j)
  BY DEF PhrasesSurvive, Short, Holds
<1>2. OptionsChosen /\ t \in Seq(BOOLEAN) /\ Len(t) > 0 /\ Len(t) \in Nat
  BY DEF DocumentShape
<1>3. \A i, j \in 1 .. Len(t) : Phrase(i, j) => t[i] /\ t[j]
  BY <1>2
<1>4. CASE Chunks = SlidingWindow(t)
  <2>1. length <= Overlap + 1
    BY <1>2, ClampedOptions
  <2>2. \A i, j \in 1 .. Len(t) : Phrase(i, j) => j - i <= Overlap
    BY <1>2, <2>1, ClampedOptions
  <2> QED BY <1>2, <1>3, <1>4, <2>2, WindowsHold
<1>5. CASE Chunks # SlidingWindow(t)
  <2>1. options.strategy # "fixed" /\ Chunks = MergedChunks(t, document.pieces)
        /\ ~(Overlap > 0 /\ Len(Chunks) > 1)
    BY <1>5 DEF Chunks, WindowChunks
  <2>2. ~windowed /\ length = 1
    BY <2>1
  <2>3. \A i, j \in 1 .. Len(t) : Phrase(i, j) => i = j
    BY <1>2, <2>2
  <2>4. PiecesOf(t, document.pieces)
    BY <2>1 DEF DocumentShape
  <2>5. Short(Chunks) /\ \A i \in 1 .. Len(t) : t[i] => Holds(Chunks, i, i)
    BY <1>2, <2>1, <2>4, MergedHolds
  <2> QED BY <1>3, <2>3, <2>5
<1> QED BY <1>4, <1>5

\* Chunking loses no character, makes no chunk longer than asked, and cuts no phrase
\* that the overlap covers, for every text, every way to split it, and all options.
THEOREM ChunksKeepPhrases == ChunkingSpec => []PhrasesSurvive
BY DocumentStart, DocumentStep, ChunksHold, PTL DEF ChunkingSpec

================================================================================
