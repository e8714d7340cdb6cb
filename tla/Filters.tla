-------------------------------- MODULE Filters --------------------------------
(***************************************************************************)
(* Metadata filters: matchesMetadata of src/filters/match.ts, and the SQL  *)
(* that sql-compile.ts and sql-compile-postgres.ts make of a filter, as    *)
(* SQLite and Postgres evaluate it.                                        *)
(*                                                                         *)
(* A value is its kind and a number: the value of a number, the place of a *)
(* string in the order of strings, the element of a list of one string.    *)
(* What contains what, and what LIKE matches, is told by the characters of *)
(* the strings; no string has a backslash, and none in a list a quote.     *)
(* SQL yields yes, no, null or error; a row is selected by yes.            *)
(***************************************************************************)
EXTENDS Naturals, FiniteSets, Sequences

CONSTANTS
  Field,        \* top-level fields of the metadata
  PlainField,   \* those whose name FIELD_RE accepts
  Value,        \* their values: kinds missing, null, num, str, bool and list
  Operation,    \* comparisons: name and operands
  Spelling,     \* the strings and the texts of lists, in their order, by their characters
  Numeral,      \* the text of each number
  Word,         \* the text of each boolean, on Postgres
  Lower         \* the lower case of each character, as the LIKE of SQLite takes it

Json == {v \in [kind : {"missing", "null", "num", "str", "bool", "list"}, n : Nat] :
           /\ v.kind \in {"missing", "null"} => v.n = 0
           /\ v.kind \in {"str", "list"} => v.n \in DOMAIN Spelling}

\* The types of types.ts: any value may be compared for equality, strings are contained
\* in others, numbers and strings have an order.
ASSUME FilterAssumption ==
  /\ PlainField \subseteq Field
  /\ Value \subseteq Json
  /\ {"[", "quote", "]"} \subseteq DOMAIN Lower
  /\ Spelling \in Seq(Seq(DOMAIN Lower))
  /\ \A m, n \in DOMAIN Spelling : Spelling[m] = Spelling[n] => m = n
  /\ \A o \in Operation :
       \/ o.name = "eq" /\ o.operand \in Json
       \/ o.name = "contains" /\ o.operand \in Json /\ o.operand.kind = "str"
       \/ /\ o.name \in {"gt", "gte", "lt", "lte"}
          /\ o.operand \in Json /\ o.operand.kind \in {"num", "str"}
       \/ /\ o.name = "between" /\ {o.low, o.high} \subseteq Json
          /\ o.low.kind \in {"num", "str"} /\ o.high.kind \in {"num", "str"}

VARIABLE filter   \* two comparisons, each perhaps negated, and how they are joined

filterVars == <<filter>>

Comparison == [negated : BOOLEAN, field : Field, op : Operation]
Metadata == [Field -> Value]

\* String.includes.
Includes(s, t) ==
  \E k \in 0 .. Len(s) : k + Len(t) <= Len(s) /\ \A j \in DOMAIN t : s[k + j] = t[j]

Nothing(v) == v.kind \in {"missing", "null"}

Truth(b) == IF b THEN "yes" ELSE "no"

\* The comparison of an ordered pair by one of the four operators.
Ordered(name, x, y) ==
  CASE name = "gt" -> x > y [] name = "gte" -> x >= y
    [] name = "lt" -> x < y [] name = "lte" -> x <= y

\* The parts of a comparison: between is two of them.
Parts(op) ==
  IF op.name = "between" THEN {<<"gte", op.low>>, <<"lte", op.high>>}
  ELSE {<<op.name, op.operand>>}

--------------------------------------------------------------------------------
(* match.ts *)

\* JavaScript compares numbers as numbers and strings as strings; a string of another
\* kind than the operand is NaN, which compares false.  A boolean is a number.
JsOrdered(name, v, w) ==
  /\ ~Nothing(v)
  /\ \/ v.kind = "str" /\ w.kind = "str" /\ Ordered(name, v.n, w.n)
     \/ v.kind = "list" /\ w.kind = "str" /\ Ordered(name, v.n, w.n)
     \/ v.kind \in {"num", "bool"} /\ w.kind = "num" /\ Ordered(name, v.n, w.n)

\* Two lists are never the same object.
JsCompare(v, op) ==
  CASE op.name = "eq" -> v = op.operand /\ v.kind # "list"
    [] op.name = "contains" ->
         v.kind \in {"str", "list"} /\ Includes(Spelling[v.n], Spelling[op.operand.n])
    [] OTHER -> \A p \in Parts(op) : JsOrdered(p[1], v, p[2])

JsMatches(c, md) == JsCompare(md[c.field], c.op) # c.negated

MatchesMetadata(f, md) ==
  Truth(IF f.join = "and" THEN JsMatches(f.left, md) /\ JsMatches(f.right, md)
        ELSE JsMatches(f.left, md) \/ JsMatches(f.right, md))

--------------------------------------------------------------------------------
(* SQL: its three truth values, and an error that ends the query *)

SqlNot(x) == CASE x = "yes" -> "no" [] x = "no" -> "yes" [] OTHER -> x

SqlAnd(xs) ==
  IF "error" \in xs THEN "error" ELSE IF "no" \in xs THEN "no"
  ELSE IF "null" \in xs THEN "null" ELSE "yes"

SqlOr(xs) ==
  IF "error" \in xs THEN "error" ELSE IF "yes" \in xs THEN "yes"
  ELSE IF "null" \in xs THEN "null" ELSE "no"

SqlJoin(f, sql(_, _), md) ==
  LET one(c) == IF c.negated THEN SqlNot(sql(md[c.field], c.op)) ELSE sql(md[c.field], c.op)
      both == {one(f.left), one(f.right)}
  IN  IF f.join = "and" THEN SqlAnd(both) ELSE SqlOr(both)

\* sql-compile.ts compiles every operand but undefined and an object, and plain fields
\* only.
Compiles(f) ==
  \A c \in {f.left, f.right} :
    /\ c.field \in PlainField
    /\ c.op.name = "eq" => c.op.operand.kind \notin {"list", "missing"}

\* A list is read as its JSON: ["b"].
ListText(t) == <<"[", "quote">> \o t \o <<"quote", "]">>

TextOfValue(v) ==
  CASE v.kind = "str" -> Spelling[v.n]
    [] v.kind = "list" -> ListText(Spelling[v.n])
    [] OTHER -> Numeral[v.n]

\* s LIKE '%' || p || '%', of characters that are the same to fold: the characters of p
\* but the wildcards % stand in s in their order, without a gap but where a % is, and _
\* stands for any.
Like(s, p, fold) ==
  LET solid == {j \in DOMAIN p : p[j] # "%"}
  IN  \E at \in [solid -> DOMAIN s] :
        /\ \A j \in solid : p[j] = "_" \/ fold[s[at[j]]] = fold[p[j]]
        /\ \A i, j \in solid : i < j =>
             /\ at[i] < at[j]
             /\ i .. j \subseteq solid => at[j] = at[i] + (j - i)

Exact == [a \in DOMAIN Lower |-> a]

\* json_extract: SQLite orders every number before every text; a boolean is a number.
SqliteText(v) == v.kind \in {"str", "list"}

PlaceOf(v) ==
  IF v.kind = "list" THEN CHOOSE n \in DOMAIN Spelling : Spelling[n] = TextOfValue(v) ELSE v.n

SqliteOrdered(name, v, w) ==
  IF Nothing(v) THEN "null"
  ELSE IF SqliteText(v) = SqliteText(w) THEN Truth(Ordered(name, PlaceOf(v), PlaceOf(w)))
  ELSE Truth(Ordered(name, IF SqliteText(v) THEN 1 ELSE 0, IF SqliteText(w) THEN 1 ELSE 0))

\* A boolean cannot be bound to a parameter.
SqliteEqual(v, w) ==
  IF w.kind = "null" THEN IF v.kind = "missing" THEN "null" ELSE Truth(v.kind = "null")
  ELSE IF w.kind = "bool" THEN "error"
  ELSE IF Nothing(v) THEN "null"
  ELSE Truth(SqliteText(v) = SqliteText(w) /\ PlaceOf(v) = PlaceOf(w))

\* CAST AS TEXT, and a LIKE that takes upper and lower case of a letter for the same.
SqliteContains(v, w) ==
  IF Nothing(v) THEN "null" ELSE Truth(Like(TextOfValue(v), Spelling[w.n], Lower))

\* Faulty variant: the upper bound of BETWEEN is left out.
SqliteCompare_Open(v, op) ==
  CASE op.name = "eq" -> SqliteEqual(v, op.operand)
    [] op.name = "contains" -> SqliteContains(v, op.operand)
    [] op.name = "between" -> SqliteOrdered("gte", v, op.low)
    [] OTHER -> SqliteOrdered(op.name, v, op.operand)

SqliteCompare(v, op) ==
  CASE op.name = "eq" -> SqliteEqual(v, op.operand)
    [] op.name = "contains" -> SqliteContains(v, op.operand)
    [] OTHER -> SqlAnd({SqliteOrdered(p[1], v, p[2]) : p \in Parts(op)})

\* A cast to numeric fails for what is no number, as an operand or in a row.
PostgresOrdered(name, v, w) ==
  IF w.kind # "num" THEN "error"
  ELSE IF Nothing(v) THEN "null"
  ELSE IF v.kind # "num" THEN "error" ELSE Truth(Ordered(name, v.n, w.n))

\* The text of ->> and #>>.
PostgresContains(v, w) ==
  LET text == IF v.kind = "bool" THEN Word[v.n] ELSE TextOfValue(v)
  IN  IF Nothing(v) THEN "null" ELSE Truth(Like(text, Spelling[w.n], Exact))

\* Equality is containment of JSON, which is never null.
PostgresCompare(v, op) ==
  CASE op.name = "eq" -> Truth(v = op.operand)
    [] op.name = "contains" -> PostgresContains(v, op.operand)
    [] OTHER -> SqlAnd({PostgresOrdered(p[1], v, p[2]) : p \in Parts(op)})

\* listMemories of the two providers.
SqliteSelects(f, md) ==
  IF Compiles(f) THEN SqlJoin(f, SqliteCompare, md) ELSE MatchesMetadata(f, md)
PostgresSelects(f, md) ==
  IF Compiles(f) THEN SqlJoin(f, PostgresCompare, md) ELSE MatchesMetadata(f, md)

--------------------------------------------------------------------------------

\* A call without a filter.
NoFilter == [join |-> "none"]

FilterInit ==
  \E l, r \in Comparison, join \in {"and", "or"} :
    l.field # r.field /\ filter = [left |-> l, right |-> r, join |-> join]

\* A comparison of a value with an operand of its own kind, under no negation if
\* there is no value.  On Postgres only numbers have an order, and SQLite takes no
\* booleans.
SameKind(v, w) == v.kind = w.kind \/ (v.kind = "list" /\ w.kind = "str")

Regular(v, c) ==
  /\ Nothing(v) => ~c.negated
  /\ IF c.op.name \in {"eq", "contains"}
     THEN /\ c.op.operand.kind # "bool"
          /\ Nothing(v) \/ SameKind(v, c.op.operand) \/ c.op.operand.kind = "null"
          /\ c.op.name = "eq" => v.kind # "list"
     ELSE \A p \in Parts(c.op) : Nothing(v) \/ v.kind = p[2].kind

OnPostgres(c) == c.op.name \in {"eq", "contains"} \/ \A p \in Parts(c.op) : p[2].kind = "num"

\* The operand of contains has no wildcards, and for a list none of the characters that
\* SQL reads around its string.
Literal(v, c) ==
  c.op.name = "contains" =>
    LET t == Spelling[c.op.operand.n]
    IN  \A j \in DOMAIN t :
          /\ t[j] \notin {"%", "_"}
          /\ v.kind = "list" => t[j] \notin {"[", "quote", "]"}

\* No letter of it occurs in the value in the other case.
OneCase(v, c) ==
  c.op.name = "contains" /\ ~Nothing(v) =>
    LET s == TextOfValue(v)
        t == Spelling[c.op.operand.n]
    IN  \A i \in DOMAIN s, j \in DOMAIN t : Lower[s[i]] = Lower[t[j]] => s[i] = t[j]

Both(P(_, _), md) ==
  P(md[filter.left.field], filter.left) /\ P(md[filter.right.field], filter.right)

\* The rows that recall() keeps by matchesMetadata are the rows that listMemories()
\* selects by SQL, on SQLite and on Postgres, as far as the values have the kinds
\* that the filter is about and, for contains, LIKE finds neither wildcards in the
\* operand nor, on SQLite, letters that differ in nothing but their case. Where it
\* does, the SQL of a filter without negation still selects all rows that recall() keeps.
FiltersAgree ==
  filter # NoFilter => \A md \in Metadata :
    LET kept == MatchesMetadata(filter, md) = "yes"
        onSqlite == SqliteSelects(filter, md) = "yes"
        onPostgres == PostgresSelects(filter, md) = "yes"
        plain == ~filter.left.negated /\ ~filter.right.negated
        ordered == OnPostgres(filter.left) /\ OnPostgres(filter.right)
    IN  Both(Regular, md) =>
          /\ Both(Literal, md) /\ Both(OneCase, md) => (onSqlite <=> kept)
          /\ Both(Literal, md) /\ ordered => (onPostgres <=> kept)
          /\ plain /\ kept => onSqlite /\ (ordered => onPostgres)

================================================================================
