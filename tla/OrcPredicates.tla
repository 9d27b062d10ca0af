---------------------------- MODULE OrcPredicates ----------------------------
(***************************************************************************)
(* Filters of a scan as predicates of the ORC reader (to_orc_predicate,    *)
(* catalog/data_file_format/orc_predicate.rs), which skips the rows of a   *)
(* file a predicate is not true of.                                        *)
(*                                                                         *)
(* An expression is built bottom up, on a stack.  A term is what the rest  *)
(* of the translation can tell of it: the rows it is true of, those it is  *)
(* false of (it is NULL of the others), the little of its form a NOT looks *)
(* at, and its predicate.  Boolean values are 0 and 1.                     *)
(***************************************************************************)
EXTENDS Integers, Sequences

CONSTANTS
  Columns,      \* of the table
  InFile,       \* those whose type in the file the reader can compare, and
  Flags,        \*   that are BOOLEAN there
  Fits,         \* the values of each column's type in the file
  Rows,         \* of the file, as the table's
  Literals,
  Unsupported,  \* other expressions, each by the rows it is true and false of
  MaxDepth,     \* bound of the stack
  Null, None

Ops == {"=", "#", "<", "<=", ">", ">="}

(* A Predicate of orc_rust, and the rows it is true of.                    *)
Predicate ==
  [kind : {"comparison"}, column : InFile, op : Ops, value : Literals, keeps : SUBSET Rows]
  \cup [kind : {"null", "notnull"}, column : InFile, keeps : SUBSET Rows]
  \cup [kind : {"and", "or"}, keeps : SUBSET Rows]

Term == [form : {"comparison", "null", "column", "other"},
         yes : SUBSET Rows, no : SUBSET Rows, predicate : Predicate \cup {None}]

ASSUME ColumnsAssumption == Flags \subseteq InFile /\ InFile \subseteq Columns
ASSUME FitsAssumption == \A c \in Flags : Fits[c] = {0, 1}
ASSUME LiteralsAssumption == Literals \subseteq Int /\ {0, 1} \subseteq Literals /\ Null \notin Int
ASSUME RowsAssumption ==
  \A r \in Rows, c \in InFile : r[c] \in Int \cup {Null} /\ (c \in Flags => r[c] \in {0, 1, Null})
ASSUME UnsupportedAssumption ==
  \A u \in Unsupported : u.yes \subseteq Rows /\ u.no \subseteq Rows
ASSUME NoneAssumption == None \notin Predicate

VARIABLE stack

TypeOK == stack \in Seq(Term)

Init == stack = <<>>

-----------------------------------------------------------------------------

Holds(op, a, b) ==
  \/ op = "=" /\ a = b
  \/ op = "#" /\ a # b
  \/ op = "<" /\ a < b
  \/ op = "<=" /\ a <= b
  \/ op = ">" /\ a > b
  \/ op = ">=" /\ a >= b

(* The operator for the sides swapped.                                     *)
Reverse(op) == CASE op = "<" -> ">" [] op = "<=" -> ">=" [] op = ">" -> "<" [] op = ">=" -> "<="
                 [] OTHER -> op

Negate(op) == CASE op = "=" -> "#" [] op = "#" -> "=" [] op = "<" -> ">=" [] op = "<=" -> ">"
                [] op = ">" -> "<=" [] op = ">=" -> "<"

Keeps(c, op, v) == {r \in Rows : r[c] # Null /\ Holds(op, r[c], v)}
Nulls(c) == {r \in Rows : r[c] = Null}

Comparison(c, op, v) ==
  [kind |-> "comparison", column |-> c, op |-> op, value |-> v, keeps |-> Keeps(c, op, v)]
IsNull(c) == [kind |-> "null", column |-> c, keeps |-> Nulls(c)]
IsNotNull(c) == [kind |-> "notnull", column |-> c, keeps |-> Rows \ Nulls(c)]

(* adapted_column: neither a column of the partitions, nor one the file    *)
(* does not have.                                                          *)
Adapted(c) == c \in InFile

(* predicate_value                                                         *)
Representable(c, v) == v # Null /\ v \in Fits[c]

ComparisonPredicate(c, op, v) ==
  IF Adapted(c) /\ (c \in Flags => op \in {"=", "#"}) /\ Representable(c, v)
  THEN Comparison(c, op, v) ELSE None

(* A NULL in the list cannot make IN true; a value out of the column's     *)
(* type gives up the whole list.                                           *)
InPredicate(c, values) ==
  IF Adapted(c) /\ values \ {Null} # {} /\ \A v \in values \ {Null} : Representable(c, v)
  THEN [kind |-> "or", keeps |-> UNION {Keeps(c, "=", v) : v \in values \ {Null}}] ELSE None

(* combine_and: an AND of what is left of its sides.                       *)
AndPredicate(p, q) ==
  IF p = None THEN q ELSE IF q = None THEN p
  ELSE [kind |-> "and", keeps |-> p.keeps \cap q.keeps]

(* An OR needs both.                                                       *)
OrPredicate(p, q) ==
  IF p = None \/ q = None THEN None ELSE [kind |-> "or", keeps |-> p.keeps \cup q.keeps]

Negated(p) ==
  IF p = None \/ p.kind \in {"and", "or"} THEN None
  ELSE CASE p.kind = "comparison" -> Comparison(p.column, Negate(p.op), p.value)
         [] p.kind = "null" -> IsNotNull(p.column)
         [] p.kind = "notnull" -> IsNull(p.column)

(* Mutant: whatever has a predicate that is a comparison can be negated.   *)
NegateAny(t) == Negated(t.predicate)
NotPredicate(t) == IF t.form = "other" THEN None ELSE Negated(t.predicate)

-----------------------------------------------------------------------------

Push(t) == Len(stack) < MaxDepth /\ stack' = Append(stack, t)

(* A column or the cast of one that loses nothing, and a literal.          *)
Compare(c, op, v, literalFirst) ==
  LET true(r) == IF literalFirst THEN Holds(op, v, r[c]) ELSE Holds(op, r[c], v)
      known == IF v = Null THEN {} ELSE Rows \ Nulls(c) IN
  Push([form |-> "comparison",
        yes |-> {r \in known : true(r)}, no |-> {r \in known : ~true(r)},
        predicate |-> ComparisonPredicate(c, IF literalFirst THEN Reverse(op) ELSE op, v)])

TestNull(c) ==
  Push([form |-> "null", yes |-> Nulls(c), no |-> Rows \ Nulls(c),
        predicate |-> IF Adapted(c) THEN IsNull(c) ELSE None])

TestNotNull(c) ==
  Push([form |-> "null", yes |-> Rows \ Nulls(c), no |-> Nulls(c),
        predicate |-> IF Adapted(c) THEN IsNotNull(c) ELSE None])

(* BOOLEAN columns stand for themselves.                                   *)
BareColumn(c) ==
  Push([form |-> "column", yes |-> Keeps(c, "=", 1), no |-> Keeps(c, "=", 0),
        predicate |-> IF Adapted(c) THEN Comparison(c, "=", 1) ELSE None])

In(c, values, negated) ==
  LET found == {r \in Rows \ Nulls(c) : r[c] \in values}
      notFound == IF Null \in values THEN {} ELSE Rows \ (Nulls(c) \cup found) IN
  Push([form |-> "other",
        yes |-> IF negated THEN notFound ELSE found, no |-> IF negated THEN found ELSE notFound,
        predicate |-> IF negated THEN None ELSE InPredicate(c, values)])

Other(u) == Push([form |-> "other", yes |-> u.yes, no |-> u.no, predicate |-> None])

Top == stack[Len(stack)]
Below == stack[Len(stack) - 1]

And ==
  /\ Len(stack) >= 2
  /\ stack' = Append(SubSeq(stack, 1, Len(stack) - 2),
       [form |-> "other", yes |-> Below.yes \cap Top.yes, no |-> Below.no \cup Top.no,
        predicate |-> AndPredicate(Below.predicate, Top.predicate)])

Or ==
  /\ Len(stack) >= 2
  /\ stack' = Append(SubSeq(stack, 1, Len(stack) - 2),
       [form |-> "other", yes |-> Below.yes \cup Top.yes, no |-> Below.no \cap Top.no,
        predicate |-> OrPredicate(Below.predicate, Top.predicate)])

Not ==
  /\ Len(stack) >= 1
  /\ stack' = [stack EXCEPT ![Len(stack)] =
       [form |-> "other", yes |-> Top.no, no |-> Top.yes, predicate |-> NotPredicate(Top)]]

Next ==
  \/ \E c \in Columns, op \in Ops, v \in Literals \cup {Null}, f \in BOOLEAN : Compare(c, op, v, f)
  \/ \E c \in Columns : TestNull(c) \/ TestNotNull(c)
  \/ \E c \in Flags : BareColumn(c)
  \/ \E c \in Columns, vs \in SUBSET (Literals \cup {Null}) \ {{}}, n \in BOOLEAN : In(c, vs, n)
  \/ \E u \in Unsupported : Other(u)
  \/ And \/ Or \/ Not

Spec == Init /\ [][Next]_stack

-----------------------------------------------------------------------------

(* "Returns a necessary condition for the original expression": a          *)
(* predicate never skips a row of which its expression is true, however    *)
(* much of the expression had no predicate.                                *)
NecessaryCondition ==
  \A i \in 1..Len(stack) : stack[i].predicate # None =>
    stack[i].yes \subseteq stack[i].predicate.keeps

=============================================================================
