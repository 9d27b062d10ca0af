------------------------------ MODULE HiveTypes ------------------------------
(***************************************************************************)
(* Hive's column types, array<struct<a:int,b:decimal(10,2)>>, read with a  *)
(* cursor (HiveTypeParser, catalog/table_format/hive/hive_type.rs).        *)
(*                                                                         *)
(* A text is a sequence of words (the longest runs of letters, digits, _,  *)
(* ., $ and blanks, so no two are adjacent) and of the marks < > ( ) : and *)
(* comma.  Beside the cursor stands the grammar: texts are derived by its  *)
(* productions, and then damaged.                                          *)
(***************************************************************************)
EXTENDS Integers, Sequences, FiniteSets

CONSTANTS
  Words, Lower,  \* [Words -> Words]: the word in lower case
  Arrow,         \* [words -> types]: the types that are one word
  FieldNames,    \* words that fields of structs are given
  Number,        \* [words -> Nat]: the words that are numbers
  MaxWidth,      \* of the integers a precision and a scale are read into
  MaxUnion,      \* fields a union can have
  MaxLength,     \* of a text
  Failed

VARIABLES
  text,  \* the type of a column, as the metastore has it
  type   \* what it stands for, Failed if it is no type

vars == <<text, type>>

Marks == {"<", ">", "(", ")", ":", ","}

DefaultDecimal == [precision |-> 10, scale |-> 0]
MaxPrecision == 38

Leaf(t) == [kind |-> "leaf", leaf |-> t]
Decimal(p, s) == [kind |-> "decimal", precision |-> p, scale |-> s]
List(t) == [kind |-> "list", item |-> t]
Map(k, v) == [kind |-> "map", key |-> k, value |-> v]
Struct(fs) == [kind |-> "struct", fields |-> fs]
Union(ts) == [kind |-> "union", members |-> ts]

-----------------------------------------------------------------------------

(* What is read, and the position after it.                                *)
Parsed(t, at) == [type |-> t, at |-> at]
Lost == Parsed(Failed, 0)

(* consume, parse_token, parse_number; marks before a position.            *)
Is(s, i, mark) == i \in DOMAIN s /\ s[i] = mark
IsWord(s, i) == i \in DOMAIN s /\ s[i] \in Words
IsNumber(s, i) == IsWord(s, i) /\ s[i] \in DOMAIN Number

(* varchar(10), char(10)                                                   *)
ParseCharacters(s, i) ==
  IF Is(s, i, "(") /\ IsNumber(s, i + 1) /\ Is(s, i + 2, ")")
  THEN Parsed(Leaf("utf8"), i + 3) ELSE Lost

(* parse_decimal.  Mutant: a scale above the precision.                    *)
AnyScale(p, s) == p \in 1..MaxPrecision
Allowed(p, s) == p \in 1..MaxPrecision /\ s <= p
DecimalOf(p, s, at) ==
  IF p < MaxWidth /\ s < MaxWidth \div 2 /\ Allowed(p, s) THEN Parsed(Decimal(p, s), at) ELSE Lost

ParseDecimal(s, i) ==
  CASE ~Is(s, i, "(") -> DecimalOf(DefaultDecimal.precision, DefaultDecimal.scale, i)
    [] IsNumber(s, i + 1) /\ Is(s, i, "(") /\ Is(s, i + 2, ")") ->
         DecimalOf(Number[s[i + 1]], DefaultDecimal.scale, i + 3)
    [] IsNumber(s, i + 1) /\ Is(s, i, "(") /\ Is(s, i + 2, ",") /\ IsNumber(s, i + 3) /\ Is(s, i + 4, ")") ->
         DecimalOf(Number[s[i + 1]], Number[s[i + 3]], i + 5)
    [] OTHER -> Lost

(* The members of a union, and the fields of a struct, up to the >.        *)
RECURSIVE ParseType(_, _), ParseMembers(_, _, _), ParseFields(_, _, _)
ParseMembers(s, i, before) ==
  LET member == ParseType(s, i)
      members == Append(before, member.type) IN
  CASE member = Lost -> Lost
    [] member # Lost /\ Is(s, member.at, ",") -> ParseMembers(s, member.at + 1, members)
    [] member # Lost /\ Is(s, member.at, ">") /\ Len(members) <= MaxUnion ->
         Parsed(Union(members), member.at + 1)
    [] OTHER -> Lost

ParseFields(s, i, before) ==
  LET field == IF IsWord(s, i) /\ Is(s, i + 1, ":") THEN ParseType(s, i + 2) ELSE Lost
      fields == Append(before, [name |-> s[i], type |-> field.type]) IN
  CASE field = Lost -> Lost
    [] field # Lost /\ Is(s, field.at, ",") -> ParseFields(s, field.at + 1, fields)
    [] field # Lost /\ Is(s, field.at, ">") -> Parsed(Struct(fields), field.at + 1)
    [] OTHER -> Lost

ParseList(s, i) ==
  LET item == ParseType(s, i) IN
  IF item # Lost /\ Is(s, item.at, ">") THEN Parsed(List(item.type), item.at + 1) ELSE Lost

ParseMap(s, i) ==
  LET key == ParseType(s, i)
      value == IF key # Lost /\ Is(s, key.at, ",") THEN ParseType(s, key.at + 1) ELSE Lost IN
  IF value # Lost /\ Is(s, value.at, ">") THEN Parsed(Map(key.type, value.type), value.at + 1) ELSE Lost

(* parse_type                                                              *)
ParseType(s, i) ==
  LET word == IF IsWord(s, i) THEN Lower[s[i]] ELSE Failed IN
  CASE word \in DOMAIN Arrow -> Parsed(Leaf(Arrow[word]), i + 1)
    [] word \in {"varchar", "char"} -> ParseCharacters(s, i + 1)
    [] word = "decimal" -> ParseDecimal(s, i + 1)
    [] word = "array" /\ Is(s, i + 1, "<") -> ParseList(s, i + 2)
    [] word = "map" /\ Is(s, i + 1, "<") -> ParseMap(s, i + 2)
    [] word = "struct" /\ Is(s, i + 1, "<") ->
         IF Is(s, i + 2, ">") THEN Parsed(Struct(<<>>), i + 3) ELSE ParseFields(s, i + 2, <<>>)
    [] word = "uniontype" /\ Is(s, i + 1, "<") -> ParseMembers(s, i + 2, <<>>)
    [] OTHER -> Lost

(* hive_type_to_arrow_type.  Mutant: what follows the type is left unread. *)
FirstType(s) == ParseType(s, 1).type
ArrowType(s) == LET read == ParseType(s, 1) IN IF read.at = Len(s) + 1 THEN read.type ELSE Failed

-----------------------------------------------------------------------------

Init == \E w \in DOMAIN Arrow : text = <<w>> /\ type = Leaf(Arrow[w])

(* The column is given another type.                                       *)
Retype(w) == text' = <<w>> /\ type' = Leaf(Arrow[w])

Derive(s, t) == type # Failed /\ Len(s) <= MaxLength /\ text' = s /\ type' = t

Characters(w, n) == Derive(<<w, "(", n, ")">>, Leaf("utf8"))

(* A DECIMAL of Hive has up to 38 digits, and no more of them after the    *)
(* point; a bare one has 10 and none.                                      *)
HiveDecimal(p, s) == IF 0 < p /\ p <= 38 /\ s <= p THEN Decimal(p, s) ELSE Failed
Decimals(p, s) ==
  \/ Derive(<<"decimal">>, HiveDecimal(10, 0))
  \/ Derive(<<"decimal", "(", p, ")">>, HiveDecimal(Number[p], 0))
  \/ Derive(<<"decimal", "(", p, ",", s, ")">>, HiveDecimal(Number[p], Number[s]))

InArray == Derive(<<"array", "<">> \o text \o <<">">>, List(type))

InMap(w) ==
  \/ Derive(<<"map", "<">> \o text \o <<",", w, ">">>, Map(type, Leaf(Arrow[w])))
  \/ Derive(<<"map", "<", w, ",">> \o text \o <<">">>, Map(Leaf(Arrow[w]), type))

Field(name, t) == [name |-> name, type |-> t]
InStruct(name, other, w) ==
  \/ Derive(<<"struct", "<", ">">>, Struct(<<>>))
  \/ Derive(<<"struct", "<", name, ":">> \o text \o <<">">>, Struct(<<Field(name, type)>>))
  \/ Derive(<<"struct", "<", name, ":">> \o text \o <<",", other, ":", w, ">">>,
            Struct(<<Field(name, type), Field(other, Leaf(Arrow[w]))>>))

InUnion(w) ==
  \/ Derive(<<"uniontype", "<">> \o text \o <<">">>, Union(<<type>>))
  \/ Derive(<<"uniontype", "<">> \o text \o <<",", w, ">">>, Union(<<type, Leaf(Arrow[w])>>))

(* Types are written in any case; the names of fields keep theirs.         *)
InOtherCase(i, w) ==
  /\ Lower[w] = text[i] /\ ~(i < Len(text) /\ text[i + 1] = ":")
  /\ text' = [text EXCEPT ![i] = w] /\ UNCHANGED type

(* Every production has as many brackets of either side, and a comma or a  *)
(* colon only between two words or after a bracket: no text stays one when *)
(* a token is lost or a mark is added.                                     *)
Damage(i, mark) ==
  /\ type # Failed
  /\ \E s \in {SubSeq(text, 1, i - 1) \o SubSeq(text, i + 1, Len(text)),
               SubSeq(text, 1, i) \o <<mark>> \o SubSeq(text, i + 1, Len(text))} :
       text' = s /\ \A j \in 1..(Len(s) - 1) : {s[j], s[j + 1]} \cap Marks # {}
  /\ type' = Failed

Next ==
  \/ \E w \in DOMAIN Arrow : Retype(w)
  \/ \E w \in {"varchar", "char"}, n \in DOMAIN Number : Characters(w, n)
  \/ \E p, s \in DOMAIN Number : Decimals(p, s)
  \/ InArray
  \/ \E w \in DOMAIN Arrow : InMap(w) \/ InUnion(w)
  \/ \E n, o \in FieldNames, w \in DOMAIN Arrow : InStruct(n, o, w)
  \/ \E i \in DOMAIN text, w \in Words : InOtherCase(i, w)
  \/ \E i \in DOMAIN text, m \in Marks : Damage(i, m)

Spec == Init /\ [][Next]_vars

-----------------------------------------------------------------------------

(* A column has the type that the text of the metastore stands for, at any *)
(* depth, whatever its fields are called; and a text that stands for none  *)
(* is refused, never read as far as it goes.                               *)
ReadAsSpelled == ArrowType(text) = type

=============================================================================
