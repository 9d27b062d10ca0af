----------------------------- MODULE MC_TableReads -----------------------------
(* Model checking of what is read of a table, and of what is left out:     *)
(* partition pruning, over an integer and a string column, one of which    *)
(* may have a time zone; day numbers, over the years 1890 to 2110 with a   *)
(* result of less than 32 bits that holds most of them, and timestamps     *)
(* with hundredths of a second within 115 days of 1970; the translation of *)
(* filters for ORC on an integer column whose type in the file is narrower *)
(* than the table's, a BOOLEAN column, and a column of the partitions;     *)
(* columns that nest, of names in three spellings and of another; and      *)
(* scans of ORC files with such columns between others.  A behavior is one *)
(* of a single component.                                                  *)
EXTENDS HivePartitions, PartitionDates, OrcPredicates, TLC

CONSTANTS code, region, amount, one, other, marker, v1, vw, vm
CONSTANTS Failed, id, flag, dt, info, Info, low, mixed, up, more, More, int, text, i1, t1, word

VARIABLES component, table, file, asked, source, read

nested == <<table, file, asked, source, read>>

-----------------------------------------------------------------------------

NoneOrCode == {{}, {code}}

SomeParses ==
  (code :> ((one :> v1) @@ (other :> Unparsed) @@ (marker :> Unparsed)))
  @@ (region :> ((one :> v1) @@ (other :> vw) @@ (marker :> vm)))

DataOfRows == {amount :> v1, amount :> NullValue}

Equal(a, b) == IF a = NullValue \/ b = NullValue THEN "null" ELSE IF a = b THEN "true" ELSE "false"
Boolean(b) == IF b THEN "true" ELSE "false"
On(cs, Is1(_)) == [columns |-> cs, is |-> [v \in [cs -> Datum] |-> Is1(v)]]

SomeFilters == {
  On({code}, LAMBDA v : Equal(v[code], v1)),
  On({region}, LAMBDA v : Boolean(v[region] = NullValue)),
  On({code, region}, LAMBDA v :
    IF v[code] = NullValue THEN "true" ELSE Equal(v[region], vw)),
  On({code, amount}, LAMBDA v : Equal(v[code], v[amount]))}

AnyName == Permutations(Names)

Time(h, m, s, f) == [hour |-> h, minute |-> m, second |-> s, fraction |-> f]
SomeTimes ==
  {Time(h, m, s, f) : h \in {0, 23, 25}, m \in {0, 59}, s \in {0, 59},
     f \in {<<>>, <<5>>, <<0, 5>>, <<9, 9, 9>>, <<1, 2, NoDay>>, <<NoDay>>}} \cup
  {Time(NoDay, 0, 0, <<>>), Time(0, NoDay, 0, <<>>), Time(0, 0, NoDay, <<>>)}

-----------------------------------------------------------------------------

SomeColumns == {id, flag, dt}
SomeFits == [c \in SomeColumns |-> {0, 1}]

Line(i, f, d) == (id :> i) @@ (flag :> f) @@ (dt :> d)
SomeRows == {Line(0, 1, 1), Line(1, Null, 1), Line(Null, 0, Null), Line(0, 0, 1)}

SomeUnsupported == {[yes |-> {Line(0, 1, 1)}, no |-> {Line(1, Null, 1)}]}

-----------------------------------------------------------------------------

SomeNames == {info, Info, low, mixed, up, more, More}
SomeLower ==
  [n \in SomeNames |-> IF n = Info THEN info ELSE IF n \in {mixed, up} THEN low
                       ELSE IF n = More THEN more ELSE n]

SomeCastable == {<<text, int>>, <<int, text>>}
SomeConvert ==
  (<<text, int>> :> ((t1 :> i1) @@ (word :> Null))) @@ (<<int, text>> :> (i1 :> t1))

Leaf(l) == [kind |-> "leaf", leaf |-> l]
Struct(fs) == [kind |-> "struct", fields |-> fs]
List(t) == [kind |-> "list", item |-> t]
Map(t) == [kind |-> "map", key |-> Leaf(text), value |-> t]
Field(n, t) == [name |-> n, type |-> t]
Of(n, t) == <<Field(n, t)>>

SomeTables == {Of(info, t) : t \in {
  Struct(Of(low, Leaf(int))),
  Struct(<<Field(more, Leaf(text)), Field(low, Leaf(int))>>),
  Struct(Of(more, Struct(<<Field(up, Leaf(text)), Field(low, Leaf(int))>>))),
  List(Struct(Of(low, Leaf(int)))),
  Map(Struct(Of(more, Leaf(text))))}} \cup
  {<<Field(info, Struct(Of(low, Leaf(int)))), Field(more, Leaf(int)), Field(low, Leaf(text))>>}

SomeFiles == {Of(n, t) : n \in {info, Info}, t \in {
  Struct(Of(up, Leaf(text))),
  Struct(<<Field(up, Leaf(int)), Field(mixed, Leaf(text))>>),
  Struct(<<Field(up, Leaf(text)), Field(low, Leaf(int))>>),
  Struct(<<Field(low, Leaf(int)), Field(More, Leaf(text))>>),
  Struct(Of(More, Struct(Of(mixed, Leaf(text))))),
  Struct(Of(More, Struct(Of(up, Struct(Of(low, Leaf(int))))))),
  List(Struct(Of(mixed, Leaf(text)))),
  Map(Struct(Of(More, Leaf(int))))}} \cup {Of(more, Leaf(int)),
  <<Field(Info, Struct(<<Field(up, Leaf(text)), Field(more, Leaf(int))>>)), Field(More, Leaf(int)),
    Field(low, Leaf(text))>>,
  <<Field(low, Leaf(text)), Field(up, Leaf(text)), Field(more, List(Leaf(int))), Field(info, Leaf(int))>>,
  <<Field(mixed, Leaf(text)), Field(up, Leaf(text)), Field(info, Struct(Of(low, Leaf(int))))>>}

RECURSIVE ValuesOf(_)
ValuesOf(t) ==
  CASE t.kind = "leaf" -> IF t.leaf = int THEN {i1, Null} ELSE {t1, word, Null}
    [] t.kind = "list" -> {Null, <<>>} \cup {<<v>> : v \in ValuesOf(t.item)}
    [] t.kind = "map" -> {Null, <<>>} \cup {<< <<t1, v>> >> : v \in ValuesOf(t.value)}
    [] t.kind = "struct" -> {Null} \cup
         {v \in [DOMAIN t.fields -> UNION {ValuesOf(f.type) : f \in {t.fields[i] : i \in DOMAIN t.fields}}] :
            \A i \in DOMAIN t.fields : v[i] \in ValuesOf(t.fields[i].type)}

NestedRows ==
  [f \in SomeFiles |-> {v \in [DOMAIN f -> UNION {ValuesOf(f[i].type) : i \in DOMAIN f}] :
                         \A i \in DOMAIN f : v[i] \in ValuesOf(f[i].type)}]

NC == INSTANCE OrcScan WITH
  Names <- SomeNames, Lower <- SomeLower, Leaves <- {int, text}, Castable <- SomeCastable,
  Convert <- SomeConvert, TableSchemas <- SomeTables, FileSchemas <- SomeFiles, Rows <- NestedRows,
  query <- asked

-----------------------------------------------------------------------------

(* Every component begins, and one moves.                                  *)
ReadsInit ==
  /\ component \in {"pruning", "dates", "predicates", "columns"}
  /\ PruningInit /\ DatesInit /\ Init /\ NC!Init /\ NC!Fresh
  /\ component # "columns" => table = CHOOSE schema \in SomeTables : TRUE
  /\ component # "pruning" => zoned = {}
ReadsNext ==
  /\ UNCHANGED component
  /\ \/ component = "pruning" /\ PruningNext /\ UNCHANGED <<dates, stack, nested>>
     \/ component = "dates" /\ DatesNext /\ UNCHANGED <<vars, stack, nested>>
     \/ component = "predicates" /\ Next /\ UNCHANGED <<vars, dates, nested>>
     \/ /\ component = "columns" /\ UNCHANGED <<vars, dates, stack>>
        /\ \/ source = None /\ read = None /\ NC!Next /\ UNCHANGED <<source, read>>
           \/ asked = None /\ read = None /\ NC!ScanNext
ReadsSpec == ReadsInit /\ [][ReadsNext]_<<component, vars, dates, stack, nested>>

(* Fields, columns and scans give what the whole file gives.               *)
ReadAlike == NC!ReadAlike /\ NC!SelectedAsWhole

(* Names are read without regard to case.                                  *)
CaseBlind == NC!CaseBlind

=============================================================================
