--------------------------- MODULE TableStatistics ---------------------------
(***************************************************************************)
(* What the planner is told of a Hive table: the statistics of one of its  *)
(* columns as Glue has them, converted to the column's type                *)
(* (catalog/statistics/glue.rs), and rows and bytes of a scan, from the    *)
(* table's properties or the sizes of files (hive_utils.rs,                *)
(* hive_table_provider.rs), while engines add rows and analyze the table.  *)
(*                                                                         *)
(* The values of a column are integers: of a DECIMAL the digits without    *)
(* the point, of a DATE days, of a TIMESTAMP its units.                    *)
(***************************************************************************)
EXTENDS Integers, Sequences, FiniteSets, FiniteSetsExt

CONSTANTS
  ColumnTypes,      \* types: [kind, ...], and the values a column of the type can have
  ColumnValues,       \* [ColumnTypes -> sets of values]
  ByteBase, Width, \* of the integers that hold a DECIMAL: 2^8 and 16 bytes
  Scales,       \* that Glue gives a DECIMAL in
  Day, PerSecond, \* seconds; [units -> Nat]: how many there are in a second
  MaxFloat,     \* of 32 bits
  MaxLong,      \* of 64 bits
  MaxDay,       \* of 32 bits, as a DATE has
  RowSize,      \* of the table's schema
  Partitions, Sizes, \* of the table; of files
  Counts,       \* what properties of the table say, NotNumber among it
  MaxValues, MaxWritten,
  NotFinite, NotNumber, SqlNull, Absent, NoValue

VARIABLES
  column, values,     \* type and values, a sequence
  glue, analyzed,     \* the column's statistics in Glue, and type and values then; or NoValue
  properties, written_files   \* of the table: [rows, raw, total]; [partition, size] of files

statisticsVars == <<column, values, glue, analyzed, properties, written_files>>

Power(b, n) == LET p[i \in Nat] == IF i = 0 THEN 1 ELSE b * p[i - 1] IN p[n]
Longs == (-MaxLong - 1)..MaxLong
Days == (-MaxDay - 1)..MaxDay
Ints == (-(Power(ByteBase, Width) \div 2))..(Power(ByteBase, Width) \div 2 - 1)

(* Kinds of columns, their values, and what Glue keeps of them; a digit of *)
(* the integers is positive or negative, and a second has as many          *)
(* nanoseconds as it has of any unit, times a number.                      *)
GlueKinds ==
  {<<"LONG", "int">>, <<"DOUBLE", "float">>, <<"DOUBLE", "double">>, <<"DECIMAL", "decimal">>,
   <<"BOOLEAN", "boolean">>, <<"STRING", "utf8">>, <<"BINARY", "binary">>, <<"DATE", "date">>,
   <<"DATE", "timestamp">>}
StatisticsAssumption ==
  /\ \A c \in ColumnTypes :
       /\ <<c.glue, c.kind>> \in GlueKinds
       /\ ColumnValues[c] \subseteq (IF c.kind = "boolean" THEN {0, 1} ELSE Int)
       /\ c.kind = "decimal" => c.precision \in Nat /\ c.scale \in Int
       /\ c.kind = "timestamp" => c.unit \in DOMAIN PerSecond
  /\ {ByteBase, Width, Day, RowSize} \subseteq Nat \ {0} /\ ByteBase % 2 = 0
  /\ Scales \subseteq Int /\ Sizes \subseteq Nat /\ SqlNull \notin Int
  /\ NoValue \notin Int \cup [column : ColumnTypes, values : Seq(Int \cup {SqlNull})]
  /\ \A unit \in DOMAIN PerSecond :
       PerSecond[unit] \in Nat \ {0} /\ PerSecond["nano"] % PerSecond[unit] = 0
  /\ "nano" \in DOMAIN PerSecond

-----------------------------------------------------------------------------

(* Precision                                                               *)
Inexact(v) == [exact |-> FALSE, value |-> v]
InexactCount(n) == IF n >= 0 THEN Inexact(n) ELSE Absent
InexactIfSome(v) == IF v = NoValue THEN Absent ELSE Inexact(v)

Unknown == [nulls |-> Absent, min |-> Absent, max |-> Absent, distinct |-> Absent]

(* scalar_from_i64: integers that fit the column.                          *)
FromLong(n, c) == IF c.kind = "int" /\ n \in c.range THEN n ELSE NoValue

(* scalar_from_f64                                                         *)
FromDouble(n, c) ==
  IF n = NotFinite \/ c.kind \notin {"float", "double"} THEN NoValue
  ELSE IF c.kind = "float" /\ n \notin (-MaxFloat)..MaxFloat THEN NoValue ELSE n

(* datetime_scalar.  Mutant: days are cut towards the epoch.               *)
TowardsEpoch(t, c) ==
  IF c.kind = "date" THEN IF t.seconds < 0 THEN -((-t.seconds) \div Day) ELSE t.seconds \div Day ELSE NoValue
FromDateTime(t, c) ==
  CASE c.kind = "date" /\ t.seconds \div Day \in Days -> t.seconds \div Day
    [] c.kind = "timestamp" ->
         LET n == t.seconds * PerSecond[c.unit] + (t.nanos * PerSecond[c.unit]) \div PerSecond["nano"] IN
         IF t.seconds * PerSecond[c.unit] \in Longs /\ n \in Longs THEN n ELSE NoValue
    [] OTHER -> NoValue

(* signed_i128_from_be: bytes of any number, the highest first, of which   *)
(* those too many must be copies of the sign.                              *)
Unsigned(bytes) ==
  LET u[i \in 0..Len(bytes)] == IF i = 0 THEN 0 ELSE u[i - 1] * ByteBase + bytes[i] IN u[Len(bytes)]
SignedFromBytes(bytes) ==
  LET positive(b) == b < ByteBase \div 2
      sign == IF positive(bytes[1]) THEN 0 ELSE ByteBase - 1
      extra == Len(bytes) - Width
      kept == IF extra > 0 THEN SubSeq(bytes, extra + 1, Len(bytes)) ELSE bytes
      padded == [i \in 1..(Width - Len(kept)) |-> sign] \o kept IN
  IF \/ bytes = <<>>
     \/ \E i \in 1..extra : bytes[i] # sign
     \/ Len(kept) = Width /\ positive(kept[1]) # positive(bytes[1])
  THEN NoValue
  ELSE Unsigned(padded) - (IF sign = 0 THEN 0 ELSE Power(ByteBase, Width))

(* decimal_scalar: rescaled to the column, exactly or not at all.          *)
FromDecimal(d, c) ==
  LET unscaled == SignedFromBytes(d.bytes)
      up == c.scale - d.scale
      rescaled == IF up >= 0 THEN unscaled * Power(10, up) ELSE unscaled \div Power(10, -up) IN
  IF \/ c.kind # "decimal" \/ unscaled = NoValue
     \/ up >= 0 /\ (Power(10, up) \notin Ints \/ rescaled \notin Ints)
     \/ up < 0 /\ (Power(10, -up) \notin Ints \/ unscaled % Power(10, -up) # 0)
     \/ rescaled <= -Power(10, c.precision) \/ rescaled >= Power(10, c.precision)
  THEN NoValue ELSE rescaled

(* convert_glue_column_statistics                                          *)
Bound(s, bound) ==
  IF bound = NoValue THEN NoValue
  ELSE CASE s.type = "LONG" -> FromLong(bound, column)
         [] s.type = "DOUBLE" -> FromDouble(bound, column)
         [] s.type = "DECIMAL" -> FromDecimal(bound, column)
         [] s.type = "DATE" -> FromDateTime(bound, column)
Bounds(s) ==
  [nulls |-> InexactCount(s.nulls), distinct |-> InexactCount(s.distinct),
   min |-> InexactIfSome(Bound(s, s.min)), max |-> InexactIfSome(Bound(s, s.max))]

OfBoolean(s) ==
  IF s.falses < 0 \/ s.trues < 0 THEN [Unknown EXCEPT !.nulls = InexactCount(s.nulls)]
  ELSE LET seen == {b \in {0, 1} : (IF b = 0 THEN s.falses ELSE s.trues) > 0} IN
    [nulls |-> InexactCount(s.nulls), distinct |-> Inexact(Cardinality(seen)),
     min |-> IF seen = {} THEN Absent ELSE Inexact(Min(seen)),
     max |-> IF seen = {} THEN Absent ELSE Inexact(Max(seen))]

ConvertedStatistics ==
  IF glue = NoValue THEN Unknown
  ELSE CASE glue.type = "BOOLEAN" /\ column.kind = "boolean" -> OfBoolean(glue)
    [] glue.type \in {"LONG", "DOUBLE", "DECIMAL", "DATE"} -> Bounds(glue)
    [] glue.type = "STRING" /\ column.kind = "utf8" ->
         [Unknown EXCEPT !.nulls = InexactCount(glue.nulls), !.distinct = InexactCount(glue.distinct)]
    [] glue.type = "BINARY" /\ column.kind = "binary" -> [Unknown EXCEPT !.nulls = InexactCount(glue.nulls)]
    [] OTHER -> Unknown

(* parse_statistics_from_table_properties: the first of the two that is    *)
(* there counts, even if it is no number.                                  *)
CountIn(n) == IF n \in {NoValue, NotNumber} THEN Absent ELSE Inexact(n)
FromProperties ==
  [rows |-> CountIn(properties.rows),
   bytes |-> CountIn(IF properties.raw # NoValue THEN properties.raw ELSE properties.total)]

(* estimate_num_rows                                                       *)
EstimateRows(bytes) == IF bytes = 0 THEN 0 ELSE Max({1, bytes \div RowSize})

(* try_fill_table_statistics_by_file_list, for a scan of the partitions    *)
(* that survive pruning.  Mutant: the numbers of the whole table stay.     *)
TotalSize(scanned) ==
  LET size(i) == IF written_files[i].partition \in scanned THEN written_files[i].size ELSE 0
      total[i \in 0..Len(written_files)] == IF i = 0 THEN 0 ELSE total[i - 1] + size(i) IN
  total[Len(written_files)]
Filled(of, scanned) ==
  LET bytes == TotalSize(scanned) IN
  [rows |-> IF of.rows = Absent THEN Inexact(EstimateRows(bytes)) ELSE of.rows,
   bytes |-> IF of.bytes = Absent THEN Inexact(bytes) ELSE of.bytes]
WholeTable(scanned) == Filled(FromProperties, scanned)
OfScan(scanned) ==
  IF scanned # Partitions THEN Filled([rows |-> Absent, bytes |-> Absent], scanned)
  ELSE Filled(FromProperties, scanned)

-----------------------------------------------------------------------------

ColumnIsNew == values = <<>> /\ glue = NoValue /\ analyzed = NoValue
TableIsNew == properties = [rows |-> NoValue, raw |-> NoValue, total |-> NoValue] /\ written_files = <<>>

StatisticsInit == column \in ColumnTypes /\ ColumnIsNew /\ TableIsNew

(* Rows added after the analysis change nothing of what is claimed.        *)
AddRow(v) ==
  /\ analyzed = NoValue
  /\ Len(values) < MaxValues /\ values' = Append(values, v)
  /\ UNCHANGED <<column, glue, analyzed, properties, written_files>>

(* The column is given another type: its statistics stay as they are.      *)
Retype(c) ==
  /\ analyzed # NoValue /\ column' = c
  /\ UNCHANGED <<values, glue, analyzed, properties, written_files>>

KnownValues(vs) == {vs[i] : i \in DOMAIN vs} \ {SqlNull}
Count(v, vs) == Cardinality({i \in DOMAIN vs : vs[i] = v})

(* Bytes of a number, with as many copies of the sign as one likes, and    *)
(* the number in another scale.                                            *)
Encodings(n) ==
  {[i \in 1..k |-> (n \div Power(ByteBase, k - i)) % ByteBase] :
     k \in {k \in 1..(Width + 1) : 2 * n \in (-Power(ByteBase, k))..(Power(ByteBase, k) - 1)}}
InScale(n, by) ==
  IF by >= 0 THEN n * Power(10, by)
  ELSE IF n % Power(10, -by) = 0 THEN n \div Power(10, -by) ELSE NoValue

(* A bound as Glue writes it.                                              *)
Written(v) ==
  CASE column.kind = "decimal" ->
         UNION {{[bytes |-> b, scale |-> s] : b \in
                   IF InScale(v, s - column.scale) = NoValue THEN {}
                   ELSE Encodings(InScale(v, s - column.scale))} :
                s \in Scales}
    [] column.kind = "date" -> {[seconds |-> v * Day, nanos |-> 0]}
    [] column.kind = "timestamp" ->
         LET ratio == PerSecond[column.unit] IN
         {[seconds |-> v \div ratio, nanos |-> (v % ratio) * (PerSecond["nano"] \div ratio)]}
    [] column.kind \notin {"decimal", "date", "timestamp"} -> {v}

(* Numbers are never missing in Glue: where there is no bound they are 0.  *)
PlainNumbers == {"LONG", "DOUBLE"}
WrittenBounds(known) ==
  IF known # {} THEN Written(Min(known)) \X Written(Max(known))
  ELSE LET none == {IF column.glue \in PlainNumbers THEN 0 ELSE NoValue} IN none \X none

Analyze ==
  /\ analyzed = NoValue
  /\ analyzed' = [column |-> column, values |-> values]
  /\ \/ /\ column.glue \in PlainNumbers \cup {"DECIMAL", "DATE"}
        /\ \E bounds \in WrittenBounds(KnownValues(values)) :
             glue' = [type |-> column.glue, nulls |-> Count(SqlNull, values),
                      distinct |-> Cardinality(KnownValues(values)), min |-> bounds[1], max |-> bounds[2]]
     \/ /\ column.glue = "BOOLEAN"
        /\ glue' = [type |-> "BOOLEAN", nulls |-> Count(SqlNull, values),
                    trues |-> Count(1, values), falses |-> Count(0, values)]
     \/ /\ column.glue \in {"STRING", "BINARY"}
        /\ glue' = [type |-> column.glue, nulls |-> Count(SqlNull, values),
                    distinct |-> Cardinality(KnownValues(values))]
  /\ UNCHANGED <<column, values, properties, written_files>>

(* Engines store statistics of their own making: none is not a number,     *)
(* and a count that is not known is negative.                              *)
Forget(field) ==
  /\ glue # NoValue /\ field \in DOMAIN glue
  /\ field \in {"min", "max"} => glue.type # "LONG"
  /\ glue' = [glue EXCEPT ![field] =
       IF field \in {"min", "max"} THEN (IF glue.type = "DOUBLE" THEN NotFinite ELSE NoValue) ELSE -1]
  /\ UNCHANGED <<column, values, analyzed, properties, written_files>>

WriteFile(p, size) ==
  /\ Len(written_files) < MaxWritten /\ written_files' = Append(written_files, [partition |-> p, size |-> size])
  /\ UNCHANGED <<column, values, glue, analyzed, properties>>

Describe(rows, raw, total) ==
  /\ properties' = [rows |-> rows, raw |-> raw, total |-> total]
  /\ UNCHANGED <<column, values, glue, analyzed, written_files>>

ColumnNext ==
  \/ \E v \in ColumnValues[column] \cup {SqlNull} : AddRow(v)
  \/ \E c \in ColumnTypes : Retype(c)
  \/ Analyze
  \/ \E field \in {"nulls", "distinct", "min", "max", "trues", "falses"} : Forget(field)

TableNext ==
  \/ \E p \in Partitions, n \in Sizes : WriteFile(p, n)
  \/ \E n, m, k \in Counts : Describe(n, m, k)

StatisticsNext == ColumnNext \/ TableNext

StatisticsSpec == StatisticsInit /\ [][StatisticsNext]_statisticsVars

-----------------------------------------------------------------------------

(* The value of a column of the second type that one of the first type     *)
(* reads as, NoValue if there is none.                                     *)
ReadsAs(v, from, to) ==
  LET units(c) == IF c.kind = "date" THEN 1 ELSE Day * PerSecond[c.unit] IN
  CASE from.kind \in {"float", "double"} /\ to.kind \in {"float", "double"} -> v
    [] from.kind = to.kind /\ from.kind \in {"int", "boolean"} -> v
    [] from.kind = "decimal" /\ to.kind = "decimal" -> InScale(v, to.scale - from.scale)
    [] {from.kind, to.kind} \subseteq {"date", "timestamp"} -> (v * units(to)) \div units(from)
    [] OTHER -> NoValue

FitsColumn(v, c) ==
  CASE c.kind = "int" -> v \in c.range
    [] c.kind = "date" -> v \in Days
    [] c.kind = "float" -> v \in (-MaxFloat)..MaxFloat
    [] c.kind = "decimal" -> -Power(10, c.precision) < v /\ v < Power(10, c.precision)
    [] OTHER -> TRUE

(* The bounds the planner has of a column are the least and the greatest   *)
(* of its values when Glue analyzed it, as the column's type has them now; *)
(* NULLs and distinct values are as many as there were (glue.rs).  Of a    *)
(* column that had no values nothing is claimed.                           *)
ColumnHolds ==
  analyzed # NoValue =>
    LET known == KnownValues(analyzed.values)
        is(bound, v) == bound = Absent \/
          (bound = Inexact(ReadsAs(v, analyzed.column, column)) /\ FitsColumn(bound.value, column)) IN
    /\ ConvertedStatistics.nulls \in {Absent, Inexact(Count(SqlNull, analyzed.values))}
    /\ ConvertedStatistics.distinct \in {Absent, Inexact(Cardinality(known))}
    /\ known # {} => is(ConvertedStatistics.min, Min(known)) /\ is(ConvertedStatistics.max, Max(known))

(* "Catalog-level num_rows/total_byte_size describe the whole table; once  *)
(* partitions are pruned they overestimate the scan" (hive_table_provider  *)
(* .rs:412): nothing that is said of the table decides the size of a scan  *)
(* of a part of it, and a scan of nothing but empty files has no rows.     *)
ScanSized ==
  \A scanned \in SUBSET Partitions :
    scanned # Partitions =>
      /\ OfScan(scanned).bytes = Inexact(TotalSize(scanned))
      /\ (OfScan(scanned).rows = Inexact(0)) = (TotalSize(scanned) = 0)

StatisticsHold == ColumnHolds /\ ScanSized

=============================================================================
