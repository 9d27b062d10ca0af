--------------------------- MODULE HivePartitions ---------------------------
(***************************************************************************)
(* Partition pruning of a Hive table (prune_partitions and the values of   *)
(* partitions, catalog/table_format/hive/hive_table_provider.rs).          *)
(*                                                                         *)
(* The metastore keeps the values of a partition as texts.  They are read  *)
(* twice: into arrays, on which the filters choose the partitions to scan, *)
(* and into the values every row of a scanned partition is given.  A text  *)
(* that does not parse is NULL in the one and an error in the other.  The  *)
(* array of timestamps has no time zone, so none can be built for a column *)
(* that has one (timestamp with local time zone).                          *)
(***************************************************************************)
EXTENDS FiniteSets

CONSTANTS
  PartitionColumns, DataColumns,
  Texts, Values,
  NullTexts,     \* the empty text and __HIVE_DEFAULT_PARTITION__
  Parses,        \* [PartitionColumns -> [Texts -> a value, or Unparsed]]
  Names,         \* of partitions
  DataRows,      \* the data rows below every partition
  Filters,       \* see Filter
  Zones,         \* choices of the partition columns that have a time zone
  NullValue, Unparsed, NoQuery

TableColumns == PartitionColumns \cup DataColumns
Datum == Values \cup {NullValue}
Truth == {"true", "false", "null"}

(* A filter refers to some columns, and is true, false or NULL for their   *)
(* values: nothing else is said of it.                                     *)
Filter == UNION {[columns : {cs}, is : [[cs -> Datum] -> Truth]] : cs \in SUBSET TableColumns}

ASSUME PartitionColumnsAssumption == PartitionColumns \cap DataColumns = {}
ASSUME TextsAssumption == /\ NullTexts \subseteq Texts
                          /\ Parses \in [PartitionColumns -> [Texts -> Values \cup {Unparsed}]]
ASSUME DataRowsAssumption == DataRows \subseteq [DataColumns -> Datum]
ASSUME FiltersAssumption == \A f \in Filters :
  f.columns \subseteq TableColumns /\ f.is \in [[f.columns -> Datum] -> Truth]
ASSUME ZonesAssumption == Zones \subseteq SUBSET PartitionColumns
ASSUME UnparsedAssumption == Unparsed \notin Datum

VARIABLES
  zoned,       \* the partition columns that have a time zone
  partitions,  \* [the partitions there -> [PartitionColumns -> Texts]]
  query        \* the last query of these partitions: its filters, what it returned

vars == <<zoned, partitions, query>>

Tables == UNION {[ns -> [PartitionColumns -> Texts]] : ns \in SUBSET Names}
Answer == [partition : Names, row : [TableColumns -> Datum]]
Query == [filters : SUBSET Filters, failed : BOOLEAN, answer : SUBSET Answer]

PruningTypeOK ==
  zoned \in Zones /\ partitions \in Tables /\ query \in Query \cup {NoQuery}

PruningInit ==
  /\ zoned \in Zones
  /\ partitions = [n \in {} |-> [c \in PartitionColumns |-> NoQuery]]
  /\ query = NoQuery

-----------------------------------------------------------------------------

(* build_partition_array.  Mutant: the null texts are read like others.    *)
ParsedOrNull(c, text) == IF Parses[c][text] = Unparsed THEN NullValue ELSE Parses[c][text]
ArrayValue(c, text) == IF text \in NullTexts THEN NullValue ELSE ParsedOrNull(c, text)

(* parse_partition_value                                                   *)
RowValue(c, text) == IF text \in NullTexts THEN NullValue ELSE Parses[c][text]
Readable(texts) == \A c \in PartitionColumns : RowValue(c, texts[c]) # Unparsed

Row(texts, data) ==
  [c \in TableColumns |-> IF c \in PartitionColumns THEN RowValue(c, texts[c]) ELSE data[c]]

Is(filter, row) == filter.is[[c \in filter.columns |-> row[c]]]

(* Only filters on partition columns alone can be evaluated on them.       *)
PartitionFilters(filters) ==
  {f \in filters : f.columns # {} /\ f.columns \subseteq PartitionColumns}

(* The masks are combined by compute::and, NULL wherever one of them is.   *)
Combined(texts, filters) ==
  LET masks == {Is(f, [c \in PartitionColumns |-> ArrayValue(c, texts[c])]) : f \in filters} IN
  IF "null" \in masks THEN "null" ELSE IF "false" \in masks THEN "false" ELSE "true"

(* A filter on partition columns takes an array of every partition column  *)
(* into the batch: one that has a time zone is refused there, whether it   *)
(* is the one that is filtered or not.                                     *)
Refused(filters) == zoned # {} /\ PartitionFilters(filters) # {}

(* prune_partitions                                                        *)
Selected(table, filters) ==
  {n \in DOMAIN table : Combined(table[n], PartitionFilters(filters)) = "true"}

(* The filters are pushed down as inexact: they are evaluated again on the *)
(* rows of the scan.                                                       *)
AnswerOf(table, scanned, filters) ==
  {[partition |-> x[1], row |-> Row(table[x[1]], x[2])] :
     x \in {y \in scanned \X DataRows : \A f \in filters : Is(f, Row(table[y[1]], y[2])) = "true"}}

Fails(table, scanned) == \E n \in scanned : ~Readable(table[n])

-----------------------------------------------------------------------------

Put(n, texts) ==
  /\ partitions' = [m \in DOMAIN partitions \cup {n} |-> IF m = n THEN texts ELSE partitions[m]]
  /\ query' = NoQuery
  /\ UNCHANGED zoned

Drop(n) ==
  /\ partitions' = [m \in DOMAIN partitions \ {n} |-> partitions[m]]
  /\ query' = NoQuery
  /\ UNCHANGED zoned

Scan(filters) ==
  LET scanned == Selected(partitions, filters)
      failed == Refused(filters) \/ Fails(partitions, scanned) IN
  /\ query' = [filters |-> filters, failed |-> failed,
               answer |-> IF failed THEN {} ELSE AnswerOf(partitions, scanned, filters)]
  /\ UNCHANGED <<zoned, partitions>>

PruningNext ==
  \/ \E n \in Names, texts \in [PartitionColumns -> Texts] : Put(n, texts)
  \/ \E n \in DOMAIN partitions : Drop(n)
  \/ \E filters \in SUBSET Filters : Scan(filters)

PruningSpec == PruningInit /\ [][PruningNext]_vars

-----------------------------------------------------------------------------

(* Pruning is an optimisation: a query of a table whose partitions can all *)
(* be read returns what it would return if every partition were scanned,   *)
(* and fails in no case but one, that a partition column has a time zone   *)
(* and some filter is on partition columns.                                *)
PruningKeepsAnswer ==
  query # NoQuery /\ (\A n \in DOMAIN partitions : Readable(partitions[n])) =>
    /\ query.failed => Refused(query.filters)
    /\ ~query.failed =>
         query.answer = AnswerOf(partitions, DOMAIN partitions, query.filters)

=============================================================================
