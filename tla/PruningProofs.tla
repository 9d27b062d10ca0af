---------------------------- MODULE PruningProofs ----------------------------
(***************************************************************************)
(* Scans.  What they leave out does not belong to their answer: partitions *)
(* whose values the filters rule out (HivePartitions), which needs the     *)
(* values read alike and day numbers that are exact (PartitionDates), and  *)
(* rows of an ORC file (OrcPredicates).  What the planner is told of a     *)
(* column and of a scan holds of them (TableStatistics).                   *)
(*                                                                         *)
(* Of ORC files, the invariant is a property of each term on the stack.    *)
(* What it adds says why NOT is right: the terms NOT looks into are those  *)
(* whose predicate is exact, and the negation of an exact predicate is     *)
(* exact.                                                                  *)
(*                                                                         *)
(* Of statistics, the invariant says what Glue can have of a column: what  *)
(* was written of the values it had when it was analyzed, or what is left  *)
(* of that; the rest is arithmetic, of bytes, of powers and of quotients.  *)
(***************************************************************************)
EXTENDS HivePartitions, PartitionDates, OrcPredicates, TableStatistics, FiniteSetTheorems,
  SequenceTheorems, WellFoundedInduction, TLAPS

(* What is read into the arrays of a partition that can be read is what    *)
(* its rows are given.                                                     *)
LEMMA ArraysAreRows ==
  ASSUME NEW texts, Readable(texts), NEW c \in PartitionColumns
  PROVE  ArrayValue(c, texts[c]) = RowValue(c, texts[c])
BY DEF Readable, ArrayValue, RowValue, ParsedOrNull

(* So a filter on partition columns says the same of the arrays as of any  *)
(* row of the partition.                                                   *)
LEMMA MaskIsFilter ==
  ASSUME NEW texts, Readable(texts), NEW data, NEW filters, NEW f \in PartitionFilters(filters)
  PROVE  Is(f, [c \in PartitionColumns |-> ArrayValue(c, texts[c])]) = Is(f, Row(texts, data))
<1> DEFINE array == [c \in PartitionColumns |-> ArrayValue(c, texts[c])]
<1>1. f.columns \subseteq PartitionColumns
  BY DEF PartitionFilters
<1>2. \A c \in f.columns : array[c] = Row(texts, data)[c]
  <2> SUFFICES ASSUME NEW c \in f.columns PROVE array[c] = Row(texts, data)[c]
    OBVIOUS
  <2>1. c \in PartitionColumns /\ c \in TableColumns
    BY <1>1 DEF TableColumns
  <2>2. Row(texts, data)[c] = RowValue(c, texts[c])
    BY <2>1 DEF Row
  <2> QED
    BY <2>1, <2>2, ArraysAreRows
<1>3. [c \in f.columns |-> array[c]] = [c \in f.columns |-> Row(texts, data)[c]]
  BY <1>2
<1> QED
  BY <1>3 DEF Is

(* No row of a readable partition that is pruned passes the filters.       *)
LEMMA PrunedHasNoAnswer ==
  ASSUME NEW table, NEW filters, NEW n \in DOMAIN table, Readable(table[n]),
         n \notin Selected(table, filters), NEW data
  PROVE  \E f \in filters : Is(f, Row(table[n], data)) # "true"
<1> DEFINE array == [c \in PartitionColumns |-> ArrayValue(c, table[n][c])]
<1> DEFINE pf == PartitionFilters(filters)
<1>1. Combined(table[n], pf) # "true"
  BY DEF Selected
<1>2. PICK mask \in {Is(f, array) : f \in pf} : mask = "null" \/ mask = "false"
  BY <1>1 DEF Combined
<1>3. PICK f \in pf : mask = Is(f, array)
  BY <1>2
<1>4. Is(f, Row(table[n], data)) = mask
  BY <1>3, MaskIsFilter
<1>5. f \in filters
  BY <1>3 DEF PartitionFilters
<1>6. mask # "true"
  BY <1>2
<1> QED
  BY <1>4, <1>5, <1>6

(* The answer of the pruned scan is that of the whole table.               *)
LEMMA PruningSound ==
  ASSUME NEW table, NEW filters, \A n \in DOMAIN table : Readable(table[n])
  PROVE  /\ ~Fails(table, Selected(table, filters))
         /\ AnswerOf(table, Selected(table, filters), filters) = AnswerOf(table, DOMAIN table, filters)
<1> DEFINE passing(ns) ==
      {y \in ns \X DataRows : \A f \in filters : Is(f, Row(table[y[1]], y[2])) = "true"}
<1>1. Selected(table, filters) \subseteq DOMAIN table
  BY DEF Selected
<1>2. passing(Selected(table, filters)) \subseteq passing(DOMAIN table)
  BY <1>1
<1>3. passing(DOMAIN table) \subseteq passing(Selected(table, filters))
  <2> SUFFICES ASSUME NEW y \in passing(DOMAIN table) PROVE y[1] \in Selected(table, filters)
    OBVIOUS
  <2>1. y[1] \in DOMAIN table /\ \A f \in filters : Is(f, Row(table[y[1]], y[2])) = "true"
    OBVIOUS
  <2> QED
    BY <2>1, PrunedHasNoAnswer
<1>4. passing(Selected(table, filters)) = passing(DOMAIN table)
  BY <1>2, <1>3
<1>5. ~Fails(table, Selected(table, filters))
  BY <1>1 DEF Fails
<1> QED
  BY <1>4, <1>5 DEF AnswerOf

(* A query of a table whose partitions can all be read returns what it     *)
(* would if every partition were scanned (prune_partitions), or fails for  *)
(* a time zone, for any filters, texts and values.                         *)
THEOREM PruningIsOptimisation == PruningSpec => []PruningKeepsAnswer
<1>1. PruningInit => PruningKeepsAnswer
  BY DEF PruningInit, PruningKeepsAnswer
<1>2. PruningKeepsAnswer /\ [PruningNext]_vars => PruningKeepsAnswer'
  <2> SUFFICES ASSUME PruningKeepsAnswer, [PruningNext]_vars PROVE PruningKeepsAnswer'
    OBVIOUS
  <2>1. ASSUME UNCHANGED vars PROVE PruningKeepsAnswer'
    BY <2>1 DEF PruningKeepsAnswer, Refused, vars
  <2>2. ASSUME NEW filters \in SUBSET Filters, Scan(filters) PROVE PruningKeepsAnswer'
    <3>1. /\ partitions' = partitions /\ query'.filters = filters
          /\ query'.failed = (Refused(filters) \/ Fails(partitions, Selected(partitions, filters)))
          /\ zoned' = zoned
          /\ query'.answer = IF query'.failed THEN {}
               ELSE AnswerOf(partitions, Selected(partitions, filters), filters)
      BY <2>2 DEF Scan
    <3> SUFFICES ASSUME \A n \in DOMAIN partitions : Readable(partitions[n])
                 PROVE  /\ query'.failed => Refused(filters)
                        /\ ~query'.failed =>
                             query'.answer = AnswerOf(partitions, DOMAIN partitions, filters)
      BY <3>1 DEF PruningKeepsAnswer, Refused
    <3> QED
      BY <3>1, PruningSound
  <2>3. ASSUME query' = NoQuery PROVE PruningKeepsAnswer'
    BY <2>3 DEF PruningKeepsAnswer
  <2> QED
    BY <2>1, <2>2, <2>3 DEF PruningNext, Put, Drop
<1> QED
  BY <1>1, <1>2, PTL DEF PruningSpec

-----------------------------------------------------------------------------

(* The day number of a date is exact in any year.                          *)

(* The number before it is cut.                                            *)
DayNumber(y, m, d) == YearsFromEpoch(y) + DaysBefore(IsLeapYear(y))[m] + d - 1

LeapDay(y) == IF IsLeapYear(y) THEN 1 ELSE 0

(* The two formulations of the leap year are one.                          *)
LEMMA LeapYears == ASSUME NEW y \in Int PROVE LeapInCalendar(y) = IsLeapYear(y)
BY DEF LeapInCalendar, IsLeapYear

LEMMA LastDays ==
  ASSUME NEW y \in Int, NEW m \in 1..12
  PROVE  MonthDays(IsLeapYear(y))[m] = LastDay(y, m) /\ LastDay(y, m) \in 28..31
BY LeapYears DEF MonthDays, LastDay, Long

(* The days before a month are added up from January.                      *)
LEMMA MonthSums ==
  ASSUME NEW leap \in BOOLEAN
  PROVE  /\ DaysBefore(leap)[1] = 0
         /\ \A m \in 1..11 : DaysBefore(leap)[m + 1] = DaysBefore(leap)[m] + MonthDays(leap)[m]
         /\ \A m \in 1..12 : DaysBefore(leap)[m] \in Int
         /\ DaysBefore(leap)[12] = 334 + (IF leap THEN 1 ELSE 0)
<1> DEFINE sums(f) == [m \in 1..12 |-> IF m = 1 THEN 0 ELSE f[m - 1] + MonthDays(leap)[m - 1]]
<1> DEFINE l == IF leap THEN 1 ELSE 0
<1> DEFINE table == [m \in 1..12 |->
      CASE m = 1 -> 0 [] m = 2 -> 31 [] m = 3 -> 59 + l [] m = 4 -> 90 + l [] m = 5 -> 120 + l
        [] m = 6 -> 151 + l [] m = 7 -> 181 + l [] m = 8 -> 212 + l [] m = 9 -> 243 + l
        [] m = 10 -> 273 + l [] m = 11 -> 304 + l [] m = 12 -> 334 + l]
<1>1. table = sums(table)
  <2> SUFFICES ASSUME NEW m \in 1..12 PROVE table[m] = sums(table)[m]
    OBVIOUS
  <2> QED
    BY DEF MonthDays
<1>2. DaysBefore(leap) = sums(DaysBefore(leap))
  BY <1>1 DEF DaysBefore
<1> DEFINE b == DaysBefore(leap)
<1>3. \A m \in 1..12 : b[m] = IF m = 1 THEN 0 ELSE b[m - 1] + MonthDays(leap)[m - 1]
  BY <1>2
<1> HIDE DEF b, sums, table
<1>4. b[1] = 0
  BY <1>3
<1>5. \A m \in 1..11 : b[m + 1] = b[m] + MonthDays(leap)[m]
  BY <1>3
<1>6. b[2] = 31 /\ b[3] = 59 + l /\ b[4] = 90 + l /\ b[5] = 120 + l
  BY <1>4, <1>5 DEF MonthDays
<1>7. b[6] = 151 + l /\ b[7] = 181 + l /\ b[8] = 212 + l /\ b[9] = 243 + l
  BY <1>5, <1>6 DEF MonthDays
<1>8. b[10] = 273 + l /\ b[11] = 304 + l /\ b[12] = 334 + l
  BY <1>5, <1>7 DEF MonthDays
<1>9. \A m \in 1..12 : b[m] \in Int
  BY <1>4, <1>6, <1>7, <1>8
<1> QED
  BY <1>4, <1>5, <1>8, <1>9 DEF b

(* A year more at either end.                                              *)
LEMMA LeapsFinite ==
  ASSUME NEW a \in Int, NEW b \in Int
  PROVE  IsFiniteSet({y \in a..(b - 1) : IsLeapYear(y)})
<1>1. IsFiniteSet(a..(b - 1))
  BY FS_Interval
<1> QED
  BY <1>1, FS_Subset

LEMMA YearsType == ASSUME NEW a \in Int, NEW b \in Int PROVE DaysOfYears(a, b) \in Int
<1> DEFINE S == {y \in a..(b - 1) : IsLeapYear(y)}
<1>1. Cardinality(S) \in Nat
  BY LeapsFinite, FS_CardinalityType
<1>2. DaysOfYears(a, b) = 365 * (b - a) + Cardinality(S)
  BY DEF DaysOfYears
<1> HIDE DEF S
<1> QED
  BY <1>1, <1>2

LEMMA OneMore ==
  ASSUME NEW S, IsFiniteSet(S), NEW x, x \notin S
  PROVE  Cardinality(S \cup {x}) = Cardinality(S) + 1
BY FS_AddElement

LEMMA YearAfter ==
  ASSUME NEW a \in Int, NEW b \in Int, a <= b
  PROVE  DaysOfYears(a, b + 1) = DaysOfYears(a, b) + 365 + LeapDay(b)
<1> DEFINE S == {y \in a..(b - 1) : IsLeapYear(y)}
<1> DEFINE T == {y \in a..((b + 1) - 1) : IsLeapYear(y)}
<1>1. IsFiniteSet(S) /\ b \notin S
  BY LeapsFinite
<1>2. T = IF IsLeapYear(b) THEN S \cup {b} ELSE S
  OBVIOUS
<1>4. Cardinality(S) \in Nat
  BY <1>1, FS_CardinalityType
<1> HIDE DEF S, T
<1>3. Cardinality(T) = Cardinality(S) + LeapDay(b)
  <2>1. Cardinality(S \cup {b}) = Cardinality(S) + 1
    BY <1>1, OneMore
  <2> QED
    BY <1>2, <1>4, <2>1 DEF LeapDay
<1>5. 365 * ((b + 1) - a) + (Cardinality(S) + LeapDay(b)) = 365 * (b - a) + Cardinality(S) + 365 + LeapDay(b)
  BY <1>4 DEF LeapDay
<1> QED
  BY <1>3, <1>5 DEF DaysOfYears, S, T

LEMMA YearBefore ==
  ASSUME NEW a \in Int, NEW b \in Int, a < b
  PROVE  DaysOfYears(a, b) = DaysOfYears(a + 1, b) + 365 + LeapDay(a)
<1> DEFINE S == {y \in (a + 1)..(b - 1) : IsLeapYear(y)}
<1> DEFINE T == {y \in a..(b - 1) : IsLeapYear(y)}
<1>1. IsFiniteSet(S) /\ a \notin S
  BY LeapsFinite
<1>2. T = IF IsLeapYear(a) THEN S \cup {a} ELSE S
  OBVIOUS
<1>4. Cardinality(S) \in Nat
  BY <1>1, FS_CardinalityType
<1> HIDE DEF S, T
<1>3. Cardinality(T) = Cardinality(S) + LeapDay(a)
  <2>1. Cardinality(S \cup {a}) = Cardinality(S) + 1
    BY <1>1, OneMore
  <2> QED
    BY <1>2, <1>4, <2>1 DEF LeapDay
<1>5. 365 * (b - a) + (Cardinality(S) + LeapDay(a)) = 365 * (b - (a + 1)) + Cardinality(S) + 365 + LeapDay(a)
  BY <1>4 DEF LeapDay
<1> QED
  BY <1>3, <1>5 DEF DaysOfYears, S, T

LEMMA NoYears == ASSUME NEW a \in Int PROVE DaysOfYears(a, a) = 0
<1> DEFINE S == {y \in a..(a - 1) : IsLeapYear(y)}
<1>1. S = {}
  OBVIOUS
<1>2. DaysOfYears(a, a) = 365 * (a - a) + Cardinality(S)
  BY DEF DaysOfYears
<1>3. Cardinality(S) = 0
  BY <1>1, FS_EmptySet
<1> HIDE DEF S
<1> QED
  BY <1>2, <1>3

(* The first days of two years in a row are a year apart, on both sides of *)
(* the epoch and across it.                                                *)
LEMMA YearStep ==
  ASSUME NEW y \in Int
  PROVE  /\ YearsFromEpoch(y) \in Int
         /\ YearsFromEpoch(y + 1) = YearsFromEpoch(y) + 365 + LeapDay(y)
<1>1. YearsFromEpoch(y) \in Int
  <2>1. DaysOfYears(y, 1970) \in Int /\ DaysOfYears(1970, y) \in Int
    BY YearsType
  <2> QED
    BY <2>1 DEF YearsFromEpoch, DaysFrom
<1>2. CASE y >= 1970
  <2>1. DaysOfYears(1970, y + 1) = DaysOfYears(1970, y) + 365 + LeapDay(y)
    BY <1>2, YearAfter
  <2> QED
    BY <1>1, <1>2, <2>1 DEF YearsFromEpoch, DaysFrom
<1>3. CASE y = 1969
  <2>1. DaysOfYears(y, 1970) = DaysOfYears(y + 1, 1970) + 365 + LeapDay(y)
    BY <1>3, YearBefore
  <2>2. DaysOfYears(1970, 1970) = 0
    BY NoYears
  <2> QED
    BY <1>3, <2>1, <2>2 DEF YearsFromEpoch, DaysFrom, LeapDay
<1>4. CASE y < 1969
  <2>1. DaysOfYears(y, 1970) = DaysOfYears(y + 1, 1970) + 365 + LeapDay(y)
    BY <1>4, YearBefore
  <2>2. DaysOfYears(y, 1970) \in Int /\ DaysOfYears(y + 1, 1970) \in Int
    BY YearsType
  <2> QED
    BY <1>4, <2>1, <2>2 DEF YearsFromEpoch, DaysFrom, LeapDay
<1> QED
  BY <1>1, <1>2, <1>3, <1>4

(* The number of a day is one more than that of the day before.            *)
LEMMA NumberType ==
  ASSUME NEW y \in Int, NEW m \in 1..12, NEW d \in Int
  PROVE  DayNumber(y, m, d) \in Int
<1>1. DaysBefore(IsLeapYear(y))[m] \in Int
  BY MonthSums DEF IsLeapYear
<1> QED
  BY <1>1, YearStep DEF DayNumber

LEMMA DayAfter ==
  ASSUME NEW y \in Int, NEW m \in 1..12, NEW d \in Int
  PROVE  DayNumber(y, m, d + 1) = DayNumber(y, m, d) + 1
<1>1. DaysBefore(IsLeapYear(y))[m] \in Int
  BY MonthSums DEF IsLeapYear
<1> QED
  BY <1>1, YearStep DEF DayNumber

LEMMA MonthAfter ==
  ASSUME NEW y \in Int, NEW m \in 1..11
  PROVE  DayNumber(y, m + 1, 1) = DayNumber(y, m, LastDay(y, m)) + 1
<1>1. IsLeapYear(y) \in BOOLEAN
  BY DEF IsLeapYear
<1>2. DaysBefore(IsLeapYear(y))[m + 1] = DaysBefore(IsLeapYear(y))[m] + LastDay(y, m)
  BY <1>1, MonthSums, LastDays
<1>3. DaysBefore(IsLeapYear(y))[m] \in Int /\ LastDay(y, m) \in Int
  BY <1>1, MonthSums, LastDays
<1> QED
  BY <1>2, <1>3, YearStep DEF DayNumber

LEMMA NewYear ==
  ASSUME NEW y \in Int
  PROVE  DayNumber(y + 1, 1, 1) = DayNumber(y, 12, 31) + 1
<1>1. IsLeapYear(y) \in BOOLEAN /\ IsLeapYear(y + 1) \in BOOLEAN
  BY DEF IsLeapYear
<1>2. DaysBefore(IsLeapYear(y + 1))[1] = 0 /\ DaysBefore(IsLeapYear(y))[12] = 334 + LeapDay(y)
  BY <1>1, MonthSums DEF LeapDay
<1>3. YearsFromEpoch(y + 1) = YearsFromEpoch(y) + 365 + LeapDay(y) /\ YearsFromEpoch(y) \in Int
  BY YearStep
<1> QED
  BY <1>2, <1>3 DEF DayNumber, LeapDay

-----------------------------------------------------------------------------

Counted == Calendar /\ count = DayNumber(year, month, day)

LEMMA FirstDay == DatesInit => Counted
<1>0. IsLeapYear(1970) \in BOOLEAN
  BY DEF IsLeapYear
<1>1. DaysBefore(IsLeapYear(1970))[1] = 0
  BY <1>0, MonthSums
<1>2. YearsFromEpoch(1970) = 0
  <2>1. DaysOfYears(1970, 1970) = 0
    BY NoYears
  <2> QED
    BY <2>1 DEF YearsFromEpoch, DaysFrom
<1> QED
  BY <1>1, <1>2 DEF DatesInit, Counted, Calendar, DayNumber, LastDay, Long

LEMMA NextDayCounted == Counted /\ NextDay => Counted'
<1> SUFFICES ASSUME Counted, NextDay PROVE Counted'
  OBVIOUS
<1>1. year \in Int /\ month \in 1..12 /\ day \in 1..LastDay(year, month) /\ day \in Int
  BY LastDays DEF Counted, Calendar
<1>2. count \in Int /\ count = DayNumber(year, month, day) /\ count' = count + 1
  BY DEF Counted, Calendar, NextDay
<1>3. CASE day < LastDay(year, month) /\ day' = day + 1 /\ UNCHANGED <<year, month>>
  <2>1. DayNumber(year, month, day + 1) = DayNumber(year, month, day) + 1
    BY <1>1, DayAfter
  <2>2. day + 1 \in 1..LastDay(year, month)
    BY <1>1, <1>3, LastDays
  <2> QED
    BY <1>1, <1>2, <1>3, <2>1, <2>2 DEF Counted, Calendar
<1>4. CASE day = LastDay(year, month) /\ month < 12 /\ day' = 1 /\ month' = month + 1 /\ UNCHANGED year
  <2>1. month \in 1..11 /\ month + 1 \in 1..12
    BY <1>1, <1>4
  <2>2. DayNumber(year, month + 1, 1) = DayNumber(year, month, day) + 1
    BY <1>1, <1>4, <2>1, MonthAfter
  <2>3. 1 \in 1..LastDay(year, month + 1)
    BY <1>1, <2>1, LastDays
  <2> QED
    BY <1>1, <1>2, <1>4, <2>1, <2>2, <2>3 DEF Counted, Calendar
<1>5. CASE day = LastDay(year, month) /\ month = 12 /\ day' = 1 /\ month' = 1 /\ year' = year + 1
  <2>1. day = 31
    BY <1>5 DEF LastDay, Long
  <2>2. DayNumber(year + 1, 1, 1) = DayNumber(year, month, day) + 1
    BY <1>1, <1>5, <2>1, NewYear
  <2>3. 1 \in 1..LastDay(year + 1, 1)
    BY <1>1, LastDays
  <2> QED
    BY <1>1, <1>2, <1>5, <2>2, <2>3 DEF Counted, Calendar
<1> QED
  BY <1>3, <1>4, <1>5 DEF NextDay

LEMMA PreviousDayCounted == Counted /\ PreviousDay => Counted'
<1> SUFFICES ASSUME Counted, PreviousDay PROVE Counted'
  OBVIOUS
<1>1. year \in Int /\ month \in 1..12 /\ day \in 1..LastDay(year, month) /\ day \in Int
  BY LastDays DEF Counted, Calendar
<1>2. count \in Int /\ count = DayNumber(year, month, day) /\ count' = count - 1
  BY DEF Counted, Calendar, PreviousDay
<1>3. CASE day > 1 /\ day' = day - 1 /\ UNCHANGED <<year, month>>
  <2>1. DayNumber(year, month, (day - 1) + 1) = DayNumber(year, month, day - 1) + 1
    BY <1>1, DayAfter
  <2>2. DayNumber(year, month, day - 1) \in Int
    <3>1. day - 1 \in Int
      BY <1>1
    <3> QED
      BY <1>1, <3>1, NumberType
  <2>3. day - 1 \in 1..LastDay(year, month) /\ (day - 1) + 1 = day
    BY <1>1, <1>3, LastDays
  <2>4. DayNumber(year, month, day - 1) = count - 1
    BY <1>2, <2>1, <2>2, <2>3
  <2> QED
    BY <1>1, <1>2, <1>3, <2>3, <2>4 DEF Counted, Calendar
<1>4. CASE day = 1 /\ month > 1 /\ month' = month - 1 /\ day' = LastDay(year, month - 1) /\ UNCHANGED year
  <2>1. month - 1 \in 1..11 /\ month - 1 \in 1..12 /\ (month - 1) + 1 = month
    BY <1>1, <1>4
  <2>2. LastDay(year, month - 1) \in 28..31
    BY <1>1, <2>1, LastDays
  <2>3. DayNumber(year, (month - 1) + 1, 1) = DayNumber(year, month - 1, LastDay(year, month - 1)) + 1
    BY <1>1, <2>1, MonthAfter
  <2>4. DayNumber(year, month - 1, LastDay(year, month - 1)) \in Int
    <3>1. LastDay(year, month - 1) \in Int
      BY <2>2
    <3> QED
      BY <1>1, <2>1, <3>1, NumberType
  <2>5. DayNumber(year, month - 1, LastDay(year, month - 1)) = count - 1
    BY <1>2, <1>4, <2>1, <2>3, <2>4
  <2> QED
    BY <1>1, <1>2, <1>4, <2>1, <2>2, <2>5 DEF Counted, Calendar
<1>5. CASE day = 1 /\ month = 1 /\ month' = 12 /\ day' = 31 /\ year' = year - 1
  <2>1. year - 1 \in Int /\ (year - 1) + 1 = year
    BY <1>1
  <2>2. DayNumber((year - 1) + 1, 1, 1) = DayNumber(year - 1, 12, 31) + 1
    BY <2>1, NewYear
  <2>3. DayNumber(year - 1, 12, 31) \in Int
    BY <2>1, NumberType
  <2>4. DayNumber(year - 1, 12, 31) = count - 1
    BY <1>2, <1>5, <2>1, <2>2, <2>3
  <2>5. LastDay(year - 1, 12) = 31
    BY DEF LastDay, Long
  <2> QED
    BY <1>1, <1>2, <1>5, <2>1, <2>4, <2>5 DEF Counted, Calendar
<1> QED
  BY <1>3, <1>4, <1>5 DEF PreviousDay

(* The cut leaves alone what fits.                                         *)
LEMMA CutFits ==
  ASSUME NEW n \in Int, -Half <= n, n < Half
  PROVE  Cut(n) = n
<1>1. Half \in Int /\ Half > 0
  BY HalfAssumption
<1> DEFINE k == n + Half
<1> DEFINE w == 2 * Half
<1>2. k \in Int /\ w \in Int /\ 0 <= k /\ k < w
  BY <1>1
<1> HIDE DEF k, w
<1>3. k % w = k
  BY <1>2
<1> QED
  BY <1>1, <1>3 DEF Cut, k, w

LEMMA CutRange == ASSUME NEW n \in Int PROVE Cut(n) \in (-Half)..(Half - 1)
<1>1. Half \in Int /\ Half > 0
  BY HalfAssumption
<1> DEFINE k == n + Half
<1> DEFINE w == 2 * Half
<1>2. k \in Int /\ w \in Int /\ w > 0
  BY <1>1
<1> HIDE DEF k, w
<1>3. k % w \in 0..(w - 1)
  BY <1>2
<1> QED
  BY <1>1, <1>3 DEF Cut, w, k

LEMMA CountedExact == Counted => DaysExact
<1> SUFFICES ASSUME Counted, count \in (-Half)..(Half - 1)
             PROVE  DaysSinceEpoch(year, month, day) = count
  BY DEF DaysExact
<1>1. month \in 1..12 /\ day \in 1..31
  BY LastDays DEF Counted, Calendar
<1>2. DaysSinceEpoch(year, month, day) = Cut(DayNumber(year, month, day))
  BY <1>1 DEF DaysSinceEpoch, DayNumber
<1>3. -Half <= count /\ count < Half /\ count \in Int
  BY HalfAssumption
<1> QED
  BY <1>2, <1>3, CutFits DEF Counted

(* The calendar and the numbers are typed, for any year.                   *)
THEOREM DatesTyped == DatesSpec => []DatesTypeOK
<1>1. Counted /\ [DatesNext]_dates => Counted'
  <2>1. Counted /\ UNCHANGED dates => Counted'
    BY DEF dates, Counted, Calendar, LastDay, Long, LeapInCalendar
  <2> QED
    BY <2>1, NextDayCounted, PreviousDayCounted DEF DatesNext
<1>2. Counted => DatesTypeOK
  <2> SUFFICES ASSUME Counted PROVE DaysSinceEpoch(year, month, day) \in (-Half)..(Half - 1)
    BY DEF Counted, DatesTypeOK
  <2>1. year \in Int /\ month \in 1..12 /\ day \in 1..31 /\ day \in Int
    BY LastDays DEF Counted, Calendar
  <2>2. DaysSinceEpoch(year, month, day) = Cut(DayNumber(year, month, day))
    BY <2>1 DEF DaysSinceEpoch, DayNumber
  <2>3. DayNumber(year, month, day) \in Int
    BY <2>1, NumberType
  <2> QED
    BY <2>2, <2>3, CutRange
<1> QED
  BY <1>1, <1>2, FirstDay, PTL DEF DatesSpec

(* The number days_since_epoch gives a date is the number of days from     *)
(* 1970-01-01 in the calendar, for any year, month and day, unless it does *)
(* not fit its integer, whatever the width of that.                        *)
THEOREM DaysExactAlways == DatesSpec => []DaysExact
<1>1. Counted /\ [DatesNext]_dates => Counted'
  <2>1. Counted /\ UNCHANGED dates => Counted'
    BY DEF dates, Counted, Calendar, LastDay, Long, LeapInCalendar
  <2> QED
    BY <2>1, NextDayCounted, PreviousDayCounted DEF DatesNext
<1> QED
  BY <1>1, FirstDay, CountedExact, PTL DEF DatesSpec

-----------------------------------------------------------------------------

(* Timestamps.  Numbers of digits are recursive: what is proved of them is *)
(* proved by induction over sets of naturals.                              *)
LEMMA SmallestOf ==
  ASSUME NEW T \in SUBSET Nat, T # {}
  PROVE  \E n \in T : \A m \in T : n <= m
<1> DEFINE upto == {0..n : n \in T}
<1>1. upto \subseteq FiniteSubsetsOf(Nat)
  <2> SUFFICES ASSUME NEW n \in T PROVE 0..n \in FiniteSubsetsOf(Nat)
    OBVIOUS
  <2>1. IsFiniteSet(0..n)
    BY FS_Interval
  <2> QED
    BY <2>1 DEF FiniteSubsetsOf
<1>2. PICK x \in upto : \A y \in upto : <<y, x>> \notin StrictSubsetOrdering(Nat)
  <2>1. upto # {}
    OBVIOUS
  <2> HIDE DEF upto
  <2> QED
    BY <1>1, <2>1, WFMin, FS_StrictSubsetOrderingWellFounded
<1>3. PICK n \in T : x = 0..n
  OBVIOUS
<1>4. ASSUME NEW m \in T, m < n PROVE FALSE
  <2>1. <<0..m, 0..n>> \in StrictSubsetOrdering(Nat)
    <3>1. /\ 0..m \in SUBSET Nat /\ 0..n \in SUBSET Nat /\ 0..m \subseteq 0..n
          /\ n \in 0..n /\ n \notin 0..m
      BY <1>4
    <3>2. 0..m # 0..n
      BY <3>1
    <3> QED
      BY <3>1, <3>2, Zenon DEF StrictSubsetOrdering
  <2> QED
    BY <1>2, <1>3, <2>1
<1> QED
  BY <1>4

LEMMA Induction ==
  ASSUME NEW S, 0 \in S, \A n \in Nat : n \in S => n + 1 \in S
  PROVE  Nat \subseteq S
<1> DEFINE T == Nat \ S
<1> SUFFICES ASSUME T # {} PROVE FALSE
  OBVIOUS
<1>1. PICK n \in T : \A m \in T : n <= m
  BY SmallestOf
<1>2. n - 1 \in Nat /\ n - 1 \in S
  BY <1>1
<1> QED
  BY <1>2

(* Every step of a recursion leads to the next value, so there is a        *)
(* function of all of them.                                                *)
Leads(first, step, f) == f[0] = first /\ \A n \in Nat : f[n + 1] = step[<<n, f[n]>>]

LEMMA Recursion ==
  ASSUME NEW V, NEW first, first \in V, NEW step, step \in [Nat \X V -> V]
  PROVE  \E f \in [Nat -> V] : Leads(first, step, f)
<1> DEFINE Good(n, f) == f[0] = first /\ \A i \in 0..n : i < n => f[i + 1] = step[<<i, f[i]>>]
           upto(n) == {f \in [0..n -> V] : Good(n, f)}
           S == {n \in Nat : upto(n) # {}}
           R == {n \in Nat : \A m \in Nat : n <= m =>
                   \A f \in upto(n), g \in upto(m) : f[n] = g[n]}
<1>1. Nat \subseteq S
  <2>1. 0 \in S
    <3>1. [i \in 0..0 |-> first] \in upto(0)
      OBVIOUS
    <3> QED
      BY <3>1
  <2>2. ASSUME NEW n \in Nat, n \in S PROVE n + 1 \in S
    <3>1. PICK f \in upto(n) : TRUE
      BY <2>2
    <3> DEFINE g == [i \in 0..(n + 1) |-> IF i <= n THEN f[i] ELSE step[<<n, f[n]>>]]
    <3>2. f[n] \in V /\ step[<<n, f[n]>>] \in V
      OBVIOUS
    <3>3. g \in [0..(n + 1) -> V]
      BY <3>1, <3>2
    <3>4. g[0] = first
      BY <3>1
    <3>5. ASSUME NEW i \in 0..(n + 1), i < n + 1 PROVE g[i + 1] = step[<<i, g[i]>>]
      <4>1. i \in 0..n /\ g[i] = f[i]
        BY <3>5
      <4>2. CASE i < n
        <5>1. f[i + 1] = step[<<i, f[i]>>] /\ g[i + 1] = f[i + 1]
          BY <3>1, <4>1, <4>2
        <5> QED
          BY <4>1, <5>1
      <4>3. CASE i = n
        BY <4>1, <4>3
      <4> QED
        BY <4>1, <4>2, <4>3
    <3> HIDE DEF g
    <3>6. g \in upto(n + 1)
      BY <3>3, <3>4, <3>5
    <3> QED
      BY <3>6
  <2> HIDE DEF S
  <2> QED
    BY <2>1, <2>2, Induction
<1>2. Nat \subseteq R
  <2>1. 0 \in R
    OBVIOUS
  <2>2. ASSUME NEW n \in Nat, n \in R PROVE n + 1 \in R
    <3> SUFFICES ASSUME NEW m \in Nat, n + 1 <= m, NEW f \in upto(n + 1), NEW g \in upto(m)
                 PROVE  f[n + 1] = g[n + 1]
      OBVIOUS
    <3> DEFINE h == [i \in 0..n |-> f[i]]
    <3>1. h \in [0..n -> V] /\ Good(n, h)
      OBVIOUS
    <3>2. h[n] = g[n]
      <4>1. h \in upto(n) /\ n <= m
        BY <3>1
      <4> HIDE DEF upto, h
      <4> QED
        BY <2>2, <4>1
    <3>3. f[n] = g[n]
      BY <3>2
    <3>4. f[n + 1] = step[<<n, f[n]>>] /\ g[n + 1] = step[<<n, g[n]>>]
      OBVIOUS
    <3> QED
      BY <3>3, <3>4
  <2> HIDE DEF R
  <2> QED
    BY <2>1, <2>2, Induction
<1> DEFINE some(n) == CHOOSE f \in upto(n) : TRUE
           all == [n \in Nat |-> some(n)[n]]
<1>3. \A n \in Nat : some(n) \in upto(n)
  <2> SUFFICES ASSUME NEW n \in Nat PROVE some(n) \in upto(n)
    OBVIOUS
  <2>1. upto(n) # {}
    BY <1>1
  <2> HIDE DEF upto
  <2> QED
    BY <2>1
<1> HIDE DEF some, R, S
<1>4. all \in [Nat -> V]
  BY <1>3
<1>5. all[0] = first
  BY <1>3
<1>6. ASSUME NEW n \in Nat PROVE all[n + 1] = step[<<n, all[n]>>]
  <2>1. some(n) \in upto(n) /\ some(n + 1) \in upto(n + 1)
    BY <1>3
  <2>2. some(n)[n] = some(n + 1)[n]
    <3>1. n \in R /\ n <= n + 1
      BY <1>2
    <3> HIDE DEF upto
    <3> QED
      BY <2>1, <3>1 DEF R
  <2>3. some(n + 1)[n + 1] = step[<<n, some(n + 1)[n]>>]
    BY <2>1
  <2> QED
    BY <2>2, <2>3
<1> QED
  BY <1>4, <1>5, <1>6 DEF Leads

(* Powers of ten.                                                          *)
LEMMA Tens ==
  /\ TenTo[0] = 1
  /\ \A n \in Nat : TenTo[n + 1] = 10 * TenTo[n]
  /\ \A n \in Nat : TenTo[n] \in Nat /\ TenTo[n] > 0
<1> DEFINE step == [x \in Nat \X Nat |-> 10 * x[2]]
           of(f) == [n \in Nat |-> IF n = 0 THEN 1 ELSE 10 * f[n - 1]]
<1>1. step \in [Nat \X Nat -> Nat]
  OBVIOUS
<1>2. PICK f \in [Nat -> Nat] : f[0] = 1 /\ \A n \in Nat : f[n + 1] = step[<<n, f[n]>>]
  <2>1. 1 \in Nat
    OBVIOUS
  <2> HIDE DEF step
  <2>2. \E f \in [Nat -> Nat] : Leads(1, step, f)
    BY <1>1, <2>1, Recursion
  <2> QED
    BY <2>2 DEF Leads
<1>3. f = of(f)
  <2>1. \A n \in Nat : f[n + 1] = 10 * f[n]
    BY <1>2
  <2> SUFFICES ASSUME NEW n \in Nat PROVE f[n] = of(f)[n]
    OBVIOUS
  <2>2. CASE n = 0
    BY <1>2, <2>2
  <2>3. CASE n # 0
    <3>1. n - 1 \in Nat /\ (n - 1) + 1 = n
      BY <2>3
    <3> QED
      BY <2>1, <2>3, <3>1
  <2> QED
    BY <2>2, <2>3
<1>4. TenTo = of(TenTo)
  BY <1>3, Zenon DEF TenTo
<1>5. TenTo[0] = 1 /\ \A n \in Nat : TenTo[n + 1] = 10 * TenTo[n]
  <2>1. \A n \in Nat : TenTo[n] = IF n = 0 THEN 1 ELSE 10 * TenTo[n - 1]
    BY <1>4
  <2>2. \A n \in Nat : n + 1 # 0 /\ n + 1 \in Nat /\ (n + 1) - 1 = n
    OBVIOUS
  <2> QED
    BY <2>1, <2>2
<1> DEFINE S == {n \in Nat : TenTo[n] \in Nat /\ TenTo[n] > 0}
<1>6. Nat \subseteq S
  <2>1. 0 \in S /\ \A n \in Nat : n \in S => n + 1 \in S
    BY <1>5
  <2> HIDE DEF S
  <2> QED
    BY <2>1, Induction
<1> QED
  BY <1>5, <1>6

(* The number of the first digits, after any count of them: more digits    *)
(* than there are would be zeros.                                          *)
IsNumber(f, digits) ==
  /\ f \in [Nat -> Int] /\ f[0] = 0
  /\ \A i \in 0..(Len(digits) - 1) : f[i + 1] = 10 * f[i] + digits[i + 1]
  /\ \A i \in Nat : i >= Len(digits) => f[i + 1] = 10 * f[i]

LEMMA Numbers == ASSUME NEW digits \in Seq(Int) PROVE \E f : IsNumber(f, digits)
<1> DEFINE digit(i) == IF i < Len(digits) THEN digits[i + 1] ELSE 0
           step == [x \in Nat \X Int |-> 10 * x[2] + digit(x[1])]
<1>1. \A i \in Nat : digit(i) \in Int
  <2> SUFFICES ASSUME NEW i \in Nat, i < Len(digits) PROVE digits[i + 1] \in Int
    OBVIOUS
  <2>1. i + 1 \in 1..Len(digits)
    OBVIOUS
  <2> QED
    BY <2>1, ElementOfSeq
<1> HIDE DEF digit
<1>2. step \in [Nat \X Int -> Int]
  BY <1>1
<1>3. PICK f \in [Nat -> Int] : f[0] = 0 /\ \A i \in Nat : f[i + 1] = step[<<i, f[i]>>]
  <2>1. 0 \in Int
    OBVIOUS
  <2> HIDE DEF step
  <2>2. \E f \in [Nat -> Int] : Leads(0, step, f)
    BY <1>2, <2>1, Recursion
  <2> QED
    BY <2>2 DEF Leads
<1>4. \A i \in Nat : f[i + 1] = 10 * f[i] + digit(i)
  BY <1>3
<1>5. IsNumber(f, digits)
  <2>1. \A i \in 0..(Len(digits) - 1) : i \in Nat /\ digit(i) = digits[i + 1]
    BY DEF digit
  <2>2. \A i \in Nat : i >= Len(digits) => digit(i) = 0
    BY DEF digit
  <2>3. f \in [Nat -> Int] /\ f[0] = 0
    BY <1>3
  <2>4. \A i \in 0..(Len(digits) - 1) : f[i + 1] = 10 * f[i] + digits[i + 1]
    BY <1>4, <2>1
  <2>5. \A i \in Nat : i >= Len(digits) => f[i + 1] = 10 * f[i]
    <3> SUFFICES ASSUME NEW i \in Nat, i >= Len(digits) PROVE f[i + 1] = 10 * f[i]
      OBVIOUS
    <3>1. f[i + 1] = 10 * f[i] + 0
      BY <1>4, <2>2
    <3> QED
      BY <3>1
  <2> QED
    BY <2>3, <2>4, <2>5 DEF IsNumber
<1> QED
  BY <1>5

LEMMA DecimalIs ==
  ASSUME NEW digits \in Seq(Int), NEW f \in [Nat -> Int], f[0] = 0,
         \A i \in 0..(Len(digits) - 1) : f[i + 1] = 10 * f[i] + digits[i + 1]
  PROVE  Decimal(digits) = f[Len(digits)]
<1> DEFINE n == Len(digits)
           of(g) == [i \in 0..n |-> IF i = 0 THEN 0 ELSE 10 * g[i - 1] + digits[i]]
           chosen == CHOOSE g : g = of(g)
           start == [i \in 0..n |-> f[i]]
<1>1. n \in Nat
  OBVIOUS
<1>2. start = of(start)
  <2> SUFFICES ASSUME NEW i \in 0..n PROVE start[i] = of(start)[i]
    OBVIOUS
  <2>1. CASE i = 0
    BY <2>1
  <2>2. CASE i # 0
    <3>1. i - 1 \in 0..(n - 1) /\ (i - 1) + 1 = i /\ i - 1 \in 0..n
      BY <1>1, <2>2
    <3>2. f[i] = 10 * f[i - 1] + digits[i]
      BY <3>1
    <3> QED
      BY <2>2, <3>1, <3>2
  <2> QED
    BY <2>1, <2>2
<1>3. chosen = of(chosen)
  <2> HIDE DEF of, start
  <2> QED
    BY <1>2
<1>4. Decimal(digits) = chosen[n]
  BY DEF Decimal
<1> HIDE DEF chosen
<1>5. \A i \in 0..n : chosen[i] = IF i = 0 THEN 0 ELSE 10 * chosen[i - 1] + digits[i]
  BY <1>3
<1> DEFINE S == {i \in Nat : i <= n => chosen[i] = f[i]}
<1>6. Nat \subseteq S
  <2>1. 0 \in S
    BY <1>1, <1>5
  <2>2. ASSUME NEW i \in Nat, i \in S PROVE i + 1 \in S
    <3> SUFFICES ASSUME i + 1 <= n PROVE chosen[i + 1] = f[i + 1]
      OBVIOUS
    <3>1. i \in 0..(n - 1) /\ i + 1 \in 0..n /\ i + 1 # 0 /\ (i + 1) - 1 = i
      BY <1>1
    <3>2. chosen[i] = f[i]
      BY <1>1, <2>2, <3>1
    <3>3. chosen[i + 1] = 10 * chosen[i] + digits[i + 1]
      BY <1>5, <3>1
    <3> QED
      BY <3>1, <3>2, <3>3
  <2> HIDE DEF S
  <2> QED
    BY <2>1, <2>2, Induction
<1>7. chosen[n] = f[n]
  BY <1>1, <1>6
<1> QED
  BY <1>4, <1>7

(* What follows the first digits adds less than a unit of their last, and  *)
(* nothing where there are no more digits.                                 *)
LEMMA More ==
  ASSUME NEW digits \in Seq(0..9), NEW f, IsNumber(f, digits), NEW i \in Nat, NEW k \in Nat
  PROVE  /\ f[i] * TenTo[k] <= f[i + k] /\ f[i + k] < (f[i] + 1) * TenTo[k]
         /\ i >= Len(digits) => f[i + k] = f[i] * TenTo[k]
<1> DEFINE Good(j) == /\ f[i] * TenTo[j] <= f[i + j] /\ f[i + j] < (f[i] + 1) * TenTo[j]
                      /\ i >= Len(digits) => f[i + j] = f[i] * TenTo[j]
           S == {j \in Nat : Good(j)}
<1>0. \A j \in Nat : f[j] \in Int
  BY DEF IsNumber
<1>1. 0 \in S
  <2>1. TenTo[0] = 1 /\ f[i] \in Int
    BY <1>0, Tens
  <2>2. i + 0 = i /\ f[i] * 1 = f[i] /\ (f[i] + 1) * 1 = f[i] + 1
    BY <2>1
  <2> QED
    BY <2>1, <2>2
<1>2. ASSUME NEW j \in Nat, j \in S PROVE j + 1 \in S
  <2> DEFINE t == TenTo[j]
             x == f[i]
             y == f[i + j]
  <2>1. t \in Nat /\ TenTo[j + 1] = 10 * t /\ x \in Int /\ y \in Int
    <3>1. TenTo[j] \in Nat /\ TenTo[j + 1] = 10 * TenTo[j]
      BY Tens
    <3>2. i + j \in Nat
      OBVIOUS
    <3>3. f[i] \in Int /\ f[i + j] \in Int
      BY <1>0, <3>2
    <3> QED
      BY <3>1, <3>3
  <2>2. x * t <= y /\ y < (x + 1) * t /\ (i >= Len(digits) => y = x * t)
    BY <1>2
  <2>3. PICK d \in 0..9 : f[i + (j + 1)] = 10 * y + d /\ (i >= Len(digits) => d = 0)
    <3>1. i + (j + 1) = (i + j) + 1 /\ i + j \in Nat
      OBVIOUS
    <3>2. CASE i + j < Len(digits)
      <4>1. i + j \in 0..(Len(digits) - 1) /\ (i + j) + 1 \in 1..Len(digits)
        BY <3>2
      <4>2. digits[(i + j) + 1] \in 0..9
        BY <4>1, ElementOfSeq
      <4>3. f[(i + j) + 1] = 10 * y + digits[(i + j) + 1]
        BY <4>1 DEF IsNumber
      <4> QED
        BY <3>1, <3>2, <4>2, <4>3
    <3>3. CASE i + j >= Len(digits)
      <4>1. f[(i + j) + 1] = 10 * y + 0
        BY <2>1, <3>1, <3>3 DEF IsNumber
      <4> QED
        BY <3>1, <4>1
    <3> QED
      BY <3>2, <3>3
  <2> HIDE DEF t, x, y
  <2>4. x * (10 * t) = 10 * (x * t) /\ (x + 1) * (10 * t) = 10 * ((x + 1) * t)
    BY <2>1
  <2>5. x * t \in Int /\ (x + 1) * t \in Int
    BY <2>1
  <2> DEFINE low == x * t
             high == (x + 1) * t
  <2> HIDE DEF low, high
  <2>6. /\ 10 * low <= 10 * y + d /\ 10 * y + d < 10 * high
        /\ i >= Len(digits) => 10 * y + d = 10 * low
    BY <2>1, <2>2, <2>3, <2>5 DEF low, high
  <2> QED
    BY <2>1, <2>3, <2>4, <2>6 DEF low, high, x
<1> HIDE DEF S
<1>3. Nat \subseteq S
  BY <1>1, <1>2, Induction
<1> QED
  BY <1>3 DEF S

LEMMA TensSum == ASSUME NEW m \in Nat, NEW k \in Nat PROVE TenTo[m + k] = TenTo[m] * TenTo[k]
<1> DEFINE S == {j \in Nat : TenTo[m + j] = TenTo[m] * TenTo[j]}
<1>1. 0 \in S
  <2>1. TenTo[m] \in Nat /\ TenTo[0] = 1 /\ m + 0 = m
    BY Tens
  <2> QED
    BY <2>1
<1>2. ASSUME NEW j \in Nat, j \in S PROVE j + 1 \in S
  <2>1. m + (j + 1) = (m + j) + 1 /\ m + j \in Nat
    OBVIOUS
  <2>2. TenTo[(m + j) + 1] = 10 * TenTo[m + j] /\ TenTo[j + 1] = 10 * TenTo[j]
    BY <2>1, Tens
  <2>3. TenTo[m] \in Nat /\ TenTo[j] \in Nat /\ TenTo[m + j] = TenTo[m] * TenTo[j]
    BY <1>2, Tens
  <2>4. 10 * (TenTo[m] * TenTo[j]) = TenTo[m] * (10 * TenTo[j])
    BY <2>3
  <2> QED
    BY <2>1, <2>2, <2>3, <2>4
<1> HIDE DEF S
<1>3. Nat \subseteq S
  BY <1>1, <1>2, Induction
<1> QED
  BY <1>3 DEF S

LEMMA Scaled ==
  ASSUME NEW a \in Int, NEW b \in Int, NEW c \in Int, c > 0
  PROVE  (a <= b => a * c <= b * c) /\ (a < b => a * c < b * c)
OBVIOUS

(* The fraction that is read is the text's, cut after its digits.          *)
LEMMA FractionExact ==
  ASSUME NEW digits \in Seq(0..9)
  PROVE  LET scale == TenTo[Len(digits)] IN
         /\ Fraction(digits) \in 0..(Unit - 1)
         /\ Fraction(digits) * scale <= Decimal(digits) * Unit
         /\ Decimal(digits) * Unit < (Fraction(digits) + 1) * scale
<1> DEFINE n == Len(digits)
           padded == [i \in 1..Digits |-> IF i <= Len(digits) THEN digits[i] ELSE 0]
<1>1. Digits \in Nat /\ n \in Nat /\ NoDay \notin Int
  BY TimesAssumption
<1>2. digits \in Seq(Int) /\ \A i \in 1..n : digits[i] \in 0..9
  BY ElementOfSeq
<1>3. PICK g : IsNumber(g, digits)
  BY <1>2, Numbers
<1>4. Decimal(digits) = g[n]
  BY <1>2, <1>3, DecimalIs DEF IsNumber
<1>5. /\ padded \in Seq(0..9) /\ padded \in Seq(Int) /\ Len(padded) = Digits
      /\ \A i \in 1..Digits : padded[i] \in 0..9 /\ padded[i] = IF i <= n THEN digits[i] ELSE 0
  <2>1. \A i \in 1..Digits : (IF i <= n THEN digits[i] ELSE 0) \in 0..9
    BY <1>1, <1>2
  <2>2. padded \in [1..Digits -> 0..9]
    BY <2>1
  <2>3. padded \in Seq(0..9) /\ Len(padded) = Digits
    BY <1>1, <2>2
  <2>4. padded \in Seq(Int)
    BY <1>1, <2>2
  <2> QED
    BY <2>1, <2>3, <2>4
<1>6. Fraction(digits) = Decimal(padded)
  <2>1. NoDay \notin {padded[i] : i \in 1..Digits}
    BY <1>1, <1>5
  <2> QED
    BY <2>1 DEF Fraction
<1> HIDE DEF padded
<1>7. Decimal(padded) = g[Digits]
  <2>1. \A i \in 0..(Len(padded) - 1) : g[i + 1] = 10 * g[i] + padded[i + 1]
    <3> SUFFICES ASSUME NEW i \in 0..(Digits - 1) PROVE g[i + 1] = 10 * g[i] + padded[i + 1]
      BY <1>5
    <3>1. i + 1 \in 1..Digits /\ i \in Nat
      BY <1>1
    <3>2. g[i] \in Int
      BY <1>3, <3>1 DEF IsNumber
    <3>3. CASE i < n
      <4>1. padded[i + 1] = digits[i + 1]
        BY <1>1, <1>5, <3>1, <3>3
      <4>2. i \in 0..(n - 1)
        BY <1>1, <3>1, <3>3
      <4>3. g[i + 1] = 10 * g[i] + digits[i + 1]
        BY <1>3, <4>2 DEF IsNumber
      <4> QED
        BY <4>1, <4>3
    <3>4. CASE i >= n
      <4>1. padded[i + 1] = 0
        BY <1>1, <1>5, <3>1, <3>4
      <4>2. g[i + 1] = 10 * g[i]
        BY <1>3, <3>1, <3>4 DEF IsNumber
      <4> QED
        BY <3>2, <4>1, <4>2
    <3> QED
      BY <1>1, <3>1, <3>3, <3>4
  <2>2. g \in [Nat -> Int] /\ g[0] = 0
    BY <1>3 DEF IsNumber
  <2>3. Decimal(padded) = g[Len(padded)]
    BY <1>5, <2>1, <2>2, DecimalIs
  <2> QED
    BY <1>5, <2>3
<1> DEFINE f == g[Digits]
           d == g[n]
           u == TenTo[Digits]
           s == TenTo[n]
<1>8. f \in Int /\ d \in Int /\ u \in Nat /\ u > 0 /\ s \in Nat /\ s > 0
  <2>1. \A i \in Nat : g[i] \in Int
    BY <1>3 DEF IsNumber
  <2> QED
    BY <1>1, <2>1, Tens
<1>9. f \in 0..(u - 1)
  <2>1. g[0] * TenTo[Digits] <= g[0 + Digits] /\ g[0 + Digits] < (g[0] + 1) * TenTo[Digits]
    BY <1>1, <1>3, More
  <2>2. g[0] = 0 /\ 0 + Digits = Digits
    BY <1>1, <1>3 DEF IsNumber
  <2>3. 0 * u = 0 /\ (0 + 1) * u = u
    BY <1>8
  <2> QED
    BY <1>8, <2>1, <2>2, <2>3
<1>10. f * s <= d * u /\ d * u < (f + 1) * s
  <2>1. CASE Digits <= n
    <3> DEFINE k == n - Digits
               r == TenTo[k]
    <3>1. k \in Nat /\ Digits + k = n
      BY <1>1, <2>1
    <3>2. f * r <= d /\ d < (f + 1) * r
      <4> HIDE DEF k
      <4>1. g[Digits] * TenTo[k] <= g[Digits + k] /\ g[Digits + k] < (g[Digits] + 1) * TenTo[k]
        BY <1>1, <1>3, <3>1, More
      <4> QED
        BY <3>1, <4>1
    <3>3. s = u * r /\ r \in Nat
      <4> HIDE DEF k
      <4> QED
        BY <1>1, <3>1, TensSum, Tens
    <3> HIDE DEF k, r, f, d, u, s
    <3>4. f * r \in Int /\ (f + 1) * r \in Int
      BY <1>8, <3>3
    <3>5. (f * r) * u <= d * u /\ d * u < ((f + 1) * r) * u
      BY <1>8, <3>2, <3>4, Scaled
    <3>6. (f * r) * u = f * (u * r) /\ ((f + 1) * r) * u = (f + 1) * (u * r)
      BY <1>8, <3>3
    <3> QED
      BY <3>3, <3>5, <3>6
  <2>2. CASE n < Digits
    <3> DEFINE k == Digits - n
               r == TenTo[k]
    <3>1. k \in Nat /\ n + k = Digits
      BY <1>1, <2>2
    <3>2. f = d * r
      <4> HIDE DEF k
      <4>1. g[n + k] = g[n] * TenTo[k]
        <5>1. n >= Len(digits) /\ n \in Nat
          BY <1>1
        <5> HIDE DEF n
        <5> QED
          BY <1>3, <3>1, <5>1, More
      <4> QED
        BY <3>1, <4>1
    <3>3. u = s * r /\ r \in Nat
      <4> HIDE DEF k
      <4> QED
        BY <1>1, <3>1, TensSum, Tens
    <3> HIDE DEF k, r, f, d, u, s
    <3>4. (d * r) * s = d * (s * r)
      BY <1>8, <3>3
    <3>5. f * s = d * u
      BY <3>2, <3>3, <3>4
    <3>6. (f + 1) * s = f * s + s
      BY <1>8
    <3>7. f * s \in Int
      BY <1>8
    <3> QED
      BY <1>8, <3>5, <3>6, <3>7
  <2> QED
    BY <1>1, <2>1, <2>2
<1> QED
  BY <1>4, <1>6, <1>7, <1>9, <1>10 DEF Unit

(* A time within reach fits its integer.                                   *)
IsWithinReach(second) == second \in Int /\ -(Reach * 86400) <= second /\ second < Reach * 86400

LEMMA WithinReach ==
  ASSUME NEW second, IsWithinReach(second), NEW f \in 0..(Unit - 1)
  PROVE  CutLong(second * Unit + f) = second * Unit + f
<1> DEFINE q == HalfLong \div Unit
           u == Unit
           h == HalfLong
<1>1. u \in Nat /\ u > 0 /\ h \in Nat /\ h > 0
  BY TimesAssumption, Tens DEF Unit
<1>2. q \in Nat /\ q * u <= h
  <2> HIDE DEF u, h
  <2>1. h \div u \in Nat /\ (h \div u) * u <= h
    BY <1>1
  <2> QED
    BY <2>1 DEF u, h
<1>3. Reach * 86400 <= q /\ Reach \in Nat
  <2> HIDE DEF q
  <2>1. (q \div 86400) * 86400 <= q /\ q \div 86400 \in Nat
    BY <1>2
  <2> QED
    BY <2>1 DEF Reach, q
<1>4. second \in Int /\ second + 1 <= q /\ -q <= second
  <2> HIDE DEF q
  <2> QED
    BY <1>2, <1>3 DEF IsWithinReach
<1> HIDE DEF q, h, u
<1>5. (second + 1) * u <= q * u /\ (-q) * u <= second * u
  BY <1>1, <1>2, <1>4, Scaled
<1>6. (second + 1) * u = second * u + u /\ (-q) * u = -(q * u) /\ second * u \in Int /\ q * u \in Int
  BY <1>1, <1>2, <1>4
<1> DEFINE n == second * u + f
<1>7. f \in 0..(u - 1)
  BY DEF u
<1>8. n \in Int /\ -h <= n /\ n < h
  BY <1>1, <1>2, <1>5, <1>6, <1>7
<1> DEFINE k == n + h
           w == 2 * h
<1>9. k \in Int /\ w \in Int /\ 0 <= k /\ k < w
  BY <1>1, <1>8
<1>10. k % w = k
  <2> HIDE DEF k, w
  <2> QED
    BY <1>9
<1>11. CutLong(n) = (k % w) - h
  BY DEF CutLong, h
<1> HIDE DEF n
<1>12. CutLong(n) = n
  BY <1>1, <1>8, <1>10, <1>11
<1> QED
  BY <1>12 DEF n, u

LEMMA ReachFits == Reach \in Int /\ Reach <= Half
<1>1. Unit \in Nat /\ Unit > 0 /\ HalfLong \in Nat /\ Reach <= Half
  BY TimesAssumption, Tens DEF Unit
<1>2. HalfLong \div Unit \in Int
  BY <1>1
<1>3. (HalfLong \div Unit) \div 86400 \in Int
  BY <1>2
<1> QED
  BY <1>1, <1>3 DEF Reach

TimeOf(days, seconds, f) == (days * 86400 + seconds) * Unit + f

LEMMA FractionLeft ==
  ASSUME Unit \in Nat, NEW d \in Int, NEW s \in Int, NEW f \in Int
  PROVE  (TimeOf(d, s, f) - d * 86400 * Unit) - s * Unit = f
<1> DEFINE u == Unit
<1>1. u \in Int
  OBVIOUS
<1> HIDE DEF u
<1>2. (d * 86400 + s) * u = d * 86400 * u + s * u
  BY <1>1
<1>3. d * 86400 * u \in Int /\ s * u \in Int
  BY <1>1
<1>4. (((d * 86400 + s) * u + f) - d * 86400 * u) - s * u = f
  BY <1>2, <1>3
<1> QED
  BY <1>4 DEF TimeOf, u

LEMMA Distributed ==
  ASSUME Unit \in Nat, NEW d \in Int, NEW h \in Int, NEW m \in Int, NEW s \in Int
  PROVE  d * 86400 * Unit + h * 3600 * Unit + m * 60 * Unit + s * Unit
           = (d * 86400 + ((h * 60 + m) * 60 + s)) * Unit
<1> DEFINE u == Unit
<1>1. u \in Int
  OBVIOUS
<1> HIDE DEF u
<1>2. d * 86400 * u + h * 3600 * u + m * 60 * u + s * u = (d * 86400 + ((h * 60 + m) * 60 + s)) * u
  BY <1>1
<1> QED
  BY <1>2 DEF u

(* The time of a clock, in a day within reach.                             *)
Added(c, t, f) ==
  CutLong(c * 86400 * Unit + t.hour * 3600 * Unit + t.minute * 60 * Unit + t.second * Unit + f)

LEMMA ClockTime ==
  ASSUME NEW t, OnClock(t), Unit \in Nat, NEW c \in Int, Reach \in Int, -Reach <= c, c < Reach,
         NEW f \in 0..(Unit - 1)
  PROVE  (Added(c, t, f) - c * 86400 * Unit) - Seconds(t) * Unit = f
<1> DEFINE h == t.hour
           m == t.minute
           s == t.second
           k == (h * 60 + m) * 60 + s
<1>1. h \in 0..23 /\ m \in 0..59 /\ s \in 0..59
  BY DEF OnClock
<1>2. Seconds(t) = k
  BY DEF Seconds
<1> HIDE DEF h, m, s
<1>3. k \in Int /\ 0 <= k /\ k < 86400
  BY <1>1
<1>4. c * 86400 * Unit + h * 3600 * Unit + m * 60 * Unit + s * Unit = (c * 86400 + k) * Unit
  BY <1>1, Distributed
<1> DEFINE second == c * 86400 + k
<1>5. second \in Int /\ -(Reach * 86400) <= second /\ second < Reach * 86400
  <2> HIDE DEF k
  <2> QED
    BY <1>3
<1> HIDE DEF k, second
<1>6. CutLong(second * Unit + f) = second * Unit + f
  <2>1. IsWithinReach(second)
    BY <1>5 DEF IsWithinReach
  <2> QED
    BY <2>1, WithinReach
<1>7. (TimeOf(c, k, f) - c * 86400 * Unit) - k * Unit = f
  BY <1>3, FractionLeft
<1>8. c * 86400 * Unit + h * 3600 * Unit + m * 60 * Unit + s * Unit + f = TimeOf(c, k, f)
  BY <1>4 DEF TimeOf
<1>9. CutLong(TimeOf(c, k, f)) = TimeOf(c, k, f)
  BY <1>6 DEF second, TimeOf
<1> QED
  BY <1>2, <1>7, <1>8, <1>9 DEF h, m, s, Added

LEMMA CountedInTime == Counted => TimestampsExact
<1> SUFFICES ASSUME Counted, NEW t \in Times, count \in -Reach..Reach - 1
             PROVE  LET n == Timestamp(year, month, day, t)
                        second == (n - count * 86400 * Unit) - Seconds(t) * Unit
                        scale == TenTo[Len(t.fraction)] IN
                    /\ NoDay \in {t.hour, t.minute, t.second} => n = NoDay
                    /\ OnClock(t) /\ InDigits(t.fraction) =>
                         /\ second \in 0..Unit - 1
                         /\ second * scale <= Decimal(t.fraction) * Unit
                         /\ Decimal(t.fraction) * Unit < (second + 1) * scale
  BY DEF TimestampsExact
<1>1. NoDay \in {t.hour, t.minute, t.second} => Timestamp(year, month, day, t) = NoDay
  BY DEF Timestamp
<1>2. ASSUME OnClock(t), InDigits(t.fraction)
      PROVE  /\ t.fraction \in Seq(0..9)
             /\ Fraction(t.fraction) \in 0..(Unit - 1)
             /\ (Timestamp(year, month, day, t) - count * 86400 * Unit) - Seconds(t) * Unit = Fraction(t.fraction)
  <2>1. t.fraction \in Seq(0..9)
    <3>1. t.fraction \in Seq(0..9 \cup {NoDay})
      BY TimesAssumption
    <3>2. \A i \in 1..Len(t.fraction) : t.fraction[i] \in 0..9
      BY <1>2, <3>1, ElementOfSeq DEF InDigits
    <3> QED
      BY <3>1, <3>2
  <2>2. Fraction(t.fraction) \in 0..(Unit - 1)
    BY <2>1, FractionExact
  <2>3. count \in Int /\ DaysSinceEpoch(year, month, day) = count
    <3>1. count \in (-Half)..(Half - 1)
      BY ReachFits, HalfAssumption
    <3> QED
      BY <3>1, CountedExact DEF DaysExact
  <2>4. NoDay \notin Int /\ Unit \in Nat /\ Unit > 0
    BY TimesAssumption, Tens DEF Unit
  <2>5. t.hour \in 0..23 /\ t.minute \in 0..59 /\ t.second \in 0..59 /\ Fraction(t.fraction) \in Int
    BY <1>2, <2>2, <2>4 DEF OnClock
  <2>6. Timestamp(year, month, day, t) = Added(count, t, Fraction(t.fraction))
    <3>1. NoDay \notin {count, t.hour, t.minute, t.second, Fraction(t.fraction)}
      BY <2>3, <2>4, <2>5
    <3> QED
      BY <2>3, <3>1 DEF Timestamp, Added
  <2>7. Reach \in Int /\ -Reach <= count /\ count < Reach
    BY <2>3, ReachFits
  <2> QED
    <3>1. (Added(count, t, Fraction(t.fraction)) - count * 86400 * Unit) - Seconds(t) * Unit = Fraction(t.fraction)
      BY <1>2, <2>2, <2>3, <2>4, <2>7, ClockTime
    <3> QED
      BY <2>1, <2>2, <2>6, <3>1
<1> QED
  BY <1>1, <1>2, FractionExact

(* A timestamp is its day's, its clock's and its fraction's, cut to a      *)
(* unit, for any day within its reach, fraction and number of digits.      *)
THEOREM TimestampsExactAlways == DatesSpec => []TimestampsExact
<1>1. Counted /\ [DatesNext]_dates => Counted'
  <2>1. Counted /\ UNCHANGED dates => Counted'
    BY DEF dates, Counted, Calendar, LastDay, Long, LeapInCalendar
  <2> QED
    BY <2>1, NextDayCounted, PreviousDayCounted DEF DatesNext
<1> QED
  BY <1>1, FirstDay, CountedInTime, PTL DEF DatesSpec

-----------------------------------------------------------------------------

Exact(t) == t.yes = t.predicate.keeps /\ t.no = Negated(t.predicate).keeps

Good(t) ==
  /\ t \in Term
  /\ t.predicate # None => t.yes \subseteq t.predicate.keeps
  /\ t.predicate # None /\ t.form # "other" => Exact(t) /\ Negated(t.predicate) \in Predicate

IInv == stack \in Seq({t \in Term : Good(t)})

(* What a comparison keeps when its operator is negated is the rest of the *)
(* rows that are not NULL (ComparisonOp::negate).                          *)
LEMMA NegateComplements ==
  ASSUME NEW c \in InFile, NEW op \in Ops, NEW v \in Literals
  PROVE /\ Negate(op) \in Ops
        /\ Keeps(c, Negate(op), v) = (Rows \ Nulls(c)) \ Keeps(c, op, v)
<1>1. Negate(op) \in Ops
  BY DEF Negate, Ops
<1>2. ASSUME NEW r \in Rows, r[c] # Null
      PROVE Holds(Negate(op), r[c], v) <=> ~Holds(op, r[c], v)
  <2>1. r[c] \in Int /\ v \in Int
    BY <1>2, RowsAssumption, LiteralsAssumption
  <2> QED
    BY <2>1 DEF Holds, Negate, Ops
<1> QED
  BY <1>1, <1>2 DEF Keeps, Nulls

(* Swapping the sides of a comparison reverses its operator (reverse).     *)
LEMMA ReverseSwaps ==
  ASSUME NEW op \in Ops, NEW a \in Int, NEW b \in Int
  PROVE Reverse(op) \in Ops /\ (Holds(Reverse(op), a, b) <=> Holds(op, b, a))
BY DEF Reverse, Holds, Ops

(* Putting a good term on the stack, in place of none, one or two others.  *)
LEMMA GoodStack ==
  ASSUME IInv, NEW t, Good(t), NEW n \in 0..Len(stack)
  PROVE Append(SubSeq(stack, 1, n), t) \in Seq({u \in Term : Good(u)})
<1>1. t \in {u \in Term : Good(u)}
  BY DEF Good
<1> DEFINE G == {u \in Term : Good(u)}
<1>2. stack \in Seq(G) /\ t \in G
  BY <1>1 DEF IInv
<1> HIDE DEF G
<1>3. SubSeq(stack, 1, n) \in Seq(G)
  BY <1>2
<1>4. Append(SubSeq(stack, 1, n), t) \in Seq(G)
  BY <1>2, <1>3
<1> QED
  BY <1>4 DEF G

LEMMA GoodPushed ==
  ASSUME IInv, NEW t, Good(t), Push(t)
  PROVE IInv'
<1> DEFINE G == {u \in Term : Good(u)}
<1>1. stack \in Seq(G) /\ t \in G
  BY DEF IInv, Good
<1> HIDE DEF G
<1>2. stack' \in Seq(G)
  BY <1>1 DEF Push
<1> QED
  BY <1>2 DEF G, IInv, Good

LEMMA ComparisonTyped ==
  ASSUME NEW c \in InFile, NEW op \in Ops, NEW v \in Literals
  PROVE Comparison(c, op, v) \in Predicate
BY DEF Comparison, Predicate, Keeps

LEMMA CompareGood ==
  ASSUME IInv, NEW c \in Columns, NEW op \in Ops, NEW v \in Literals \cup {Null},
         NEW f \in BOOLEAN, Compare(c, op, v, f)
  PROVE IInv'
<1> DEFINE true(r) == IF f THEN Holds(op, v, r[c]) ELSE Holds(op, r[c], v)
           known == IF v = Null THEN {} ELSE Rows \ Nulls(c)
           o == IF f THEN Reverse(op) ELSE op
           t == [form |-> "comparison",
                 yes |-> {r \in known : true(r)}, no |-> {r \in known : ~true(r)},
                 predicate |-> ComparisonPredicate(c, o, v)]
<1>1. Push(t)
  BY DEF Compare
<1>2. o \in Ops
  BY DEF o, Reverse, Ops
<1>3. t.form = "comparison" /\ t.predicate = ComparisonPredicate(c, o, v)
      /\ t.yes = {r \in known : true(r)} /\ t.no = {r \in known : ~true(r)}
  OBVIOUS
<1>4. t.yes \subseteq Rows /\ t.no \subseteq Rows
  BY <1>3
<1>5. CASE ComparisonPredicate(c, o, v) = None
  <2>1. t \in Term
    BY <1>4, <1>5 DEF Term
  <2> QED
    BY <2>1, <1>1, <1>3, <1>5, GoodPushed DEF Good
<1>6. CASE ComparisonPredicate(c, o, v) # None
  <2>1. c \in InFile /\ v \in Literals /\ v # Null /\ ComparisonPredicate(c, o, v) = Comparison(c, o, v)
    BY <1>6 DEF ComparisonPredicate, Adapted, Representable
  <2>2. t.predicate \in Predicate
    BY <2>1, <1>2, <1>3, ComparisonTyped
  <2>3. t \in Term
    BY <2>2, <1>4 DEF Term
  <2>4. ASSUME NEW r \in Rows, r[c] # Null
        PROVE true(r) <=> Holds(o, r[c], v)
    <3>1. r[c] \in Int /\ v \in Int
      BY <2>1, <2>4, RowsAssumption, LiteralsAssumption
    <3> QED
      BY <3>1, ReverseSwaps
  <2>5. t.yes = Keeps(c, o, v)
    BY <2>4, <2>1, <1>3 DEF Keeps, Nulls
  <2>6. t.no = (Rows \ Nulls(c)) \ Keeps(c, o, v)
    BY <2>4, <2>1, <1>3 DEF Keeps, Nulls
  <2>7. t.predicate # None
    BY <1>6, <1>3
  <2>8. Comparison(c, o, v).keeps = Keeps(c, o, v)
    BY DEF Comparison
  <2>9. Negated(t.predicate) = Comparison(c, Negate(o), v)
    BY <2>1, <1>3, <2>7 DEF Negated, Comparison
  <2>10. Negated(t.predicate) \in Predicate /\ Negated(t.predicate).keeps = Keeps(c, Negate(o), v)
    BY <2>9, <2>1, <1>2, NegateComplements, ComparisonTyped DEF Comparison
  <2>11. Exact(t)
    BY <2>1, <2>5, <2>6, <2>8, <2>10, <1>2, <1>3, NegateComplements DEF Exact
  <2>12. Good(t)
    BY <2>3, <2>5, <2>8, <2>10, <2>11, <2>1, <1>3 DEF Good
  <2> QED
    BY <2>12, <1>1, GoodPushed
<1> QED
  BY <1>5, <1>6

LEMMA NullTestGood ==
  ASSUME IInv, NEW c \in Columns, TestNull(c) \/ TestNotNull(c)
  PROVE IInv'
<1> DEFINE s == [form |-> "null", yes |-> Nulls(c), no |-> Rows \ Nulls(c),
                 predicate |-> IF Adapted(c) THEN IsNull(c) ELSE None]
           t == [form |-> "null", yes |-> Rows \ Nulls(c), no |-> Nulls(c),
                 predicate |-> IF Adapted(c) THEN IsNotNull(c) ELSE None]
<1>1. Nulls(c) \subseteq Rows
  BY DEF Nulls
<1>2. CASE ~Adapted(c)
  <2>1. s \in Term /\ t \in Term
    BY <1>1, <1>2 DEF Term
  <2> QED
    BY <2>1, <1>2, GoodPushed DEF Good, TestNull, TestNotNull
<1>3. CASE Adapted(c)
  <2>1. IsNull(c) \in Predicate /\ IsNotNull(c) \in Predicate
    BY <1>1, <1>3 DEF IsNull, IsNotNull, Predicate, Adapted
  <2>2. Negated(IsNull(c)) = IsNotNull(c) /\ Negated(IsNotNull(c)) = IsNull(c)
    BY <2>1, NoneAssumption DEF Negated, IsNull, IsNotNull
  <2>3. IsNull(c).keeps = Nulls(c) /\ IsNotNull(c).keeps = Rows \ Nulls(c)
    BY DEF IsNull, IsNotNull
  <2>4. s \in Term /\ t \in Term
    BY <1>1, <1>3, <2>1 DEF Term
  <2>5. Exact(s) /\ Exact(t)
    BY <1>3, <2>2, <2>3 DEF Exact
  <2>6. Good(s) /\ Good(t)
    BY <1>3, <2>1, <2>2, <2>3, <2>4, <2>5 DEF Good
  <2> QED
    BY <2>6, GoodPushed DEF TestNull, TestNotNull
<1> QED
  BY <1>2, <1>3

LEMMA BareColumnGood ==
  ASSUME IInv, NEW c \in Flags, BareColumn(c)
  PROVE IInv'
<1> DEFINE t == [form |-> "column", yes |-> Keeps(c, "=", 1), no |-> Keeps(c, "=", 0),
                 predicate |-> Comparison(c, "=", 1)]
<1>1. c \in InFile /\ 1 \in Literals /\ "=" \in Ops
  BY ColumnsAssumption, LiteralsAssumption DEF Ops
<1>2. Push(t)
  BY <1>1 DEF BareColumn, Adapted
<1>3. Comparison(c, "=", 1) \in Predicate
  BY <1>1, ComparisonTyped
<1>4. t \in Term
  BY <1>3 DEF Term, Keeps
<1>5. Negated(Comparison(c, "=", 1)) = Comparison(c, "#", 1)
  BY <1>3, NoneAssumption DEF Negated, Comparison, Negate
<1>6. Keeps(c, "=", 0) = Keeps(c, "#", 1)
  BY RowsAssumption, <1>1 DEF Keeps, Holds
<1>7. Comparison(c, "#", 1) \in Predicate
  BY <1>1, ComparisonTyped DEF Ops
<1>8. Comparison(c, "=", 1).keeps = Keeps(c, "=", 1) /\ Comparison(c, "#", 1).keeps = Keeps(c, "#", 1)
  BY DEF Comparison
<1>9. Exact(t)
  BY <1>5, <1>6, <1>8 DEF Exact
<1>10. Good(t)
  BY <1>4, <1>5, <1>7, <1>8, <1>9 DEF Good
<1> QED
  BY <1>2, <1>10, GoodPushed

LEMMA InGood ==
  ASSUME IInv, NEW c \in Columns, NEW listed \in SUBSET (Literals \cup {Null}),
         NEW negated \in BOOLEAN, In(c, listed, negated)
  PROVE IInv'
<1> DEFINE found == {r \in Rows \ Nulls(c) : r[c] \in listed}
           notFound == IF Null \in listed THEN {} ELSE Rows \ (Nulls(c) \cup found)
           q == InPredicate(c, listed)
           t == [form |-> "other",
                 yes |-> IF negated THEN notFound ELSE found,
                 no |-> IF negated THEN found ELSE notFound,
                 predicate |-> IF negated THEN None ELSE q]
<1>1. Push(t)
  BY DEF In
<1>2. q # None => q \in Predicate /\ found \subseteq q.keeps
  <2>1. SUFFICES ASSUME q # None PROVE q \in Predicate /\ found \subseteq q.keeps
    OBVIOUS
  <2> DEFINE ks == UNION {Keeps(c, "=", v) : v \in listed \ {Null}}
  <2>2. q = [kind |-> "or", keeps |-> ks]
    BY <2>1 DEF InPredicate
  <2>3. ks \subseteq Rows
    BY DEF Keeps
  <2>4. found \subseteq ks
    BY DEF Keeps, Nulls, Holds
  <2> HIDE DEF ks, found
  <2> QED
    BY <2>2, <2>3, <2>4 DEF Predicate
<1>3. found \in SUBSET Rows /\ notFound \in SUBSET Rows
  OBVIOUS
<1> HIDE DEF found, notFound, q
<1>4. t \in Term
  BY <1>2, <1>3 DEF Term
<1>5. t.predicate # None => t.yes \subseteq t.predicate.keeps
  BY <1>2
<1>6. Good(t)
  BY <1>4, <1>5 DEF Good
<1> QED
  BY <1>1, <1>6, GoodPushed

LEMMA OtherGood ==
  ASSUME IInv, NEW u \in Unsupported, Other(u)
  PROVE IInv'
<1> DEFINE t == [form |-> "other", yes |-> u.yes, no |-> u.no, predicate |-> None]
<1>1. Good(t)
  BY UnsupportedAssumption DEF Good, Term
<1> QED
  BY <1>1, GoodPushed DEF Other

(* AND keeps a condition of either side; OR needs one of both.             *)
LEMMA CombinedGood ==
  ASSUME NEW a, NEW b, Good(a), Good(b)
  PROVE /\ Good([form |-> "other", yes |-> a.yes \cap b.yes, no |-> a.no \cup b.no,
                  predicate |-> AndPredicate(a.predicate, b.predicate)])
        /\ Good([form |-> "other", yes |-> a.yes \cup b.yes, no |-> a.no \cap b.no,
                  predicate |-> OrPredicate(a.predicate, b.predicate)])
<1>1. /\ a.yes \in SUBSET Rows /\ a.no \in SUBSET Rows /\ a.predicate \in Predicate \cup {None}
      /\ b.yes \in SUBSET Rows /\ b.no \in SUBSET Rows /\ b.predicate \in Predicate \cup {None}
  BY DEF Good, Term
<1>2. \A p \in Predicate : p.keeps \in SUBSET Rows
  BY DEF Predicate
<1> DEFINE p == AndPredicate(a.predicate, b.predicate)
           q == OrPredicate(a.predicate, b.predicate)
<1>3. p \in Predicate \cup {None} /\ (p # None => a.yes \cap b.yes \subseteq p.keeps)
  <2>1. CASE a.predicate = None \/ b.predicate = None
    BY <2>1, <1>1 DEF AndPredicate, Good
  <2>2. CASE a.predicate # None /\ b.predicate # None
    <3> DEFINE k == a.predicate.keeps \cap b.predicate.keeps
    <3>1. k \in SUBSET Rows /\ a.yes \cap b.yes \subseteq k
      BY <2>2, <1>1, <1>2 DEF Good
    <3>2. p = [kind |-> "and", keeps |-> k]
      BY <2>2 DEF AndPredicate
    <3> HIDE DEF k, p
    <3> QED
      BY <3>1, <3>2 DEF Predicate
  <2> QED
    BY <2>1, <2>2
<1>4. q \in Predicate \cup {None} /\ (q # None => a.yes \cup b.yes \subseteq q.keeps)
  <2>1. CASE a.predicate = None \/ b.predicate = None
    BY <2>1 DEF OrPredicate
  <2>2. CASE a.predicate # None /\ b.predicate # None
    <3> DEFINE k == a.predicate.keeps \cup b.predicate.keeps
    <3>1. k \in SUBSET Rows /\ a.yes \cup b.yes \subseteq k
      BY <2>2, <1>1, <1>2 DEF Good
    <3>2. q = [kind |-> "or", keeps |-> k]
      BY <2>2 DEF OrPredicate
    <3> HIDE DEF k, q
    <3> QED
      BY <3>1, <3>2 DEF Predicate
  <2> QED
    BY <2>1, <2>2
<1> HIDE DEF p, q
<1> DEFINE s == [form |-> "other", yes |-> a.yes \cap b.yes, no |-> a.no \cup b.no, predicate |-> p]
           t == [form |-> "other", yes |-> a.yes \cup b.yes, no |-> a.no \cap b.no, predicate |-> q]
<1>5. s \in Term /\ t \in Term
  BY <1>1, <1>3, <1>4 DEF Term
<1>6. Good(s) /\ Good(t)
  BY <1>3, <1>4, <1>5 DEF Good
<1> QED
  BY <1>6 DEF p, q

LEMMA InStack ==
  ASSUME IInv, NEW i \in 1..Len(stack)
  PROVE Good(stack[i])
BY DEF IInv

LEMMA JoinGood ==
  ASSUME IInv, And \/ Or
  PROVE IInv'
<1>1. Len(stack) \in Nat /\ Len(stack) >= 2
  BY DEF IInv, And, Or
<1>2. Len(stack) \in 1..Len(stack) /\ Len(stack) - 1 \in 1..Len(stack) /\ Len(stack) - 2 \in 0..Len(stack)
  BY <1>1
<1>3. Good(Below) /\ Good(Top)
  BY <1>2, InStack DEF Below, Top
<1> DEFINE s == [form |-> "other", yes |-> Below.yes \cap Top.yes, no |-> Below.no \cup Top.no,
                 predicate |-> AndPredicate(Below.predicate, Top.predicate)]
           t == [form |-> "other", yes |-> Below.yes \cup Top.yes, no |-> Below.no \cap Top.no,
                 predicate |-> OrPredicate(Below.predicate, Top.predicate)]
           n == Len(stack) - 2
<1>4. Good(s) /\ Good(t)
  BY <1>3, CombinedGood
<1>5. stack' = Append(SubSeq(stack, 1, n), s) \/ stack' = Append(SubSeq(stack, 1, n), t)
  BY DEF And, Or
<1>6. n \in 0..Len(stack)
  BY <1>2
<1> HIDE DEF s, t, n
<1>7. stack' \in Seq({u \in Term : Good(u)})
  BY <1>4, <1>5, <1>6, GoodStack
<1> QED
  BY <1>7 DEF IInv, Good

LEMMA NotGood ==
  ASSUME IInv, Not
  PROVE IInv'
<1>1. Len(stack) \in Nat /\ Len(stack) \in 1..Len(stack)
  BY DEF IInv, Not
<1>2. Good(Top)
  BY <1>1, InStack DEF Top
<1> DEFINE p == NotPredicate(Top)
           t == [form |-> "other", yes |-> Top.no, no |-> Top.yes, predicate |-> p]
<1>3. p \in Predicate \cup {None} /\ (p # None => Top.no \subseteq p.keeps)
  <2>1. CASE Top.form = "other" \/ Top.predicate = None
    BY <2>1 DEF NotPredicate, Negated
  <2>2. CASE Top.form # "other" /\ Top.predicate # None
    BY <2>2, <1>2 DEF NotPredicate, Good, Exact
  <2> QED
    BY <2>1, <2>2
<1>4. Top.yes \in SUBSET Rows /\ Top.no \in SUBSET Rows
  BY <1>2 DEF Good, Term
<1>5. stack' = [stack EXCEPT ![Len(stack)] = t]
  BY DEF Not
<1> HIDE DEF p
<1>6. t \in Term
  BY <1>3, <1>4 DEF Term
<1>7. Good(t)
  BY <1>3, <1>6 DEF Good
<1> HIDE DEF t
<1> DEFINE G == {u \in Term : Good(u)}
<1>8. stack \in Seq(G) /\ t \in G
  BY <1>6, <1>7 DEF IInv
<1> HIDE DEF G
<1>9. stack' \in Seq(G)
  BY <1>1, <1>5, <1>8
<1> QED
  BY <1>9 DEF G, IInv, Good

(* Every step keeps every term of the stack good.                          *)
THEOREM TermsGood == Spec => []IInv
<1>1. Init => IInv
  BY DEF Init, IInv
<1>2. IInv /\ [Next]_stack => IInv'
  <2> SUFFICES ASSUME IInv, [Next]_stack PROVE IInv'
    OBVIOUS
  <2>1. ASSUME NEW c \in Columns, NEW op \in Ops, NEW v \in Literals \cup {Null}, NEW f \in BOOLEAN,
               Compare(c, op, v, f)
        PROVE IInv'
    BY <2>1, CompareGood
  <2>2. ASSUME NEW c \in Columns, TestNull(c) \/ TestNotNull(c) PROVE IInv'
    BY <2>2, NullTestGood
  <2>3. ASSUME NEW c \in Flags, BareColumn(c) PROVE IInv'
    BY <2>3, BareColumnGood
  <2>4. ASSUME NEW c \in Columns, NEW vs \in SUBSET (Literals \cup {Null}) \ {{}}, NEW n \in BOOLEAN,
               In(c, vs, n)
        PROVE IInv'
    BY <2>4, InGood
  <2>5. ASSUME NEW u \in Unsupported, Other(u) PROVE IInv'
    BY <2>5, OtherGood
  <2>6. ASSUME And \/ Or PROVE IInv'
    BY <2>6, JoinGood
  <2>7. ASSUME Not PROVE IInv'
    BY <2>7, NotGood
  <2>8. CASE UNCHANGED stack
    BY <2>8 DEF IInv, Good
  <2> QED
    BY <2>1, <2>2, <2>3, <2>4, <2>5, <2>6, <2>7, <2>8 DEF Next
<1> QED
  BY <1>1, <1>2, PTL DEF Spec

(* A predicate is a necessary condition of its expression, whatever the    *)
(* columns, the rows and the expressions.                                  *)
THEOREM AlwaysNecessary == Spec => []NecessaryCondition
<1>1. IInv => NecessaryCondition
  BY InStack DEF NecessaryCondition, Good
<1> QED
  BY <1>1, TermsGood, PTL

(* Predicates are well formed, and refer to columns of the file only.      *)
THEOREM PredicatesTyped == Spec => []TypeOK
<1>1. IInv => TypeOK
  <2> DEFINE G == {u \in Term : Good(u)}
  <2>1. G \subseteq Term
    OBVIOUS
  <2> HIDE DEF G
  <2>2. stack \in Seq(G) => stack \in Seq(Term)
    BY <2>1
  <2> QED
    BY <2>2 DEF G, IInv, TypeOK
<1> QED
  BY <1>1, TermsGood, PTL

-----------------------------------------------------------------------------

(* Statistics.                                                             *)

(* Division: what is left of a number is less than what it is divided by,  *)
(* and there is one quotient of which that is so.                          *)
Positive == Nat \ {0}

LEMMA Divided ==
  ASSUME NEW n \in Int, NEW m \in Positive
  PROVE  /\ n \div m \in Int /\ n % m \in Int /\ 0 <= n % m /\ n % m < m
         /\ n = (n \div m) * m + (n % m)
BY DEF Positive

LEMMA Grows == ASSUME NEW x \in Int, NEW y \in Int, x <= y, NEW m \in Nat PROVE x * m <= y * m
<1>1. (y - x) * m >= 0
  OBVIOUS
<1>2. (y - x) * m = y * m - x * m
  OBVIOUS
<1>3. x * m \in Int /\ y * m \in Int
  OBVIOUS
<1> QED
  BY <1>1, <1>2, <1>3

LEMMA QuotientIs ==
  ASSUME NEW n \in Int, NEW m \in Positive, NEW q \in Int, NEW r \in Int, 0 <= r, r < m, n = q * m + r
  PROVE  n \div m = q /\ n % m = r
<1> DEFINE d == n \div m
           e == n % m
<1>1. d \in Int /\ e \in Int /\ 0 <= e /\ e < m /\ n = d * m + e
  BY Divided
<1>2. m \in Nat /\ d * m \in Int /\ q * m \in Int /\ (d + 1) * m = d * m + m /\ (q + 1) * m = q * m + m
  BY <1>1 DEF Positive
<1> HIDE DEF d, e
<1>3. ~ d < q
  <2> SUFFICES ASSUME d < q PROVE FALSE
    OBVIOUS
  <2>1. (d + 1) * m <= q * m
    BY <1>1, <1>2, Grows
  <2> QED
    BY <1>1, <1>2, <2>1
<1>4. ~ q < d
  <2> SUFFICES ASSUME q < d PROVE FALSE
    OBVIOUS
  <2>1. (q + 1) * m <= d * m
    BY <1>1, <1>2, Grows
  <2> QED
    BY <1>1, <1>2, <2>1
<1>5. d = q
  BY <1>1, <1>3, <1>4
<1>6. e = r
  BY <1>1, <1>2, <1>5
<1> QED
  BY <1>5, <1>6 DEF d, e

LEMMA DividedTwice ==
  ASSUME NEW n \in Int, NEW a \in Positive, NEW b \in Positive
  PROVE  a * b \in Positive /\ (n \div a) \div b = n \div (a * b)
<1> DEFINE q == n \div a
           r == n % a
           p == q \div b
           s == q % b
<1>1. q \in Int /\ r \in Int /\ 0 <= r /\ r < a /\ n = q * a + r
  BY Divided
<1>2. p \in Int /\ s \in Int /\ 0 <= s /\ s < b /\ q = p * b + s
  BY <1>1, Divided
<1>3. a \in Nat /\ b \in Nat /\ a * b \in Positive
  BY DEF Positive
<1> HIDE DEF q, r, p, s
<1>4. s * a <= (b - 1) * a /\ 0 <= s * a /\ (b - 1) * a = a * b - a /\ s * a \in Int /\ a * b \in Int
  <2>1. s * a <= (b - 1) * a
    BY <1>2, <1>3, Grows
  <2> QED
    BY <1>2, <1>3, <2>1
<1>5. n = p * (a * b) + (s * a + r)
  <2>1. (p * b + s) * a = p * (a * b) + s * a
    BY <1>2, <1>3
  <2> QED
    BY <1>1, <1>2, <1>4, <2>1
<1>6. 0 <= s * a + r /\ s * a + r < a * b /\ s * a + r \in Int
  BY <1>1, <1>3, <1>4
<1>7. n \div (a * b) = p
  BY <1>2, <1>3, <1>5, <1>6, QuotientIs
<1> QED
  BY <1>3, <1>7 DEF p, q

LEMMA Cancelled ==
  ASSUME NEW x \in Int, NEW y \in Positive, NEW m \in Positive
  PROVE  (x * m) \div (y * m) = x \div y
<1> DEFINE q == x \div y
           r == x % y
<1>1. q \in Int /\ r \in Int /\ 0 <= r /\ r < y /\ x = q * y + r
  BY Divided
<1>2. y \in Nat /\ m \in Nat /\ y * m \in Positive
  BY DEF Positive
<1> HIDE DEF q, r
<1>3. 0 <= r * m /\ r * m <= (y - 1) * m /\ (y - 1) * m = y * m - m /\ r * m \in Int /\ m > 0
  <2>1. r * m <= (y - 1) * m
    BY <1>1, <1>2, Grows
  <2> QED
    BY <1>1, <1>2, <2>1 DEF Positive
<1>4. x * m = q * (y * m) + r * m
  BY <1>1, <1>2
<1>5. r * m < y * m
  BY <1>2, <1>3
<1>6. x * m \in Int
  BY <1>2
<1> QED
  BY <1>1, <1>2, <1>3, <1>4, <1>5, <1>6, QuotientIs DEF q

LEMMA MovedOut ==
  ASSUME NEW n \in Int, NEW k \in Int, NEW m \in Positive
  PROVE  (k * m + n) \div m = k + n \div m /\ (k * m) \div m = k /\ (k * m) % m = 0
<1> DEFINE q == n \div m
           r == n % m
<1>1. q \in Int /\ r \in Int /\ 0 <= r /\ r < m /\ n = q * m + r
  BY Divided
<1>2. m \in Nat /\ k * m \in Int
  BY DEF Positive
<1> HIDE DEF q, r
<1>3. k * m + n = (k + q) * m + r
  BY <1>1, <1>2
<1>4. (k * m + n) \div m = k + q
  BY <1>1, <1>2, <1>3, QuotientIs
<1>5. 0 < m
  BY DEF Positive
<1>6. (k * m) \div m = k /\ (k * m) % m = 0
  BY <1>2, <1>5, QuotientIs
<1> QED
  BY <1>4, <1>6 DEF q

-----------------------------------------------------------------------------

(* Powers.                                                                 *)
LEMMA Powers ==
  ASSUME NEW b \in Int
  PROVE  Power(b, 0) = 1 /\ \A n \in Nat : Power(b, n) \in Int /\ Power(b, n + 1) = b * Power(b, n)
<1> DEFINE of(f) == [i \in Nat |-> IF i = 0 THEN 1 ELSE b * f[i - 1]]
           chosen == CHOOSE f : f = of(f)
<1>1. \A n \in Nat : Power(b, n) = chosen[n]
  BY DEF Power
<1>2. PICK f \in [Nat -> Int] : f[0] = 1 /\ \A n \in Nat : f[n + 1] = b * f[n]
  <2> DEFINE step == [p \in Nat \X Int |-> b * p[2]]
  <2>1. step \in [Nat \X Int -> Int] /\ \A n \in Nat, v \in Int : step[<<n, v>>] = b * v
    OBVIOUS
  <2> HIDE DEF step
  <2>2. 1 \in Int
    OBVIOUS
  <2>3. \E f \in [Nat -> Int] : Leads(1, step, f)
    BY <2>1, <2>2, Recursion
  <2> QED
    BY <2>1, <2>3 DEF Leads
<1>3. f = of(f)
  <2> SUFFICES ASSUME NEW n \in Nat PROVE f[n] = of(f)[n]
    OBVIOUS
  <2>1. CASE n = 0
    BY <1>2, <2>1
  <2>2. CASE n # 0
    <3>1. n - 1 \in Nat /\ (n - 1) + 1 = n
      BY <2>2
    <3> QED
      BY <1>2, <2>2, <3>1
  <2> QED
    BY <2>1, <2>2
<1>4. chosen = of(chosen)
  <2> HIDE DEF of
  <2> QED
    BY <1>3
<1> HIDE DEF chosen
<1>5. \A n \in Nat : chosen[n] = IF n = 0 THEN 1 ELSE b * chosen[n - 1]
  BY <1>4
<1>6. chosen[0] = 1 /\ \A n \in Nat : chosen[n + 1] = b * chosen[n]
  <2>1. \A n \in Nat : n + 1 # 0 /\ n + 1 \in Nat /\ (n + 1) - 1 = n
    OBVIOUS
  <2> QED
    BY <1>5, <2>1
<1> DEFINE S == {n \in Nat : chosen[n] \in Int}
<1>7. Nat \subseteq S
  <2>1. 0 \in S /\ \A n \in Nat : n \in S => n + 1 \in S
    BY <1>6
  <2> HIDE DEF S
  <2> QED
    BY <2>1, Induction
<1> QED
  BY <1>1, <1>6, <1>7

LEMMA PowerPositive == ASSUME NEW b \in Positive, NEW n \in Nat PROVE Power(b, n) \in Positive
<1> DEFINE S == {k \in Nat : Power(b, k) \in Positive}
<1>1. b \in Int
  BY DEF Positive
<1>2. 0 \in S
  <2>1. Power(b, 0) = 1 /\ 1 \in Positive
    BY <1>1, Powers DEF Positive
  <2> QED
    BY <2>1
<1>3. ASSUME NEW k \in Nat, k \in S PROVE k + 1 \in S
  <2>1. Power(b, k + 1) = b * Power(b, k) /\ Power(b, k) \in Positive
    BY <1>1, <1>3, Powers
  <2>2. b * Power(b, k) \in Positive
    BY <2>1 DEF Positive
  <2> QED
    BY <2>1, <2>2
<1> HIDE DEF S
<1>4. Nat \subseteq S
  BY <1>2, <1>3, Induction
<1> QED
  BY <1>4 DEF S

LEMMA PowerSum ==
  ASSUME NEW b \in Int, NEW m \in Nat, NEW n \in Nat
  PROVE  Power(b, m + n) = Power(b, m) * Power(b, n)
<1> DEFINE S == {k \in Nat : Power(b, m + k) = Power(b, m) * Power(b, k)}
<1>0. \A k \in Nat : Power(b, k) \in Int /\ Power(b, k + 1) = b * Power(b, k)
  BY Powers
<1>1. 0 \in S
  <2>1. m + 0 = m /\ Power(b, 0) = 1 /\ Power(b, m) \in Int
    BY Powers
  <2> QED
    BY <2>1
<1>2. ASSUME NEW k \in Nat, k \in S PROVE k + 1 \in S
  <2>1. Power(b, m + (k + 1)) = b * Power(b, m + k)
    <3>1. m + (k + 1) = (m + k) + 1 /\ m + k \in Nat
      OBVIOUS
    <3> QED
      BY <1>0, <3>1
  <2>2. Power(b, k + 1) = b * Power(b, k) /\ Power(b, m + k) = Power(b, m) * Power(b, k)
    BY <1>0, <1>2
  <2>3. Power(b, m) \in Int /\ Power(b, k) \in Int
    BY <1>0
  <2>4. b * (Power(b, m) * Power(b, k)) = Power(b, m) * (b * Power(b, k))
    BY <2>3
  <2> QED
    BY <2>1, <2>2, <2>4
<1> HIDE DEF S
<1>3. Nat \subseteq S
  BY <1>1, <1>2, Induction
<1> QED
  BY <1>3 DEF S

(* A number in another scale is the same number, wherever the point is.    *)
LEMMA SameFactor == ASSUME NEW x \in Int, NEW y \in Int, NEW m \in Positive, x * m = y * m PROVE x = y
<1>1. (x * m) \div m = x /\ (y * m) \div m = y
  BY MovedOut, 0 \in Int
<1> QED
  BY <1>1

LEMMA TensPositive ==
  /\ \A n \in Nat : Power(10, n) \in Positive /\ Power(10, n) \in Int
  /\ \A m \in Nat, n \in Nat : Power(10, m + n) = Power(10, m) * Power(10, n)
<1>1. 10 \in Positive /\ 10 \in Int
  BY DEF Positive
<1>2. \A n \in Nat : Power(10, n) \in Positive
  BY <1>1, PowerPositive
<1>3. \A n \in Nat : Power(10, n) \in Int
  BY <1>2 DEF Positive
<1>4. \A m \in Nat, n \in Nat : Power(10, m + n) = Power(10, m) * Power(10, n)
  BY <1>1, PowerSum
<1> QED
  BY <1>2, <1>3, <1>4

LEMMA ScaledExactly ==
  ASSUME NEW v \in Int, NEW by \in Int, InScale(v, by) # NoValue
  PROVE  /\ InScale(v, by) \in Int
         /\ \A k \in Nat : k + by >= 0 => InScale(v, by) * Power(10, k) = v * Power(10, k + by)
<1> DEFINE r == InScale(v, by)
<1>1. CASE by >= 0
  <2>1. by \in Nat /\ Power(10, by) \in Int /\ r = v * Power(10, by)
    BY <1>1, TensPositive DEF InScale
  <2> SUFFICES ASSUME NEW k \in Nat PROVE r \in Int /\ r * Power(10, k) = v * Power(10, k + by)
    BY <2>1
  <2>2. Power(10, k + by) = Power(10, k) * Power(10, by) /\ Power(10, k) \in Int
    BY <2>1, TensPositive
  <2> HIDE DEF r
  <2> QED
    BY <2>1, <2>2
<1>2. CASE by < 0
  <2>1. -by \in Nat /\ Power(10, -by) \in Positive /\ Power(10, -by) \in Int
    BY <1>2, TensPositive
  <2>2. v % Power(10, -by) = 0 /\ r = v \div Power(10, -by)
    BY <1>2 DEF InScale
  <2>3. r \in Int /\ v = r * Power(10, -by) + 0
    BY <2>1, <2>2, Divided
  <2> SUFFICES ASSUME NEW k \in Nat, k + by >= 0 PROVE r * Power(10, k) = v * Power(10, k + by)
    BY <2>3
  <2>4. k + by \in Nat /\ k = (k + by) + (-by)
    OBVIOUS
  <2>5. Power(10, k) = Power(10, k + by) * Power(10, -by) /\ Power(10, k + by) \in Int
    BY <2>1, <2>4, TensPositive
  <2> HIDE DEF r
  <2>6. v = r * Power(10, -by)
    BY <2>1, <2>3
  <2> QED
    BY <2>1, <2>3, <2>5, <2>6
<1> QED
  BY <1>1, <1>2

LEMMA ScaleFrom ==
  ASSUME NEW v \in Int, NEW by \in Int, NEW r \in Int, NEW k \in Nat, k + by >= 0,
         r * Power(10, k) = v * Power(10, k + by)
  PROVE  InScale(v, by) = r
<1>1. CASE by >= 0
  <2>1. by \in Nat /\ Power(10, by) \in Int /\ InScale(v, by) = v * Power(10, by)
    BY <1>1, TensPositive DEF InScale
  <2>2. Power(10, k + by) = Power(10, k) * Power(10, by) /\ Power(10, k) \in Int /\ Power(10, k) \in Positive
    BY <2>1, TensPositive
  <2>3. r * Power(10, k) = (v * Power(10, by)) * Power(10, k)
    BY <2>1, <2>2
  <2>4. v * Power(10, by) \in Int
    BY <2>1
  <2>5. r = v * Power(10, by)
    BY <2>2, <2>3, <2>4, SameFactor
  <2> QED
    BY <2>1, <2>5
<1>2. CASE by < 0
  <2> DEFINE p == Power(10, -by)
             m == Power(10, k + by)
  <2>1. -by \in Nat /\ k + by \in Nat /\ k = (k + by) + (-by)
    BY <1>2
  <2>2. Power(10, k) = m * p /\ p \in Int /\ p \in Positive /\ m \in Int /\ m \in Positive
    BY <2>1, TensPositive
  <2>3. InScale(v, by) = IF v % p = 0 THEN v \div p ELSE NoValue
    BY <1>2 DEF InScale
  <2> HIDE DEF p
  <2>4. r * (m * p) = v * m
    BY <2>2
  <2> HIDE DEF m
  <2>5. (r * p) * m = v * m /\ r * p \in Int
    BY <2>2, <2>4
  <2>6. r * p = v
    BY <2>2, <2>5, SameFactor
  <2>7. v % p = 0 /\ v \div p = r
    BY <2>2, <2>6, MovedOut
  <2> QED
    BY <2>3, <2>7
<1> QED
  BY <1>1, <1>2

LEMMA ScaledTwice ==
  ASSUME NEW v \in Int, NEW x \in Int, NEW y \in Int, InScale(v, x) # NoValue, InScale(InScale(v, x), y) # NoValue
  PROVE  InScale(v, x + y) = InScale(InScale(v, x), y) /\ InScale(v, x + y) \in Int
<1> DEFINE n == InScale(v, x)
           r == InScale(n, y)
           k == (IF x < 0 THEN -x ELSE x) + (IF y < 0 THEN -y ELSE y)
<1>1. n \in Int /\ \A j \in Nat : j + x >= 0 => n * Power(10, j) = v * Power(10, j + x)
  BY ScaledExactly
<1>2. r \in Int /\ \A j \in Nat : j + y >= 0 => r * Power(10, j) = n * Power(10, j + y)
  <2> HIDE DEF n
  <2> QED
    BY <1>1, ScaledExactly DEF n
<1>3. k \in Nat /\ k + y \in Nat /\ k + y >= 0 /\ (k + y) + x >= 0 /\ k + (x + y) >= 0 /\ (k + y) + x = k + (x + y)
  OBVIOUS
<1> HIDE DEF n, r, k
<1>4. r * Power(10, k) = n * Power(10, k + y)
  BY <1>2, <1>3
<1>5. n * Power(10, k + y) = v * Power(10, (k + y) + x)
  BY <1>1, <1>3
<1>6. r * Power(10, k) = v * Power(10, k + (x + y))
  BY <1>3, <1>4, <1>5
<1>7. InScale(v, x + y) = r
  BY <1>2, <1>3, <1>6, ScaleFrom, x + y \in Int
<1> QED
  BY <1>2, <1>7 DEF r, n

(* decimal_scalar scales, and refuses what it cannot.                      *)
LEMMA DecimalScaled ==
  ASSUME NEW d, NEW c, d.scale \in Int, c.scale \in Int, c.precision \in Nat, NoValue \notin Int,
         SignedFromBytes(d.bytes) \in Int, FromDecimal(d, c) # NoValue
  PROVE  /\ FromDecimal(d, c) = InScale(SignedFromBytes(d.bytes), c.scale - d.scale)
         /\ FromDecimal(d, c) \in Int /\ c.kind = "decimal"
         /\ -Power(10, c.precision) < FromDecimal(d, c) /\ FromDecimal(d, c) < Power(10, c.precision)
<1> DEFINE n == SignedFromBytes(d.bytes)
           up == c.scale - d.scale
           rescaled == IF up >= 0 THEN n * Power(10, up) ELSE n \div Power(10, -up)
<1>1. /\ FromDecimal(d, c) = rescaled /\ c.kind = "decimal"
      /\ up < 0 => n % Power(10, -up) = 0
      /\ ~ rescaled <= -Power(10, c.precision) /\ ~ rescaled >= Power(10, c.precision)
  <2> HIDE DEF n, up
  <2>1. FromDecimal(d, c) =
          IF \/ c.kind # "decimal" \/ n = NoValue
             \/ up >= 0 /\ (Power(10, up) \notin Ints \/ rescaled \notin Ints)
             \/ up < 0 /\ (Power(10, -up) \notin Ints \/ n % Power(10, -up) # 0)
             \/ rescaled <= -Power(10, c.precision) \/ rescaled >= Power(10, c.precision)
          THEN NoValue ELSE rescaled
    BY Zenon DEF FromDecimal, n, up
  <2> HIDE DEF rescaled
  <2> QED
    BY <2>1
<1>2. up \in Int /\ n \in Int
  OBVIOUS
<1> HIDE DEF n, up
<1>3. rescaled \in Int /\ rescaled = InScale(n, up)
  <2>1. CASE up >= 0
    <3>1. Power(10, up) \in Int
      BY <1>2, <2>1, TensPositive
    <3> QED
      BY <1>2, <2>1, <3>1 DEF InScale
  <2>2. CASE up < 0
    <3>1. -up \in Nat
      BY <1>2, <2>2
    <3>2. Power(10, -up) \in Positive
      BY <3>1, TensPositive
    <3>3. n \div Power(10, -up) \in Int
      BY <1>2, <3>2, Divided
    <3> QED
      BY <1>1, <1>2, <2>2, <3>3 DEF InScale
  <2> QED
    BY <1>2, <2>1, <2>2
<1>4. Power(10, c.precision) \in Int
  BY TensPositive
<1> HIDE DEF rescaled
<1> QED
  BY <1>1, <1>3, <1>4 DEF n, up

(* Bytes: those before a number's own are copies of its sign, so all that  *)
(* are kept are its digits, from a power of the base down.                 *)
LEMMA UnsignedIs ==
  ASSUME NEW s \in Seq(Int), NEW f \in [Nat -> Int], f[0] = 0,
         \A i \in 0..(Len(s) - 1) : f[i + 1] = f[i] * ByteBase + s[i + 1]
  PROVE  Unsigned(s) = f[Len(s)]
<1> DEFINE n == Len(s)
           of(g) == [i \in 0..n |-> IF i = 0 THEN 0 ELSE g[i - 1] * ByteBase + s[i]]
           chosen == CHOOSE g : g = of(g)
           start == [i \in 0..n |-> f[i]]
<1>1. n \in Nat
  OBVIOUS
<1>2. start = of(start)
  <2> SUFFICES ASSUME NEW i \in 0..n PROVE start[i] = of(start)[i]
    OBVIOUS
  <2>1. CASE i = 0
    BY <2>1
  <2>2. CASE i # 0
    <3>1. i - 1 \in 0..(n - 1) /\ (i - 1) + 1 = i /\ i - 1 \in 0..n
      BY <1>1, <2>2
    <3>2. f[i] = f[i - 1] * ByteBase + s[i]
      BY <3>1
    <3> QED
      BY <2>2, <3>1, <3>2
  <2> QED
    BY <2>1, <2>2
<1>3. chosen = of(chosen)
  <2> HIDE DEF of, start
  <2> QED
    BY <1>2
<1>4. Unsigned(s) = chosen[n]
  BY DEF Unsigned
<1> HIDE DEF chosen
<1>5. \A i \in 0..n : chosen[i] = IF i = 0 THEN 0 ELSE chosen[i - 1] * ByteBase + s[i]
  BY <1>3
<1> DEFINE S == {i \in Nat : i <= n => chosen[i] = f[i]}
<1>6. Nat \subseteq S
  <2>1. 0 \in S
    BY <1>1, <1>5
  <2>2. ASSUME NEW i \in Nat, i \in S PROVE i + 1 \in S
    <3> SUFFICES ASSUME i + 1 <= n PROVE chosen[i + 1] = f[i + 1]
      OBVIOUS
    <3>1. i \in 0..(n - 1) /\ i + 1 \in 0..n /\ i + 1 # 0 /\ (i + 1) - 1 = i
      BY <1>1
    <3>2. chosen[i] = f[i]
      BY <1>1, <2>2, <3>1
    <3>3. chosen[i + 1] = chosen[i] * ByteBase + s[i + 1]
      BY <1>5, <3>1
    <3> QED
      BY <3>1, <3>2, <3>3
  <2> HIDE DEF S
  <2> QED
    BY <2>1, <2>2, Induction
<1>7. chosen[n] = f[n]
  BY <1>1, <1>6
<1> QED
  BY <1>4, <1>7

BasesAreBytes == ByteBase \in Positive /\ Width \in Positive /\ ByteBase % 2 = 0

LEMMA BytePowers ==
  ASSUME BasesAreBytes
  PROVE  /\ ByteBase \in Int /\ Power(ByteBase, 0) = 1
         /\ \A n \in Nat : /\ Power(ByteBase, n) \in Positive /\ Power(ByteBase, n) \in Int
                           /\ Power(ByteBase, n + 1) = ByteBase * Power(ByteBase, n)
         /\ \A m \in Nat, n \in Nat : Power(ByteBase, m + n) = Power(ByteBase, m) * Power(ByteBase, n)
<1>1. ByteBase \in Positive /\ ByteBase \in Int
  BY DEF BasesAreBytes, Positive
<1> QED
  BY <1>1, Powers, PowerPositive, PowerSum

DigitAt(n, j) == (n \div Power(ByteBase, j)) % ByteBase

LEMMA NextDigit ==
  ASSUME BasesAreBytes, NEW n \in Int, NEW j \in Nat
  PROVE  /\ n \div Power(ByteBase, j) = (n \div Power(ByteBase, j + 1)) * ByteBase + DigitAt(n, j)
         /\ n \div Power(ByteBase, j) \in Int /\ n \div Power(ByteBase, j + 1) \in Int /\ DigitAt(n, j) \in Int
<1> DEFINE b == ByteBase
           m == Power(ByteBase, j)
<1>1. b \in Positive /\ m \in Positive /\ b \in Int /\ m \in Int
  BY BytePowers DEF BasesAreBytes
<1>2. Power(ByteBase, j + 1) = m * b
  <2>1. Power(ByteBase, j + 1) = b * m
    BY BytePowers
  <2> QED
    BY <1>1, <2>1
<1> HIDE DEF b, m
<1>3. n \div m \in Int /\ m * b \in Positive /\ (n \div m) \div b = n \div (m * b)
  BY <1>1, Divided, DividedTwice
<1>4. n \div m = ((n \div m) \div b) * b + ((n \div m) % b) /\ (n \div m) \div b \in Int /\ (n \div m) % b \in Int
  BY <1>1, <1>3, Divided
<1> QED
  BY <1>2, <1>3, <1>4 DEF b, m, DigitAt

LEMMA DigitsOf ==
  ASSUME BasesAreBytes, NEW n \in Int, NEW s \in Seq(Int),
         \A i \in 1..Len(s) : s[i] = DigitAt(n, Len(s) - i)
  PROVE  Unsigned(s) = n - (n \div Power(ByteBase, Len(s))) * Power(ByteBase, Len(s))
<1> DEFINE w == Len(s)
           p(i) == Power(ByteBase, i)
           q == n \div p(w)
           f == [i \in Nat |-> IF i <= w THEN (n \div p(w - i)) - q * p(i) ELSE 0]
<1>1. w \in Nat
  OBVIOUS
<1>2. \A i \in Nat : p(i) \in Int /\ p(i) \in Positive /\ p(i + 1) = ByteBase * p(i) /\ n \div p(i) \in Int
  BY BytePowers, Divided
<1>3. q \in Int
  BY <1>1, <1>2
<1>4. p(0) = 1 /\ ByteBase \in Int
  BY BytePowers
<1>n. \A j \in Nat : n \div p(j) = (n \div p(j + 1)) * ByteBase + DigitAt(n, j) /\ DigitAt(n, j) \in Int
  BY NextDigit
<1> HIDE DEF w, p, q
<1>5. f \in [Nat -> Int]
  <2> SUFFICES ASSUME NEW i \in Nat, i <= w PROVE (n \div p(w - i)) - q * p(i) \in Int
    OBVIOUS
  <2>1. w - i \in Nat
    BY <1>1
  <2>2. n \div p(w - i) \in Int /\ p(i) \in Int
    BY <1>2, <2>1
  <2> QED
    BY <1>3, <2>2
<1>6. f[0] = 0
  <2>1. w - 0 = w /\ f[0] = (n \div p(w - 0)) - q * p(0)
    BY <1>1
  <2>2. n \div p(w) = q
    BY DEF q
  <2> QED
    BY <1>3, <1>4, <2>1, <2>2
<1>7. ASSUME NEW i \in 0..(w - 1) PROVE f[i + 1] = f[i] * ByteBase + s[i + 1]
  <2> DEFINE j == w - (i + 1)
  <2>1. i \in Nat /\ i + 1 \in Nat /\ i <= w /\ i + 1 <= w /\ i + 1 \in 1..w /\ j \in Nat /\ w - i = j + 1
    BY <1>1
  <2> HIDE DEF j
  <2>2. f[i] = (n \div p(j + 1)) - q * p(i) /\ f[i + 1] = (n \div p(j)) - q * p(i + 1)
    BY <2>1 DEF j
  <2>3. n \div p(j) = (n \div p(j + 1)) * ByteBase + DigitAt(n, j) /\ DigitAt(n, j) \in Int
    BY <1>n, <2>1
  <2>4. s[i + 1] = DigitAt(n, j)
    BY <2>1 DEF w, j
  <2>5. p(i + 1) = ByteBase * p(i) /\ p(i) \in Int /\ n \div p(j + 1) \in Int /\ n \div p(j) \in Int
    BY <1>2, <2>1
  <2> DEFINE a == n \div p(j + 1)
             d == n \div p(j)
             e == DigitAt(n, j)
  <2> HIDE DEF a, d, e
  <2>6. f[i] = a - q * p(i) /\ f[i + 1] = d - q * (ByteBase * p(i)) /\ d = a * ByteBase + e /\ s[i + 1] = e
        /\ a \in Int /\ d \in Int /\ e \in Int /\ p(i) \in Int
    BY <2>2, <2>3, <2>4, <2>5 DEF a, d, e
  <2>7. (a - q * p(i)) * ByteBase = a * ByteBase - q * (ByteBase * p(i))
    BY <1>3, <1>4, <2>6
  <2>8. q * (ByteBase * p(i)) \in Int /\ a * ByteBase \in Int
    BY <1>3, <1>4, <2>6
  <2> HIDE DEF f
  <2> QED
    BY <2>6, <2>7, <2>8
<1>8. f[w] = n - q * p(w)
  <2>1. w - w = 0 /\ w <= w /\ n \div 1 = n
    BY <1>1
  <2> QED
    BY <1>1, <1>4, <2>1
<1> HIDE DEF f
<1>9. Unsigned(s) = f[w]
  BY <1>5, <1>6, <1>7, UnsignedIs DEF w
<1> QED
  BY <1>8, <1>9 DEF q, w, p

(* The digits of numbers whose bytes are written: the highest says the     *)
(* sign, those above it are copies.                                        *)
HasDigits(n, k) == 2 * n \in (-Power(ByteBase, k))..(Power(ByteBase, k) - 1)

LEMMA HighestDigit ==
  ASSUME BasesAreBytes, NEW n \in Int, NEW k \in Positive, HasDigits(n, k)
  PROVE  LET top == n \div Power(ByteBase, k - 1) IN
         /\ k - 1 \in Nat /\ top \in Int
         /\ n >= 0 => 0 <= top /\ top < ByteBase \div 2 /\ DigitAt(n, k - 1) = top
         /\ n < 0 => /\ top < 0 /\ -(ByteBase \div 2) <= top /\ DigitAt(n, k - 1) = top + ByteBase
<1> DEFINE m == Power(ByteBase, k - 1)
           top == n \div m
           r == n % m
           h == ByteBase \div 2
<1>1. k - 1 \in Nat /\ k = (k - 1) + 1
  BY DEF Positive
<1>2. m \in Positive /\ m \in Int /\ Power(ByteBase, k) = ByteBase * m
  BY <1>1, BytePowers
<1>3. h \in Int /\ ByteBase = h * 2 /\ ByteBase \in Positive /\ ByteBase \in Int /\ h > 0
  <2>1. 2 \in Positive
    BY DEF Positive
  <2>2. ByteBase = h * 2 + (ByteBase % 2) /\ h \in Int
    BY <2>1, Divided, BytePowers
  <2> QED
    BY <2>2, BytePowers DEF BasesAreBytes, Positive
<1>4. top \in Int /\ r \in Int /\ 0 <= r /\ r < m /\ n = top * m + r
  BY <1>2, Divided
<1>5. -(ByteBase * m) <= 2 * n /\ 2 * n < ByteBase * m /\ ByteBase * m \in Int
  BY <1>2, <1>3 DEF HasDigits
<1>d. DigitAt(n, k - 1) = top % ByteBase
  BY DEF DigitAt
<1> HIDE DEF top, r, m, h
<1>6. -(h * m) <= n /\ n < h * m /\ h * m \in Int
  <2>1. ByteBase * m = 2 * (h * m) /\ h * m \in Int
    BY <1>2, <1>3
  <2> QED
    BY <1>5, <2>1
<1>7. m \in Nat /\ 0 < m
  BY <1>2 DEF Positive
<1>8. ~ h <= top
  <2> SUFFICES ASSUME h <= top PROVE FALSE
    OBVIOUS
  <2>1. h * m <= top * m /\ top * m \in Int
    BY <1>3, <1>4, <1>7, Grows
  <2> QED
    BY <1>4, <1>6, <1>7, <2>1
<1>9. \A t \in Int : top + 1 <= t => n < t * m
  <2> SUFFICES ASSUME NEW t \in Int, top + 1 <= t PROVE n < t * m
    OBVIOUS
  <2>1. (top + 1) * m <= t * m
    BY <1>4, <1>7, Grows
  <2>2. (top + 1) * m = top * m + m /\ top * m \in Int /\ t * m \in Int
    BY <1>4, <1>7
  <2> QED
    BY <1>4, <1>7, <2>1, <2>2
<1>10. ~ top + 1 <= -h
  <2> SUFFICES ASSUME top + 1 <= -h PROVE FALSE
    OBVIOUS
  <2>1. -h \in Int /\ (-h) * m = -(h * m)
    BY <1>3, <1>7
  <2>2. n < (-h) * m
    BY <1>9, <2>1
  <2> QED
    BY <1>6, <2>1, <2>2
<1>11. n >= 0 => 0 <= top
  <2> SUFFICES ASSUME n >= 0, top + 1 <= 0 PROVE FALSE
    BY <1>4
  <2>1. n < 0 * m /\ 0 * m = 0
    BY <1>7, <1>9
  <2> QED
    BY <2>1
<1>12. n < 0 => top < 0
  <2> SUFFICES ASSUME n < 0, 0 <= top PROVE FALSE
    BY <1>4
  <2>1. 0 * m <= top * m /\ 0 * m = 0 /\ top * m \in Int
    BY <1>4, <1>7, Grows
  <2> QED
    BY <1>4, <1>7, <2>1
<1>13. n >= 0 => top % ByteBase = top
  <2> SUFFICES ASSUME n >= 0 PROVE top % ByteBase = top
    OBVIOUS
  <2>1. top = 0 * ByteBase + top /\ 0 <= top /\ top < ByteBase
    BY <1>3, <1>4, <1>8, <1>11
  <2> QED
    BY <1>3, <1>4, <2>1, QuotientIs
<1>14. n < 0 => top % ByteBase = top + ByteBase
  <2> SUFFICES ASSUME n < 0 PROVE top % ByteBase = top + ByteBase
    OBVIOUS
  <2> DEFINE rest == top + ByteBase
  <2>1. top = (-1) * ByteBase + rest /\ 0 <= rest /\ rest < ByteBase /\ rest \in Int /\ -1 \in Int
    BY <1>3, <1>4, <1>10, <1>12
  <2> HIDE DEF rest
  <2>2. top % ByteBase = rest
    BY <1>3, <1>4, <2>1, QuotientIs
  <2> QED
    BY <2>2 DEF rest
<1>15. top < h /\ -h <= top
  BY <1>3, <1>4, <1>8, <1>10
<1> QED
  BY <1>1, <1>4, <1>d, <1>11, <1>12, <1>13, <1>14, <1>15 DEF top, m, h

LEMMA AboveHighest ==
  ASSUME BasesAreBytes, NEW n \in Int, NEW k \in Nat, HasDigits(n, k), NEW j \in Nat, k <= j
  PROVE  /\ n >= 0 => n \div Power(ByteBase, j) = 0 /\ DigitAt(n, j) = 0
         /\ n < 0 => n \div Power(ByteBase, j) = -1 /\ DigitAt(n, j) = ByteBase - 1
<1> DEFINE m == Power(ByteBase, k)
           p == Power(ByteBase, j)
<1>1. j - k \in Nat /\ j = k + (j - k)
  OBVIOUS
<1>2. m \in Positive /\ m \in Int /\ p \in Positive /\ p \in Int /\ Power(ByteBase, j - k) \in Positive
      /\ p = m * Power(ByteBase, j - k)
  BY <1>1, BytePowers
<1>3. -m <= 2 * n /\ 2 * n < m
  BY <1>2 DEF HasDigits
<1> HIDE DEF m, p
<1>4. m <= p
  <2> DEFINE x == Power(ByteBase, j - k)
  <2>1. x \in Int /\ 1 <= x /\ m \in Nat
    BY <1>2 DEF Positive
  <2> HIDE DEF x
  <2>2. 1 * m <= x * m
    BY <2>1, Grows
  <2>3. p = x * m
    BY <1>2, <2>1 DEF x
  <2> QED
    BY <1>2, <2>2, <2>3
<1>5. 0 < m /\ 0 < p
  BY <1>2 DEF Positive
<1>6. n >= 0 => n \div p = 0
  <2> SUFFICES ASSUME n >= 0 PROVE n \div p = 0
    OBVIOUS
  <2>1. n = 0 * p + n /\ n < p
    BY <1>2, <1>3, <1>4, <1>5
  <2> QED
    BY <1>2, <2>1, QuotientIs
<1>7. n < 0 => n \div p = -1
  <2> SUFFICES ASSUME n < 0 PROVE n \div p = -1
    OBVIOUS
  <2>1. n = (-1) * p + (n + p) /\ 0 <= n + p /\ n + p < p /\ n + p \in Int /\ -1 \in Int
    BY <1>2, <1>3, <1>4, <1>5
  <2> QED
    BY <1>2, <2>1, QuotientIs
<1>8. 0 % ByteBase = 0 /\ (-1) % ByteBase = ByteBase - 1
  <2>1. ByteBase \in Positive /\ ByteBase \in Int /\ 0 < ByteBase
    BY DEF BasesAreBytes, Positive
  <2>2. 0 = 0 * ByteBase + 0 /\ -1 = (-1) * ByteBase + (ByteBase - 1) /\ ByteBase - 1 \in Int
        /\ 0 <= ByteBase - 1 /\ ByteBase - 1 < ByteBase /\ -1 \in Int
    BY <2>1
  <2>3. 0 % ByteBase = 0
    BY <2>1, <2>2, QuotientIs
  <2>4. (-1) % ByteBase = ByteBase - 1
    BY <2>1, <2>2, QuotientIs
  <2> QED
    BY <2>3, <2>4
<1> QED
  BY <1>6, <1>7, <1>8 DEF p, DigitAt

(* What has a number's digits in all bytes is read as the number.          *)
LEMMA WholeNumber ==
  ASSUME BasesAreBytes, NEW n \in Int, NEW s \in Seq(Int), Len(s) = Width,
         \A i \in 1..Width : s[i] = DigitAt(n, Width - i),
         n >= 0 => n \div Power(ByteBase, Width) = 0, n < 0 => n \div Power(ByteBase, Width) = -1
  PROVE  Unsigned(s) - (IF n >= 0 THEN 0 ELSE Power(ByteBase, Width)) = n
<1> DEFINE p == Power(ByteBase, Width)
           q == n \div p
<1>1. Unsigned(s) = n - q * p
  BY DigitsOf
<1>2. p \in Int /\ q = (IF n >= 0 THEN 0 ELSE -1)
  <2>1. Width \in Nat
    BY DEF BasesAreBytes, Positive
  <2>2. p \in Int
    BY <2>1, BytePowers
  <2>3. (n >= 0 => q = 0) /\ (n < 0 => q = -1)
    OBVIOUS
  <2> HIDE DEF p, q
  <2> QED
    BY <2>2, <2>3
<1> HIDE DEF p, q
<1>3. CASE n >= 0
  <2>1. q * p = 0
    BY <1>2, <1>3
  <2> QED
    BY <1>1, <1>3, <2>1 DEF p
<1>4. CASE n < 0
  <2>1. q * p = -p
    BY <1>2, <1>4
  <2>2. n - (-p) - p = n
    BY <1>2
  <2> QED
    BY <1>1, <1>4, <2>1, <2>2 DEF p
<1> QED
  BY <1>3, <1>4

LEMMA EncodingIs ==
  ASSUME BasesAreBytes, NEW n \in Int, NEW bytes \in Encodings(n)
  PROVE  \E k \in 1..(Width + 1) : /\ HasDigits(n, k) /\ bytes \in Seq(Int) /\ Len(bytes) = k
                                   /\ \A i \in 1..k : bytes[i] = DigitAt(n, k - i)
<1>1. PICK k \in 1..(Width + 1) : HasDigits(n, k) /\ bytes = [i \in 1..k |-> DigitAt(n, k - i)]
  BY Zenon DEF Encodings, HasDigits, DigitAt
<1>2. k \in Nat /\ \A i \in 1..k : k - i \in Nat
  BY DEF BasesAreBytes, Positive
<1>3. \A i \in 1..k : DigitAt(n, k - i) \in Int
  BY <1>2, NextDigit
<1>4. bytes \in Seq(Int) /\ Len(bytes) = k
  BY <1>1, <1>2, <1>3
<1> QED
  BY <1>1, <1>4

(* signed_i128_from_be: of any encoding of a number, the number, if it has *)
(* room in the bytes that are kept.                                        *)
LEMMA SignedIs ==
  ASSUME BasesAreBytes, NEW n \in Int, NEW bytes \in Encodings(n), SignedFromBytes(bytes) # NoValue
  PROVE  SignedFromBytes(bytes) = n
<1>1. PICK k \in 1..(Width + 1) : /\ HasDigits(n, k) /\ bytes \in Seq(Int) /\ Len(bytes) = k
                                  /\ \A i \in 1..k : bytes[i] = DigitAt(n, k - i)
  BY EncodingIs
<1>2. k \in Positive /\ k \in Nat /\ Width \in Nat /\ Width > 0
  BY DEF BasesAreBytes, Positive
<1> DEFINE positive(b) == b < ByteBase \div 2
           sign == IF positive(bytes[1]) THEN 0 ELSE ByteBase - 1
           extra == Len(bytes) - Width
           kept == IF extra > 0 THEN SubSeq(bytes, extra + 1, Len(bytes)) ELSE bytes
           copies == [i \in 1..(Width - Len(kept)) |-> sign]
           padded == copies \o kept
<1>3. /\ \A i \in 1..extra : bytes[i] = sign
      /\ SignedFromBytes(bytes) = Unsigned(padded) - (IF sign = 0 THEN 0 ELSE Power(ByteBase, Width))
  <2>1. SignedFromBytes(bytes) =
          IF \/ bytes = <<>>
             \/ \E i \in 1..extra : bytes[i] # sign
             \/ Len(kept) = Width /\ positive(kept[1]) # positive(bytes[1])
          THEN NoValue
          ELSE Unsigned(padded) - (IF sign = 0 THEN 0 ELSE Power(ByteBase, Width))
    BY Zenon DEF SignedFromBytes
  <2> HIDE DEF positive, sign, extra, kept, copies, padded
  <2> QED
    BY <2>1
<1>4. /\ n >= 0 => sign = 0 /\ positive(bytes[1])
      /\ n < 0 => sign = ByteBase - 1 /\ ~positive(bytes[1])
  <2>1. bytes[1] = DigitAt(n, k - 1)
    BY <1>1, <1>2
  <2> DEFINE top == n \div Power(ByteBase, k - 1)
             h == ByteBase \div 2
  <2>2. /\ top \in Int
        /\ n >= 0 => top < h /\ DigitAt(n, k - 1) = top
        /\ n < 0 => -h <= top /\ DigitAt(n, k - 1) = top + ByteBase
    BY <1>1, <1>2, HighestDigit
  <2>3. h \in Int /\ ByteBase = h * 2 /\ ByteBase \in Int
    <3>1. 2 \in Positive
      BY DEF Positive
    <3>2. ByteBase = h * 2 + (ByteBase % 2) /\ h \in Int
      BY <3>1, Divided, BytePowers
    <3> QED
      BY <3>2, BytePowers DEF BasesAreBytes
  <2> HIDE DEF top, h
  <2>4. n >= 0 => bytes[1] < h
    BY <2>1, <2>2
  <2>5. n < 0 => ~ bytes[1] < h
    BY <2>1, <2>2, <2>3
  <2> QED
    BY <2>4, <2>5 DEF h
<1>5. (IF sign = 0 THEN 0 ELSE Power(ByteBase, Width)) = IF n >= 0 THEN 0 ELSE Power(ByteBase, Width)
  <2>1. ByteBase - 1 # 0
    BY DEF BasesAreBytes, Positive
  <2> HIDE DEF sign, positive
  <2>2. n >= 0 \/ (n < 0 /\ ~ n >= 0)
    OBVIOUS
  <2> QED
    BY <1>4, <2>1, <2>2
<1>6. sign \in Int
  BY <1>4, BytePowers
<1>7. CASE k <= Width
  <2>1. ~ extra > 0 /\ kept = bytes /\ Len(kept) = k
    BY <1>1, <1>2, <1>7
  <2> DEFINE m == Width - k
  <2>2. m \in Nat /\ copies = [i \in 1..m |-> sign]
    BY <1>2, <1>7, <2>1
  <2> HIDE DEF kept, sign, m, copies
  <2>3. copies \in Seq(Int) /\ Len(copies) = m
    BY <1>6, <2>2
  <2>4. padded \in Seq(Int) /\ Len(padded) = Width
        /\ \A i \in 1..Width : padded[i] = IF i <= m THEN sign ELSE bytes[i - m]
    <3>1. m + k = Width
      BY <1>2 DEF m
    <3> QED
      BY <1>1, <1>2, <2>1, <2>2, <2>3, <3>1
  <2> HIDE DEF padded
  <2>5. ASSUME NEW i \in 1..Width PROVE padded[i] = DigitAt(n, Width - i)
    <3>1. CASE i <= m
      <4>1. Width - i \in Nat /\ k <= Width - i
        BY <1>2, <1>7, <3>1 DEF m
      <4>2. sign = DigitAt(n, Width - i)
        BY <1>1, <1>2, <1>4, <4>1, AboveHighest DEF sign
      <4> QED
        BY <2>4, <3>1, <4>2
    <3>2. CASE i > m
      <4>1. i - m \in 1..k /\ k - (i - m) = Width - i
        BY <1>2, <1>7, <3>2 DEF m
      <4>2. bytes[i - m] = DigitAt(n, k - (i - m))
        BY <1>1, <4>1
      <4> QED
        BY <2>2, <2>4, <3>2, <4>1, <4>2
    <3> QED
      BY <2>2, <3>1, <3>2
  <2>6. (n >= 0 => n \div Power(ByteBase, Width) = 0) /\ (n < 0 => n \div Power(ByteBase, Width) = -1)
    BY <1>1, <1>2, <1>7, AboveHighest
  <2>7. Unsigned(padded) - (IF n >= 0 THEN 0 ELSE Power(ByteBase, Width)) = n
    BY <2>4, <2>5, <2>6, WholeNumber
  <2> HIDE DEF sign
  <2> QED
    BY <1>3, <1>5, <2>7
<1>8. CASE k = Width + 1
  <2>1. extra = 1 /\ kept = SubSeq(bytes, 2, Width + 1)
    BY <1>1, <1>2, <1>8
  <2>2. kept \in Seq(Int) /\ Len(kept) = Width /\ \A i \in 1..Width : kept[i] = bytes[i + 1]
    <3> HIDE DEF kept
    <3> QED
      BY <1>1, <1>2, <1>8, <2>1
  <2> HIDE DEF kept
  <2>3. copies = <<>>
    BY <1>2, <2>2
  <2> HIDE DEF copies
  <2>4. padded = kept
    BY <2>2, <2>3
  <2> HIDE DEF padded
  <2>5. ASSUME NEW i \in 1..Width PROVE padded[i] = DigitAt(n, Width - i)
    <3>1. i + 1 \in 1..k /\ k - (i + 1) = Width - i
      BY <1>2, <1>8
    <3>2. bytes[i + 1] = DigitAt(n, k - (i + 1))
      BY <1>1, <3>1
    <3> QED
      BY <2>2, <2>4, <3>1, <3>2
  <2> DEFINE top == n \div Power(ByteBase, Width)
  <2>6. /\ top \in Int
        /\ n >= 0 => DigitAt(n, Width) = top
        /\ n < 0 => DigitAt(n, Width) = top + ByteBase
    <3>1. k - 1 = Width
      BY <1>2, <1>8
    <3>2. /\ n \div Power(ByteBase, k - 1) \in Int
          /\ n >= 0 => DigitAt(n, k - 1) = n \div Power(ByteBase, k - 1)
          /\ n < 0 => DigitAt(n, k - 1) = n \div Power(ByteBase, k - 1) + ByteBase
      BY <1>1, <1>2, HighestDigit
    <3> QED
      BY <3>1, <3>2
  <2>7. sign = DigitAt(n, Width)
    <3>1. 1 \in 1..extra /\ 1 \in 1..k /\ k - 1 = Width
      BY <1>2, <1>8, <2>1
    <3>2. bytes[1] = DigitAt(n, k - 1)
      BY <1>1, <3>1
    <3> HIDE DEF sign, extra
    <3> QED
      BY <1>3, <3>1, <3>2
  <2> HIDE DEF top, sign
  <2>8. (n >= 0 => top = 0) /\ (n < 0 => top = -1)
    <3>1. ByteBase \in Int
      BY BytePowers
    <3> QED
      BY <1>4, <2>6, <2>7, <3>1 DEF sign
  <2>9. Unsigned(padded) - (IF n >= 0 THEN 0 ELSE Power(ByteBase, Width)) = n
    BY <2>2, <2>4, <2>5, <2>8, WholeNumber DEF top
  <2> QED
    BY <1>3, <1>5, <2>9
<1> QED
  BY <1>2, <1>7, <1>8

(* A set of known values has a least and a greatest one.                   *)
Between(T) == \E lo \in T, hi \in T : \A y \in T : lo <= y /\ y <= hi

LEMMA OneMoreBetween ==
  ASSUME NEW T \in SUBSET Int, T = {} \/ Between(T), NEW x \in Int PROVE Between(T \cup {x})
<1>1. CASE T = {}
  BY <1>1 DEF Between
<1>2. CASE Between(T)
  <2>1. PICK lo \in T, hi \in T : \A y \in T : lo <= y /\ y <= hi
    BY <1>2 DEF Between
  <2>2. CASE x < lo
    <3>1. \A y \in T \cup {x} : x <= y /\ y <= hi
      BY <2>1, <2>2
    <3> QED
      BY <3>1 DEF Between
  <2>3. CASE lo <= x /\ x <= hi
    <3>1. \A y \in T \cup {x} : lo <= y /\ y <= hi
      BY <2>1, <2>3
    <3> QED
      BY <3>1 DEF Between
  <2>4. CASE hi < x
    <3>1. \A y \in T \cup {x} : lo <= y /\ y <= x
      BY <2>1, <2>4
    <3> QED
      BY <3>1 DEF Between
  <2> QED
    BY <2>1, <2>2, <2>3, <2>4
<1> QED
  BY <1>1, <1>2

LEMMA KnownBetween ==
  ASSUME SqlNull \notin Int, NEW vs \in Seq(Int \cup {SqlNull}), KnownValues(vs) # {}
  PROVE  KnownValues(vs) \in SUBSET Int /\ Between(KnownValues(vs))
<1> DEFINE T(k) == {vs[i] : i \in 1..k} \ {SqlNull}
           S == {k \in Nat : k <= Len(vs) => T(k) \in SUBSET Int /\ (T(k) = {} \/ Between(T(k)))}
<1>1. 0 \in S
  <2>1. T(0) = {}
    OBVIOUS
  <2> QED
    BY <2>1
<1>2. ASSUME NEW k \in Nat, k \in S PROVE k + 1 \in S
  <2> SUFFICES ASSUME k + 1 <= Len(vs)
               PROVE  T(k + 1) \in SUBSET Int /\ (T(k + 1) = {} \/ Between(T(k + 1)))
    OBVIOUS
  <2>1. T(k) \in SUBSET Int /\ (T(k) = {} \/ Between(T(k)))
    BY <1>2
  <2>2. vs[k + 1] \in Int \cup {SqlNull}
    OBVIOUS
  <2>3. 1..(k + 1) = 1..k \cup {k + 1}
    OBVIOUS
  <2>4. T(k + 1) = T(k) \cup ({vs[k + 1]} \ {SqlNull})
    BY <2>3
  <2> HIDE DEF T
  <2>5. CASE vs[k + 1] = SqlNull
    BY <2>1, <2>4, <2>5
  <2>6. CASE vs[k + 1] # SqlNull
    <3>1. vs[k + 1] \in Int /\ T(k + 1) = T(k) \cup {vs[k + 1]}
      BY <2>2, <2>4, <2>6
    <3>2. Between(T(k) \cup {vs[k + 1]})
      BY <2>1, <3>1, OneMoreBetween
    <3> QED
      BY <2>1, <3>1, <3>2
  <2> QED
    BY <2>5, <2>6
<1> HIDE DEF S
<1>3. Nat \subseteq S
  BY <1>1, <1>2, Induction
<1>4. Len(vs) \in Nat /\ DOMAIN vs = 1..Len(vs)
  OBVIOUS
<1>5. KnownValues(vs) = T(Len(vs))
  BY <1>4 DEF KnownValues
<1> HIDE DEF T
<1>6. T(Len(vs)) \in SUBSET Int /\ (T(Len(vs)) = {} \/ Between(T(Len(vs))))
  BY <1>3, <1>4 DEF S
<1> QED
  BY <1>5, <1>6

LEMMA LeastAndGreatest ==
  ASSUME SqlNull \notin Int, NEW vs \in Seq(Int \cup {SqlNull}), KnownValues(vs) # {}
  PROVE  Min(KnownValues(vs)) \in KnownValues(vs) /\ Max(KnownValues(vs)) \in KnownValues(vs)
<1> DEFINE T == KnownValues(vs)
<1>1. T \in SUBSET Int /\ Between(T)
  BY KnownBetween
<1> HIDE DEF T
<1>2. (\E x \in T : \A y \in T : x <= y) /\ (\E x \in T : \A y \in T : x >= y)
  BY <1>1 DEF Between
<1>3. Min(T) \in T
  BY <1>2 DEF Min
<1>4. Max(T) \in T
  BY <1>2 DEF Max
<1> QED
  BY <1>3, <1>4 DEF T

(* datetime_scalar: days and units of what a column has are those of the   *)
(* type it has now.                                                        *)
UnitsOf(c) == IF c.kind = "date" THEN 1 ELSE Day * PerSecond[c.unit]
SecondsOf(c, v) == IF c.kind = "date" THEN v * Day ELSE v \div PerSecond[c.unit]
NanosOf(c, v) ==
  IF c.kind = "date" THEN 0
  ELSE (v % PerSecond[c.unit]) * (PerSecond["nano"] \div PerSecond[c.unit])

LEMMA UnitsArePositive ==
  ASSUME StatisticsAssumption, NEW c \in ColumnTypes, c.kind = "timestamp"
  PROVE  PerSecond[c.unit] \in Positive /\ PerSecond["nano"] \in Int
         /\ PerSecond["nano"] \div PerSecond[c.unit] \in Positive
         /\ PerSecond["nano"] = PerSecond[c.unit] * (PerSecond["nano"] \div PerSecond[c.unit])
<1> DEFINE r == PerSecond[c.unit]
           p == PerSecond["nano"]
           m == p \div r
<1>1. r \in Positive /\ p \in Positive /\ p % r = 0
  BY DEF StatisticsAssumption, Positive
<1> HIDE DEF r, p
<1>2. r \in Int /\ p \in Int /\ 0 < p /\ 0 < r
  BY <1>1 DEF Positive
<1>3. m \in Int /\ p = m * r + 0
  BY <1>1, <1>2, Divided
<1> HIDE DEF m
<1>4. p = r * m /\ p = m * r
  BY <1>2, <1>3
<1>5. ~ m <= 0
  <2> SUFFICES ASSUME m <= 0 PROVE FALSE
    OBVIOUS
  <2>1. m * r <= 0 * r
    BY <1>2, <1>3, Grows
  <2> QED
    BY <1>2, <1>4, <2>1
<1>6. m \in Positive
  BY <1>3, <1>5 DEF Positive
<1> QED
  BY <1>1, <1>2, <1>4, <1>6 DEF r, p, m

(* A column of days, and one of units of a second.                         *)
LEMMA DayAsTime ==
  ASSUME StatisticsAssumption, NEW v \in Int, NEW to \in ColumnTypes, to.kind \in {"date", "timestamp"}
  PROVE  (v * UnitsOf(to)) \div 1 =
           IF to.kind = "date" THEN (v * Day) \div Day
           ELSE (v * Day) * PerSecond[to.unit] + (0 * PerSecond[to.unit]) \div PerSecond["nano"]
<1>1. Day \in Positive /\ 1 \in Positive /\ PerSecond["nano"] \in Positive
  BY DEF StatisticsAssumption, Positive
<1>2. Day \in Int
  BY <1>1 DEF Positive
<1>3. \A x \in Int : x \div 1 = x
  OBVIOUS
<1>4. CASE to.kind = "date"
  <2>1. (v * Day) \div Day = v
    BY <1>1, MovedOut, 0 \in Int
  <2> QED
    BY <1>3, <1>4, <2>1 DEF UnitsOf
<1>5. CASE to.kind = "timestamp"
  <2> DEFINE p == PerSecond[to.unit]
             s == PerSecond["nano"]
  <2>1. p \in Positive /\ p \in Int /\ s \in Positive
    BY <1>1, <1>5, UnitsArePositive DEF Positive
  <2>2. UnitsOf(to) = Day * p
    BY <1>5 DEF UnitsOf
  <2> HIDE DEF p, s
  <2>3. 0 * p = 0 * s /\ 0 * p = 0
    BY <2>1 DEF Positive
  <2>4. (0 * s) \div s = 0
    BY <2>1, MovedOut, 0 \in Int
  <2>5. v * (Day * p) = (v * Day) * p /\ (v * Day) * p \in Int
    BY <1>2, <2>1
  <2> QED
    BY <1>3, <1>5, <2>2, <2>3, <2>4, <2>5 DEF p, s
<1> QED
  BY <1>4, <1>5

LEMMA UnitsAsTime ==
  ASSUME StatisticsAssumption, NEW v \in Int, NEW from \in ColumnTypes, from.kind = "timestamp",
         NEW to \in ColumnTypes, to.kind \in {"date", "timestamp"}
  PROVE  (v * UnitsOf(to)) \div UnitsOf(from) =
           IF to.kind = "date" THEN SecondsOf(from, v) \div Day
           ELSE SecondsOf(from, v) * PerSecond[to.unit]
                  + (NanosOf(from, v) * PerSecond[to.unit]) \div PerSecond["nano"]
<1> DEFINE r == PerSecond[from.unit]
           p == PerSecond["nano"]
           m == p \div r
           q == v \div r
           e == v % r
<1>1. Day \in Positive /\ Day \in Int
  BY DEF StatisticsAssumption, Positive
<1>2. r \in Positive /\ p \in Int /\ m \in Positive /\ p = r * m
  BY UnitsArePositive
<1>3. q \in Int /\ e \in Int /\ v = q * r + e
  BY <1>2, Divided
<1>4. SecondsOf(from, v) = q /\ NanosOf(from, v) = e * m /\ UnitsOf(from) = Day * r
  BY DEF SecondsOf, NanosOf, UnitsOf
<1>5. r \in Int /\ m \in Int
  BY <1>2 DEF Positive
<1> HIDE DEF r, m, q, e
<1>6. CASE to.kind = "date"
  <2>1. UnitsOf(to) = 1 /\ v * 1 = v
    BY <1>6 DEF UnitsOf
  <2>2. (v \div r) \div Day = v \div (r * Day)
    BY <1>1, <1>2, DividedTwice
  <2>3. r * Day = Day * r
    BY <1>1, <1>5
  <2> QED
    BY <1>4, <1>6, <2>1, <2>2, <2>3 DEF q
<1>7. CASE to.kind = "timestamp"
  <2> DEFINE k == PerSecond[to.unit]
  <2>1. k \in Positive /\ k \in Int /\ UnitsOf(to) = Day * k
    BY <1>7, UnitsArePositive DEF UnitsOf, Positive
  <2> HIDE DEF k, p
  <2>2. (v * (Day * k)) \div (Day * r) = (v * k) \div r
    <3>1. v * (Day * k) = (v * k) * Day /\ Day * r = r * Day /\ v * k \in Int
      BY <1>1, <1>5, <2>1
    <3> DEFINE x == v * k
    <3> HIDE DEF x
    <3>2. x \in Int
      BY <3>1 DEF x
    <3>3. (x * Day) \div (r * Day) = x \div r
      BY <1>1, <1>2, <3>2, Cancelled
    <3> QED
      BY <3>1, <3>3 DEF x
  <2>3. (v * k) \div r = q * k + (e * k) \div r
    <3>1. v * k = (q * k) * r + e * k /\ q * k \in Int /\ e * k \in Int
      BY <1>3, <1>5, <2>1
    <3>2. ((q * k) * r + e * k) \div r = q * k + (e * k) \div r
      BY <1>2, <3>1, MovedOut
    <3> QED
      BY <3>1, <3>2
  <2>4. ((e * m) * k) \div p = (e * k) \div r
    <3>1. (e * m) * k = (e * k) * m /\ e * k \in Int
      BY <1>3, <1>5, <2>1
    <3> QED
      BY <1>2, <3>1, Cancelled
  <2> QED
    BY <1>4, <1>7, <2>1, <2>2, <2>3, <2>4 DEF k, p
<1> QED
  BY <1>6, <1>7

LEMMA TimeConverted ==
  ASSUME StatisticsAssumption, NEW v \in Int, NEW from \in ColumnTypes, from.kind \in {"date", "timestamp"},
         NEW to \in ColumnTypes, NEW t, t.seconds = SecondsOf(from, v), t.nanos = NanosOf(from, v),
         FromDateTime(t, to) # NoValue
  PROVE  /\ to.kind \in {"date", "timestamp"} /\ FromDateTime(t, to) = (v * UnitsOf(to)) \div UnitsOf(from)
         /\ to.kind = "date" => FromDateTime(t, to) \in Days
<1>1. to.kind \in {"date", "timestamp"}
  BY DEF FromDateTime
<1>2. /\ to.kind = "date" => FromDateTime(t, to) = t.seconds \div Day /\ t.seconds \div Day \in Days
      /\ to.kind = "timestamp" =>
           FromDateTime(t, to) =
             t.seconds * PerSecond[to.unit] + (t.nanos * PerSecond[to.unit]) \div PerSecond["nano"]
  BY <1>1 DEF FromDateTime
<1>3. CASE from.kind = "date"
  <2>1. UnitsOf(from) = 1 /\ t.seconds = v * Day /\ t.nanos = 0
    BY <1>3 DEF UnitsOf, SecondsOf, NanosOf
  <2> QED
    BY <1>1, <1>2, <2>1, DayAsTime
<1>4. CASE from.kind = "timestamp"
  BY <1>1, <1>2, <1>4, UnitsAsTime
<1> QED
  BY <1>1, <1>2, <1>3, <1>4

(* What Glue has of a column c with the values vs, when it was analyzed or *)
(* after some of it was lost.                                              *)
WrittenFor(c, v) ==
  CASE c.kind = "decimal" ->
         UNION {{[bytes |-> b, scale |-> s] : b \in
                   IF InScale(v, s - c.scale) = NoValue THEN {} ELSE Encodings(InScale(v, s - c.scale))} :
                s \in Scales}
    [] c.kind = "date" -> {[seconds |-> v * Day, nanos |-> 0]}
    [] c.kind = "timestamp" ->
         LET ratio == PerSecond[c.unit] IN
         {[seconds |-> v \div ratio, nanos |-> (v % ratio) * (PerSecond["nano"] \div ratio)]}
    [] c.kind \notin {"decimal", "date", "timestamp"} -> {v}

Lost(c) ==
  CASE c.glue = "LONG" -> {} [] c.glue = "DOUBLE" -> {NotFinite} [] c.glue \notin PlainNumbers -> {NoValue}
BoundsFor(c, vs, v) ==
  IF KnownValues(vs) = {} THEN {0, NoValue, NotFinite} ELSE WrittenFor(c, v) \cup Lost(c)
KeptOf(c, vs) ==
  LET nulls == {Count(SqlNull, vs), -1}
      distinct == {Cardinality(KnownValues(vs)), -1} IN
  CASE c.glue = "BOOLEAN" ->
         [type : {c.glue}, nulls : nulls, trues : {Count(1, vs), -1}, falses : {Count(0, vs), -1}]
    [] c.glue \in {"STRING", "BINARY"} -> [type : {c.glue}, nulls : nulls, distinct : distinct]
    [] c.glue \in PlainNumbers \cup {"DECIMAL", "DATE"} ->
         [type : {c.glue}, nulls : nulls, distinct : distinct,
          min : BoundsFor(c, vs, Min(KnownValues(vs))), max : BoundsFor(c, vs, Max(KnownValues(vs)))]

Entries(c) == ColumnValues[c] \cup {SqlNull}
StatisticsInv ==
  /\ column \in ColumnTypes
  /\ \/ analyzed = NoValue /\ glue = NoValue /\ values \in Seq(Entries(column))
     \/ \E c \in ColumnTypes : \E vs \in Seq(Entries(c)) :
          analyzed = [column |-> c, values |-> vs] /\ glue \in KeptOf(c, vs)
  /\ written_files \in Seq([partition : Partitions, size : Nat])

LEMMA KindOf ==
  ASSUME StatisticsAssumption, NEW c \in ColumnTypes
  PROVE  /\ c.glue = "LONG" <=> c.kind = "int"
         /\ c.glue = "DOUBLE" <=> c.kind \in {"float", "double"}
         /\ c.glue = "DECIMAL" <=> c.kind = "decimal"
         /\ c.glue = "BOOLEAN" <=> c.kind = "boolean"
         /\ c.glue = "STRING" <=> c.kind = "utf8"
         /\ c.glue = "BINARY" <=> c.kind = "binary"
         /\ c.glue = "DATE" <=> c.kind \in {"date", "timestamp"}
         /\ c.glue \in {"LONG", "DOUBLE", "DECIMAL", "BOOLEAN", "STRING", "BINARY", "DATE"}
<1>1. <<c.glue, c.kind>> \in GlueKinds
  BY DEF StatisticsAssumption
<1> DEFINE g == c.glue
           k == c.kind
<1>2. <<g, k>> \in GlueKinds
  BY <1>1
<1> HIDE DEF g, k
<1>3. \/ g = "LONG" /\ k = "int"
      \/ g = "DOUBLE" /\ k \in {"float", "double"}
      \/ g = "DECIMAL" /\ k = "decimal"
      \/ g = "BOOLEAN" /\ k = "boolean"
      \/ g = "STRING" /\ k = "utf8"
      \/ g = "BINARY" /\ k = "binary"
      \/ g = "DATE" /\ k \in {"date", "timestamp"}
  BY <1>2 DEF GlueKinds
<1> QED
  BY <1>3 DEF g, k

(* A bound that is claimed is the value that was written, as the type of   *)
(* the column has it now.                                                  *)
IsValue(bound, v, c) ==
  bound = Absent \/ (bound = Inexact(ReadsAs(v, c, column)) /\ FitsColumn(bound.value, column))

LEMMA ValueClaimed ==
  ASSUME NEW v, NEW c, NEW x, x # NoValue => x = ReadsAs(v, c, column) /\ FitsColumn(x, column)
  PROVE  IsValue(InexactIfSome(x), v, c)
BY DEF IsValue, InexactIfSome, Inexact

LEMMA NumberHolds ==
  ASSUME StatisticsAssumption, column \in ColumnTypes, NEW c \in ColumnTypes, c.glue \in PlainNumbers,
         NEW v \in Int, NEW b \in WrittenFor(c, v) \cup Lost(c), NEW s, s.type = c.glue
  PROVE  Bound(s, b) # NoValue => Bound(s, b) = ReadsAs(v, c, column) /\ FitsColumn(Bound(s, b), column)
<1> SUFFICES ASSUME Bound(s, b) # NoValue
             PROVE  Bound(s, b) = ReadsAs(v, c, column) /\ FitsColumn(Bound(s, b), column)
  OBVIOUS
<1>1. b # NoValue
  BY DEF Bound
<1>2. c.kind \in {"int", "float", "double"}
  BY KindOf DEF PlainNumbers
<1>3. WrittenFor(c, v) = {v}
  BY <1>2 DEF WrittenFor
<1>4. CASE c.glue = "LONG"
  <2>1. c.kind = "int" /\ b = v
    BY <1>3, <1>4, KindOf DEF Lost
  <2>2. Bound(s, b) = FromLong(v, column)
    BY <1>1, <1>4, <2>1 DEF Bound
  <2>3. column.kind = "int" /\ v \in column.range /\ Bound(s, b) = v
    BY <2>2 DEF FromLong
  <2> QED
    BY <2>1, <2>3 DEF ReadsAs, FitsColumn
<1>5. CASE c.glue = "DOUBLE"
  <2>1. c.kind \in {"float", "double"} /\ b \in {v, NotFinite}
    BY <1>3, <1>5, KindOf DEF Lost
  <2>2. Bound(s, b) = FromDouble(b, column)
    BY <1>1, <1>5 DEF Bound
  <2>3. b = v /\ column.kind \in {"float", "double"} /\ Bound(s, b) = v
        /\ (column.kind = "float" => v \in (-MaxFloat)..MaxFloat)
    BY <2>1, <2>2 DEF FromDouble
  <2> QED
    BY <2>1, <2>3 DEF ReadsAs, FitsColumn
<1> QED
  BY <1>4, <1>5 DEF PlainNumbers

LEMMA DecimalHolds ==
  ASSUME StatisticsAssumption, column \in ColumnTypes, NEW c \in ColumnTypes, c.glue = "DECIMAL",
         NEW v \in Int, NEW b \in WrittenFor(c, v) \cup Lost(c), NEW s, s.type = c.glue
  PROVE  Bound(s, b) # NoValue => Bound(s, b) = ReadsAs(v, c, column) /\ FitsColumn(Bound(s, b), column)
<1> SUFFICES ASSUME Bound(s, b) # NoValue
             PROVE  Bound(s, b) = ReadsAs(v, c, column) /\ FitsColumn(Bound(s, b), column)
  OBVIOUS
<1>1. b # NoValue
  BY DEF Bound
<1>2. c.kind = "decimal" /\ c.scale \in Int
  BY KindOf DEF StatisticsAssumption
<1>3. b \in WrittenFor(c, v)
  BY <1>1 DEF Lost, PlainNumbers
<1>4. PICK t \in Scales : /\ InScale(v, t - c.scale) # NoValue
                          /\ \E e \in Encodings(InScale(v, t - c.scale)) : b = [bytes |-> e, scale |-> t]
  <2>1. b \in UNION {{[bytes |-> e, scale |-> t] : e \in
                 IF InScale(v, t - c.scale) = NoValue THEN {} ELSE Encodings(InScale(v, t - c.scale))} :
              t \in Scales}
    BY <1>2, <1>3 DEF WrittenFor
  <2>2. PICK t \in Scales : b \in {[bytes |-> e, scale |-> t] : e \in
                 IF InScale(v, t - c.scale) = NoValue THEN {} ELSE Encodings(InScale(v, t - c.scale))}
    BY <2>1, Zenon
  <2>3. PICK e \in IF InScale(v, t - c.scale) = NoValue THEN {} ELSE Encodings(InScale(v, t - c.scale)) :
          b = [bytes |-> e, scale |-> t]
    BY <2>2, Zenon
  <2>4. InScale(v, t - c.scale) # NoValue /\ e \in Encodings(InScale(v, t - c.scale))
    BY <2>3
  <2> QED
    BY <2>3, <2>4
<1>p. PICK bytes \in Encodings(InScale(v, t - c.scale)) : b = [bytes |-> bytes, scale |-> t]
  BY <1>4
<1> DEFINE n == InScale(v, t - c.scale)
<1>5. t \in Int /\ t - c.scale \in Int /\ n \in Int
  <2>1. t \in Int /\ t - c.scale \in Int
    <3>1. Scales \subseteq Int
      BY DEF StatisticsAssumption
    <3> QED
      BY <1>2, <3>1
  <2> QED
    BY <1>4, <2>1, ScaledExactly
<1>6. Bound(s, b) = FromDecimal(b, column)
  BY <1>1 DEF Bound
<1>7. BasesAreBytes /\ NoValue \notin Int
  BY DEF StatisticsAssumption, BasesAreBytes, Positive
<1>8. SignedFromBytes(bytes) = n
  <2>1. b.bytes = bytes
    BY <1>p
  <2>2. SignedFromBytes(bytes) # NoValue
    BY <1>6, <2>1 DEF FromDecimal
  <2>3. bytes \in Encodings(n)
    BY <1>p
  <2> HIDE DEF n
  <2> QED
    BY <1>5, <1>7, <2>2, <2>3, SignedIs
<1>9. column.kind = "decimal"
  BY <1>6 DEF FromDecimal
<1>10. column.scale \in Int /\ column.precision \in Nat
  BY <1>9 DEF StatisticsAssumption
<1>11. b.bytes = bytes /\ b.scale = t
  BY <1>p
<1> HIDE DEF n
<1>12. /\ FromDecimal(b, column) = InScale(n, column.scale - t) /\ FromDecimal(b, column) \in Int
       /\ -Power(10, column.precision) < FromDecimal(b, column)
       /\ FromDecimal(b, column) < Power(10, column.precision)
  BY <1>5, <1>6, <1>7, <1>8, <1>10, <1>11, DecimalScaled
<1>13. InScale(v, (t - c.scale) + (column.scale - t)) = InScale(n, column.scale - t)
  <2>1. column.scale - t \in Int /\ InScale(n, column.scale - t) # NoValue /\ n # NoValue
    BY <1>5, <1>7, <1>10, <1>12
  <2> QED
    BY <1>5, <2>1, ScaledTwice DEF n
<1>14. (t - c.scale) + (column.scale - t) = column.scale - c.scale
  BY <1>2, <1>5, <1>10
<1>15. ReadsAs(v, c, column) = InScale(v, column.scale - c.scale)
  BY <1>2, <1>9 DEF ReadsAs
<1> QED
  BY <1>6, <1>9, <1>12, <1>13, <1>14, <1>15 DEF FitsColumn

LEMMA DateHolds ==
  ASSUME StatisticsAssumption, column \in ColumnTypes, NEW c \in ColumnTypes, c.glue = "DATE",
         NEW v \in Int, NEW b \in WrittenFor(c, v) \cup Lost(c), NEW s, s.type = c.glue
  PROVE  Bound(s, b) # NoValue => Bound(s, b) = ReadsAs(v, c, column) /\ FitsColumn(Bound(s, b), column)
<1> SUFFICES ASSUME Bound(s, b) # NoValue
             PROVE  Bound(s, b) = ReadsAs(v, c, column) /\ FitsColumn(Bound(s, b), column)
  OBVIOUS
<1>1. b # NoValue
  BY DEF Bound
<1>2. c.kind \in {"date", "timestamp"}
  BY KindOf
<1>3. b \in WrittenFor(c, v)
  BY <1>1 DEF Lost, PlainNumbers
<1>4. b.seconds = SecondsOf(c, v) /\ b.nanos = NanosOf(c, v)
  BY <1>2, <1>3 DEF WrittenFor, SecondsOf, NanosOf
<1>5. Bound(s, b) = FromDateTime(b, column)
  BY <1>1 DEF Bound
<1>6. /\ column.kind \in {"date", "timestamp"}
      /\ FromDateTime(b, column) = (v * UnitsOf(column)) \div UnitsOf(c)
      /\ column.kind = "date" => FromDateTime(b, column) \in Days
  BY <1>2, <1>4, <1>5, TimeConverted
<1>7. ReadsAs(v, c, column) = (v * UnitsOf(column)) \div UnitsOf(c)
  BY <1>2, <1>6 DEF ReadsAs, UnitsOf
<1> QED
  BY <1>5, <1>6, <1>7 DEF FitsColumn

LEMMA BoundHolds ==
  ASSUME StatisticsAssumption, column \in ColumnTypes, NEW c \in ColumnTypes,
         c.glue \in PlainNumbers \cup {"DECIMAL", "DATE"},
         NEW v \in Int, NEW b \in WrittenFor(c, v) \cup Lost(c), NEW s, s.type = c.glue
  PROVE  IsValue(InexactIfSome(Bound(s, b)), v, c)
<1>1. Bound(s, b) # NoValue => Bound(s, b) = ReadsAs(v, c, column) /\ FitsColumn(Bound(s, b), column)
  <2>1. CASE c.glue \in PlainNumbers
    BY <2>1, NumberHolds
  <2>2. CASE c.glue = "DECIMAL"
    BY <2>2, DecimalHolds
  <2>3. CASE c.glue = "DATE"
    BY <2>3, DateHolds
  <2> QED
    BY <2>1, <2>2, <2>3
<1> QED
  BY <1>1, ValueClaimed

(* The bytes of a scan: a sum, so none are missing and none are below 0.   *)
LEMMA SizeIsNatural ==
  ASSUME written_files \in Seq([partition : Partitions, size : Nat]), NEW scanned
  PROVE  TotalSize(scanned) \in Nat
<1> DEFINE n == Len(written_files)
           size(i) == IF written_files[i].partition \in scanned THEN written_files[i].size ELSE 0
           of(f) == [i \in 0..n |-> IF i = 0 THEN 0 ELSE f[i - 1] + size(i)]
           chosen == CHOOSE f : f = of(f)
<1>1. n \in Nat
  OBVIOUS
<1>2. \A i \in 1..n : size(i) \in Nat
  <2> SUFFICES ASSUME NEW i \in 1..n PROVE size(i) \in Nat
    OBVIOUS
  <2>1. written_files[i] \in [partition : Partitions, size : Nat]
    <3> DEFINE Files == [partition : Partitions, size : Nat]
    <3>1. written_files \in Seq(Files)
      OBVIOUS
    <3> HIDE DEF Files
    <3>2. written_files[i] \in Files
      BY <3>1
    <3> QED
      BY <3>2 DEF Files
  <2>2. written_files[i].size \in Nat
    BY <2>1
  <2> QED
    BY <2>2
<1>3. TotalSize(scanned) = chosen[n]
  BY DEF TotalSize
<1> HIDE DEF n, size
<1>4. PICK f \in [Nat -> Nat] : f[0] = 0 /\ \A i \in Nat : f[i + 1] = f[i] + IF i + 1 \in 1..n THEN size(i + 1) ELSE 0
  <2> DEFINE more(i) == IF i \in 1..n THEN size(i) ELSE 0
             step == [p \in Nat \X Nat |-> p[2] + more(p[1] + 1)]
  <2>1. \A i \in Nat : more(i + 1) \in Nat
    BY <1>2
  <2> HIDE DEF more
  <2>2. step \in [Nat \X Nat -> Nat] /\ \A i \in Nat, v \in Nat : step[<<i, v>>] = v + more(i + 1)
    BY <2>1
  <2> HIDE DEF step
  <2>3. 0 \in Nat
    OBVIOUS
  <2>4. \E f \in [Nat -> Nat] : Leads(0, step, f)
    BY <2>2, <2>3, Recursion
  <2> QED
    BY <2>2, <2>4 DEF Leads, more
<1> DEFINE start == [i \in 0..n |-> f[i]]
<1>5. start = of(start)
  <2> SUFFICES ASSUME NEW i \in 0..n PROVE start[i] = of(start)[i]
    OBVIOUS
  <2>1. CASE i = 0
    BY <1>4, <2>1
  <2>2. CASE i # 0
    <3>1. i - 1 \in Nat /\ i - 1 \in 0..n /\ (i - 1) + 1 = i /\ i \in 1..n
      BY <1>1, <2>2
    <3>2. f[(i - 1) + 1] = f[i - 1] + size(i)
      BY <1>4, <3>1
    <3> QED
      BY <2>2, <3>1, <3>2
  <2> QED
    BY <2>1, <2>2
<1>6. chosen = of(chosen)
  <2> HIDE DEF of, start
  <2> QED
    BY <1>5
<1> HIDE DEF chosen
<1>7. \A i \in 0..n : chosen[i] = IF i = 0 THEN 0 ELSE chosen[i - 1] + size(i)
  BY <1>6
<1> DEFINE S == {i \in Nat : i <= n => chosen[i] \in Nat}
<1>8. Nat \subseteq S
  <2>1. 0 \in S
    BY <1>1, <1>7
  <2>2. ASSUME NEW i \in Nat, i \in S PROVE i + 1 \in S
    <3> SUFFICES ASSUME i + 1 <= n PROVE chosen[i + 1] \in Nat
      OBVIOUS
    <3>1. i + 1 \in 0..n /\ i + 1 \in 1..n /\ i + 1 # 0 /\ (i + 1) - 1 = i /\ i <= n
      BY <1>1
    <3>2. chosen[i] \in Nat
      BY <2>2, <3>1
    <3>3. chosen[i + 1] = chosen[i] + size(i + 1)
      BY <1>7, <3>1
    <3>4. size(i + 1) \in Nat
      BY <1>2, <3>1
    <3> DEFINE before == chosen[i]
               more == size(i + 1)
    <3>5. before \in Nat /\ more \in Nat /\ chosen[i + 1] = before + more
      BY <3>2, <3>3, <3>4
    <3> HIDE DEF before, more
    <3> QED
      BY <3>5
  <2> HIDE DEF S
  <2> QED
    BY <2>1, <2>2, Induction
<1> QED
  BY <1>1, <1>3, <1>8

LEMMA AtLeastOneRow ==
  ASSUME RowSize \in Positive, NEW bytes \in Nat
  PROVE  EstimateRows(bytes) = 0 <=> bytes = 0
<1>1. CASE bytes = 0
  BY <1>1 DEF EstimateRows
<1>2. CASE bytes # 0
  <2> DEFINE x == bytes \div RowSize
  <2>1. x \in Int
    BY Divided
  <2>2. EstimateRows(bytes) = Max({1, x})
    BY <1>2 DEF EstimateRows
  <2> HIDE DEF x
  <2>3. \E m \in {1, x} : \A y \in {1, x} : m >= y
    BY <2>1
  <2>4. Max({1, x}) >= 1 /\ Max({1, x}) \in Int
    BY <2>1, <2>3 DEF Max
  <2> QED
    BY <1>2, <2>2, <2>4
<1> QED
  BY <1>1, <1>2

LEMMA ScansAreSized ==
  ASSUME StatisticsAssumption, written_files \in Seq([partition : Partitions, size : Nat])
  PROVE  ScanSized
<1> SUFFICES ASSUME NEW scanned \in SUBSET Partitions, scanned # Partitions
             PROVE  /\ OfScan(scanned).bytes = Inexact(TotalSize(scanned))
                    /\ (OfScan(scanned).rows = Inexact(0)) = (TotalSize(scanned) = 0)
  BY DEF ScanSized
<1>1. TotalSize(scanned) \in Nat /\ RowSize \in Positive
  BY SizeIsNatural DEF StatisticsAssumption, Positive
<1>2. /\ OfScan(scanned).bytes = Inexact(TotalSize(scanned))
      /\ OfScan(scanned).rows = Inexact(EstimateRows(TotalSize(scanned)))
  BY DEF OfScan, Filled
<1>3. EstimateRows(TotalSize(scanned)) = 0 <=> TotalSize(scanned) = 0
  BY <1>1, AtLeastOneRow
<1>4. \A x : Inexact(x) = Inexact(0) <=> x = 0
  BY DEF Inexact
<1>5. OfScan(scanned).rows = Inexact(0) <=> TotalSize(scanned) = 0
  BY <1>2, <1>3, <1>4
<1> QED
  BY <1>2, <1>5

-----------------------------------------------------------------------------

(* What is claimed of columns.                                             *)
Claims(statistics, c, vs) ==
  /\ statistics.nulls \in {Absent, Inexact(Count(SqlNull, vs))}
  /\ statistics.distinct \in {Absent, Inexact(Cardinality(KnownValues(vs)))}
  /\ KnownValues(vs) # {} =>
       IsValue(statistics.min, Min(KnownValues(vs)), c) /\ IsValue(statistics.max, Max(KnownValues(vs)), c)

LEMMA NothingClaimed == ASSUME NEW c, NEW vs PROVE Claims(Unknown, c, vs)
BY DEF Claims, Unknown, IsValue

LEMMA CountClaimed == ASSUME NEW x, NEW n \in {x, -1} PROVE InexactCount(n) \in {Absent, Inexact(x)}
<1>1. CASE n = x
  BY <1>1 DEF InexactCount
<1>2. CASE n = -1
  BY <1>2 DEF InexactCount
<1> QED
  BY <1>1, <1>2

LEMMA KnownAreValues ==
  ASSUME StatisticsAssumption, NEW c \in ColumnTypes, NEW vs \in Seq(Entries(c))
  PROVE  /\ vs \in Seq(Int \cup {SqlNull}) /\ KnownValues(vs) \subseteq ColumnValues[c]
         /\ ColumnValues[c] \subseteq Int /\ SqlNull \notin Int
         /\ c.kind = "boolean" => ColumnValues[c] \subseteq {0, 1}
<1>1. /\ ColumnValues[c] \subseteq Int /\ SqlNull \notin Int
      /\ c.kind = "boolean" => ColumnValues[c] \subseteq {0, 1}
  <2>1. ColumnValues[c] \subseteq (IF c.kind = "boolean" THEN {0, 1} ELSE Int) /\ SqlNull \notin Int
    BY DEF StatisticsAssumption
  <2>2. {0, 1} \subseteq Int
    OBVIOUS
  <2> QED
    BY <2>1, <2>2
<1>2. \A i \in DOMAIN vs : vs[i] \in Entries(c)
  OBVIOUS
<1>3. Entries(c) \subseteq Int \cup {SqlNull}
  BY <1>1 DEF Entries
<1>4. vs \in Seq(Int \cup {SqlNull})
  BY <1>3
<1>5. KnownValues(vs) \subseteq ColumnValues[c]
  BY <1>2 DEF KnownValues, Entries
<1> QED
  BY <1>1, <1>4, <1>5

LEMMA BoundsClaimed ==
  ASSUME StatisticsAssumption, column \in ColumnTypes, NEW c \in ColumnTypes,
         c.glue \in PlainNumbers \cup {"DECIMAL", "DATE"}, NEW vs \in Seq(Entries(c)), NEW s \in KeptOf(c, vs)
  PROVE  Claims(Bounds(s), c, vs)
<1> DEFINE known == KnownValues(vs)
<1>1. /\ s.type = c.glue /\ s.nulls \in {Count(SqlNull, vs), -1} /\ s.distinct \in {Cardinality(known), -1}
      /\ s.min \in BoundsFor(c, vs, Min(known)) /\ s.max \in BoundsFor(c, vs, Max(known))
  <2>1. s \in [type : {c.glue}, nulls : {Count(SqlNull, vs), -1}, distinct : {Cardinality(known), -1},
               min : BoundsFor(c, vs, Min(known)), max : BoundsFor(c, vs, Max(known))]
    BY DEF KeptOf, PlainNumbers
  <2> HIDE DEF known
  <2> QED
    BY <2>1
<1>2. Bounds(s).nulls \in {Absent, Inexact(Count(SqlNull, vs))}
      /\ Bounds(s).distinct \in {Absent, Inexact(Cardinality(known))}
  <2>1. Bounds(s).nulls = InexactCount(s.nulls) /\ Bounds(s).distinct = InexactCount(s.distinct)
    BY DEF Bounds
  <2> QED
    BY <1>1, <2>1, CountClaimed
<1>3. ASSUME known # {}
      PROVE  IsValue(Bounds(s).min, Min(known), c) /\ IsValue(Bounds(s).max, Max(known), c)
  <2>1. Min(known) \in Int /\ Max(known) \in Int
    BY <1>3, KnownAreValues, LeastAndGreatest
  <2>2. s.min \in WrittenFor(c, Min(known)) \cup Lost(c) /\ s.max \in WrittenFor(c, Max(known)) \cup Lost(c)
    BY <1>1, <1>3 DEF BoundsFor
  <2>3. Bounds(s).min = InexactIfSome(Bound(s, s.min)) /\ Bounds(s).max = InexactIfSome(Bound(s, s.max))
    BY DEF Bounds
  <2> HIDE DEF known
  <2>4. IsValue(InexactIfSome(Bound(s, s.min)), Min(known), c)
    BY <1>1, <2>1, <2>2, BoundHolds
  <2>5. IsValue(InexactIfSome(Bound(s, s.max)), Max(known), c)
    BY <1>1, <2>1, <2>2, BoundHolds
  <2> QED
    BY <2>3, <2>4, <2>5
<1> QED
  BY <1>2, <1>3 DEF Claims

LEMMA CountedIfThere ==
  ASSUME NEW T, NEW vs \in Seq(T), NEW v
  PROVE  Count(v, vs) \in Nat /\ (Count(v, vs) > 0 <=> \E i \in DOMAIN vs : vs[i] = v)
<1> DEFINE S == {i \in DOMAIN vs : vs[i] = v}
<1>1. IsFiniteSet(S)
  <2>1. IsFiniteSet(1..Len(vs)) /\ S \subseteq 1..Len(vs)
    <3>1. 1 \in Int /\ Len(vs) \in Int
      OBVIOUS
    <3>2. IsFiniteSet(1..Len(vs))
      BY <3>1, FS_Interval
    <3> QED
      BY <3>2
  <2> HIDE DEF S
  <2> QED
    BY <2>1, FS_Subset
<1>2. Cardinality(S) \in Nat /\ (Cardinality(S) = 0 <=> S = {})
  <2> HIDE DEF S
  <2> QED
    BY <1>1, FS_CardinalityType, FS_EmptySet
<1>3. Count(v, vs) = Cardinality(S)
  BY DEF Count
<1>4. S = {} <=> ~ \E i \in DOMAIN vs : vs[i] = v
  OBVIOUS
<1> HIDE DEF S
<1> QED
  BY <1>2, <1>3, <1>4

LEMMA BooleanClaimed ==
  ASSUME StatisticsAssumption, NEW c \in ColumnTypes, c.glue = "BOOLEAN", column.kind = "boolean",
         NEW vs \in Seq(Entries(c)), NEW s \in KeptOf(c, vs)
  PROVE  Claims(OfBoolean(s), c, vs)
<1> DEFINE known == KnownValues(vs)
<1>1. /\ s.nulls \in {Count(SqlNull, vs), -1}
      /\ s.trues \in {Count(1, vs), -1} /\ s.falses \in {Count(0, vs), -1}
  <2>1. s \in [type : {c.glue}, nulls : {Count(SqlNull, vs), -1}, trues : {Count(1, vs), -1},
               falses : {Count(0, vs), -1}]
    <3>1. KeptOf(c, vs) = [type : {c.glue}, nulls : {Count(SqlNull, vs), -1}, trues : {Count(1, vs), -1},
                           falses : {Count(0, vs), -1}]
      BY DEF KeptOf, PlainNumbers
    <3> QED
      BY <3>1
  <2> QED
    BY <2>1
<1>2. InexactCount(s.nulls) \in {Absent, Inexact(Count(SqlNull, vs))}
  BY <1>1, CountClaimed
<1>3. CASE s.falses < 0 \/ s.trues < 0
  <2>1. OfBoolean(s) = [Unknown EXCEPT !.nulls = InexactCount(s.nulls)]
    BY <1>3 DEF OfBoolean
  <2>2. OfBoolean(s).nulls = InexactCount(s.nulls) /\ OfBoolean(s).distinct = Absent
        /\ OfBoolean(s).min = Absent /\ OfBoolean(s).max = Absent
    BY <2>1 DEF Unknown
  <2> QED
    BY <1>2, <2>2 DEF Claims, IsValue
<1>4. CASE ~(s.falses < 0 \/ s.trues < 0)
  <2>1. s.falses = Count(0, vs) /\ s.trues = Count(1, vs)
    BY <1>1, <1>4
  <2> DEFINE seen == {b \in {0, 1} : (IF b = 0 THEN s.falses ELSE s.trues) > 0}
  <2>2. seen = known
    <3>1. known \subseteq {0, 1} /\ SqlNull \notin {0, 1}
      <4>1. known \subseteq {0, 1} /\ SqlNull \notin Int
        BY KindOf, KnownAreValues
      <4>2. 0 \in Int /\ 1 \in Int
        OBVIOUS
      <4> QED
        BY <4>1, <4>2
    <3>2. \A b \in {0, 1} : b \in known <=> \E i \in DOMAIN vs : vs[i] = b
      BY <3>1 DEF KnownValues
    <3>3. s.falses > 0 <=> 0 \in known
      <4>1. Count(0, vs) > 0 <=> \E i \in DOMAIN vs : vs[i] = 0
        BY CountedIfThere
      <4> QED
        BY <2>1, <3>2, <4>1
    <3>4. s.trues > 0 <=> 1 \in known
      <4>1. Count(1, vs) > 0 <=> \E i \in DOMAIN vs : vs[i] = 1
        BY CountedIfThere
      <4> QED
        BY <2>1, <3>2, <4>1
    <3>5. 0 \in seen <=> 0 \in known
      BY <3>3
    <3>6. 1 \in seen <=> 1 \in known
      BY <3>4
    <3>7. seen \subseteq {0, 1}
      OBVIOUS
    <3> HIDE DEF seen, known
    <3>8. ASSUME NEW b PROVE b \in seen <=> b \in known
      <4>1. CASE b = 0
        BY <3>5, <4>1
      <4>2. CASE b = 1
        BY <3>6, <4>2
      <4>3. CASE b \notin {0, 1}
        BY <3>1, <3>7, <4>3
      <4> QED
        BY <4>1, <4>2, <4>3
    <3> QED
      BY <3>8
  <2>3. OfBoolean(s) =
          [nulls |-> InexactCount(s.nulls), distinct |-> Inexact(Cardinality(seen)),
           min |-> IF seen = {} THEN Absent ELSE Inexact(Min(seen)),
           max |-> IF seen = {} THEN Absent ELSE Inexact(Max(seen))]
    BY <1>4 DEF OfBoolean
  <2> HIDE DEF seen
  <2>4. ASSUME NEW v PROVE IsValue(Inexact(v), v, c)
    <3>1. c.kind = "boolean"
      BY KindOf
    <3>2. ReadsAs(v, c, column) = v
      BY <3>1 DEF ReadsAs
    <3>3. FitsColumn(Inexact(v).value, column)
      BY DEF FitsColumn
    <3> QED
      BY <3>2, <3>3 DEF IsValue
  <2> HIDE DEF known
  <2>5. /\ OfBoolean(s).nulls = InexactCount(s.nulls) /\ OfBoolean(s).distinct = Inexact(Cardinality(known))
        /\ known # {} => OfBoolean(s).min = Inexact(Min(known)) /\ OfBoolean(s).max = Inexact(Max(known))
    BY <2>2, <2>3
  <2> QED
    BY <1>2, <2>4, <2>5 DEF Claims, known
<1> QED
  BY <1>3, <1>4

LEMMA ColumnsClaimed ==
  ASSUME StatisticsAssumption, StatisticsInv PROVE ColumnHolds
<1> SUFFICES ASSUME analyzed # NoValue PROVE Claims(ConvertedStatistics, analyzed.column, analyzed.values)
  BY DEF ColumnHolds, Claims, IsValue
<1>1. PICK c \in ColumnTypes : \E vs \in Seq(Entries(c)) :
        analyzed = [column |-> c, values |-> vs] /\ glue \in KeptOf(c, vs)
  BY DEF StatisticsInv
<1>2. PICK vs \in Seq(Entries(c)) : analyzed = [column |-> c, values |-> vs] /\ glue \in KeptOf(c, vs)
  BY <1>1
<1>3. analyzed.column = c /\ analyzed.values = vs /\ column \in ColumnTypes
  BY <1>2 DEF StatisticsInv
<1> SUFFICES Claims(ConvertedStatistics, c, vs)
  BY <1>3
<1>4. CASE glue = NoValue
  BY <1>4, NothingClaimed DEF ConvertedStatistics
<1>5. CASE glue # NoValue /\ c.glue = "BOOLEAN"
  <2>1. glue.type = "BOOLEAN"
    BY <1>2, <1>5 DEF KeptOf
  <2>2. ConvertedStatistics = IF column.kind = "boolean" THEN OfBoolean(glue) ELSE Unknown
    BY <1>5, <2>1 DEF ConvertedStatistics
  <2>3. CASE column.kind = "boolean"
    BY <1>2, <1>5, <2>2, <2>3, BooleanClaimed
  <2> QED
    BY <2>2, <2>3, NothingClaimed
<1>6. CASE glue # NoValue /\ c.glue \in PlainNumbers \cup {"DECIMAL", "DATE"}
  <2>1. glue.type = c.glue
    BY <1>2, <1>6 DEF KeptOf, PlainNumbers
  <2>2. ConvertedStatistics = Bounds(glue)
    BY <1>6, <2>1 DEF ConvertedStatistics, PlainNumbers
  <2> QED
    BY <1>2, <1>3, <1>6, <2>2, BoundsClaimed
<1>7. CASE glue # NoValue /\ c.glue \in {"STRING", "BINARY"}
  <2>1. /\ glue.type = c.glue /\ glue.nulls \in {Count(SqlNull, vs), -1}
        /\ glue.distinct \in {Cardinality(KnownValues(vs)), -1}
    BY <1>2, <1>7 DEF KeptOf
  <2>2. /\ InexactCount(glue.nulls) \in {Absent, Inexact(Count(SqlNull, vs))}
        /\ InexactCount(glue.distinct) \in {Absent, Inexact(Cardinality(KnownValues(vs)))}
    BY <2>1, CountClaimed
  <2>3. \/ ConvertedStatistics =
             [Unknown EXCEPT !.nulls = InexactCount(glue.nulls), !.distinct = InexactCount(glue.distinct)]
        \/ ConvertedStatistics = [Unknown EXCEPT !.nulls = InexactCount(glue.nulls)]
        \/ ConvertedStatistics = Unknown
    BY <1>7, <2>1 DEF ConvertedStatistics
  <2>4. /\ ConvertedStatistics.nulls \in {Absent, InexactCount(glue.nulls)}
        /\ ConvertedStatistics.distinct \in {Absent, InexactCount(glue.distinct)}
        /\ ConvertedStatistics.min = Absent /\ ConvertedStatistics.max = Absent
    <3>1. CASE ConvertedStatistics = Unknown
      BY <3>1 DEF Unknown
    <3>2. CASE ConvertedStatistics = [Unknown EXCEPT !.nulls = InexactCount(glue.nulls)]
      BY <3>2 DEF Unknown
    <3>3. CASE ConvertedStatistics =
                 [Unknown EXCEPT !.nulls = InexactCount(glue.nulls), !.distinct = InexactCount(glue.distinct)]
      <4>1. ConvertedStatistics = [nulls |-> InexactCount(glue.nulls), min |-> Absent, max |-> Absent,
                                   distinct |-> InexactCount(glue.distinct)]
        BY <3>3 DEF Unknown
      <4> QED
        BY <4>1
    <3> QED
      BY <2>3, <3>1, <3>2, <3>3
  <2> QED
    BY <2>2, <2>4 DEF Claims, IsValue
<1> QED
  BY <1>4, <1>5, <1>6, <1>7, KindOf DEF PlainNumbers

-----------------------------------------------------------------------------

(* Which fields there are depends on what the column holds.                *)
LEMMA NumbersKept ==
  ASSUME NEW c, NEW vs, c.glue \in PlainNumbers \cup {"DECIMAL", "DATE"}
  PROVE  KeptOf(c, vs) =
           [type : {c.glue}, nulls : {Count(SqlNull, vs), -1}, distinct : {Cardinality(KnownValues(vs)), -1},
            min : BoundsFor(c, vs, Min(KnownValues(vs))), max : BoundsFor(c, vs, Max(KnownValues(vs)))]
<1>1. c.glue # "BOOLEAN" /\ c.glue \notin {"STRING", "BINARY"}
  BY DEF PlainNumbers
<1> QED
  BY <1>1 DEF KeptOf

LEMMA BooleansKept ==
  ASSUME NEW c, NEW vs, c.glue = "BOOLEAN"
  PROVE  KeptOf(c, vs) =
           [type : {c.glue}, nulls : {Count(SqlNull, vs), -1}, trues : {Count(1, vs), -1},
            falses : {Count(0, vs), -1}]
BY DEF KeptOf, PlainNumbers

LEMMA TextsKept ==
  ASSUME NEW c, NEW vs, c.glue = "STRING" \/ c.glue = "BINARY"
  PROVE  KeptOf(c, vs) =
           [type : {c.glue}, nulls : {Count(SqlNull, vs), -1}, distinct : {Cardinality(KnownValues(vs)), -1}]
BY DEF KeptOf, PlainNumbers

(* What is lost of the statistics leaves some that could have been kept.   *)
LEMMA NumbersForgotten ==
  ASSUME NEW c, NEW vs, c.glue \in PlainNumbers \cup {"DECIMAL", "DATE"}, NEW field, field # "type",
         glue \in KeptOf(c, vs), Forget(field)
  PROVE  glue' \in KeptOf(c, vs)
<1> DEFINE N == {Count(SqlNull, vs), -1}
           D == {Cardinality(KnownValues(vs)), -1}
           L == BoundsFor(c, vs, Min(KnownValues(vs)))
           H == BoundsFor(c, vs, Max(KnownValues(vs)))
           x == IF field \in {"min", "max"} THEN (IF glue.type = "DOUBLE" THEN NotFinite ELSE NoValue) ELSE -1
<1>1. KeptOf(c, vs) = [type : {c.glue}, nulls : N, distinct : D, min : L, max : H]
  BY NumbersKept
<1>2. -1 \in N /\ -1 \in D
  OBVIOUS
<1>3. /\ field \in DOMAIN glue /\ glue' = [glue EXCEPT ![field] = x]
      /\ field \in {"min", "max"} => glue.type # "LONG"
  BY DEF Forget
<1>4. ASSUME field \in {"min", "max"} PROVE x \in L /\ x \in H
  <2>1. glue.type = c.glue
    <3> HIDE DEF N, D, L, H
    <3> QED
      BY <1>1
  <2>2. c.glue \in {"DOUBLE", "DECIMAL", "DATE"}
    BY <1>3, <1>4, <2>1 DEF PlainNumbers
  <2>3. x \in Lost(c) /\ x \in {NotFinite, NoValue}
    BY <1>4, <2>1, <2>2 DEF Lost, PlainNumbers
  <2> HIDE DEF x
  <2> QED
    BY <2>3 DEF BoundsFor
<1>5. field \notin {"min", "max"} => x = -1
  OBVIOUS
<1> HIDE DEF N, D, L, H, x
<1>7. glue \in [type : {c.glue}, nulls : N, distinct : D, min : L, max : H]
  BY <1>1
<1>8. field \in {"nulls", "distinct", "min", "max"}
  BY <1>3, <1>7
<1>9. glue' \in [type : {c.glue}, nulls : N, distinct : D, min : L, max : H]
  <2>1. CASE field = "nulls"
    BY <1>2, <1>3, <1>5, <1>7, <2>1
  <2>2. CASE field = "distinct"
    BY <1>2, <1>3, <1>5, <1>7, <2>2
  <2>3. CASE field = "min"
    BY <1>3, <1>4, <1>7, <2>3
  <2>4. CASE field = "max"
    BY <1>3, <1>4, <1>7, <2>4
  <2> QED
    BY <1>8, <2>1, <2>2, <2>3, <2>4
<1> QED
  BY <1>1, <1>9

LEMMA CountsForgotten ==
  ASSUME NEW c, NEW vs, c.glue \in {"BOOLEAN", "STRING", "BINARY"}, NEW field, field # "type",
         glue \in KeptOf(c, vs), Forget(field)
  PROVE  glue' \in KeptOf(c, vs)
<1>1. field \in DOMAIN glue
  BY DEF Forget
<1>2. CASE c.glue = "BOOLEAN"
  <2> DEFINE N == {Count(SqlNull, vs), -1}
             T == {Count(1, vs), -1}
             F == {Count(0, vs), -1}
  <2>1. KeptOf(c, vs) = [type : {c.glue}, nulls : N, trues : T, falses : F]
    BY <1>2, BooleansKept
  <2>2. -1 \in N /\ -1 \in T /\ -1 \in F
    OBVIOUS
  <2> HIDE DEF N, T, F
  <2>3. glue \in [type : {c.glue}, nulls : N, trues : T, falses : F]
    BY <2>1
  <2>4. field \in {"nulls", "trues", "falses"}
    BY <1>1, <2>3
  <2>5. glue' = [glue EXCEPT ![field] = -1]
    BY <2>4 DEF Forget
  <2>6. glue' \in [type : {c.glue}, nulls : N, trues : T, falses : F]
    BY <2>2, <2>3, <2>4, <2>5
  <2> QED
    BY <2>1, <2>6
<1>3. CASE c.glue \in {"STRING", "BINARY"}
  <2> DEFINE N == {Count(SqlNull, vs), -1}
             D == {Cardinality(KnownValues(vs)), -1}
  <2>1. KeptOf(c, vs) = [type : {c.glue}, nulls : N, distinct : D]
    BY <1>3, TextsKept
  <2>2. -1 \in N /\ -1 \in D
    OBVIOUS
  <2> HIDE DEF N, D
  <2>3. glue \in [type : {c.glue}, nulls : N, distinct : D]
    BY <2>1
  <2>4. field \in {"nulls", "distinct"}
    BY <1>1, <2>3
  <2>5. glue' = [glue EXCEPT ![field] = -1]
    BY <2>4 DEF Forget
  <2>6. glue' \in [type : {c.glue}, nulls : N, distinct : D]
    BY <2>2, <2>3, <2>4, <2>5
  <2> QED
    BY <2>1, <2>6
<1> QED
  BY <1>2, <1>3

LEMMA WhatIsWritten == ASSUME NEW v PROVE Written(v) = WrittenFor(column, v)
BY Zenon DEF Written, WrittenFor

(* What the column has when it is analyzed is what is kept of it.          *)
LEMMA AnalyzedKept ==
  ASSUME StatisticsAssumption, column \in ColumnTypes, Analyze
  PROVE  analyzed' = [column |-> column, values |-> values] /\ glue' \in KeptOf(column, values)
<1>1. analyzed' = [column |-> column, values |-> values]
  BY DEF Analyze
<1> SUFFICES glue' \in KeptOf(column, values)
  BY <1>1
<1> DEFINE known == KnownValues(values)
<1>2. CASE column.glue \in PlainNumbers \cup {"DECIMAL", "DATE"}
  <2>1. PICK bounds \in WrittenBounds(known) :
          glue' = [type |-> column.glue, nulls |-> Count(SqlNull, values),
                   distinct |-> Cardinality(known), min |-> bounds[1], max |-> bounds[2]]
    BY <1>2 DEF Analyze, PlainNumbers
  <2>2. bounds[1] \in BoundsFor(column, values, Min(known)) /\ bounds[2] \in BoundsFor(column, values, Max(known))
    <3>1. CASE known = {}
      <4> DEFINE none == {IF column.glue \in PlainNumbers THEN 0 ELSE NoValue}
      <4>1. bounds \in none \X none
        BY <3>1 DEF WrittenBounds
      <4>2. none \subseteq {0, NoValue, NotFinite}
        OBVIOUS
      <4>3. bounds[1] \in none /\ bounds[2] \in none
        BY <4>1
      <4> HIDE DEF none
      <4> QED
        BY <3>1, <4>2, <4>3 DEF BoundsFor
    <3>2. CASE known # {}
      <4>1. bounds \in Written(Min(known)) \X Written(Max(known))
        BY <3>2 DEF WrittenBounds
      <4>2. bounds[1] \in Written(Min(known)) /\ bounds[2] \in Written(Max(known))
        BY <4>1
      <4>3. bounds[1] \in WrittenFor(column, Min(known)) /\ bounds[2] \in WrittenFor(column, Max(known))
        BY <4>2, WhatIsWritten
      <4> QED
        BY <3>2, <4>3 DEF BoundsFor
    <3> QED
      BY <3>1, <3>2
  <2>3. KeptOf(column, values) =
          [type : {column.glue}, nulls : {Count(SqlNull, values), -1}, distinct : {Cardinality(known), -1},
           min : BoundsFor(column, values, Min(known)), max : BoundsFor(column, values, Max(known))]
    BY <1>2, NumbersKept
  <2> HIDE DEF known
  <2>4. glue' \in [type : {column.glue}, nulls : {Count(SqlNull, values), -1}, distinct : {Cardinality(known), -1},
                   min : BoundsFor(column, values, Min(known)), max : BoundsFor(column, values, Max(known))]
    BY <2>1, <2>2
  <2> QED
    BY <2>3, <2>4
<1>3. CASE column.glue = "BOOLEAN"
  <2>1. glue' = [type |-> "BOOLEAN", nulls |-> Count(SqlNull, values),
                 trues |-> Count(1, values), falses |-> Count(0, values)]
    BY <1>3 DEF Analyze, PlainNumbers
  <2> QED
    BY <1>3, <2>1, BooleansKept
<1>4. CASE column.glue \in {"STRING", "BINARY"}
  <2>1. glue' = [type |-> column.glue, nulls |-> Count(SqlNull, values), distinct |-> Cardinality(known)]
    BY <1>4 DEF Analyze, PlainNumbers
  <2>2. KeptOf(column, values) = [type : {column.glue}, nulls : {Count(SqlNull, values), -1},
                                  distinct : {Cardinality(known), -1}]
    BY <1>4, TextsKept
  <2> QED
    BY <2>1, <2>2
<1> QED
  BY <1>1, <1>2, <1>3, <1>4, KindOf DEF PlainNumbers

LEMMA StatisticsInitially == StatisticsAssumption /\ StatisticsInit => StatisticsInv
BY DEF StatisticsInit, ColumnIsNew, TableIsNew, StatisticsInv

(* A column that has been analyzed: its type and values are kept.          *)
LEMMA AnalyzedOnce ==
  ASSUME StatisticsAssumption, NEW c \in ColumnTypes, NEW vs \in Seq(Entries(c))
  PROVE  [column |-> c, values |-> vs] # NoValue
<1>1. vs \in Seq(Int \cup {SqlNull})
  BY KnownAreValues
<1>2. NoValue \notin Int \cup [column : ColumnTypes, values : Seq(Int \cup {SqlNull})]
  BY DEF StatisticsAssumption
<1> QED
  BY <1>1, <1>2

LEMMA StatisticsKept ==
  ASSUME StatisticsAssumption, StatisticsInv, [StatisticsNext]_statisticsVars PROVE StatisticsInv'
<1> DEFINE Files == [partition : Partitions, size : Nat]
           Recorded(c, vs) == analyzed = [column |-> c, values |-> vs] /\ glue \in KeptOf(c, vs)
           New == analyzed = NoValue /\ glue = NoValue /\ values \in Seq(Entries(column))
           Old == \E c \in ColumnTypes : \E vs \in Seq(Entries(c)) : Recorded(c, vs)
<1>1. column \in ColumnTypes /\ (New \/ Old) /\ written_files \in Seq(Files)
  BY DEF StatisticsInv
<1>2. column' \in ColumnTypes /\ (New' \/ Old') /\ (written_files \in Seq(Files))' => StatisticsInv'
  BY DEF StatisticsInv
<1>3. Old => analyzed # NoValue
  BY AnalyzedOnce
<1> HIDE DEF Files
<1>4. ASSUME NEW v \in ColumnValues[column] \cup {SqlNull}, AddRow(v) PROVE StatisticsInv'
  <2>1. New /\ v \in Entries(column)
    BY <1>1, <1>3, <1>4 DEF AddRow, Entries
  <2>2. values' \in Seq(Entries(column))
    <3> DEFINE T == Entries(column)
    <3>1. values \in Seq(T) /\ v \in T /\ values' = Append(values, v)
      BY <1>4, <2>1 DEF AddRow
    <3> HIDE DEF T
    <3>2. values' \in Seq(T)
      BY <3>1
    <3> QED
      BY <3>2 DEF T
  <2>3. UNCHANGED <<column, glue, analyzed, written_files>>
    BY <1>4 DEF AddRow
  <2>4. New'
    BY <2>1, <2>2, <2>3 DEF Entries
  <2> QED
    BY <1>1, <1>2, <2>3, <2>4
<1>5. ASSUME NEW c \in ColumnTypes, Retype(c) PROVE StatisticsInv'
  <2>1. Old
    BY <1>1, <1>5 DEF Retype
  <2>2. column' = c /\ UNCHANGED <<glue, analyzed, written_files>>
    BY <1>5 DEF Retype
  <2>3. Old'
    BY <2>1, <2>2 DEF KeptOf, BoundsFor, WrittenFor, Lost, Entries
  <2> QED
    BY <1>1, <1>2, <2>2, <2>3
<1>6. ASSUME Analyze PROVE StatisticsInv'
  <2>1. New
    BY <1>1, <1>3, <1>6 DEF Analyze
  <2>2. analyzed' = [column |-> column, values |-> values] /\ glue' \in KeptOf(column, values)
    BY <1>1, <1>6, AnalyzedKept
  <2>3. column' = column /\ written_files' = written_files
    BY <1>6 DEF Analyze
  <2>4. Old'
    BY <1>1, <2>1, <2>2
  <2> QED
    BY <1>1, <1>2, <2>3, <2>4
<1>7. ASSUME NEW field \in {"nulls", "distinct", "min", "max", "trues", "falses"}, Forget(field)
      PROVE  StatisticsInv'
  <2>1. glue # NoValue /\ UNCHANGED <<column, analyzed, written_files>>
    BY <1>7 DEF Forget
  <2>2. Old
    BY <1>1, <2>1
  <2>3. PICK c \in ColumnTypes : \E vs \in Seq(Entries(c)) : Recorded(c, vs)
    BY <2>2
  <2>4. PICK vs \in Seq(Entries(c)) : Recorded(c, vs)
    BY <2>3
  <2>5. field # "type"
    OBVIOUS
  <2>6. glue' \in KeptOf(c, vs)
    BY <1>7, <2>4, <2>5, NumbersForgotten, CountsForgotten, KindOf DEF PlainNumbers
  <2>7. Old'
    BY <2>1, <2>4, <2>6
  <2> QED
    BY <1>1, <1>2, <2>1, <2>7
<1>8. ASSUME NEW p \in Partitions, NEW n \in Sizes, WriteFile(p, n) PROVE StatisticsInv'
  <2>1. n \in Nat
    <3>1. Sizes \subseteq Nat
      BY DEF StatisticsAssumption
    <3> QED
      BY <3>1
  <2>2. [partition |-> p, size |-> n] \in Files
    BY <2>1 DEF Files
  <2>3. written_files' \in Seq(Files)
    <3>1. written_files' = Append(written_files, [partition |-> p, size |-> n])
      BY <1>8 DEF WriteFile
    <3> QED
      BY <1>1, <2>2, <3>1
  <2>4. UNCHANGED <<column, values, glue, analyzed>>
    BY <1>8 DEF WriteFile
  <2>5. New' \/ Old'
    BY <1>1, <2>4
  <2> QED
    BY <1>1, <1>2, <2>3, <2>4, <2>5
<1>9. ASSUME UNCHANGED <<column, values, glue, analyzed, written_files>> PROVE StatisticsInv'
  <2>1. New' \/ Old'
    BY <1>1, <1>9
  <2> QED
    BY <1>1, <1>2, <1>9, <2>1
<1>10. ASSUME NEW rows, NEW raw, NEW total, Describe(rows, raw, total) PROVE StatisticsInv'
  BY <1>9, <1>10 DEF Describe
<1>11. statisticsVars' = statisticsVars => StatisticsInv'
  BY <1>9 DEF statisticsVars
<1> QED
  BY <1>4, <1>5, <1>6, <1>7, <1>8, <1>10, <1>11 DEF StatisticsNext, ColumnNext, TableNext

(* StatisticsHold, for columns of any types and values, integers of any    *)
(* width, files of any sizes and whatever is lost of what Glue has: the    *)
(* bounds the planner has are those Glue found, as the column has them now.*)
THEOREM StatisticsHoldAlways ==
  ASSUME StatisticsAssumption PROVE StatisticsSpec => []StatisticsHold
<1>1. StatisticsInit => StatisticsInv
  BY StatisticsInitially
<1>2. StatisticsInv /\ [StatisticsNext]_statisticsVars => StatisticsInv'
  BY StatisticsKept
<1>3. StatisticsInv => StatisticsHold
  <2>1. StatisticsInv => written_files \in Seq([partition : Partitions, size : Nat])
    BY DEF StatisticsInv
  <2> QED
    BY <2>1, ColumnsClaimed, ScansAreSized DEF StatisticsHold
<1> QED
  BY <1>1, <1>2, <1>3, PTL DEF StatisticsSpec

=============================================================================
