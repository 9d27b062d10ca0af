--------------------------- MODULE PartitionDates ---------------------------
(***************************************************************************)
(* The day number of a date in a partition's value (parse_date_to_days,    *)
(* days_since_epoch, catalog/table_format/hive/hive_table_provider.rs) and *)
(* the time of a timestamp (parse_timestamp_micros), beside a calendar     *)
(* that is turned day by day from 1970-01-01, forwards and backwards, and  *)
(* that counts its days.                                                   *)
(***************************************************************************)
EXTENDS Integers, Sequences, FiniteSets

CONSTANTS
  FirstYear, LastYear,  \* bounds of the calendar
  Half,                 \* of the range of the result's integer: 2^31
  HalfLong,             \* and of a timestamp's: 2^63
  Digits,               \* of a fraction of a second that are read: 6
  Times,                \* texts of times: [hour, minute, second, fraction], numbers
                        \*   (NoDay for what is none) and a sequence of digits
  NoDay

ASSUME YearsAssumption == FirstYear \in Int /\ LastYear \in Int
ASSUME HalfAssumption == Half \in Nat \ {0}

TenTo[n \in Nat] == IF n = 0 THEN 1 ELSE 10 * TenTo[n - 1]
Unit == TenTo[Digits]

(* The days within reach of a timestamp have numbers that fit.             *)
Reach == (HalfLong \div Unit) \div 86400
ASSUME TimesAssumption ==
  /\ Digits \in Nat /\ HalfLong \in Nat \ {0} /\ Reach <= Half
  /\ NoDay \notin Int
  /\ \A t \in Times : t.fraction \in Seq(0..9 \cup {NoDay})

VARIABLES year, month, day, count

dates == <<year, month, day, count>>

-----------------------------------------------------------------------------

(* is_leap_year.  Mutant: every fourth year.                               *)
EveryFourth(y) == y % 4 = 0
IsLeapYear(y) == (y % 4 = 0 /\ y % 100 # 0) \/ y % 400 = 0

MonthDays(leap) ==
  [m \in 1..12 |-> IF m = 2 THEN IF leap THEN 29 ELSE 28
                   ELSE IF m \in {4, 6, 9, 11} THEN 30 ELSE 31]

(* The days of the months before.                                          *)
DaysBefore(leap) ==
  LET before[m \in 1..12] == IF m = 1 THEN 0 ELSE before[m - 1] + MonthDays(leap)[m - 1]
  IN before

(* The days of the years from one to the year before another.              *)
DaysOfYears(from, to) == 365 * (to - from) + Cardinality({y \in from..(to - 1) : IsLeapYear(y)})

(* The result is cut to its integer.                                       *)
Cut(n) == ((n + Half) % (2 * Half)) - Half
CutLong(n) == ((n + HalfLong) % (2 * HalfLong)) - HalfLong

(* Before the epoch the years count backwards.                             *)
DaysFrom(y, base) == IF y >= base THEN DaysOfYears(base, y) ELSE -DaysOfYears(y, base)
YearsFromEpoch(y) == DaysFrom(y, 1970)

DaysSinceEpoch(y, m, d) ==
  IF m \notin 1..12 \/ d \notin 1..31 THEN NoDay
  ELSE Cut(YearsFromEpoch(y) + DaysBefore(IsLeapYear(y))[m] + d - 1)

(* A fraction is filled up with zeros and cut to its digits; what follows  *)
(* is not read.  Mutant: it is not filled up.                              *)
Decimal(digits) ==
  LET of[i \in 0..Len(digits)] == IF i = 0 THEN 0 ELSE 10 * of[i - 1] + digits[i] IN of[Len(digits)]
FirstDigits(digits) == SubSeq(digits, 1, IF Len(digits) < Digits THEN Len(digits) ELSE Digits)
AsWritten(digits) ==
  IF NoDay \in {digits[i] : i \in 1..Len(digits)} THEN NoDay ELSE Decimal(FirstDigits(digits))
Fraction(digits) ==
  LET padded == [i \in 1..Digits |-> IF i <= Len(digits) THEN digits[i] ELSE 0] IN
  IF NoDay \in {padded[i] : i \in 1..Digits} THEN NoDay ELSE Decimal(padded)

(* The parts of a time are not bounded.  Seconds and a fraction may be     *)
(* missing, and are 0 then.                                                *)
Timestamp(y, m, d, t) ==
  LET days == DaysSinceEpoch(y, m, d) IN
  IF NoDay \in {days, t.hour, t.minute, t.second, Fraction(t.fraction)} THEN NoDay
  ELSE CutLong(days * 86400 * Unit + t.hour * 3600 * Unit + t.minute * 60 * Unit
               + t.second * Unit + Fraction(t.fraction))

-----------------------------------------------------------------------------

(* The proleptic Gregorian calendar.                                       *)
Long(m) == m \in {1, 3, 5, 7, 8, 10, 12}
LeapInCalendar(y) == 4 * (y \div 4) = y /\ (100 * (y \div 100) = y => 400 * (y \div 400) = y)
LastDay(y, m) == IF Long(m) THEN 31 ELSE IF m # 2 THEN 30 ELSE IF LeapInCalendar(y) THEN 29 ELSE 28

DatesInit == year = 1970 /\ month = 1 /\ day = 1 /\ count = 0

NextDay ==
  /\ year < LastYear
  /\ count' = count + 1
  /\ \/ /\ day < LastDay(year, month)
        /\ day' = day + 1 /\ UNCHANGED <<year, month>>
     \/ /\ day = LastDay(year, month) /\ month < 12
        /\ day' = 1 /\ month' = month + 1 /\ UNCHANGED year
     \/ /\ day = LastDay(year, month) /\ month = 12
        /\ day' = 1 /\ month' = 1 /\ year' = year + 1

PreviousDay ==
  /\ year > FirstYear
  /\ count' = count - 1
  /\ \/ /\ day > 1
        /\ day' = day - 1 /\ UNCHANGED <<year, month>>
     \/ /\ day = 1 /\ month > 1
        /\ month' = month - 1 /\ day' = LastDay(year, month - 1) /\ UNCHANGED year
     \/ /\ day = 1 /\ month = 1
        /\ month' = 12 /\ day' = 31 /\ year' = year - 1

DatesNext == NextDay \/ PreviousDay

DatesSpec == DatesInit /\ [][DatesNext]_dates

-----------------------------------------------------------------------------

Calendar == year \in Int /\ month \in 1..12 /\ day \in 1..LastDay(year, month) /\ count \in Int

(* ... and a number fits its integer.                                      *)
DatesTypeOK == Calendar /\ DaysSinceEpoch(year, month, day) \in (-Half)..(Half - 1)

(* Every date of the calendar has the number of its day, forwards and      *)
(* backwards from 1970-01-01, over leap years and centuries, as long as    *)
(* the number fits its integer.                                            *)
DaysExact == count \in (-Half)..(Half - 1) => DaysSinceEpoch(year, month, day) = count

(* The time of a clock is the last unit that has begun: a timestamp is in  *)
(* its day, also before 1970, and the decimals of its second are not more  *)
(* than the text's, by less than a unit.  What is no time is NULL.         *)
OnClock(t) == t.hour \in 0..23 /\ t.minute \in 0..59 /\ t.second \in 0..59
InDigits(digits) == \A i \in 1..Len(digits) : digits[i] # NoDay
Seconds(t) == (t.hour * 60 + t.minute) * 60 + t.second
TimestampsExact ==
  \A t \in Times :
    LET n == Timestamp(year, month, day, t) IN
    count \in -Reach..Reach - 1 =>
      /\ NoDay \in {t.hour, t.minute, t.second} => n = NoDay
      /\ OnClock(t) /\ InDigits(t.fraction) =>
           LET second == (n - count * 86400 * Unit) - Seconds(t) * Unit
               scale == TenTo[Len(t.fraction)] IN
           /\ second \in 0..Unit - 1
           /\ second * scale <= Decimal(t.fraction) * Unit /\ Decimal(t.fraction) * Unit < (second + 1) * scale

=============================================================================
