--------------------------- MODULE HiveTableProofs ---------------------------
(***************************************************************************)
(* Tables of Hive are read as they were written.  A lookup chooses their   *)
(* format and keeps their partitions (HiveTableLookup), for any number of  *)
(* partitions, page size and size of an answer; and text files are read as *)
(* they are laid out (HiveTextFiles), for any properties, columns, texts   *)
(* and files.                                                              *)
(***************************************************************************)
EXTENDS HiveTableLookupProperties, HiveTextFiles, FiniteSetTheorems, SequenceTheorems, TLAPS

(***************************************************************************)
(* Lookups.                                                                *)
(***************************************************************************)

Fields ==
  lookup = [phase |-> lookup.phase, source |-> lookup.source, meta |-> lookup.meta,
            seen |-> lookup.seen, got |-> lookup.got, after |-> lookup.after,
            format |-> lookup.format, ever |-> lookup.ever, always |-> lookup.always]

(* What was read is a table of the format that was detected.               *)
Asked == lookup.meta \in Metas \cup {None}
Read ==
  lookup.phase \in {"partitions", "build", "found"} =>
    /\ lookup.seen \in Tables
    /\ lookup.format = Detected(lookup.seen.signs) /\ lookup.format # None
Offers == Found => lookup.meta \in Offered(lookup.format) \cup {None}

(* Only a Hive table with partition columns has partitions, finitely many. *)
Owned == parts # {} => Owns(table)
Finite ==
  /\ IsFiniteSet(parts)
  /\ lookup.phase \in {"partitions", "build", "found"} => IsFiniteSet(lookup.ever)

(* Before the partitions; between two pages; and after the last.           *)
Before == lookup.phase \in {"idle", "table"} => lookup.got = {} /\ lookup.after = 0
Between ==
  In("partitions") =>
    /\ lookup.always \subseteq parts /\ parts \subseteq lookup.ever
    /\ lookup.got \subseteq lookup.ever
    /\ \A p \in lookup.got : p.id <= lookup.after
    /\ \A p \in lookup.always : p.id <= lookup.after => p \in lookup.got
After ==
  lookup.phase \in {"build", "found"} =>
    /\ lookup.got \subseteq lookup.ever
    /\ /\ lookup.format = "hive"
       /\ lookup.source = "hms" => Cardinality(lookup.ever) <= MaxParts
       => lookup.always \subseteq lookup.got

Inv == /\ TypeOK /\ Fields /\ Asked /\ Read /\ Offers /\ Owned /\ Finite
       /\ Before /\ Between /\ After

AllParts == UNION {PartsOf(w) : w \in Widths}

-----------------------------------------------------------------------------

(* Detection gives each table its own format, or none.                     *)
LEMMA DetectedIsKind ==
  ASSUME NEW t \in Tables, Detected(t.signs) # None
  PROVE  t.kind = Detected(t.signs)
<1>0. PICK k \in Kinds : t \in {[kind |-> k, signs |-> s, width |-> w] : s \in Registered(k), w \in Widths}
  BY DEF Tables
<1>1. PICK s \in Registered(k), w \in Widths : t = [kind |-> k, signs |-> s, width |-> w]
  BY <1>0
<1>2. t.kind = k /\ t.signs = s
  BY <1>1
<1>3. k = Detected(s)
  <2>1. CASE k = "iceberg"
    BY <2>1, <1>1, NoneAssumption DEF Registered, Plain, Detected, Marked, Refused, Names
  <2>2. CASE k = "paimon"
    BY <2>2, <1>1, NoneAssumption DEF Registered, Plain, Detected, Marked, Refused, Names
  <2>3. CASE k = "delta"
    BY <2>3, <1>1, NoneAssumption DEF Registered, Plain, Detected, Marked, Refused, Names
  <2>4. CASE k \in {"hudi", "view", "acid"}
    BY <2>4, <1>1, <1>2, NoneAssumption DEF Registered, Plain, Detected, Marked, Refused, Names
  <2>5. CASE k = "hive"
    BY <2>5, <1>1, NoneAssumption DEF Registered, Plain, Detected, Marked, Refused, Names
  <2>6. QED
    BY <2>1, <2>2, <2>3, <2>4, <2>5 DEF Kinds
<1>4. QED
  BY <1>2, <1>3

(* A part of a finite set that has as many members is the set.             *)
LEMMA AsManyIsAll ==
  ASSUME NEW S, IsFiniteSet(S), NEW T \in SUBSET S, Cardinality(T) = Cardinality(S)
  PROVE  T = S
  BY FS_Subset

(* The shape of a partition, and its number.                               *)
LEMMA PartShape ==
  ASSUME NEW some, NEW w, NEW p \in [id : some, width : {w}, whole : {TRUE}]
  PROVE  p = [id |-> p.id, width |-> w, whole |-> TRUE] /\ p.id \in some
  OBVIOUS

LEMMA PartId ==
  ASSUME NEW p \in AllParts
  PROVE  p.id \in Ids /\ p.id \in Nat /\ p.id > 0
<1>1. p.id \in Ids
  BY DEF AllParts, PartsOf
<1>2. \A i \in Nat : i # 0 => i > 0
  OBVIOUS
<1>3. p.id \in Nat /\ p.id # 0
  BY <1>1, IdsAssumption
<1>4. QED
  BY <1>1, <1>2, <1>3

(* The partitions of the first states are finitely many.                   *)
LEMMA StartFinite ==
  ASSUME NEW some \in SUBSET Ids, NEW w
  PROVE  IsFiniteSet([id : some, width : {w}, whole : {TRUE}])
<1> DEFINE S == [id : some, width : {w}, whole : {TRUE}]
           f == [i \in some |-> [id |-> i, width |-> w, whole |-> TRUE]]
<1>1. IsFiniteSet(some)
  BY FS_Subset, IdsAssumption
<1>2. f \in Surjection(some, S)
  <2>1. ASSUME NEW p \in S PROVE p = f[p.id] /\ p.id \in some
    BY PartShape
  <2>2. f \in [some -> S]
    OBVIOUS
  <2>3. QED
    BY <2>1, <2>2 DEF Surjection
<1>3. QED
  BY <1>1, <1>2, FS_Surjection

LEMMA InitInv == Init => Inv
<1> SUFFICES ASSUME Init PROVE Inv
  OBVIOUS
<1>1. Fields /\ Asked /\ Read /\ Offers /\ Before /\ Between /\ After
  BY DEF Init, Idle, Fields, Asked, Read, Offers, Before, Between, After, In, Found
<1>2. table \in Tables => table.width \in Widths
  BY DEF Tables
<1>3. Owned
  BY DEF Init, Owned
<1>4. Finite
  <2>1. IsFiniteSet(parts)
    <3>1. CASE parts = {}
      BY <3>1, FS_EmptySet
    <3>2. ASSUME NEW some \in SUBSET Ids,
                 parts = [id : some, width : {table.width}, whole : {TRUE}]
          PROVE  IsFiniteSet(parts)
      <4>1. IsFiniteSet([id : some, width : {table.width}, whole : {TRUE}])
        BY StartFinite
      <4>2. QED
        BY <3>2, <4>1
    <3>3. QED
      BY <3>1, <3>2 DEF Init
  <2>2. QED
    BY <2>1 DEF Finite, Init, Idle
<1>5. TypeOK
  <2>1. parts \subseteq AllParts /\ \A p, q \in parts : p.id = q.id => p = q
    <3>1. CASE parts = {}
      BY <3>1
    <3>2. ASSUME Owns(table), NEW some \in SUBSET Ids,
                 parts = [id : some, width : {table.width}, whole : {TRUE}]
          PROVE  parts \subseteq AllParts /\ \A p, q \in parts : p.id = q.id => p = q
      <4>1. table.width \in Widths
        BY <3>2, <1>2 DEF Init, Owns
      <4>2. parts \subseteq PartsOf(table.width)
        BY <3>2 DEF PartsOf
      <4>3. parts \subseteq AllParts
        BY <4>1, <4>2 DEF AllParts
      <4>4. \A p \in [id : some, width : {table.width}, whole : {TRUE}] :
               p = [id |-> p.id, width |-> table.width, whole |-> TRUE]
        BY PartShape
      <4>5. \A p, q \in parts : p.id = q.id => p = q
        <5>1. ASSUME NEW p \in parts, NEW q \in parts, p.id = q.id PROVE p = q
          <6>1. p = [id |-> p.id, width |-> table.width, whole |-> TRUE]
            BY <3>2, <4>4, Zenon
          <6>2. q = [id |-> q.id, width |-> table.width, whole |-> TRUE]
            BY <3>2, <4>4, Zenon
          <6>3. QED
            BY <6>1, <6>2, <5>1, Zenon
        <5>2. QED
          BY <5>1
      <4>6. QED
        BY <4>3, <4>5
    <3>3. QED
      BY <3>1, <3>2 DEF Init
  <2>2. QED
    BY <2>1, ChangesAssumption DEF Init, Idle, TypeOK, AllParts
<1>6. QED
  BY <1>1, <1>3, <1>4, <1>5 DEF Inv

(* What others do while the lookup is under way.                           *)
LEMMA ChangeInv == Inv /\ Change => Inv'
<1> SUFFICES ASSUME Inv, Change PROVE Inv'
  OBVIOUS
<1> USE DEF Inv
<1> DEFINE new == [lookup EXCEPT !.ever = @ \cup parts', !.always = @ \cap parts']
<1>1. lookup' = new
  BY DEF Change
<1>2. /\ new.source = lookup.source /\ new.phase = lookup.phase /\ new.meta = lookup.meta /\ new.seen = lookup.seen
      /\ new.got = lookup.got /\ new.after = lookup.after /\ new.format = lookup.format
      /\ new.ever = lookup.ever \cup parts' /\ new.always = lookup.always \cap parts'
  BY DEF Fields
<1>3. Fields'
  BY <1>1 DEF Fields
<1>4. table' \in Tables \cup {None} /\ changes' \in 0..MaxChanges
  BY ChangesAssumption DEF Change, TypeOK
<1> DEFINE Kept == /\ parts' \subseteq AllParts /\ IsFiniteSet(parts') /\ Owned'
                   /\ \A p, q \in parts' : p.id = q.id => p = q
<1>5. Kept
  <2>1. CASE parts' = {}
    BY <2>1, FS_EmptySet DEF Owned
  <2>2. ASSUME Owns(table), table' = table,
               NEW p \in PartsOf(table.width),
               p.id \notin {q.id : q \in parts}, parts' = parts \cup {p}
        PROVE  Kept
    <3>1. table.width \in Widths
      BY <2>2 DEF TypeOK, Tables, Owns
    <3>2. p \in AllParts
      BY <3>1 DEF AllParts
    <3>3. IsFiniteSet(parts')
      BY <2>2, FS_AddElement DEF Finite
    <3>4. QED
      BY <2>2, <3>2, <3>3 DEF TypeOK, AllParts, Owned
  <2>3. ASSUME Owns(table), table' = table,
               NEW p \in parts, parts' = parts \ {p}
        PROVE  Kept
    <3>1. IsFiniteSet(parts')
      BY <2>3, FS_RemoveElement DEF Finite
    <3>2. QED
      BY <2>3, <3>1 DEF TypeOK, AllParts, Owned
  <2>4. QED
    BY <2>1, <2>2, <2>3 DEF Change
<1> HIDE DEF new
<1>6. TypeOK'
  BY <1>1, <1>2, <1>4, <1>5 DEF TypeOK, AllParts
<1>7. Finite'
  <2>1. IsFiniteSet(lookup.ever) => IsFiniteSet(lookup.ever \cup parts')
    BY <1>5, FS_Union
  <2>2. QED
    BY <1>1, <1>2, <1>5, <2>1 DEF Finite
<1>8. (Asked /\ Read /\ Offers /\ Before)'
  BY <1>1, <1>2 DEF Asked, Read, Offers, Before, In, Found
<1>9. Between'
  BY <1>1, <1>2 DEF Between, In
<1>10. After'
  <2>1. ASSUME lookup.phase \in {"build", "found"}, Cardinality(lookup.ever \cup parts') <= MaxParts
        PROVE  Cardinality(lookup.ever) <= MaxParts
    <3>1. IsFiniteSet(lookup.ever \cup parts')
      BY <2>1, <1>5, FS_Union DEF Finite
    <3>2. /\ Cardinality(lookup.ever) <= Cardinality(lookup.ever \cup parts')
          /\ IsFiniteSet(lookup.ever)
      BY <3>1, FS_Subset
    <3>3. Cardinality(lookup.ever) \in Nat /\ Cardinality(lookup.ever \cup parts') \in Nat
      BY <3>1, <3>2, FS_CardinalityType
    <3>4. QED
      BY <2>1, <3>2, <3>3, PageAssumption
  <2>2. QED
    BY <1>1, <1>2, <2>1 DEF After
<1>11. QED
  BY <1>3, <1>5, <1>6, <1>7, <1>8, <1>9, <1>10


LEMMA BeginInv ==
  ASSUME NEW source \in {"hms", "glue"}, NEW meta \in Metas \cup {None}
  PROVE  Inv /\ Begin(source, meta) => Inv'
  BY DEF Inv, Begin, TypeOK, Fields, Asked, Read, Offers, Owned, Finite, Before, Between, After,
         In, Found

LEMMA GetTableInv == Inv /\ GetTable => Inv'
<1> SUFFICES ASSUME Inv, GetTable PROVE Inv'
  OBVIOUS
<1> USE DEF Inv
<1> DEFINE more == Detected(table.signs) = "hive" /\ table.width > 0
           new == [lookup EXCEPT !.phase = IF more THEN "partitions" ELSE "build",
                     !.seen = table, !.format = Detected(table.signs),
                     !.ever = parts, !.always = parts]
<1>1. lookup' = new /\ table' = table /\ parts' = parts /\ changes' = changes
  BY DEF GetTable
<1>2. /\ new.phase = (IF more THEN "partitions" ELSE "build") /\ new.meta = lookup.meta
      /\ new.seen = table /\ new.got = {} /\ new.after = 0
      /\ new.format = Detected(table.signs) /\ new.ever = parts /\ new.always = parts
      /\ Fields'
  BY <1>1 DEF Fields, GetTable, In, Before
<1> HIDE DEF new
<1>3. table \in Tables /\ Detected(table.signs) # None
  BY DEF GetTable, TypeOK
<1>4. Detected(table.signs) \in {"iceberg", "paimon", "delta", "hive", None}
  BY DEF Detected, Marked
<1>5. TypeOK'
  BY <1>1, <1>2, <1>4 DEF TypeOK
<1>6. (Asked /\ Read /\ Offers /\ Owned /\ Finite /\ Before)'
  BY <1>1, <1>2, <1>3 DEF Asked, Read, Offers, Owned, Finite, Before, In, Found
<1>7. Between'
  <2>1. \A p \in parts : p.id \in Nat /\ p.id > 0
    BY PartId DEF TypeOK, AllParts
  <2>2. \A p \in parts : ~(p.id <= 0)
    BY <2>1
  <2>3. QED
    BY <1>1, <1>2, <2>2 DEF Between, In
<1>8. After'
  <2>1. ASSUME new.phase = "build", new.format = "hive" PROVE parts = {}
    <3>1. ~(table.width > 0)
      BY <1>2, <2>1
    <3>2. QED
      BY <3>1 DEF Owned, Owns
  <2>2. QED
    BY <1>1, <1>2, <2>1 DEF After
<1>9. QED
  BY <1>2, <1>5, <1>6, <1>7, <1>8

LEMMA EndInv == Inv /\ (NoTable \/ Fails \/ Build) => Inv'
<1> SUFFICES ASSUME Inv PROVE NoTable \/ Fails \/ Build => Inv'
  OBVIOUS
<1> USE DEF Inv, TypeOK, Fields, Asked, Read, Offers, Owned, Finite, Before, Between, After,
            In, Found
<1>1. NoTable => Inv'
  BY DEF NoTable, NotFound
<1>2. Fails => Inv'
  BY DEF Fails
<1>3. Build => Inv'
  BY DEF Build
<1>4. QED
  BY <1>1, <1>2, <1>3

LEMMA GetPartitionsInv == Inv /\ GetPartitions => Inv'
<1> SUFFICES ASSUME Inv, GetPartitions PROVE Inv'
  OBVIOUS
<1> USE DEF Inv
<1>1. PICK some \in SUBSET parts :
        /\ Cardinality(some) = IF Cardinality(parts) > MaxParts THEN MaxParts ELSE Cardinality(parts)
        /\ lookup' = [lookup EXCEPT !.phase = "build", !.got = some]
  BY DEF GetPartitions
<1> DEFINE new == [lookup EXCEPT !.phase = "build", !.got = some]
<1>2. /\ lookup' = new /\ table' = table /\ parts' = parts /\ changes' = changes
      /\ new.phase = "build" /\ new.meta = lookup.meta /\ new.seen = lookup.seen
      /\ new.source = lookup.source /\ lookup.source = "hms"
      /\ new.got = some /\ new.after = lookup.after /\ new.format = lookup.format
      /\ new.ever = lookup.ever /\ new.always = lookup.always /\ Fields'
  BY <1>1 DEF GetPartitions, Fields
<1> HIDE DEF new
<1>3. TypeOK' /\ (Asked /\ Read /\ Offers /\ Owned /\ Finite /\ Before /\ Between)'
  BY <1>2 DEF GetPartitions, TypeOK, Asked, Read, Offers, Owned, Finite, Before, Between,
              In, Found
<1>4. ASSUME Cardinality(lookup.ever) <= MaxParts PROVE some = parts
  <2>1. IsFiniteSet(lookup.ever) /\ IsFiniteSet(parts) /\ parts \subseteq lookup.ever
    BY DEF GetPartitions, Finite, Between, In
  <2>2. Cardinality(parts) <= Cardinality(lookup.ever)
    BY <2>1, FS_Subset
  <2>3. Cardinality(parts) \in Nat /\ Cardinality(lookup.ever) \in Nat
    BY <2>1, FS_CardinalityType
  <2>4. Cardinality(some) = Cardinality(parts)
    BY <1>1, <1>4, <2>2, <2>3, PageAssumption
  <2>5. QED
    BY <2>1, <2>4, AsManyIsAll
<1>5. After'
  BY <1>2, <1>4 DEF After, Between, GetPartitions, In
<1>6. QED
  BY <1>2, <1>3, <1>5

LEMMA GetPageInv == Inv /\ GetPage => Inv'
<1> SUFFICES ASSUME Inv, GetPage PROVE Inv'
  OBVIOUS
<1> USE DEF Inv
<1>1. PICK last \in Ids :
        /\ last > lookup.after
        /\ lookup' = [lookup EXCEPT
              !.phase = IF Upto(last) = Rest THEN "build" ELSE "partitions",
              !.got = @ \cup Upto(last), !.after = last]
  BY DEF GetPage, Extend, Token
<1> DEFINE new == [lookup EXCEPT
              !.phase = IF Upto(last) = Rest THEN "build" ELSE "partitions",
              !.got = @ \cup Upto(last), !.after = last]
<1>2. /\ lookup' = new /\ table' = table /\ parts' = parts /\ changes' = changes
      /\ new.phase = (IF Upto(last) = Rest THEN "build" ELSE "partitions")
      /\ new.meta = lookup.meta /\ new.seen = lookup.seen
      /\ new.got = lookup.got \cup Upto(last) /\ new.after = last
      /\ new.format = lookup.format /\ new.ever = lookup.ever /\ new.always = lookup.always
      /\ Fields'
  BY <1>1 DEF GetPage, Fields
<1> HIDE DEF new
<1>3. last \in Nat /\ lookup.after \in Nat /\ \A p \in parts : p.id \in Nat
  <2>1. parts \subseteq AllParts
    BY DEF TypeOK, AllParts
  <2>2. QED
    BY <2>1, PartId, IdsAssumption DEF TypeOK
<1>4. In("partitions")
  BY DEF GetPage
<1>5. /\ Upto(last) \subseteq parts
      /\ \A p \in Upto(last) : p.id > lookup.after /\ p.id <= last
      /\ \A p \in lookup.got : p.id <= lookup.after /\ p.id \in Nat
  BY <1>4, PartId DEF Upto, Rest, Between, TypeOK, AllParts
<1>6. TypeOK'
  <2>1. \A p, q \in lookup.got \cup Upto(last) : p.id = q.id => p = q
    <3>1. \A p \in lookup.got, q \in Upto(last) : p.id # q.id
      BY <1>3, <1>5
    <3>2. QED
      BY <1>5, <3>1 DEF TypeOK
  <2>2. QED
    BY <1>2, <1>3, <1>5, <2>1 DEF TypeOK
<1>7. (Asked /\ Read /\ Offers /\ Owned /\ Finite /\ Before)'
  BY <1>2, <1>4 DEF Asked, Read, Offers, Owned, Finite, Before, In, Found
<1>8. \A p \in lookup.always : p.id <= last => p \in lookup.got \cup Upto(last)
  BY <1>3, <1>4 DEF Between, Upto, Rest
<1>9. Between'
  <2>1. \A p \in lookup.got : p.id <= last
    BY <1>1, <1>3, <1>5
  <2>2. QED
    BY <1>2, <1>4, <1>5, <1>8, <2>1 DEF Between, In
<1>10. After'
  <2>1. lookup.got \cup Upto(last) \subseteq lookup.ever
    BY <1>4, <1>5 DEF Between
  <2>2. ASSUME Upto(last) = Rest PROVE lookup.always \subseteq lookup.got \cup Upto(last)
    BY <1>3, <1>4, <2>2 DEF Between, Rest
  <2>3. QED
    BY <1>2, <2>1, <2>2 DEF After
<1>11. QED
  BY <1>2, <1>6, <1>7, <1>9, <1>10

(* The invariant holds in every state of the lookup.                       *)
THEOREM InvAlways == Spec => []Inv
<1>1. Inv /\ [Next]_vars => Inv'
  <2>1. ASSUME Inv, Next PROVE Inv'
    BY <2>1, ChangeInv, BeginInv, GetTableInv, EndInv, GetPartitionsInv, GetPageInv DEF Next
  <2>2. ASSUME Inv, UNCHANGED vars PROVE Inv'
    BY <2>2 DEF vars, Inv, TypeOK, Fields, Asked, Read, Offers, Owned, Finite, Before, Between,
                After, In, Found
  <2>3. QED
    BY <2>1, <2>2
<1>2. QED
  BY InitInv, <1>1, PTL DEF Spec

(* The lookup is typed, for any partitions and sizes of pages and answers. *)
THEOREM LookupTyped == Spec => []TypeOK
<1>1. Inv => TypeOK
  BY DEF Inv
<1>2. QED
  BY InvAlways, <1>1, PTL

(* A table is read as it was written, whatever the engines registered and  *)
(* others change (TableFormatDetector::detect, TableProviderBuilder).      *)
THEOREM ReadAsWrittenAlways == Spec => []ReadAsWritten
<1>1. Inv => ReadAsWritten
  <2> SUFFICES ASSUME Inv, Found PROVE ReadAsWritten
    BY DEF ReadAsWritten
  <2>1. /\ lookup.seen \in Tables /\ lookup.format = Detected(lookup.seen.signs)
        /\ lookup.format # None
    BY DEF Inv, Read, Found, In
  <2>2. lookup.seen.kind = lookup.format
    BY <2>1, DetectedIsKind
  <2>3. lookup.format \in {"iceberg", "paimon", "delta", "hive"}
    BY <2>1 DEF Inv, TypeOK
  <2>4. lookup.meta # None => <<lookup.format, lookup.meta>> \in Available
    BY <2>3 DEF Inv, Offers, Offered, Available, Metas
  <2>5. QED
    BY <2>2, <2>4 DEF ReadAsWritten
<1>2. QED
  BY InvAlways, <1>1, PTL

(* The partitions of a table are kept, for any number of them and any      *)
(* pages of Glue, and any size of a metastore's answer that holds them     *)
(* (get_partitions).                                                       *)
THEOREM PartitionsKeptAlways == Spec => []PartitionsKept
<1>1. Inv => PartitionsKept
  BY DEF Inv, TypeOK, After, PartitionsKept, Found, In
<1>2. QED
  BY InvAlways, <1>1, PTL

(***************************************************************************)
(* Text files.  TextInv says of every file that it has the header that the *)
(* table's properties speak of, and under it lines with the delimiter they *)
(* mean and no more cells than there are columns by now.                   *)
(***************************************************************************)

DescribedFields == {"input", "serde", "parameters", "properties", "columns"}
Lines == [delimiter : Int \cup {Missing}, cells : Seq(Texts \cup {Joined})]

(* The delimiter an engine writes; none that a reader could know of if     *)
(* lines end, or delimiters are escaped, in a way of the table's own.      *)
EngineDelimiter ==
  IF Said("escape.delim") = Missing /\ MeantByte("line.delim", LineEnd) = LineEnd THEN MeantDelimiter ELSE Missing

(* A table is one that is described, with columns.                         *)
TableGood ==
  /\ described = [field \in DescribedFields |-> described[field]]
  /\ \E t \in Descriptions :
       /\ described.input = t.input /\ described.serde = t.serde
       /\ described.parameters = t.parameters /\ described.properties = t.properties
  /\ described.columns \in Seq(Types)

LEMMA TableThere ==
  ASSUME NEW t \in Descriptions, NEW d, d = [field \in DescribedFields |-> d[field]],
         d.input = t.input, d.serde = t.serde, d.parameters = t.parameters,
         d.properties = t.properties, d.columns \in Seq(Types)
  PROVE  d # Missing
<1>1. d \in TextTables
  BY DEF TextTables, DescribedFields
<1> QED
  BY <1>1, NothingAssumption

(* A file has its header, and under it rows of no more cells than there    *)
(* are columns now.                                                        *)
FileGood(file, f) ==
  /\ file.codec = Compression[f.extension]
  /\ file.lines \in Seq(Lines) /\ HeaderLines <= Len(file.lines)
  /\ \A i \in (HeaderLines + 1)..Len(file.lines) :
       /\ file.lines[i].delimiter = EngineDelimiter
       /\ file.lines[i].cells \in Seq(Texts) /\ Len(file.lines[i].cells) <= Len(described.columns)
  /\ \A i \in 1..HeaderLines : file.lines[i].cells = <<Joined>>

TextInv ==
  /\ described = Missing => DOMAIN files = {}
  /\ described # Missing => TableGood
  /\ DOMAIN files \subseteq Files
  /\ \A f \in DOMAIN files : FileGood(files[f], f)

-----------------------------------------------------------------------------

LEMMA Spelling ==
  ASSUME NEW d, ProperlySpelled(d)
  PROVE  Byte(d) = d.means /\ d.means \in Int
BY DEF ProperlySpelled, Byte

(* The merged properties are what is said of the table.                    *)
LEMMA MergedIsSaid ==
  ASSUME TableGood
  PROVE  /\ Described(Merged(described))
         /\ \A key : IF key \in DOMAIN Merged(described)
                     THEN Said(key) = Merged(described)[key] /\ Said(key) # Missing
                     ELSE Said(key) = Missing
<1> DEFINE P == Merged(described)
<1>1. Described(described.parameters) /\ Described(described.properties)
  BY DescriptionsAssumption DEF TableGood
<1>2. P = [key \in DOMAIN described.properties \cup DOMAIN described.parameters |->
             IF key \in DOMAIN described.properties THEN described.properties[key]
             ELSE described.parameters[key]]
  BY DEF Merged, Beside
<1>3. \A key : IF key \in DOMAIN P THEN Said(key) = P[key] ELSE Said(key) = Missing
  BY <1>2 DEF Said
<1>4. Described(P)
  <2> SUFFICES ASSUME NEW key \in DOMAIN P
               PROVE  /\ P[key] # Missing /\ key \notin {"serdeConstants.FIELD_DELIM", "columns.delimited.by"}
                      /\ key = "skip.header.line.count" => P[key] \in Nat
                      /\ key \in {"field.delim", "serialization.format", "line.delim", "escape.delim"}
                           => ProperlySpelled(P[key])
    BY DEF Described
  <2>1. CASE key \in DOMAIN described.properties
    <3>1. P[key] = described.properties[key]
      BY <1>2, <2>1
    <3> QED
      BY <1>1, <2>1, <3>1 DEF Described
  <2>2. CASE key \notin DOMAIN described.properties
    <3>1. P[key] = described.parameters[key] /\ key \in DOMAIN described.parameters
      BY <1>2, <2>2
    <3> QED
      BY <1>1, <3>1 DEF Described
  <2> QED
    BY <2>1, <2>2
<1> QED
  BY <1>3, <1>4 DEF Described

LEMMA OneKey ==
  ASSUME TableGood, NEW key \in {"line.delim", "escape.delim"}, NEW default
  PROVE  DelimiterOf(Merged(described), <<key>>, default) = MeantByte(key, default)
<1> DEFINE P == Merged(described)
           keys == <<key>>
           there == {i \in DOMAIN keys : keys[i] \in DOMAIN P}
<1>1. DOMAIN keys = {1} /\ keys[1] = key
  OBVIOUS
<1>2. CASE key \notin DOMAIN P
  <2>1. there = {}
    BY <1>1, <1>2
  <2>2. Said(key) = Missing
    BY <1>2, MergedIsSaid
  <2> QED
    BY <2>1, <2>2 DEF DelimiterOf, MeantByte
<1>3. CASE key \in DOMAIN P
  <2>1. there = {1} /\ 1 <= 1
    BY <1>1, <1>3
  <2>2. (CHOOSE i \in there : \A j \in there : i <= j) = 1
    BY <2>1
  <2>3. Said(key) = P[key] /\ Said(key) # Missing /\ ProperlySpelled(P[key])
    BY <1>3, MergedIsSaid DEF Described
  <2>4. Byte(P[key]) = P[key].means /\ P[key].means \in Int
    BY <2>3, Spelling
  <2> HIDE DEF P
  <2> QED
    BY <1>1, <2>1, <2>2, <2>3, <2>4, NothingAssumption DEF DelimiterOf, MeantByte, P
<1> QED
  BY <1>2, <1>3

LEMMA FieldKeys ==
  ASSUME TableGood
  PROVE  FieldDelimiter(Merged(described)) = MeantDelimiter /\ MeantDelimiter \in Int
<1> DEFINE P == Merged(described)
           keys == <<"field.delim", "serialization.format", "serdeConstants.FIELD_DELIM",
                     "columns.delimited.by">>
           there == {i \in DOMAIN keys : keys[i] \in DOMAIN P}
           first == CHOOSE i \in there : \A j \in there : i <= j
<1>1. DOMAIN keys = 1..4 /\ keys[1] = "field.delim" /\ keys[2] = "serialization.format"
      /\ keys[3] = "serdeConstants.FIELD_DELIM" /\ keys[4] = "columns.delimited.by"
  OBVIOUS
<1>2. "serdeConstants.FIELD_DELIM" \notin DOMAIN P /\ "columns.delimited.by" \notin DOMAIN P
  BY MergedIsSaid DEF Described
<1>3. there \subseteq {1, 2}
  BY <1>1, <1>2
<1>4. ASSUME NEW n \in there, \A j \in there : n <= j,
             NEW key \in {"field.delim", "serialization.format"}, keys[n] = key
      PROVE  FieldDelimiter(P) = Said(key).means /\ Said(key) # Missing /\ Said(key).means \in Int
  <2>1. first = n
    BY <1>3, <1>4
  <2>2. key \in DOMAIN P
    BY <1>4
  <2>3. Said(key) = P[key] /\ Said(key) # Missing /\ ProperlySpelled(P[key])
    BY <2>2, MergedIsSaid DEF Described
  <2>4. Byte(P[key]) = P[key].means /\ P[key].means \in Int
    BY <2>3, Spelling
  <2>5. FieldDelimiter(P) = IF there = {} \/ Byte(P[keys[first]]) = Missing THEN FieldSeparator
                            ELSE Byte(P[keys[first]])
    BY DEF FieldDelimiter, DelimiterOf
  <2>6. Byte(P[keys[first]]) = P[key].means
    BY <1>4, <2>1, <2>4
  <2> QED
    BY <1>4, <2>3, <2>4, <2>5, <2>6, NothingAssumption
<1>5. CASE "field.delim" \in DOMAIN P
  <2>1. 1 \in there /\ \A j \in there : 1 <= j
    BY <1>1, <1>3, <1>5
  <2>2. FieldDelimiter(P) = Said("field.delim").means /\ Said("field.delim") # Missing
        /\ Said("field.delim").means \in Int
    BY <1>1, <1>4, <2>1
  <2> QED
    BY <2>2 DEF MeantDelimiter, MeantByte
<1>6. CASE "field.delim" \notin DOMAIN P /\ "serialization.format" \in DOMAIN P
  <2>1. there = {2}
    BY <1>1, <1>3, <1>6
  <2>2. 2 \in there /\ \A j \in there : 2 <= j
    BY <2>1
  <2>3. FieldDelimiter(P) = Said("serialization.format").means /\ Said("serialization.format") # Missing
        /\ Said("serialization.format").means \in Int
    BY <1>1, <1>4, <2>2
  <2>4. Said("field.delim") = Missing
    BY <1>6, MergedIsSaid
  <2> QED
    BY <2>3, <2>4 DEF MeantDelimiter, MeantByte
<1>7. CASE "field.delim" \notin DOMAIN P /\ "serialization.format" \notin DOMAIN P
  <2>1. there = {}
    BY <1>1, <1>2, <1>7
  <2>2. Said("field.delim") = Missing /\ Said("serialization.format") = Missing
    BY <1>7, MergedIsSaid
  <2>3. FieldDelimiter(P) = FieldSeparator
    BY <2>1 DEF FieldDelimiter, DelimiterOf
  <2> QED
    BY <2>2, <2>3 DEF MeantDelimiter, MeantByte, FieldSeparator
<1> QED
  BY <1>5, <1>6, <1>7

LEMMA HeaderIsSaid ==
  ASSUME TableGood
  PROVE  Header(Merged(described)) = HeaderLines /\ HeaderLines \in Nat
BY MergedIsSaid DEF Header, HeaderLines, Value, Described

LEMMA MarkerIsSaid ==
  ASSUME TableGood
  PROVE  Value(Merged(described), "serialization.null.format", NullMarker) = HiveMarker
BY MergedIsSaid DEF HiveMarker, Value

(* What can be honored is what an engine does that is told nothing else.   *)
LEMMA HonoredIsWritten ==
  ASSUME TableGood, Honored(Merged(described))
  PROVE  EngineDelimiter = FieldDelimiter(Merged(described))
<1>1. MeantByte("line.delim", LineEnd) = LineEnd /\ MeantByte("escape.delim", Missing) = Missing
  BY OneKey DEF Honored
<1>2. Said("escape.delim") = Missing
  <2> SUFFICES ASSUME Said("escape.delim") # Missing PROVE FALSE
    OBVIOUS
  <2>1. ProperlySpelled(Said("escape.delim"))
    BY MergedIsSaid DEF Described
  <2> QED
    BY <1>1, <2>1, Spelling, NothingAssumption DEF MeantByte
<1> QED
  BY <1>1, <1>2, FieldKeys DEF EngineDelimiter

LEMMA CellAsHive ==
  ASSUME TableGood, NEW cells \in Seq(Texts), NEW i \in 1..Len(described.columns),
         ConvertedCell(Cell(cells, i), described.columns[i], Merged(described)) # Unreadable
  PROVE  ConvertedCell(Cell(cells, i), described.columns[i], Merged(described)) = HiveValue(cells, i)
<1> DEFINE type == described.columns[i]
           marker == Value(Merged(described), "serialization.null.format", NullMarker)
<1>1. marker = HiveMarker
  BY MarkerIsSaid
<1>2. DOMAIN cells = 1..Len(cells) /\ Len(cells) \in Nat
  BY LenProperties
<1>3. CASE i > Len(cells)
  <2>1. i \notin DOMAIN cells
    BY <1>2, <1>3
  <2>2. Cell(cells, i) = Null
    BY <2>1 DEF Cell
  <2> QED
    BY <1>3, <2>2 DEF ConvertedCell, HiveValue
<1>4. CASE i <= Len(cells)
  <2>1. i \in DOMAIN cells /\ cells[i] \in Texts /\ cells[i] # Null /\ ~(i > Len(cells))
    BY <1>2, <1>4, NothingAssumption
  <2>2. Cell(cells, i) = IF cells[i] # "" THEN cells[i] ELSE Null
    BY <2>1 DEF Cell
  <2>3. ConvertedCell(Cell(cells, i), type, Merged(described)) =
          IF type \in {"null", "nested"} \/ Cell(cells, i) \in {Null, marker} THEN Null
          ELSE Decoded(Cell(cells, i), type)
    BY DEF ConvertedCell
  <2>4. HiveValue(cells, i) =
          IF type \in {"null", "nested"} THEN Null
          ELSE IF cells[i] \in {"", HiveMarker} THEN Null
          ELSE IF type = "utf8" THEN cells[i] ELSE Parse[type][cells[i]]
    BY <2>1 DEF HiveValue
  <2>5. CASE cells[i] = ""
    <3>1. Cell(cells, i) = Null
      BY <2>2, <2>5
    <3> QED
      BY <2>3, <2>4, <2>5, <3>1
  <2>6. CASE cells[i] # ""
    <3>1. Cell(cells, i) = cells[i]
      BY <2>2, <2>6
    <3>2. Cell(cells, i) \in {Null, marker} <=> cells[i] \in {"", HiveMarker}
      BY <1>1, <2>1, <2>6, <3>1
    <3>3. CASE type \in {"null", "nested"}
      BY <2>3, <2>4, <3>3
    <3>4. CASE type \notin {"null", "nested"} /\ cells[i] \in {"", HiveMarker}
      <4>1. ConvertedCell(Cell(cells, i), type, Merged(described)) = Null
        BY <2>3, <3>2, <3>4
      <4>2. HiveValue(cells, i) = Null
        BY <2>4, <3>4
      <4> QED
        BY <4>1, <4>2
    <3>5. CASE type \notin {"null", "nested"} /\ cells[i] \notin {"", HiveMarker}
      <4>0. ConvertedCell(Cell(cells, i), type, Merged(described)) = Decoded(cells[i], type)
        BY <2>3, <3>1, <3>2, <3>5
      <4>1. ConvertedCell(Cell(cells, i), type, Merged(described)) =
              IF type = "utf8" THEN cells[i] ELSE Parse[type][cells[i]]
        BY <4>0 DEF Decoded
      <4>2. HiveValue(cells, i) = IF type = "utf8" THEN cells[i] ELSE Parse[type][cells[i]]
        BY <2>4, <3>5
      <4> QED
        BY <4>1, <4>2
    <3> QED
      BY <3>3, <3>4, <3>5
  <2> QED
    BY <2>5, <2>6
<1> QED
  BY <1>2, <1>3, <1>4

LEMMA RowAsHive ==
  ASSUME TableGood, NEW cells \in Seq(Texts), NEW f, NEW n \in Nat,
         NEW projection \in [1..n -> 1..(Len(described.columns) + 1)],
         \A k \in 1..n : ProjectedRow(cells, f, Merged(described), projection)[k] # Unreadable
  PROVE  ProjectedRow(cells, f, Merged(described), projection) = HiveRow(cells, f, projection)
<1> DEFINE row == ScannedRow(cells, f, projection)
           P == Merged(described)
<1>1. Len(described.columns) \in Nat
  BY LenProperties DEF TableGood
<1>3. DOMAIN projection = 1..n
  OBVIOUS
<1>6. ASSUME NEW k \in 1..n, InFile(projection[k])
      PROVE  ProjectedRow(cells, f, P, projection)[k]
               = ConvertedCell(row[k], described.columns[projection[k]], P)
  <2>1. ProjectedRow(cells, f, P, projection) =
          [j \in DOMAIN projection |->
             IF InFile(projection[j]) THEN ConvertedCell(row[j], described.columns[projection[j]], P) ELSE row[j]]
    BY <1>3, <1>6 DEF ProjectedRow
  <2> HIDE DEF row
  <2> QED
    BY <1>3, <1>6, <2>1
<1>2. ASSUME NEW k \in 1..n
      PROVE  /\ ~InFile(projection[k]) => row[k] = f.partition /\ projection[k] > Len(described.columns)
             /\ InFile(projection[k]) =>
                  /\ ConvertedCell(row[k], described.columns[projection[k]], P) = HiveValue(cells, projection[k])
                  /\ ~(projection[k] > Len(described.columns))
  <2>1. row[k] = IF InFile(projection[k]) THEN Cell(cells, projection[k]) ELSE f.partition
    BY DEF ScannedRow
  <2>2. CASE InFile(projection[k])
    <3>1. projection[k] \in 1..Len(described.columns)
      BY <1>1, <2>2 DEF InFile
    <3>2. ConvertedCell(Cell(cells, projection[k]), described.columns[projection[k]], P) # Unreadable
      BY <1>6, <2>1, <2>2
    <3>3. ConvertedCell(Cell(cells, projection[k]), described.columns[projection[k]], P) = HiveValue(cells, projection[k])
      BY <3>1, <3>2, CellAsHive
    <3> QED
      BY <1>1, <2>1, <2>2, <3>1, <3>3
  <2>3. CASE ~InFile(projection[k])
    BY <1>1, <2>1, <2>3 DEF InFile
  <2> QED
    BY <2>2, <2>3
<1>4. CASE \A k \in DOMAIN projection : ~InFile(projection[k])
  <2>1. ProjectedRow(cells, f, P, projection) = row
    BY <1>4 DEF ProjectedRow
  <2>2. row = [k \in DOMAIN projection |-> row[k]]
    BY DEF ScannedRow
  <2> HIDE DEF row
  <2> QED
    BY <1>2, <1>3, <1>4, <2>1, <2>2 DEF HiveRow
<1>5. CASE ~\A k \in DOMAIN projection : ~InFile(projection[k])
  <2>1. ProjectedRow(cells, f, P, projection) =
          [k \in DOMAIN projection |->
             IF InFile(projection[k]) THEN ConvertedCell(row[k], described.columns[projection[k]], P) ELSE row[k]]
    BY <1>5 DEF ProjectedRow
  <2> HIDE DEF row
  <2> QED
    BY <1>2, <1>3, <2>1 DEF HiveRow
<1> QED
  BY <1>4, <1>5

(* Of a file without quotes every line with characters is a record, and    *)
(* its header is the first.                                                *)
LEMMA BodyOfFile ==
  ASSUME TextInv, TableGood, NEW f \in DOMAIN files, NoQuotes(f), Header(Merged(described)) \in {0, 1}
  PROVE  Body(files[f].lines, Merged(described)) =
         {j \in DOMAIN files[f].lines : j > HeaderLines /\ files[f].lines[j].cells # <<"">>}
<1> DEFINE L == files[f].lines
<1>1. /\ L \in Seq(Lines) /\ HeaderLines <= Len(L)
      /\ \A i \in 1..HeaderLines : L[i].cells = <<Joined>>
  BY DEF TextInv, FileGood
<1>2. Header(Merged(described)) = HeaderLines /\ HeaderLines \in {0, 1}
  BY HeaderIsSaid
<1>3. DOMAIN L = 1..Len(L) /\ Len(L) \in Nat
  BY <1>1, LenProperties
<1>4. ASSUME NEW i \in DOMAIN L PROVE ~InQuotes(L, i)
  <2> DEFINE quotes(j) == {j} \X {n \in DOMAIN L[j].cells : L[j].cells[n] \in NulTexts}
             all == UNION {quotes(j) : j \in 1..(i - 1)}
  <2>1. ASSUME NEW j \in 1..(i - 1) PROVE quotes(j) = {}
    <3>1. j \in DOMAIN L
      BY <1>3, <1>4
    <3> QED
      BY <3>1 DEF NoQuotes
  <2>2. all = {}
    BY <2>1
  <2>3. Cardinality(all) = 0
    BY <2>2, FS_EmptySet
  <2>4. InQuotes(L, i) <=> (Cardinality(all) % 2) = 1
    BY DEF InQuotes
  <2> HIDE DEF all
  <2> QED
    BY <2>3, <2>4
<1> HIDE DEF L
<1> DEFINE full == {j \in DOMAIN L : L[j].cells # <<"">>}
<1>5. Records(L) = full
  BY <1>4 DEF Records
<1>6. Body(L, Merged(described)) = {i \in full : HeaderLines = 1 => \E j \in full : j < i}
  BY <1>2, <1>5 DEF Body
<1>7. full \subseteq 1..Len(L)
  BY <1>3
<1>8. HeaderLines = 1 => 1 \in full
  <2> SUFFICES ASSUME HeaderLines = 1 PROVE 1 \in DOMAIN L /\ L[1].cells # <<"">>
    OBVIOUS
  <2>1. 1 \in DOMAIN L /\ L[1].cells = <<Joined>>
    BY <1>1, <1>3
  <2>2. <<Joined>>[1] = Joined /\ <<"">>[1] = ""
    OBVIOUS
  <2>3. <<Joined>> # <<"">>
    BY <2>2, CellsAssumption
  <2> QED
    BY <2>1, <2>3
<1>9. {i \in full : i > HeaderLines} = {j \in DOMAIN L : j > HeaderLines /\ L[j].cells # <<"">>}
  OBVIOUS
<1> HIDE DEF full
<1>10. {i \in full : HeaderLines = 1 => \E j \in full : j < i} = {i \in full : i > HeaderLines}
  <2> SUFFICES ASSUME NEW i \in full
               PROVE  (HeaderLines = 1 => \E j \in full : j < i) <=> i > HeaderLines
    OBVIOUS
  <2>1. CASE HeaderLines = 0
    BY <1>3, <1>7, <2>1
  <2>2. CASE HeaderLines = 1
    <3>1. 1 \in full
      BY <1>8, <2>2
    <3> QED
      BY <1>3, <1>7, <2>2, <3>1
  <2> QED
    BY <1>2, <2>1, <2>2
<1> QED
  BY <1>6, <1>9, <1>10 DEF L

(* Whatever can be honored is read as Hive reads it.                       *)
LEMMA TextAsHive ==
  ASSUME TextInv, described # Missing, NEW n \in Nat,
         NEW projection \in [1..n -> 1..(Len(described.columns) + 1)],
         TextRows(projection) # Unreadable, NEW f \in DOMAIN files, NoQuotes(f)
  PROVE  TextRows(projection)[f] = HiveRows(f, projection)
<1> DEFINE P == Merged(described)
           L == files[f].lines
           row(i) == ProjectedRow(Cells(L[i], P), f, P, projection)
           rows(g) == [i \in Body(files[g].lines, P) |->
                        ProjectedRow(Cells(files[g].lines[i], P), g, P, projection)]
           read == [g \in DOMAIN files |-> IF files[g].codec \in Codecs THEN rows(g) ELSE <<<<Joined>>>>]
<1>1. TableGood
  BY DEF TextInv
<1>2. TextRows(projection) =
        IF \/ ~Honored(P) \/ ~OneCodec
           \/ \E g \in DOMAIN files : \E i \in DOMAIN read[g] : \E k \in DOMAIN read[g][i] : read[g][i][k] = Unreadable
        THEN Unreadable ELSE read
  BY DEF TextRows, StorageInfo
<1> HIDE DEF read
<1>3. /\ Honored(P) /\ OneCodec /\ TextRows(projection) = read
      /\ \A i \in DOMAIN read[f] : \A k \in DOMAIN read[f][i] : read[f][i][k] # Unreadable
  BY <1>2
<1>4. Header(P) = HeaderLines /\ HeaderLines \in {0, 1} /\ EngineDelimiter = FieldDelimiter(P)
  BY <1>1, <1>3, HeaderIsSaid, HonoredIsWritten DEF Honored
<1>5. files[f].codec \in Codecs
  <2>1. files[f].codec = Compression[f.extension] /\ f \in Files
    BY DEF TextInv, FileGood
  <2>2. DetectCompression(f.extension) \in Codecs /\ DetectCompression(f.extension) # Unreadable
    BY <1>3 DEF Codecs, OneCodec
  <2>3. Compression[f.extension] = DetectCompression(f.extension)
    BY <2>1, <2>2, CompressionAssumption DEF DetectCompression
  <2> QED
    BY <2>1, <2>2, <2>3
<1>6. read[f] = [i \in Body(L, P) |-> row(i)]
  BY <1>5 DEF read
<1> HIDE DEF P
<1>7. Body(L, P) = {j \in DOMAIN L : j > HeaderLines /\ L[j].cells # <<"">>}
  BY <1>1, <1>4, BodyOfFile DEF P
<1>8. ASSUME NEW i \in Body(L, P) PROVE row(i) = HiveRow(L[i].cells, f, projection)
  <2>1. L \in Seq(Lines) /\ i \in (HeaderLines + 1)..Len(L)
    <3>1. L \in Seq(Lines)
      BY DEF TextInv, FileGood
    <3>2. DOMAIN L = 1..Len(L) /\ Len(L) \in Nat
      BY <3>1, LenProperties
    <3>3. i \in DOMAIN L /\ i > HeaderLines
      BY <1>7, <1>8
    <3> HIDE DEF L
    <3> QED
      BY <1>4, <3>1, <3>2, <3>3
  <2>2. L[i].delimiter = EngineDelimiter /\ L[i].cells \in Seq(Texts)
    BY <2>1 DEF TextInv, FileGood
  <2>3. ~\E m \in DOMAIN L[i].cells : L[i].cells[m] \in NulTexts
    BY <1>7, <1>8 DEF NoQuotes
  <2>4. Cells(L[i], P) = L[i].cells
    BY <1>4, <2>2, <2>3 DEF Cells
  <2>5. read[f][i] = ProjectedRow(L[i].cells, f, P, projection) /\ i \in DOMAIN read[f]
    BY <1>6, <1>8, <2>4
  <2>6. DOMAIN ProjectedRow(L[i].cells, f, P, projection) = 1..n
    BY DEF ProjectedRow, ScannedRow
  <2>7. \A k \in 1..n : ProjectedRow(L[i].cells, f, P, projection)[k] # Unreadable
    BY <1>3, <2>5, <2>6
  <2> HIDE DEF L
  <2>8. ProjectedRow(L[i].cells, f, P, projection) = HiveRow(L[i].cells, f, projection)
    BY <1>1, <2>2, <2>7, RowAsHive DEF P
  <2> QED
    BY <2>4, <2>8
<1>9. HiveRows(f, projection) =
        [i \in {j \in DOMAIN L : j > HeaderLines /\ L[j].cells # <<"">>} |-> HiveRow(L[i].cells, f, projection)]
  BY DEF HiveRows
<1> HIDE DEF L, row
<1>10. [i \in Body(L, P) |-> row(i)] = [i \in Body(L, P) |-> HiveRow(L[i].cells, f, projection)]
  BY <1>8
<1> QED
  BY <1>3, <1>6, <1>7, <1>9, <1>10

-----------------------------------------------------------------------------

LEMMA FunctionIsSeq ==
  ASSUME NEW S, NEW n \in Nat, NEW s \in [1..n -> S]
  PROVE  s \in Seq(S) /\ Len(s) = n
OBVIOUS

LEMMA InitText == TextInit => TextInv
BY DEF TextInit, TextInv

(* What is said of a table stays as it is created.                         *)
LEMMA SaidStays ==
  ASSUME described'.properties = described.properties, described'.parameters = described.parameters
  PROVE  EngineDelimiter' = EngineDelimiter /\ HeaderLines' = HeaderLines
BY DEF EngineDelimiter, HeaderLines, MeantDelimiter, MeantByte, Said

LEMMA CreateGood ==
  ASSUME TextInv, NEW t \in Descriptions, NEW type \in Types, Create(t, type)
  PROVE  TextInv'
<1>1. described = Missing /\ DOMAIN files = {} /\ files' = files
  BY DEF Create, TextInv
<1>2. TableGood'
  <2>1. described' = [input |-> t.input, serde |-> t.serde, parameters |-> t.parameters,
                      properties |-> t.properties, columns |-> <<type>>]
    BY DEF Create
  <2>2. /\ described'.input = t.input /\ described'.serde = t.serde
        /\ described'.parameters = t.parameters /\ described'.properties = t.properties
        /\ described'.columns \in Seq(Types)
    BY <2>1
  <2>3. described' = [field \in DescribedFields |-> described'[field]]
    BY <2>1 DEF DescribedFields
  <2> QED
    BY <2>2, <2>3 DEF TableGood
<1> QED
  BY <1>1, <1>2 DEF TextInv

LEMMA AddColumnGood ==
  ASSUME TextInv, NEW type \in Types, AddColumn(type)
  PROVE  TextInv'
<1>1. described # Missing /\ TableGood /\ files' = files
      /\ described' = [described EXCEPT !.columns = Append(described.columns, type)]
  BY DEF AddColumn, TextInv
<1>2. /\ described' = [field \in DescribedFields |-> described'[field]]
      /\ described'.input = described.input /\ described'.serde = described.serde
      /\ described'.parameters = described.parameters /\ described'.properties = described.properties
      /\ described'.columns = Append(described.columns, type)
  BY <1>1 DEF TableGood, DescribedFields
<1>3. /\ described'.columns \in Seq(Types) /\ Len(described'.columns) = Len(described.columns) + 1
      /\ Len(described.columns) \in Nat
  BY <1>1, <1>2, AppendProperties, LenProperties DEF TableGood
<1>4. TableGood'
  BY <1>1, <1>2, <1>3 DEF TableGood
<1>5. EngineDelimiter' = EngineDelimiter /\ HeaderLines' = HeaderLines
  BY <1>2, SaidStays
<1>6. ASSUME NEW f \in DOMAIN files PROVE FileGood(files[f], f)'
  <2>1. FileGood(files[f], f)
    BY DEF TextInv
  <2>2. HeaderLines \in Nat /\ Len(files[f].lines) \in Nat
    BY <1>1, <2>1, HeaderIsSaid, LenProperties DEF FileGood
  <2>3. ASSUME NEW i \in (HeaderLines + 1)..Len(files[f].lines)
        PROVE  Len(files[f].lines[i].cells) <= Len(described'.columns)
    BY <1>3, <2>1, <2>3, LenProperties DEF FileGood
  <2> QED
    BY <1>1, <1>5, <2>1, <2>3 DEF FileGood
<1>7. described' # Missing
  BY <1>4, TableThere DEF TableGood
<1>8. \A f \in DOMAIN files' : FileGood(files[f], f)'
  BY <1>1, <1>6
<1> QED
  BY <1>1, <1>4, <1>7, <1>8 DEF TextInv

LEMMA WriteGood ==
  ASSUME TextInv, NEW f \in Files, NEW n \in Nat, described # Missing,
         NEW rows \in [1..n -> [DOMAIN described.columns -> Texts]], Write(f, rows)
  PROVE  TextInv'
<1> DEFINE header == [i \in 1..HeaderLines |-> [delimiter |-> EngineDelimiter, cells |-> <<Joined>>]]
           lines == [i \in DOMAIN rows |-> [delimiter |-> EngineDelimiter, cells |-> rows[i]]]
           file == [codec |-> Compression[f.extension], lines |-> header \o lines]
<1>1. f \notin DOMAIN files /\ described' = described
      /\ files' = Beside(files, [g \in {f} |-> file])
  BY DEF Write, EngineDelimiter
<1>2. TableGood /\ HeaderLines \in Nat /\ EngineDelimiter \in Int \cup {Missing}
  BY HeaderIsSaid, FieldKeys DEF TextInv, EngineDelimiter
<1>3. Len(described.columns) \in Nat /\ DOMAIN described.columns = 1..Len(described.columns)
  BY <1>2, LenProperties DEF TableGood
<1>4. ASSUME NEW i \in 1..n
      PROVE  rows[i] \in Seq(Texts) /\ Len(rows[i]) = Len(described.columns) /\ lines[i] \in Lines
  <2>1. rows[i] \in [1..Len(described.columns) -> Texts]
    BY <1>3
  <2>2. rows[i] \in Seq(Texts) /\ Len(rows[i]) = Len(described.columns)
    BY <1>3, <2>1, FunctionIsSeq
  <2>3. rows[i] \in Seq(Texts \cup {Joined})
    BY <1>3, <2>1, FunctionIsSeq
  <2> QED
    BY <1>2, <2>2, <2>3 DEF Lines
<1>5. lines \in Seq(Lines) /\ Len(lines) = n /\ \A i \in 1..n : lines[i].delimiter = EngineDelimiter /\ lines[i].cells = rows[i]
  <2>1. lines \in [1..n -> Lines]
    BY <1>4
  <2> QED
    BY <2>1, FunctionIsSeq
<1>6. header \in Seq(Lines) /\ Len(header) = HeaderLines
  <2>1. <<Joined>> \in Seq(Texts \cup {Joined})
    OBVIOUS
  <2>2. header \in [1..HeaderLines -> Lines]
    BY <1>2, <2>1 DEF Lines
  <2> QED
    BY <1>2, <2>2, FunctionIsSeq
<1>7. FileGood(file, f)
  <2>1. file.codec = Compression[f.extension] /\ file.lines = header \o lines
    OBVIOUS
  <2> HIDE DEF header, lines, file
  <2>2. /\ header \o lines \in Seq(Lines) /\ Len(header \o lines) = HeaderLines + n
        /\ \A i \in 1..(HeaderLines + n) :
             (header \o lines)[i] = IF i <= HeaderLines THEN header[i] ELSE lines[i - HeaderLines]
    BY <1>5, <1>6, ConcatProperties
  <2>3. ASSUME NEW i \in (HeaderLines + 1)..(HeaderLines + n)
        PROVE  /\ file.lines[i].delimiter = EngineDelimiter
               /\ file.lines[i].cells \in Seq(Texts) /\ Len(file.lines[i].cells) <= Len(described.columns)
    <3>1. i \in 1..(HeaderLines + n) /\ ~(i <= HeaderLines) /\ i - HeaderLines \in 1..n
      BY <1>2
    <3>2. file.lines[i] = lines[i - HeaderLines]
      BY <2>1, <2>2, <3>1
    <3> QED
      BY <1>3, <1>4, <1>5, <3>1, <3>2
  <2>4. ASSUME NEW i \in 1..HeaderLines PROVE file.lines[i].cells = <<Joined>>
    <3>1. i \in 1..(HeaderLines + n) /\ i <= HeaderLines
      BY <1>2
    <3>2. file.lines[i] = header[i]
      BY <2>1, <2>2, <3>1
    <3> QED
      BY <3>2 DEF header
  <2> QED
    BY <1>2, <2>1, <2>2, <2>3, <2>4 DEF FileGood
<1>8. DOMAIN files' = DOMAIN files \cup {f} /\ files'[f] = file
      /\ \A g \in DOMAIN files : files'[g] = files[g]
  <2> HIDE DEF file
  <2> QED
    BY <1>1 DEF Beside
<1>9. EngineDelimiter' = EngineDelimiter /\ HeaderLines' = HeaderLines
  BY <1>1, SaidStays
<1>10. ASSUME NEW g \in DOMAIN files' PROVE FileGood(files'[g], g)
  <2> HIDE DEF file
  <2> QED
    BY <1>7, <1>8 DEF TextInv
<1>11. \A g \in DOMAIN files' : FileGood(files[g], g)'
  BY <1>1, <1>9, <1>10 DEF FileGood
<1>12. TableGood'
  BY <1>1, <1>2 DEF TableGood
<1> QED
  BY <1>1, <1>8, <1>11, <1>12 DEF TextInv

LEMMA TextSteps == TextInv /\ [TextNext]_textVars => TextInv'
<1> SUFFICES ASSUME TextInv, [TextNext]_textVars PROVE TextInv'
  OBVIOUS
<1>1. ASSUME NEW t \in Descriptions, NEW type \in Types, Create(t, type) PROVE TextInv'
  BY <1>1, CreateGood
<1>2. ASSUME NEW type \in Types, AddColumn(type) PROVE TextInv'
  BY <1>2, AddColumnGood
<1>3. ASSUME NEW f \in Files, NEW n \in 0..MaxRows, described # Missing,
             NEW rows \in [1..n -> [DOMAIN described.columns -> Texts]], Write(f, rows)
      PROVE  TextInv'
  BY <1>3, WriteGood
<1>4. CASE UNCHANGED textVars
  BY <1>4 DEF TextInv, textVars, TableGood, FileGood, EngineDelimiter, HeaderLines, MeantDelimiter, MeantByte, Said
<1> QED
  BY <1>1, <1>2, <1>3, <1>4 DEF TextNext

(* The format that is chosen is the one engines wrote the table in.        *)
LEMMA FormatAsLaidOut ==
  ASSUME TableGood, StorageInfo(described).format # Unreadable
  PROVE  StorageInfo(described).format = Layout[<<described.input, described.serde>>]
BY LayoutAssumption DEF TableGood, StorageInfo, Reader, Format

(* Files of any table that is not refused are read as they are laid out,   *)
(* or the scan fails: for any properties in any spelling, any columns and  *)
(* texts, and the lines with characters of files without quotes.           *)
THEOREM TextsReadAsLaidOut == TextSpec => []ReadAsLaidOut
<1>1. TextInv => ReadAsLaidOut
  <2> SUFFICES ASSUME TextInv, described # Missing, StorageInfo(described).format # Unreadable
               PROVE  /\ StorageInfo(described).format = Layout[<<described.input, described.serde>>]
                      /\ \A n \in 0..2 : \A projection \in [1..n -> 1..(Len(described.columns) + 1)] :
                           TextRows(projection) # Unreadable =>
                             \A f \in DOMAIN files : NoQuotes(f) =>
                               TextRows(projection)[f] = HiveRows(f, projection)
    BY DEF ReadAsLaidOut
  <2>1. TableGood
    BY DEF TextInv
  <2>2. StorageInfo(described).format = Layout[<<described.input, described.serde>>]
    BY <2>1, FormatAsLaidOut
  <2>3. ASSUME NEW n \in 0..2, NEW projection \in [1..n -> 1..(Len(described.columns) + 1)],
               TextRows(projection) # Unreadable, NEW f \in DOMAIN files, NoQuotes(f)
        PROVE  TextRows(projection)[f] = HiveRows(f, projection)
    BY <2>3, TextAsHive
  <2> QED
    BY <2>2, <2>3
<1> QED
  BY <1>1, InitText, TextSteps, PTL DEF TextSpec

=============================================================================
