--------------------------- MODULE HiveTableLookup ---------------------------
(***************************************************************************)
(* Looking up a table in a Hive Metastore or Glue (HMSSchema::table,       *)
(* GlueSchema::table, catalog/hms.rs and glue.rs): one request for the     *)
(* table, the detection of its format, further requests for the partitions *)
(* of a Hive table, and the provider that is built from all of them.       *)
(* Meanwhile others register and drop partitions, and drop the table and   *)
(* create another of its name.                                             *)
(***************************************************************************)
EXTENDS Naturals, FiniteSets

CONSTANTS
  Ids,          \* 1..n, the partitions there may be, in the order of pages
  Widths,       \* numbers of partition columns
  PageSize,     \* partitions in a page of Glue
  MaxParts,     \* partitions an answer of the metastore holds: i16::MAX
  MaxChanges,   \* bound of what others do to the metastore
  None

ASSUME IdsAssumption == Ids \subseteq Nat \ {0} /\ IsFiniteSet(Ids)
ASSUME WidthsAssumption == Widths \subseteq Nat
ASSUME PageAssumption == PageSize \in Nat \ {0} /\ MaxParts \in Nat \ {0}
ASSUME ChangesAssumption == MaxChanges \in Nat

Metas == {"data_files", "partitions", "snapshots", "history", "tags"}
Kinds == {"iceberg", "paimon", "delta", "hudi", "view", "acid", "hive"}
Names == Metas \cup Kinds \cup {"ICEBERG", "PAIMON", "DELTA", "parquet"}

ASSUME NoneAssumption == None \notin Names

VARIABLES
  table,   \* the table of the name: [kind, signs, width], or None
  parts,   \* its partitions: [id, width, whole]
  changes, \* what others have done
  lookup   \* how far the lookup is

vars == <<table, parts, changes, lookup>>

Plain == [property |-> None, provider |-> None, hudi |-> FALSE, view |-> FALSE, acid |-> FALSE]

(* How the engines register the tables they write.                         *)
Registered(kind) ==
  CASE kind = "iceberg" -> {[Plain EXCEPT !.property = "ICEBERG"]}
    [] kind = "paimon" -> {[Plain EXCEPT !.property = "PAIMON"]}
    [] kind = "delta" -> {[Plain EXCEPT !.property = "DELTA"], [Plain EXCEPT !.provider = "DELTA"]}
    [] kind = "hudi" -> {[Plain EXCEPT !.hudi = TRUE], [Plain EXCEPT !.hudi = TRUE, !.provider = "hudi"]}
    [] kind = "view" -> {[Plain EXCEPT !.view = TRUE]}
    [] kind = "acid" -> {[Plain EXCEPT !.acid = TRUE]}
    [] kind = "hive" -> {Plain, [Plain EXCEPT !.provider = "parquet"]}

Tables == UNION {{[kind |-> k, signs |-> s, width |-> w] : s \in Registered(k), w \in Widths} : k \in Kinds}
PartsOf(width) == [id : Ids, width : {width}, whole : BOOLEAN]

(* seen: the table of the first answer; after: where the next page begins. *)
(* ever, always: the partitions there have been since it was read, some of *)
(* the time and all of it.                                                 *)
Idle == [phase |-> "idle", source |-> None, meta |-> None, seen |-> None, got |-> {}, after |-> 0,
         format |-> None, ever |-> {}, always |-> {}]

TypeOK ==
  /\ table \in Tables \cup {None}
  /\ parts \subseteq UNION {PartsOf(w) : w \in Widths}
  /\ \A p, q \in parts : p.id = q.id => p = q
  /\ changes \in 0..MaxChanges
  /\ lookup.phase \in {"idle", "table", "partitions", "build", "found", "none", "failed"}
  /\ lookup.format \in {"iceberg", "paimon", "delta", "hive", None}
  /\ lookup.got \subseteq UNION {PartsOf(w) : w \in Widths}
  /\ \A p, q \in lookup.got : p.id = q.id => p = q
  /\ lookup.after \in Nat

(* Hive tables with partition columns have partitions.                     *)
Owns(t) == t # None /\ t.kind = "hive" /\ t.width > 0

Init ==
  /\ table \in Tables \cup {None}
  /\ IF Owns(table) THEN \E some \in SUBSET Ids : parts = [id : some, width : {table.width}, whole : {TRUE}]
                    ELSE parts = {}
  /\ changes = 0
  /\ lookup = Idle

In(phase) == lookup.phase = phase

-----------------------------------------------------------------------------

(* Others change the metastore.                                            *)
Change ==
  /\ changes < MaxChanges
  /\ changes' = changes + 1
  /\ \/ table = None /\ \E t \in Tables : table' = t /\ parts' = {}
     \/ table # None /\ table' = None /\ parts' = {}
     \/ /\ Owns(table) /\ UNCHANGED table
        /\ \/ \E p \in PartsOf(table.width) :
                p.id \notin {q.id : q \in parts} /\ parts' = parts \cup {p}
           \/ \E p \in parts : parts' = parts \ {p}
  /\ lookup' = [lookup EXCEPT !.ever = @ \cup parts', !.always = @ \cap parts']

(* parse_table_reference: a name, and after a $ a metadata table there is. *)
Begin(source, meta) ==
  /\ In("idle")
  /\ lookup' = [lookup EXCEPT !.phase = "table", !.source = source, !.meta = meta]
  /\ UNCHANGED <<table, parts, changes>>

(* detect: the marks of other formats come first, and what would be        *)
(* misread as a Hive table is refused.  Mutant: not Hudi.                  *)
Marked(signs) ==
  CASE signs.property = "ICEBERG" -> "iceberg"
    [] signs.property = "PAIMON" -> "paimon"
    [] signs.property = "DELTA" \/ signs.provider = "DELTA" -> "delta"
    [] OTHER -> None
NotHudi(signs) == signs.view \/ signs.acid
Refused(signs) == signs.hudi \/ signs.view \/ signs.acid

Detected(signs) ==
  IF Marked(signs) # None THEN Marked(signs) ELSE IF Refused(signs) THEN None ELSE "hive"

(* The first request.  Partitions are asked for if it is a Hive table with *)
(* partition columns.                                                      *)
GetTable ==
  /\ In("table") /\ table # None /\ Detected(table.signs) # None
  /\ lookup' = [lookup EXCEPT
       !.phase = IF Detected(table.signs) = "hive" /\ table.width > 0 THEN "partitions" ELSE "build",
       !.seen = table, !.format = Detected(table.signs), !.ever = parts, !.always = parts]
  /\ UNCHANGED <<table, parts, changes>>

(* A table that is not there: Glue's answer says so, a metastore's is an   *)
(* error like any other.                                                   *)
NotFound(source) == source = "glue" /\ table = None

NoTable ==
  /\ In("table") /\ NotFound(lookup.source)
  /\ lookup' = [lookup EXCEPT !.phase = "none"]
  /\ UNCHANGED <<table, parts, changes>>

(* A request fails; the name is wrong; the format is not supported; the    *)
(* answer lacks something, or a schema or storage that can be read.        *)
Fails ==
  /\ lookup.phase \in {"table", "partitions", "build"}
  /\ lookup' = [lookup EXCEPT !.phase = "failed"]
  /\ UNCHANGED <<table, parts, changes>>

-----------------------------------------------------------------------------

(* A partition without a descriptor, location or values is refused.        *)
Whole(some) == \A p \in some : p.whole

(* HMS: all partitions in one answer, if they fit it.                      *)
GetPartitions ==
  /\ In("partitions") /\ lookup.source = "hms" /\ table # None
  /\ \E some \in SUBSET parts :
       /\ Cardinality(some) = IF Cardinality(parts) > MaxParts THEN MaxParts ELSE Cardinality(parts)
       /\ Whole(some)
       /\ lookup' = [lookup EXCEPT !.phase = "build", !.got = some]
  /\ UNCHANGED <<table, parts, changes>>

(* Glue: page by page, each up to some last partition, until none is left. *)
Rest == {p \in parts : p.id > lookup.after}
Upto(last) == {p \in Rest : p.id <= last}

(* The pages together.  Mutant: the last.                                  *)
OnlyPage(got, page) == page
Extend(got, page) == got \cup page

(* The token of the next page.  Mutant: it is not passed on.               *)
NoToken(last) == 0
Token(last) == last

GetPage ==
  /\ In("partitions") /\ lookup.source = "glue" /\ table # None
  /\ \E last \in Ids :
       /\ last > lookup.after /\ Cardinality(Upto(last)) <= PageSize /\ Whole(Upto(last))
       /\ lookup' = [lookup EXCEPT
            !.phase = IF Upto(last) = Rest THEN "build" ELSE "partitions",
            !.got = Extend(@, Upto(last)), !.after = Token(last)]
  /\ UNCHANGED <<table, parts, changes>>

(* The metadata tables of each format.                                     *)
Offered(format) ==
  CASE format = "hive" -> {"data_files", "partitions"}
    [] format = "iceberg" -> {"snapshots", "history"}
    [] format = "paimon" -> Metas \ {"history"}
    [] format = "delta" -> {}

Build ==
  /\ In("build") /\ lookup.meta \in Offered(lookup.format) \cup {None}
  /\ lookup' = [lookup EXCEPT !.phase = "found"]
  /\ UNCHANGED <<table, parts, changes>>

Next ==
  \/ Change \/ GetTable \/ NoTable \/ Fails \/ GetPartitions \/ GetPage \/ Build
  \/ \E source \in {"hms", "glue"}, meta \in Metas \cup {None} : Begin(source, meta)

Spec == Init /\ [][Next]_vars
=============================================================================
