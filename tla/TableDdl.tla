------------------------------ MODULE TableDdl ------------------------------
(***************************************************************************)
(* DDL and INSERT statements (sql/session/ddl.rs) of concurrent sessions   *)
(* on one schema of a Paimon filesystem catalog (catalog/paimon_fs.rs).    *)
(*                                                                         *)
(* CREATE TABLE t AS query is not atomic: the query is planned for its     *)
(* columns, the table is created, and the query is planned again as        *)
(* INSERT INTO t, by name, and run.  Between any two of these awaits other *)
(* sessions create, fill, overwrite and drop tables of the same names, and *)
(* the statement itself may fail or be dropped with its client.            *)
(***************************************************************************)
CONSTANTS
  Statements,  \* statements of all sessions, each run once
  Tables,      \* table names of the schema
  Layouts,     \* column lists
  Fits,        \* pairs of layouts: rows of the first can be cast to the second
  Texts,       \* what the statements may say
  Founder,     \* the creator of the tables there are at the start
  None

ASSUME FitsAssumption == Fits \subseteq Layouts \X Layouts
ASSUME NoneAssumption == None \notin Layouts \cup Statements \cup {Founder}
ASSUME FounderAssumption == Founder \notin Statements

VARIABLES
  exists,   \* whether the schema exists
  tables,   \* [Tables -> the table of that name, or None]
  run,      \* [Statements -> how far each one is]
  dropped   \* the creators of tables that have been dropped

vars == <<exists, tables, run, dropped>>

(* by: the statement that created it, which tells a table from a later one *)
(* of the same name; writers: the statements whose rows, or some of them,  *)
(* it holds.  Rows are the commits that wrote them: what a primary key     *)
(* merges is a matter of reading.                                          *)
Creator == Statements \cup {Founder}
Stored == [by : Creator, columns : Layouts, writers : SUBSET Statements]

Queries  == {"ctas", "insert", "overwrite"}
Creators == {"create", "ctas", "like"}
Kinds    == Queries \cup Creators \cup {"drop", "create schema", "drop schema"}

(* soft: IF [NOT] EXISTS; cascade: of DROP SCHEMA.                         *)
Text == [kind : Kinds, target : Tables, source : Tables,
         soft : BOOLEAN, cascade : BOOLEAN]

ASSUME TextsAssumption == Texts \subseteq Text
ASSUME NothingAssumption == None \notin Stored

Running == {"plan", "create", "replan", "execute", "call"}

(* columns: those the statement creates its table with; rows: those of the *)
(* rows it inserts; into: the creator of the table its INSERT was planned  *)
(* for.                                                                    *)
Run == [phase : Running \cup {"new", "done", "skipped", "failed"},
        text : Text \cup {None}, columns : Layouts \cup {None},
        rows : Layouts \cup {None}, into : Creator \cup {None}]

TypeOK ==
  /\ exists \in BOOLEAN
  /\ tables \in [Tables -> Stored \cup {None}]
  /\ run \in [Statements -> Run]
  /\ dropped \subseteq Creator

New == [phase |-> "new", text |-> None, columns |-> None, rows |-> None, into |-> None]

Init ==
  /\ exists \in BOOLEAN
  /\ tables \in [Tables -> {None} \cup [by : {Founder}, columns : Layouts, writers : {{}}]]
  /\ ~exists => tables = [t \in Tables |-> None]
  /\ run = [s \in Statements |-> New]
  /\ dropped = {}

Kind(s)   == run[s].text.kind
Target(s) == run[s].text.target
Source(s) == run[s].text.source
At(s, phase) == run[s].phase = phase
Goto(s, phase) == run' = [run EXCEPT ![s].phase = phase]

-----------------------------------------------------------------------------

(* A statement is routed to its handler.  Only the sources of a CTAS or a  *)
(* LIKE are resolved before the table is created.                          *)
FirstPhase(kind) ==
  CASE kind \in {"ctas", "like"} -> "plan"
    [] kind = "create"           -> "create"
    [] kind \in {"insert", "overwrite"} -> "replan"
    [] OTHER                     -> "call"

(* columns: those the text of a CREATE TABLE declares.                     *)
Start(s, text, columns) ==
  /\ At(s, "new")
  /\ run' = [run EXCEPT ![s] = [@ EXCEPT
       !.phase = FirstPhase(text.kind),
       !.text = text,
       !.columns = IF text.kind = "create" THEN columns ELSE None]]
  /\ UNCHANGED <<exists, tables, dropped>>

(* A statement that fails, at a check of its own, in the catalog or while  *)
(* it runs, or whose client goes away.  A table it has created stays.      *)
FailAs(s, phase) ==
  /\ run[s].phase \in Running
  /\ Goto(s, phase)
  /\ UNCHANGED <<exists, tables, dropped>>

(* Mutants: the error of the INSERT is lost; the table is cleaned up.      *)
FailQuietly(s) == FailAs(s, IF At(s, "execute") THEN "done" ELSE "failed")
FailCleanly(s) ==
  /\ run[s].phase \in Running
  /\ tables' = IF At(s, "execute") /\ Kind(s) = "ctas"
               THEN [tables EXCEPT ![Target(s)] = None] ELSE tables
  /\ Goto(s, "failed")
  /\ UNCHANGED <<exists, dropped>>
Fail(s) == FailAs(s, "failed")

(* The query of a CTAS, or the source of a LIKE, gives the columns.        *)
PlanSource(s) ==
  /\ At(s, "plan")
  /\ exists
  /\ tables[Source(s)] # None
  /\ run' = [run EXCEPT ![s].phase = "create",
                        ![s].columns = tables[Source(s)].columns]
  /\ UNCHANGED <<exists, tables, dropped>>

(* PaimonFSCatalog::create_table answers Created ...                       *)
CreateTable(s) ==
  /\ At(s, "create")
  /\ exists
  /\ tables[Target(s)] = None
  /\ tables' = [tables EXCEPT ![Target(s)] =
       [by |-> s, columns |-> run[s].columns, writers |-> {}]]
  /\ Goto(s, IF Kind(s) = "ctas" THEN "replan" ELSE "done")
  /\ UNCHANGED <<exists, dropped>>

(* ... or Skipped, and the query of a CTAS is not run.                     *)
SkipThen(s, next) ==
  /\ At(s, "create")
  /\ exists
  /\ tables[Target(s)] # None
  /\ run[s].text.soft
  /\ Goto(s, next)
  /\ UNCHANGED <<exists, tables, dropped>>

(* Mutant: it is run.                                                      *)
InsertAnyway(s) == SkipThen(s, IF Kind(s) = "ctas" THEN "replan" ELSE "skipped")
SkipTable(s) == SkipThen(s, "skipped")

(* INSERT INTO, or OVERWRITE, target is planned by name: target and source *)
(* are looked up again, and the columns of the one must fit the other's.   *)
ReplanWith(s, rows) ==
  /\ At(s, "replan")
  /\ exists
  /\ tables[Target(s)] # None
  /\ tables[Source(s)] # None
  /\ <<rows, tables[Target(s)].columns>> \in Fits
  /\ run' = [run EXCEPT ![s].phase = "execute",
                        ![s].rows = tables[Source(s)].columns,
                        ![s].into = tables[Target(s)].by]
  /\ UNCHANGED <<exists, tables, dropped>>

(* Mutant: the columns of the first planning are taken to hold still.      *)
ReplanStale(s) ==
  ReplanWith(s, IF Kind(s) = "ctas" THEN run[s].columns ELSE tables[Source(s)].columns)
Replan(s) == ReplanWith(s, tables[Source(s)].columns)

(* The rows are committed to whatever table has the target's location by   *)
(* now; without one the commit fails.  INSERT OVERWRITE replaces the       *)
(* partitions its rows are in, which is all the data of a table that has   *)
(* none: kept are the earlier commits with rows in other partitions, any   *)
(* of them, as where a row belongs is not modelled.                        *)
ExecuteThen(s, kept, next) ==
  /\ At(s, "execute")
  /\ tables[Target(s)] # None
  /\ Kind(s) # "overwrite" => kept = tables[Target(s)].writers
  /\ tables' = [tables EXCEPT ![Target(s)].writers = (@ \cap kept) \cup {s}]
  /\ Goto(s, next)
  /\ UNCHANGED <<exists, dropped>>

ExecuteAgain(s, kept) == ExecuteThen(s, kept, "replan")  \* mutant: a commit is retried
Execute(s, kept) == ExecuteThen(s, kept, "done")

DropTable(s) ==
  /\ At(s, "call")
  /\ Kind(s) = "drop"
  /\ exists
  /\ tables[Target(s)] # None
  /\ tables' = [tables EXCEPT ![Target(s)] = None]
  /\ dropped' = dropped \cup {tables[Target(s)].by}
  /\ Goto(s, "done")
  /\ UNCHANGED exists

CreateSchema(s) ==
  /\ At(s, "call")
  /\ Kind(s) = "create schema"
  /\ ~exists
  /\ exists' = TRUE
  /\ Goto(s, "done")
  /\ UNCHANGED <<tables, dropped>>

(* RESTRICT, the default, refuses to drop a schema that has tables.        *)
DropSchema(s) ==
  LET present == {t \in Tables : tables[t] # None} IN
  /\ At(s, "call")
  /\ Kind(s) = "drop schema"
  /\ exists
  /\ present # {} => run[s].text.cascade
  /\ exists' = FALSE
  /\ tables' = [t \in Tables |-> None]
  /\ dropped' = dropped \cup {tables[t].by : t \in present}
  /\ Goto(s, "done")

(* IF [NOT] EXISTS turns what is there, or gone, already into a success.   *)
SkipCall(s) ==
  /\ At(s, "call")
  /\ run[s].text.soft
  /\ CASE Kind(s) = "drop"          -> exists /\ tables[Target(s)] = None
       [] Kind(s) = "create schema" -> exists
       [] OTHER                     -> ~exists
  /\ Goto(s, "skipped")
  /\ UNCHANGED <<exists, tables, dropped>>

-----------------------------------------------------------------------------

Step(s) ==
  \/ Fail(s)
  \/ PlanSource(s)
  \/ CreateTable(s)
  \/ SkipTable(s)
  \/ Replan(s)
  \/ \E kept \in SUBSET Statements : Execute(s, kept)
  \/ DropTable(s)
  \/ CreateSchema(s)
  \/ DropSchema(s)
  \/ SkipCall(s)

Next == \E s \in Statements :
  \/ \E text \in Texts, columns \in Layouts : Start(s, text, columns)
  \/ Step(s)

Spec == Init /\ [][Next]_vars

(* A statement that has started is polled, and the catalog answers.        *)
FairSpec == Spec /\ \A s \in Statements : WF_vars(Step(s))

=============================================================================
