---------------------------- MODULE ProcedureCalls ----------------------------
(***************************************************************************)
(* CALL format.procedure(...), in the scope of a session: the table among  *)
(* the arguments is resolved as a name of SQL (handle_call_stmt, sql/      *)
(* session/procedure.rs), and is written anew for Paimon, which splits the *)
(* text at its dots (call_procedure, catalog/paimon_fs.rs).  A name is the *)
(* sequence of what is between its dots.                                   *)
(***************************************************************************)
EXTENDS Integers, Sequences, FiniteSets, SequencesExt

CONSTANTS
  Segments,    \* what is between dots
  Idents,      \* [name, quoted], as they are written
  Lower,       \* [names -> names]: the name in lower case
  Catalogs,    \* [names -> "paimon-fs", or the kind of another catalog]
  Scopes,      \* [catalog, schema]: default catalogs and schemas of sessions
  Formats,     \* [words -> formats]: those TableFormat knows, in any case
  Procedures,  \* words for procedures
  ArgumentLists, \* what calls are given: sequences of [name, value], in which
               \*   a value is a sequence of Idents or one of the Literals
  Literals,    \* values that are no text
  Unasked

TableWords == {"table", "TABLE"}

(* Names are texts, and statements are given parsed.                       *)
CallAssumption ==
  /\ \A i \in Idents :
       i.quoted \in BOOLEAN /\ i.name \in Seq(Segments) /\ Lower[i.name] \in Seq(Segments)
  /\ \A s \in Scopes : s.schema \in Seq(Segments)
  /\ \A arguments \in ArgumentLists :
       arguments \in Seq([name : STRING, value : Literals \cup Seq(Idents)])

VARIABLES
  scope,   \* of the session
  asked,   \* the statement: [format, procedure, arguments], or Unasked
  called   \* what Paimon is asked for: nothing, or [catalog, procedure, arguments]

callVars == <<scope, asked, called>>

CallInit == scope \in Scopes /\ asked = Unasked /\ called = {}

-----------------------------------------------------------------------------

Name(ident) == IF ident.quoted THEN ident.name ELSE Lower[ident.name]

(* resolve_ddl_table_name: the table a name stands for, or none.          *)
Resolve(idents) ==
  LET n == [i \in DOMAIN idents |-> Name(idents[i])] IN
  CASE Len(idents) = 1 -> {[catalog |-> scope.catalog, schema |-> scope.schema, table |-> n[1]]}
    [] Len(idents) = 2 -> {[catalog |-> scope.catalog, schema |-> n[1], table |-> n[2]]}
    [] Len(idents) = 3 -> {[catalog |-> n[1], schema |-> n[2], table |-> n[3]]}
    [] OTHER -> {}

TableArguments(arguments) == {i \in DOMAIN arguments : arguments[i].name \in TableWords}

(* The one table argument, a text that is a name.                          *)
TableNamed(arguments) ==
  LET given == {i \in TableArguments(arguments) :
                  TableArguments(arguments) = {i} /\ arguments[i].value \notin Literals} IN
  UNION {Resolve(arguments[i].value) : i \in given}

(* "Paimon procedures split the table argument on dots."  Mutant: names    *)
(* with dots are not refused.                                              *)
AlwaysPlain(table) == TRUE
Plain(table) == Len(table.schema) = 1 /\ Len(table.table) = 1

(* The table argument is replaced by schema.table.  Mutant: it is passed   *)
(* on as the statement has it.                                             *)
Spelled(idents) == FlattenSeq([i \in DOMAIN idents |-> idents[i].name])
AsSpelled(arguments, table) ==
  [i \in DOMAIN arguments |-> IF arguments[i].name \in TableWords
     THEN [arguments[i] EXCEPT !.value = Spelled(@)] ELSE arguments[i]]
Rewritten(arguments, table) ==
  LET first == SelectInSeq(arguments, LAMBDA a : a.name \in TableWords) IN
  [arguments EXCEPT ![first].value = table.schema \o table.table]

Accepts(format, table) ==
  /\ format \in DOMAIN Formats /\ Formats[format] = "paimon"
  /\ table.catalog \in DOMAIN Catalogs /\ Catalogs[table.catalog] = "paimon-fs"
  /\ Plain(table)

Call(format, procedure, arguments) ==
  /\ asked' = [format |-> format, procedure |-> procedure, arguments |-> arguments]
  /\ called' =
       {[catalog |-> t.catalog, procedure |-> procedure, arguments |-> Rewritten(arguments, t)] :
          t \in {t \in TableNamed(arguments) : Accepts(format, t)}}
  /\ UNCHANGED scope

CallNext ==
  /\ asked = Unasked
  /\ \E f \in DOMAIN Formats \cup {"unknown"}, p \in Procedures, a \in ArgumentLists : Call(f, p, a)

CallSpec == CallInit /\ [][CallNext]_callVars

-----------------------------------------------------------------------------

(* Paimon reads its table argument as database and table.                  *)
ReadByPaimon(segments) ==
  IF Len(segments) = 1 THEN [schema |-> <<"default">>, table |-> segments]
  ELSE [schema |-> <<segments[Len(segments) - 1]>>, table |-> <<segments[Len(segments)]>>]

(* A procedure works on the table the statement names, in its catalog:     *)
(* what is left out comes from the scope, quotes keep case and dots; a     *)
(* name that would be split elsewhere is refused, and so are calls without *)
(* a table, with two, for another format or in a catalog that is not       *)
(* Paimon's, but no others.  Other arguments are passed as they are.       *)
ActsOnNamed(default, calls, format, procedure, arguments) ==
  LET tables == {i \in DOMAIN arguments : arguments[i].name \in TableWords}
      idents == arguments[CHOOSE i \in tables : TRUE].value
      n == Len(idents)
      meant(i) == IF idents[i].quoted THEN idents[i].name ELSE Lower[idents[i].name]
      catalog == IF n = 3 THEN meant(1) ELSE default.catalog
      schema == IF n > 1 THEN meant(n - 1) ELSE default.schema
      proper ==
        /\ format \in DOMAIN Formats /\ Formats[format] = "paimon"
        /\ Cardinality(tables) = 1 /\ idents \notin Literals /\ n \in 1..3
        /\ catalog \in DOMAIN Catalogs /\ Catalogs[catalog] = "paimon-fs"
        /\ Len(schema) = 1 /\ Len(meant(n)) = 1 IN
  /\ Cardinality(calls) = IF proper THEN 1 ELSE 0
  /\ \A call \in calls :
       /\ call.catalog = catalog /\ call.procedure = procedure
       /\ Len(call.arguments) = Len(arguments)
       /\ \A i \in DOMAIN call.arguments :
            IF arguments[i].name \in TableWords
            THEN ReadByPaimon(call.arguments[i].value) = [schema |-> schema, table |-> meant(n)]
            ELSE call.arguments[i] = arguments[i]

CallActsOnNamed ==
  asked # Unasked => ActsOnNamed(scope, called, asked.format, asked.procedure, asked.arguments)

=============================================================================
