--------------------------- MODULE QuerySessions ---------------------------
(***************************************************************************)
(* SQL sessions (sql/session.rs, sql/session/use.rs) and the two front     *)
(* ends that drive them: the REPL (server/repl.rs), which runs all its     *)
(* statements in one session, and the Flight SQL server                    *)
(* (server/flight/mod.rs), which makes a session per request.              *)
(*                                                                         *)
(* A statement is a few synchronous stretches of code with awaits of       *)
(* remote catalogs between them.  At an await other statements run, others *)
(* change the catalogs, and the statement itself may be dropped: Ctrl-C in *)
(* the REPL, a client that goes away in the server.                        *)
(***************************************************************************)
EXTENDS Naturals, Sequences

CONSTANTS
  Clients,        \* the REPL and the Flight SQL requests of one process
  Repl,           \* the clients that keep their session between inputs
  Catalogs,       \* configured catalogs: the immutable provider list
  UnknownCatalog, \* a catalog name that is not configured
  SchemaNames,
  None,           \* a part of a name that is left out
  Inputs,         \* what a client may send: sequences of statements
  Headers         \* [Clients -> the scope a client's session starts with]

ASSUME NamesAssumption ==
  /\ UnknownCatalog \notin Catalogs
  /\ None \notin Catalogs \cup {UnknownCatalog} \cup SchemaNames
ASSUME ReplAssumption == Repl \subseteq Clients

Scope == [catalog : Catalogs \cup {UnknownCatalog}, schema : SchemaNames]

ASSUME HeadersAssumption == Headers \in [Clients -> Scope]

(* USE [c.]s, USE CATALOG c, and queries of a table of schema [c.][s.].    *)
Statement ==
  [kind : {"use", "query"},
   catalog : Catalogs \cup {UnknownCatalog, None},
   schema : SchemaNames \cup {None}]

ASSUME InputsAssumption == Inputs \subseteq Seq(Statement)

VARIABLES
  schemas,    \* [Catalogs -> the schemas that exist there now]
  scope,      \* [Clients -> default catalog and schema of its session]
  registered, \* [Clients -> the catalog list its session plans with]
  task,       \* [Clients -> the input being executed]
  believed    \* [Clients -> the scope its client can know from what its
              \*  statements answered, None once a USE failed half way]

vars == <<schemas, scope, registered, task, believed>>

Phase == {"idle", "next", "check", "resolve", "plan", "planned"}

(* full: the table the statement refers to, or the scope a USE asks for,   *)
(* with the left-out parts filled in; rest: the statements still to run.   *)
Task == [phase : Phase, rest : Seq(Statement), full : Scope \cup {None}]

Idle == [phase |-> "idle", rest |-> <<>>, full |-> None]

(* A catalog list is what one statement resolved: the tables found.        *)
CatalogList == [by : Clients, tables : SUBSET Scope]

TypeOK ==
  /\ schemas \in [Catalogs -> SUBSET SchemaNames]
  /\ scope \in [Clients -> Scope]
  /\ registered \in [Clients -> CatalogList \cup {None}]
  /\ task \in [Clients -> Task]
  /\ believed \in [Clients -> Scope \cup {None}]

(* The session a client's statements run in.  Mutant: one for everybody.   *)
SharedSession(c) == CHOOSE d \in Clients : TRUE
SessionOf(c) == c

Init ==
  /\ schemas \in [Catalogs -> SUBSET SchemaNames]
  /\ scope = Headers
  /\ registered = [c \in Clients |-> None]
  /\ task = [c \in Clients |-> Idle]
  /\ believed = Headers

At(c, phase) == task[c].phase = phase
Current(c) == Head(task[c].rest)
SessionScope(c) == scope[SessionOf(c)]

(* A name with its left-out parts taken from the session's scope.          *)
Qualify(stmt, default) ==
  [catalog |-> IF stmt.catalog = None THEN default.catalog ELSE stmt.catalog,
   schema  |-> IF stmt.schema = None THEN default.schema ELSE stmt.schema]

Exists(full) == full.catalog \in Catalogs /\ full.schema \in schemas[full.catalog]

-----------------------------------------------------------------------------

(* Others create and drop schemas.                                         *)
CatalogChanges(c, s) ==
  /\ schemas' = [schemas EXCEPT
       ![c] = IF s \in @ THEN @ \ {s} ELSE @ \cup {s}]
  /\ UNCHANGED <<scope, registered, task, believed>>

(* A request gets a new session with the scope of its headers and must be  *)
(* exactly one statement; the REPL goes on in the session it has.          *)
KeptScope(c) == scope[SessionOf(c)]  \* mutant: the session is reused
NewScope(c) == IF c \in Repl THEN scope[SessionOf(c)] ELSE Headers[c]

Submit(c, input) ==
  /\ At(c, "idle")
  /\ c \notin Repl => Len(input) = 1
  /\ scope' = [scope EXCEPT ![SessionOf(c)] = NewScope(c)]
  /\ registered' = IF c \in Repl THEN registered
                   ELSE [registered EXCEPT ![SessionOf(c)] = None]
  /\ believed' = IF c \in Repl THEN believed
                 ELSE [believed EXCEPT ![c] = Headers[c]]
  /\ task' = [task EXCEPT ![c] =
       [phase |-> "next", rest |-> input, full |-> None]]
  /\ UNCHANGED schemas

(* The statement at the head of the input succeeds, the next one is up.    *)
Succeed(c) == task' = [task EXCEPT
  ![c] = [phase |-> IF Len(@.rest) > 1 THEN "next" ELSE "idle",
          rest |-> Tail(@.rest), full |-> None]]

(* It fails or is dropped, and the rest of the input with it.              *)
Fail(c) == task' = [task EXCEPT ![c] = Idle]

-----------------------------------------------------------------------------
(* handle_use_stmt.                                                        *)

IsUse(c) == At(c, "next") /\ Current(c).kind = "use"
UseTarget(c) == Qualify(Current(c), SessionScope(c))

(* A catalog that is not configured fails the statement.                   *)
UseUnknownCatalog(c) ==
  /\ IsUse(c)
  /\ UseTarget(c).catalog \notin Catalogs
  /\ Fail(c)
  /\ UNCHANGED <<schemas, scope, registered, believed>>

(* The default catalog is written before the schema is looked up.          *)
UseCatalog(c) ==
  /\ IsUse(c)
  /\ UseTarget(c).catalog \in Catalogs
  /\ scope' = [scope EXCEPT ![SessionOf(c)].catalog = UseTarget(c).catalog]
  /\ IF Current(c).schema = None
     THEN Succeed(c) /\ believed' = [believed EXCEPT ![c] = UseTarget(c)]
     ELSE /\ task' = [task EXCEPT ![c].phase = "check", ![c].full = UseTarget(c)]
          /\ UNCHANGED believed
  /\ UNCHANGED <<schemas, registered>>

(* Mutant: the schema is written whether it is there or not.               *)
UseAnySchema(c) ==
  /\ At(c, "check")
  /\ scope' = [scope EXCEPT ![SessionOf(c)].schema = task[c].full.schema]
  /\ believed' = [believed EXCEPT ![c] = None]
  /\ Fail(c)
  /\ UNCHANGED <<schemas, registered>>

(* schema_exist answers: the schema is there and becomes the default.      *)
UseSchema(c) ==
  /\ At(c, "check")
  /\ Exists(task[c].full)
  /\ scope' = [scope EXCEPT ![SessionOf(c)].schema = task[c].full.schema]
  /\ believed' = [believed EXCEPT ![c] = task[c].full]
  /\ Succeed(c)
  /\ UNCHANGED <<schemas, registered>>

(* It is not there, the catalog cannot be asked, or the statement is       *)
(* dropped at this await: the default catalog stays as it was written, and *)
(* the client has been told an error, not what its scope is now.           *)
UseFails(c) ==
  /\ At(c, "check")
  /\ Fail(c)
  /\ believed' = [believed EXCEPT ![c] = None]
  /\ UNCHANGED <<schemas, scope, registered>>

-----------------------------------------------------------------------------
(* plan_statement.                                                         *)

(* The statement's references are qualified, and looked up remotely.       *)
StartResolve(c) ==
  /\ At(c, "next")
  /\ Current(c).kind = "query"
  /\ task' = [task EXCEPT ![c].phase = "resolve",
                          ![c].full = Qualify(Current(c), SessionScope(c))]
  /\ UNCHANGED <<schemas, scope, registered, believed>>

(* The catalogs have answered: what was found replaces the catalog list of *)
(* the session.                                                            *)
Register(c) ==
  /\ At(c, "resolve")
  /\ registered' = [registered EXCEPT ![SessionOf(c)] =
       [by |-> c, tables |-> {f \in {task[c].full} : Exists(f)}]]
  /\ task' = [task EXCEPT ![c].phase = "plan"]
  /\ UNCHANGED <<schemas, scope, believed>>

(* Planning qualifies the references again and looks them up in the        *)
(* session's catalog list; the plan holds what it found there.             *)
Plan(c) ==
  LET full == Qualify(Current(c), SessionScope(c)) IN
  /\ At(c, "plan")
  /\ full \in registered[SessionOf(c)].tables
  /\ task' = [task EXCEPT ![c].phase = "planned", ![c].full = full]
  /\ UNCHANGED <<schemas, scope, registered, believed>>

Execute(c) ==
  /\ At(c, "planned")
  /\ Succeed(c)
  /\ UNCHANGED <<schemas, scope, registered, believed>>

(* A table that was not found, a catalog that cannot be asked, a plan that *)
(* fails, or a client that drops its statement.                            *)
QueryFails(c) ==
  /\ task[c].phase \in {"resolve", "plan", "planned"}
  /\ Fail(c)
  /\ UNCHANGED <<schemas, scope, registered, believed>>

-----------------------------------------------------------------------------

Step(c) ==
  \/ UseUnknownCatalog(c)
  \/ UseCatalog(c)
  \/ UseSchema(c)
  \/ UseFails(c)
  \/ StartResolve(c)
  \/ Register(c)
  \/ Plan(c)
  \/ Execute(c)
  \/ QueryFails(c)

Next ==
  \/ \E c \in Catalogs, s \in SchemaNames : CatalogChanges(c, s)
  \/ \E c \in Clients, input \in Inputs : input # <<>> /\ Submit(c, input)
  \/ \E c \in Clients : Step(c)

Spec == Init /\ [][Next]_vars

=============================================================================
