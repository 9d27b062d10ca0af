--------------------------- MODULE CatalogMetadata ---------------------------
(***************************************************************************)
(* Flight SQL metadata calls (server/flight/mod.rs, metadata.rs) and the   *)
(* statements SHOW SCHEMAS and SHOW TABLES (sql/session/show.rs) on the    *)
(* catalogs of remote metastores (catalog/hms.rs, glue.rs,                 *)
(* iceberg_rest.rs).                                                       *)
(*                                                                         *)
(* A client asks GetFlightInfo for a ticket and redeems it with DoGet; the *)
(* server keeps nothing in between.  A listing of schemas or tables asks   *)
(* the metastore of one catalog, first for the schemas and then for the    *)
(* tables of each schema that matches, at once or page by page, through    *)
(* the catalog's one client, which the first call to need it connects.     *)
(* Meanwhile others create and drop schemas and tables, requests fail, and *)
(* clients go away.                                                        *)
(***************************************************************************)
EXTENDS Naturals, FiniteSets, Sequences

CONSTANTS
  Calls,
  Catalogs,   \* those configured
  Paged,      \* the catalogs whose metastore lists names page by page
  Schemas, Tables,
  Commands,   \* what clients may ask, see Command
  DefaultCatalog, DefaultSchema, \* of the session that runs SHOW
  Start,      \* [Catalogs -> [schemas -> tables]] at first
  Volatile,   \* the <<catalog, schema, table>> others may create and drop
  None

Shows == {"show_schemas", "show_tables"}

(* Answered from what the server has itself, without a metastore.          *)
Constant == {"catalogs", "table_types", "sql_info"}

(* A pattern is the set of names that are LIKE it.  scope: the parts of    *)
(* the name after IN, of a SHOW; a filter other than LIKE is ignored.      *)
Command == [kind : {"statement", "schemas", "tables"} \cup Constant \cup Shows,
            catalog : Catalogs \cup {"unknown", None},
            scope : UNION {[1..n -> Catalogs \cup Schemas \cup {"unknown"}] : n \in 0..3},
            schemaPattern : SUBSET Schemas \cup {None},
            tablePattern : SUBSET Tables \cup {None},
            includeSchema : BOOLEAN]

Partial(D, R) == UNION {[d -> R] : d \in SUBSET D}
Names == Schemas \X (Tables \cup {None})   \* with None: the schema itself

ASSUME CommandsAssumption == Commands \subseteq Command
ASSUME DefaultAssumption == DefaultCatalog \in Catalogs /\ DefaultSchema \in Schemas
ASSUME NoneAssumption == None \notin Tables
ASSUME PagedAssumption == Paged \subseteq Catalogs
ASSUME StartAssumption == Start \in [Catalogs -> Partial(Schemas, SUBSET Tables)]
ASSUME VolatileAssumption == Volatile \subseteq Catalogs \X Schemas \X Tables

VARIABLES
  content,  \* [Catalogs -> [the schemas there -> their tables]]
  client,   \* [Catalogs -> "empty", "busy" while a call connects it, "ready"]
  made,     \* [Catalogs -> the calls that connected it]
  call,     \* [Calls -> how far it is]
  some, all \* [Calls -> the names there at some time, all the time, of DoGet]

vars == <<content, client, made, call, some, all>>
history == <<some, all>>
clients == <<client, made>>

SchemaNames == Schemas \cup Catalogs \cup {"unknown"}   \* what may be taken for a schema
Waiting == {"client", "connect", "schemas", "tables", "execute"}
Call == [phase : {"idle", "ticket", "refused", "rejected", "done", "failed", "gone"} \cup Waiting,
         command : Commands \cup {None},
         left : SUBSET (SchemaNames \X (Tables \cup {None})), \* not answered yet, see Request
         out : SUBSET Names]

TypeOK ==
  /\ content \in [Catalogs -> Partial(Schemas, SUBSET Tables)]
  /\ client \in [Catalogs -> {"empty", "busy", "ready"}]
  /\ made \in [Catalogs -> SUBSET Calls]
  /\ call \in [Calls -> Call]
  /\ some \in [Calls -> SUBSET Names] /\ all \in [Calls -> SUBSET Names]
  /\ \A c \in Calls : call[c].left # {} => call[c].phase \in {"schemas", "tables"}

Idle == [phase |-> "idle", command |-> None, left |-> {}, out |-> {}]

Init ==
  /\ content = Start
  /\ client = [k \in Catalogs |-> "empty"]
  /\ made = [k \in Catalogs |-> {}]
  /\ call = [c \in Calls |-> Idle]
  /\ some = [c \in Calls |-> {}]
  /\ all = [c \in Calls |-> {}]

At(c, phase) == call[c].phase = phase
Kind(c) == call[c].command.kind

(* The catalog, and the schema, a command is about: SHOW takes what its    *)
(* scope leaves out from the session.                                      *)
Scope(command) ==
  LET parts == command.scope IN
  CASE command.kind = "show_schemas" ->
         [catalog |-> IF parts = <<>> THEN DefaultCatalog ELSE parts[1], schema |-> None]
    [] command.kind = "show_tables" ->
         [catalog |-> IF Len(parts) < 2 THEN DefaultCatalog ELSE parts[1],
          schema |-> IF parts = <<>> THEN DefaultSchema ELSE parts[Len(parts)]]
    [] OTHER -> [catalog |-> command.catalog, schema |-> None]

Catalog(c) == Scope(call[c].command).catalog
Like(pattern, name) == pattern = None \/ name \in pattern
ThereIn(schemas) ==
  UNION {{<<s, t>> : t \in schemas[s] \cup {None}} : s \in DOMAIN schemas}
There(k) == ThereIn(content[k])

Move(c, phase) == call' = [call EXCEPT ![c].phase = phase]

Listen(c, command) ==
  /\ some' = [some EXCEPT ![c] = There(Scope(command).catalog)]
  /\ all' = [all EXCEPT ![c] = There(Scope(command).catalog)]

-----------------------------------------------------------------------------

(* Others create a schema or a table, or drop them.                        *)
Dropped(schemas, s, t) ==
  IF schemas[s] = {} THEN [x \in DOMAIN schemas \ {s} |-> schemas[x]]
  ELSE [schemas EXCEPT ![s] = @ \ {t}]
Created(schemas, s, t) ==
  IF s \in DOMAIN schemas THEN [schemas EXCEPT ![s] = @ \cup {t}]
  ELSE [x \in DOMAIN schemas \cup {s} |-> IF x = s THEN {} ELSE schemas[x]]

ChangeCatalog(k, s, t) ==
  /\ \/ content' = [content EXCEPT ![k] = Created(@, s, t)]
     \/ s \in DOMAIN content[k] /\ content' = [content EXCEPT ![k] = Dropped(@, s, t)]
  /\ LET asks(c) == call[c].phase \in Waiting /\ Kind(c) # "statement" /\ Catalog(c) = k IN
     /\ some' = [c \in Calls |-> IF asks(c) THEN some[c] \cup ThereIn(content'[k]) ELSE some[c]]
     /\ all' = [c \in Calls |-> IF asks(c) THEN all[c] \cap ThereIn(content'[k]) ELSE all[c]]
  /\ UNCHANGED <<clients, call>>

Listing(command) == command.kind \in {"schemas", "tables"}

(* require_catalog, validate_tables_request.                               *)
Valid(command) ==
  /\ command.catalog \in Catalogs
  /\ command.kind = "tables" => ~command.includeSchema /\ command.schemaPattern # None

(* Mutant: the catalog alone is looked at.                                 *)
IssueIfCatalog(command) == ~Listing(command) \/ command.catalog \in Catalogs
Issue(command) == ~Listing(command) \/ Valid(command)

(* GetFlightInfo: the ticket is the command itself.  A statement is not    *)
(* looked at, nor are the commands with a constant answer.                 *)
GetFlightInfo(c, command) ==
  /\ At(c, "idle") /\ command.kind \notin Shows
  /\ call' = [call EXCEPT ![c].phase = IF Issue(command) THEN "ticket" ELSE "refused",
                          ![c].command = command]
  /\ UNCHANGED <<content, clients, history>>

(* DoGet looks at the command again, and asks for the client.              *)
DoGet(c) ==
  LET command == call[c].command IN
  /\ At(c, "ticket")
  /\ Listing(command) \/ command.kind = "statement"
  /\ Move(c, IF command.kind = "statement" THEN "execute"
             ELSE IF Valid(command) THEN "client" ELSE "rejected")
  /\ IF Listing(command) /\ Valid(command)
     THEN Listen(c, command)
     ELSE UNCHANGED history
  /\ UNCHANGED <<content, clients>>

DoGetConstant(c) ==
  /\ At(c, "ticket") /\ call[c].command.kind \in Constant
  /\ Move(c, "done")
  /\ UNCHANGED <<content, clients, history>>

(* SHOW, in a session: it plans as soon as its listing is there.  Too many *)
(* parts, or a catalog that is not configured, are an error.               *)
Shown(command) ==
  /\ Len(command.scope) <= (IF command.kind = "show_schemas" THEN 1 ELSE 2)
  /\ Scope(command).catalog \in Catalogs

Show(c, command) ==
  /\ At(c, "idle") /\ command.kind \in Shows
  /\ call' = [call EXCEPT ![c].phase = IF Shown(command) THEN "client" ELSE "refused",
                          ![c].command = command]
  /\ IF Shown(command) THEN Listen(c, command) ELSE UNCHANGED history
  /\ UNCHANGED <<content, clients>>

(* With the client, schemas are listed, or the tables of the one schema.   *)
(* left: <<s, None>> while the schemas listed may yet have s, <<s, t>>     *)
(* while the tables listed of s may yet have t.                            *)
Request(c) ==
  IF Kind(c) = "show_tables"
  THEN call' = [call EXCEPT ![c].phase = "tables",
                            ![c].left = {Scope(call[c].command).schema} \X Tables]
  ELSE call' = [call EXCEPT ![c].phase = "schemas", ![c].left = Schemas \X {None}]

(* The cell lets one caller connect; the others wait for it.  Mutant: a    *)
(* caller that finds no client connects one.                               *)
ConnectAlso(c) == client[Catalog(c)] # "ready"
MayConnect(c) == client[Catalog(c)] = "empty"

Connect(c) ==
  /\ At(c, "client")
  /\ MayConnect(c)
  /\ client' = [client EXCEPT ![Catalog(c)] = "busy"]
  /\ Move(c, "connect")
  /\ UNCHANGED <<content, made, history>>

Connected(c) ==
  /\ At(c, "connect")
  /\ client' = [client EXCEPT ![Catalog(c)] = "ready"]
  /\ made' = [made EXCEPT ![Catalog(c)] = @ \cup {c}]
  /\ Request(c)
  /\ UNCHANGED <<content, history>>

UseClient(c) ==
  /\ At(c, "client") /\ client[Catalog(c)] = "ready"
  /\ Request(c)
  /\ UNCHANGED <<content, clients, history>>

(* A call that ends while it connects leaves the cell empty, for the next  *)
(* caller to connect.  Mutant: it leaves it as it is.                      *)
Keep(c) == client
Release(c) ==
  IF At(c, "connect") THEN [client EXCEPT ![Catalog(c)] = "empty"] ELSE client

(* The metastore, or the statement, fails; or the client goes away and the *)
(* server drops the call.  What was listed until then is lost.             *)
End(c, phase) ==
  /\ call[c].phase \in Waiting
  /\ At(c, "client") => phase = "gone"
  /\ client' = Release(c)
  /\ call' = [call EXCEPT ![c] = [Idle EXCEPT !.phase = phase]]
  /\ some' = [some EXCEPT ![c] = {}] /\ all' = [all EXCEPT ![c] = {}]
  /\ UNCHANGED <<content, made>>

(* What one answer lists of the rest of a list: all of it, or a page, the  *)
(* other pages of which are asked for later.                               *)
Page(c, page, rest) ==
  /\ page # {} /\ page \subseteq rest
  /\ Catalog(c) \notin Paged => page = rest

(* list_schema_names.  The tables are asked only of the schemas that match *)
(* the pattern.  Mutant: of those whose name is the pattern's.             *)
AskExact(c, schemas) == {s \in schemas : call[c].command.schemaPattern = {s}}
ToAsk(c, schemas) == {s \in schemas : Like(call[c].command.schemaPattern, s)}

Unlisted(c) == {s \in Schemas : <<s, None>> \in call[c].left}

ListSchemas(c, page) ==
  LET found == ToAsk(c, page \cap DOMAIN content[Catalog(c)])
      rest == call[c].left \ (page \X {None}) IN
  /\ At(c, "schemas") /\ Page(c, page, Unlisted(c))
  /\ call' = [call EXCEPT
       ![c].phase = IF page # Unlisted(c) THEN @ ELSE IF Kind(c) = "tables" THEN "tables" ELSE "done",
       ![c].left = IF Kind(c) = "tables" THEN rest \cup (found \X Tables) ELSE rest,
       ![c].out = IF Kind(c) = "tables" THEN @ ELSE @ \cup (found \X {None})]
  /\ UNCHANGED <<content, clients, history>>

TablesIn(k, s) == {n[2] : n \in {x \in There(k) : x[1] = s /\ x[2] # None}}

(* list_table_names of one schema after the other, a schema that may be    *)
(* gone by now: some metastores answer with an error (End), some with no   *)
(* names.                                                                  *)
NotHalfListed(c, s) == {t \in Tables : <<s, t>> \in call[c].left} \in {{}, Tables}

ListTables(c, s, page) ==
  LET found == {t \in page \cap TablesIn(Catalog(c), s) : Like(call[c].command.tablePattern, t)} IN
  /\ At(c, "tables") /\ Page(c, page, {t \in Tables : <<s, t>> \in call[c].left})
  /\ \A x \in SchemaNames \ {s} : NotHalfListed(c, x)
  /\ call' = [call EXCEPT ![c].left = @ \ ({s} \X page), ![c].out = @ \cup ({s} \X found)]
  /\ UNCHANGED <<content, clients, history>>

(* The batch is sent when every schema has answered.                       *)
SendTables(c) ==
  /\ At(c, "tables") /\ call[c].left = {}
  /\ Move(c, "done")
  /\ UNCHANGED <<content, clients, history>>

(* A statement's DoGet, the subject of QuerySessions.                      *)
ExecuteStatement(c) ==
  /\ At(c, "execute")
  /\ Move(c, "done")
  /\ UNCHANGED <<content, clients, history>>

-----------------------------------------------------------------------------

Work(c) ==
  \/ Connect(c) \/ Connected(c) \/ UseClient(c)
  \/ \E page \in SUBSET Schemas : ListSchemas(c, page)
  \/ \E s \in SchemaNames, page \in SUBSET Tables : ListTables(c, s, page)
  \/ SendTables(c) \/ ExecuteStatement(c)

Next ==
  \/ \E v \in Volatile : ChangeCatalog(v[1], v[2], v[3])
  \/ \E c \in Calls :
       \/ \E command \in Commands : GetFlightInfo(c, command) \/ Show(c, command)
       \/ DoGet(c) \/ DoGetConstant(c)
       \/ End(c, "failed") \/ End(c, "gone")
       \/ Work(c)

Spec == Init /\ [][Next]_vars

(* Calls are polled, and requests are answered or fail.                    *)
FairSpec == Spec /\ \A c \in Calls : WF_vars(Work(c) \/ End(c, "failed"))

=============================================================================
