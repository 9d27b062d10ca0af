---------------------------- MODULE ServerProcess ----------------------------
(***************************************************************************)
(* The process, from its arguments to its exit (run and async_run,         *)
(* server/mod.rs; LakeletContext, context.rs; CatalogManager,              *)
(* catalog/manager.rs; RuntimeManager, common/src/runtime.rs), with the    *)
(* queries of BenchmarkScans as its work.  Its two runtimes belong to the  *)
(* context, which has as many owners as there are references to it; who    *)
(* drops the last one shuts them down, and waits for the blocking threads. *)
(***************************************************************************)
EXTENDS BenchmarkScans

CONSTANTS
  Starts,     \* ways to start: [mode, config, asked, machine], where mode is server,
              \*   command, repl or version; asked are Plans that are asked; the
              \*   machine is [physical, cgroup, port], of memory, the cgroup's limit
              \*   or None, and whether the port is free
  Internal,   \* the name of the internal catalog
  Kilo, MaxSize,  \* 1024, and the largest usize
  Percent,    \* DEFAULT_MEMORY_LIMIT_PERCENT
  Refused

Modes == {"server", "command", "repl", "version"}
Suffixes == {"", "b", "k", "m", "g", "t"}
Kinds == {"tpch", "tpcds", "hms", "glue", "paimon-fs", "iceberg-rest"}

ASSUME StartsAssumption ==
  \A s \in Starts :
    /\ s.mode \in Modes /\ s.asked \subseteq Plans
    /\ s.machine.physical \in Nat /\ s.machine.cgroup \in Nat \cup {None}
    /\ s.config.memory # None => s.config.memory.number \in Nat \cup {None}
    /\ \A kind \in DOMAIN s.config.catalogs : s.config.catalogs[kind] \in Seq(STRING)
ASSUME RefusedAssumption == None \notin Nat /\ Refused \notin Nat /\ Refused # None
ASSUME KiloAssumption == Kilo \in Nat /\ MaxSize \in Nat /\ Percent \in 1..100

VARIABLE process
(* how it was started; its phase; the limit of memory once it is known;     *)
(* the catalogs, and how many of the configured ones are among them; the   *)
(* owners of the context, in run and in async_run.                         *)

allvars == <<scanning, process>>

-----------------------------------------------------------------------------

(* parse_memory_size: a text is [number, suffix], its number None if it is *)
(* not one.  The suffixes are those of two letters too.  Mutant: a product *)
(* that is too large wraps.                                                *)
Multiplier ==
  [s \in Suffixes |->
     CASE s \in {"", "b"} -> 1 [] s = "k" -> Kilo [] s = "m" -> Kilo * Kilo
       [] s = "g" -> Kilo * Kilo * Kilo [] s = "t" -> Kilo * Kilo * Kilo * Kilo]
Wrapping(text) ==
  IF text.number = None \/ text.suffix \notin DOMAIN Multiplier THEN Refused
  ELSE (text.number * Multiplier[text.suffix]) % (MaxSize + 1)
ParseMemorySize(text) ==
  IF text.number = None \/ text.suffix \notin DOMAIN Multiplier THEN Refused
  ELSE LET size == text.number * Multiplier[text.suffix] IN IF size > MaxSize THEN Refused ELSE size

(* calculate_memory_limit.  Mutant: the cgroup's limit is not looked at.   *)
OfPhysical(machine) == IF machine.physical = 0 THEN Refused ELSE (machine.physical * Percent) \div 100
CalculateMemoryLimit(machine) ==
  LET effective == IF machine.cgroup = None THEN machine.physical
                   ELSE Min({machine.physical, machine.cgroup})
      limit == (effective * Percent) \div 100 IN
  IF machine.physical = 0 \/ machine.cgroup = 0 \/ limit = 0 \/ limit > MaxSize THEN Refused ELSE limit

(* load_catalogs: kind by kind, and add_catalog refuses a name that is     *)
(* there, the internal catalog's included.  Mutant: the later one counts.  *)
OfKind(config, kind) ==
  IF kind \notin DOMAIN config.catalogs THEN <<>>
  ELSE [i \in DOMAIN config.catalogs[kind] |-> [name |-> config.catalogs[kind][i], kind |-> kind]]
Listed(config) ==
  OfKind(config, "tpch") \o OfKind(config, "tpcds") \o OfKind(config, "hms")
    \o OfKind(config, "glue") \o OfKind(config, "paimon-fs") \o OfKind(config, "iceberg-rest")
NewCatalogs == [n \in {Internal} |-> "internal"]
With(catalogs, entry) ==
  [n \in DOMAIN catalogs \cup {entry.name} |-> IF n = entry.name THEN entry.kind ELSE catalogs[n]]
AddCatalog(catalogs, entry) ==
  IF entry.name \in DOMAIN catalogs THEN Refused ELSE With(catalogs, entry)

-----------------------------------------------------------------------------

ProcessInit ==
  /\ Init
  /\ process \in [start : Starts, phase : {"new"}, memory : {None},
                 catalogs : {NewCatalogs}, added : {0}, owners : {{}}]

At(phase) == process.phase = phase
Mode == process.start.mode
Idle == \A q \in Queries : ~Running(q)
Become(phase) == process' = [process EXCEPT !.phase = phase]

PrintVersion == At("new") /\ Mode = "version" /\ Become("exited") /\ UNCHANGED scanning

(* LakeletContext::new: the configuration is read and its catalogs are     *)
(* added; the runtimes are made outside of any other.                      *)
ReadConfig ==
  LET config == process.start.config
      memory == IF config.memory = None THEN None ELSE ParseMemorySize(config.memory) IN
  /\ At("new") /\ Mode # "version"
  /\ IF memory = Refused THEN Become("exited")
     ELSE process' = [process EXCEPT !.phase = "loading", !.memory = memory]
  /\ UNCHANGED scanning

LoadCatalog ==
  LET listed == Listed(process.start.config)
      next == process.added + 1
      catalogs == AddCatalog(process.catalogs, listed[next]) IN
  /\ At("loading") /\ next <= Len(listed)
  /\ IF catalogs = Refused THEN Become("exited")
     ELSE process' = [process EXCEPT !.catalogs = catalogs, !.added = next]
  /\ UNCHANGED scanning

MakeRuntimes ==
  /\ At("loading") /\ process.added = Len(Listed(process.start.config))
  /\ process' = [process EXCEPT !.phase = "loaded", !.owners = {"run"}]
  /\ UNCHANGED scanning

(* block_on(async_run): "Keep an owner outside the async context".         *)
(* Mutant: the owner goes into async_run.                                  *)
Moved(owners) == {"async_run"}
Shared(owners) == owners \cup {"async_run"}
BlockOn ==
  /\ At("loaded")
  /\ process' = [process EXCEPT !.phase = "resolving", !.owners = Shared(@)]
  /\ UNCHANGED scanning

ResolveMemoryLimit ==
  LET memory == IF process.memory # None THEN process.memory ELSE CalculateMemoryLimit(process.start.machine) IN
  /\ At("resolving")
  /\ IF memory = Refused THEN Become("stopping")
     ELSE process' = [process EXCEPT !.phase = "building", !.memory = memory]
  /\ UNCHANGED scanning

(* LakeletCatalogProviderList::new: only the warehouse of a Paimon catalog *)
(* can be refused.                                                         *)
BuildProviders ==
  /\ At("building")
  /\ \/ Become("opening")
     \/ "paimon-fs" \in Range(process.catalogs) /\ Become("stopping")
  /\ UNCHANGED scanning

(* serve, which binds the port, or a session.                              *)
Open ==
  /\ At("opening")
  /\ Become(IF Mode = "server" /\ ~process.start.machine.port THEN "stopping" ELSE "serving")
  /\ UNCHANGED scanning

(* The server has as many queries as its clients ask; a script and the     *)
(* REPL have one after the other, and the script ends with one that fails. *)
Ask(q, plan) ==
  /\ At("serving")
  /\ plan \in process.start.asked
  /\ Mode # "server" => Idle
  /\ Mode = "command" => \A r \in Queries : query[r].phase # "failed"
  /\ Execute(q, plan)
  /\ UNCHANGED process

(* Ctrl-C in the REPL, or a client that goes away.                         *)
Abandon(q) == Mode # "command" /\ Cancel(q) /\ UNCHANGED process

(* Ctrl-C lets the server take no more requests and end those it has; a    *)
(* script and the REPL end between statements.                             *)
Stop ==
  /\ At("serving") /\ (Mode # "server" => Idle)
  /\ Become("stopping")
  /\ UNCHANGED scanning

(* async_run returns.  To drop a runtime in its own context is a panic.    *)
Return ==
  /\ At("stopping") /\ Idle
  /\ LET owners == process.owners \ {"async_run"} IN
     process' = [process EXCEPT !.owners = owners, !.phase = IF owners = {} THEN "panicked" ELSE "returned"]
  /\ UNCHANGED scanning

DropContext ==
  /\ At("returned")
  /\ process' = [process EXCEPT !.owners = {}, !.phase = "closing"]
  /\ UNCHANGED scanning

Exit == At("closing") /\ Busy = {} /\ Become("exited") /\ UNCHANGED scanning

Work(q, k) == ~At("exited") /\ WorkerStep(q, k) /\ UNCHANGED process
Receives(q) == Poll(q) /\ UNCHANGED process
StartUp ==
  \/ ReadConfig \/ LoadCatalog \/ MakeRuntimes \/ BlockOn
  \/ ResolveMemoryLimit \/ BuildProviders \/ Open \/ PrintVersion
ShutDown == Return \/ DropContext \/ Exit
NextStatement == \E q \in Queries, plan \in Plans : Ask(q, plan)

ProcessNext ==
  \/ StartUp \/ ShutDown \/ Stop \/ NextStatement
  \/ \E q \in Queries : Abandon(q) \/ Receives(q) \/ \E k \in DOMAIN stream[q] : Work(q, k)

ProcessSpec == ProcessInit /\ [][ProcessNext]_allvars

(* Threads and tasks run, and a script is read on; nobody has to ask, to   *)
(* cancel or to stop.                                                      *)
AllKeys == UNION {Keys(plan) : plan \in Plans}
FairProcessSpec ==
  /\ ProcessSpec
  /\ WF_allvars(StartUp) /\ WF_allvars(ShutDown)
  /\ WF_allvars(Mode = "command" /\ (NextStatement \/ Stop))
  /\ \A q \in Queries : WF_allvars(Receives(q)) /\ \A k \in AllKeys : WF_allvars(Work(q, k))

-----------------------------------------------------------------------------

(* A process that serves has every catalog of its configuration, each with *)
(* its own name, and the internal one; and the memory it was given, or a   *)
(* part, not all, of what both the machine and its cgroup have             *)
(* (docs/src/server.md:17, "80% of effective total memory").                 *)
StartedAsConfigured ==
  At("serving") =>
    LET config == process.start.config
        listed == Listed(config)
        given == config.memory IN
    /\ Cardinality(DOMAIN process.catalogs) = 1 + Len(listed)
    /\ process.catalogs[Internal] = "internal"
    /\ \A i \in DOMAIN listed : process.catalogs[listed[i].name] = listed[i].kind
    /\ IF given # None THEN process.memory = given.number * Multiplier[given.suffix]
       ELSE /\ process.memory > 0
            /\ \A total \in {process.start.machine.physical, process.start.machine.cgroup} \ {None} :
                 100 * process.memory <= Percent * total

(* Every process that starts comes to serve or exits, and one that stops   *)
(* exits, without a panic, whatever its workers are at: queries end, and   *)
(* workers that nobody listens to give their threads back.  A script comes *)
(* to its end.                                                             *)
EveryProcessEnds ==
  /\ ~At("serving") ~> At("serving") \/ At("exited")
  /\ Mode = "command" ~> At("exited")
  /\ \A q \in Queries : Running(q) ~> ~Running(q)

=============================================================================
