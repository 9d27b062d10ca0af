------------------------- MODULE ServerProcessProofs -------------------------
(***************************************************************************)
(* A process that serves does so as it was configured, and the queries it  *)
(* answers are answered whole: for any configuration and machine, any      *)
(* tables, any numbers of partitions, of rows in a batch and of threads,   *)
(* and any number of queries at once.                                      *)
(*                                                                         *)
(* The invariant of the process is about its record: the catalogs are the  *)
(* internal one and those that have been added so far, and the memory is   *)
(* what the configuration, or the machine, makes of it.                    *)
(*                                                                         *)
(* The invariant of the queries is about each one's streams: the rows of a *)
(* worker are, in order, those received, the batch in the channel, the one *)
(* being sent and those not made yet, and nothing is lost between them;    *)
(* the rows counted are those received of the last scan.                   *)
(***************************************************************************)
EXTENDS ServerProcess, FiniteSetTheorems, SequenceTheorems, NaturalsInduction, TLAPS

Phases == {"new", "loading", "loaded", "resolving", "building", "opening", "serving",
           "stopping", "returned", "panicked", "closing", "exited"}
CatalogMaps == UNION {[D -> Kinds \cup {"internal"}] : D \in SUBSET (STRING \cup {Internal})}
Process == [start : Starts, phase : Phases, memory : Nat \cup {None},
            catalogs : CatalogMaps, added : Nat, owners : SUBSET {"run", "async_run"}]

(* The catalogs are those added so far, each with a name of its own.       *)
Added(p) ==
  LET listed == Listed(p.start.config) IN
  /\ p.added \in 0..Len(listed)
  /\ DOMAIN p.catalogs = {Internal} \cup {listed[i].name : i \in 1..p.added}
  /\ IsFiniteSet(DOMAIN p.catalogs) /\ Cardinality(DOMAIN p.catalogs) = 1 + p.added
  /\ p.catalogs[Internal] = "internal"
  /\ \A i \in 1..p.added : p.catalogs[listed[i].name] = listed[i].kind
  /\ p.phase \in {"loaded", "resolving", "building", "opening", "serving"} => p.added = Len(listed)

Given(p) ==
  LET given == p.start.config.memory IN
  IF given = None THEN None ELSE given.number * Multiplier[given.suffix]

(* A part of what the machine has.                                         *)
PartOf(machine, memory) ==
  /\ memory > 0
  /\ \A total \in {machine.physical, machine.cgroup} \ {None} : 100 * memory <= Percent * total

Provided(p) ==
  /\ p.phase \in {"loading", "loaded", "resolving"} =>
       p.memory = Given(p) /\ (p.start.config.memory # None => p.memory \in Nat)
  /\ p.phase \in {"building", "opening", "serving"} =>
       IF p.start.config.memory # None THEN p.memory = Given(p) ELSE PartOf(p.start.machine, p.memory)
  /\ p.phase = "new" => p.memory = None

Configured(p) == p \in Process /\ Added(p) /\ Provided(p)

-----------------------------------------------------------------------------

LEMMA MinOf ==
  ASSUME NEW a \in Int, NEW b \in Int
  PROVE  Min({a, b}) = IF a <= b THEN a ELSE b
<1>1. PICK m \in {a, b} : \A y \in {a, b} : m <= y
  OBVIOUS
<1>2. Min({a, b}) \in {a, b} /\ \A y \in {a, b} : Min({a, b}) <= y
  BY <1>1 DEF Min
<1> QED
  BY <1>2

LEMMA MaxOf ==
  ASSUME NEW a \in Int, NEW b \in Int
  PROVE  Max({a, b}) = IF a >= b THEN a ELSE b
<1>1. PICK m \in {a, b} : \A y \in {a, b} : m >= y
  OBVIOUS
<1>2. Max({a, b}) \in {a, b} /\ \A y \in {a, b} : Max({a, b}) >= y
  BY <1>1 DEF Max
<1> QED
  BY <1>2

LEMMA SeqTyped ==
  ASSUME NEW S, NEW seq \in Seq(S)
  PROVE  Len(seq) \in Nat /\ DOMAIN seq = 1..Len(seq) /\ \A i \in 1..Len(seq) : seq[i] \in S
BY LenProperties, ElementOfSeq

(* The catalogs of a configuration are a sequence of names and kinds.      *)
Entry == [name : STRING, kind : Kinds]

LEMMA OfKindTyped ==
  ASSUME NEW s \in Starts, NEW kind \in Kinds
  PROVE  OfKind(s.config, kind) \in Seq(Entry)
<1>1. CASE kind \notin DOMAIN s.config.catalogs
  BY <1>1, EmptySeq DEF OfKind
<1>2. CASE kind \in DOMAIN s.config.catalogs
  <2> DEFINE names == s.config.catalogs[kind]
             entries == [i \in DOMAIN names |-> [name |-> names[i], kind |-> kind]]
  <2>1. names \in Seq(STRING)
    BY <1>2, StartsAssumption
  <2>2. Len(names) \in Nat /\ DOMAIN names = 1..Len(names) /\ \A i \in 1..Len(names) : names[i] \in STRING
    BY <2>1, LenProperties, ElementOfSeq
  <2>3. entries = [i \in 1..Len(names) |-> [name |-> names[i], kind |-> kind]]
    BY <2>2
  <2>4. \A i \in 1..Len(names) : [name |-> names[i], kind |-> kind] \in Entry
    BY <2>2 DEF Entry
  <2>5. entries \in [1..Len(names) -> Entry]
    BY <2>3, <2>4
  <2>6. entries \in Seq(Entry)
    <3> HIDE DEF entries, names
    <3> QED
      BY <2>2, <2>5, SeqDef
  <2> QED
    BY <1>2, <2>6 DEF OfKind
<1> QED
  BY <1>1, <1>2

LEMMA ListedTyped ==
  ASSUME NEW s \in Starts
  PROVE  /\ Len(Listed(s.config)) \in Nat
         /\ DOMAIN Listed(s.config) = 1..Len(Listed(s.config))
         /\ \A i \in 1..Len(Listed(s.config)) : Listed(s.config)[i] \in Entry
<1> DEFINE listed == Listed(s.config)
<1>1. \A kind \in Kinds : OfKind(s.config, kind) \in Seq(Entry)
  BY OfKindTyped
<1>2. listed \in Seq(Entry)
  BY <1>1, ConcatProperties DEF Listed, Kinds
<1> HIDE DEF listed
<1>3. Len(listed) \in Nat /\ DOMAIN listed = 1..Len(listed) /\ \A i \in 1..Len(listed) : listed[i] \in Entry
  BY <1>2, SeqTyped
<1> QED
  BY <1>3 DEF listed

LEMMA Multiplied ==
  ASSUME NEW n \in Nat, NEW suffix \in Suffixes
  PROVE  n * Multiplier[suffix] \in Nat
<1>1. Kilo * Kilo \in Nat /\ Kilo \in Nat
  BY KiloAssumption
<1>2. Kilo * Kilo * Kilo \in Nat
  BY <1>1
<1>3. Kilo * Kilo * Kilo * Kilo \in Nat
  BY <1>2, <1>1
<1>4. Multiplier[suffix] \in Nat
  BY <1>1, <1>2, <1>3 DEF Multiplier, Suffixes
<1> QED
  BY <1>4

(* A size that is not refused is the product, however large.               *)
LEMMA SizeParsed ==
  ASSUME NEW s \in Starts, s.config.memory # None, ParseMemorySize(s.config.memory) # Refused
  PROVE  /\ ParseMemorySize(s.config.memory) = s.config.memory.number * Multiplier[s.config.memory.suffix]
         /\ ParseMemorySize(s.config.memory) \in Nat
<1> DEFINE text == s.config.memory
<1>1. text.number \in Nat /\ text.suffix \in Suffixes
  BY StartsAssumption DEF ParseMemorySize, Multiplier
<1>2. text.number * Multiplier[text.suffix] \in Nat
  BY <1>1, Multiplied
<1>3. ParseMemorySize(text) = text.number * Multiplier[text.suffix]
  BY DEF ParseMemorySize
<1> QED
  BY <1>2, <1>3

LEMMA PercentOf ==
  ASSUME NEW total \in Nat, NEW least \in Nat, least <= total
  PROVE  /\ (least * Percent) \div 100 \in Nat
         /\ 100 * ((least * Percent) \div 100) <= Percent * total
<1> DEFINE x == least * Percent
<1>1. Percent \in Nat
  BY KiloAssumption
<1>2. x \in Nat /\ x <= Percent * total
  BY <1>1
<1>3. x \div 100 \in Nat /\ 100 * (x \div 100) <= x
  <2> HIDE DEF x
  <2> QED
    BY <1>2
<1> QED
  BY <1>1, <1>2, <1>3

(* A part of the memory of a machine is one of its cgroup's too.           *)
LEMMA LimitCalculated ==
  ASSUME NEW s \in Starts, CalculateMemoryLimit(s.machine) # Refused
  PROVE  /\ CalculateMemoryLimit(s.machine) \in Nat
         /\ PartOf(s.machine, CalculateMemoryLimit(s.machine))
<1> DEFINE machine == s.machine
           effective == IF machine.cgroup = None THEN machine.physical
                        ELSE Min({machine.physical, machine.cgroup})
           limit == (effective * Percent) \div 100
<1>1. machine.physical \in Nat /\ machine.cgroup \in Nat \cup {None}
  BY StartsAssumption
<1>2. CalculateMemoryLimit(machine) = limit /\ limit # 0
  BY DEF CalculateMemoryLimit
<1>3. /\ effective \in Nat /\ effective <= machine.physical
      /\ machine.cgroup # None => effective <= machine.cgroup
  BY <1>1, MinOf
<1> HIDE DEF effective
<1>4. limit \in Nat /\ \A total \in {machine.physical, machine.cgroup} \ {None} : 100 * limit <= Percent * total
  BY <1>1, <1>3, PercentOf
<1> HIDE DEF limit
<1>5. limit > 0
  BY <1>2, <1>4
<1> QED
  BY <1>2, <1>4, <1>5 DEF PartOf

-----------------------------------------------------------------------------

(* Steps that change a phase, and what they leave of the rest.             *)
LEMMA PhaseStep ==
  ASSUME Configured(process), NEW phase \in Phases, Become(phase),
         \/ phase \in {"stopping", "exited"}
         \/ process.phase = "opening" /\ phase = "serving"
         \/ process.phase = "building" /\ phase = "opening"
  PROVE  Configured(process')
<1> DEFINE p == process
<1>1. p \in Process
  BY DEF Configured
<1>2. process' = [p EXCEPT !.phase = phase]
  BY DEF Become
<1>3. /\ process' \in Process /\ process'.phase = phase
      /\ process'.start = p.start /\ process'.memory = p.memory
      /\ process'.catalogs = p.catalogs /\ process'.added = p.added
  BY <1>1, <1>2 DEF Process
<1>4. Added(process')
  BY <1>3 DEF Configured, Added
<1>5. Provided(process')
  BY <1>3 DEF Configured, Provided, Given
<1> QED
  BY <1>3, <1>4, <1>5 DEF Configured

LEMMA StartConfigured == ProcessInit => Configured(process)
<1> SUFFICES ASSUME ProcessInit PROVE Configured(process)
  OBVIOUS
<1>1. /\ process.start \in Starts /\ process.phase = "new" /\ process.memory = None
      /\ process.catalogs = NewCatalogs /\ process.added = 0 /\ process.owners = {}
      /\ process \in [start : Starts, phase : {"new"}, memory : {None},
                      catalogs : {NewCatalogs}, added : {0}, owners : {{}}]
  BY DEF ProcessInit
<1>2. NewCatalogs \in CatalogMaps
  <2>1. NewCatalogs \in [{Internal} -> Kinds \cup {"internal"}]
    BY DEF NewCatalogs
  <2> QED
    BY <2>1 DEF CatalogMaps
<1>3. process \in Process
  BY <1>1, <1>2 DEF Process, Phases
<1>4. Len(Listed(process.start.config)) \in Nat
  BY <1>1, ListedTyped
<1>5. DOMAIN NewCatalogs = {Internal} /\ NewCatalogs[Internal] = "internal"
  BY DEF NewCatalogs
<1>6. IsFiniteSet({Internal}) /\ Cardinality({Internal}) = 1
  BY FS_Singleton
<1>7. Added(process)
  BY <1>1, <1>4, <1>5, <1>6 DEF Added
<1>8. Provided(process)
  BY <1>1 DEF Provided
<1> QED
  BY <1>3, <1>7, <1>8 DEF Configured

LEMMA ReadConfigKeeps ==
  ASSUME Configured(process), ReadConfig
  PROVE  Configured(process')
<1> DEFINE p == process
           config == p.start.config
           memory == IF config.memory = None THEN None ELSE ParseMemorySize(config.memory)
<1>1. p \in Process /\ p.phase = "new" /\ p.start \in Starts
  BY DEF Configured, ReadConfig, At, Process
<1>2. CASE memory = Refused
  BY <1>2, PhaseStep DEF ReadConfig, Phases
<1>3. CASE memory # Refused
  <2>1. process' = [p EXCEPT !.phase = "loading", !.memory = memory]
    BY <1>3 DEF ReadConfig
  <2>2. /\ memory = Given(p) /\ memory \in Nat \cup {None}
        /\ config.memory # None => memory \in Nat
    BY <1>1, <1>3, SizeParsed DEF Given
  <2> HIDE DEF memory
  <2>3. /\ process' \in Process /\ process'.phase = "loading" /\ process'.memory = memory
        /\ process'.start = p.start /\ process'.catalogs = p.catalogs /\ process'.added = p.added
    BY <1>1, <2>1, <2>2 DEF Process, Phases
  <2>4. Added(process')
    BY <2>3 DEF Configured, Added
  <2>5. Provided(process')
    BY <2>2, <2>3 DEF Provided, Given
  <2> QED
    BY <2>3, <2>4, <2>5 DEF Configured
<1> QED
  BY <1>2, <1>3

(* One catalog more, and none of the others is replaced.                   *)
LEMMA LoadCatalogKeeps ==
  ASSUME Configured(process), LoadCatalog
  PROVE  Configured(process')
<1> DEFINE p == process
           listed == Listed(p.start.config)
           next == p.added + 1
           entry == listed[next]
<1>1. p \in Process /\ p.phase = "loading" /\ p.start \in Starts /\ next <= Len(listed)
  BY DEF Configured, LoadCatalog, At, Process
<1>2. Added(p)
  BY DEF Configured
<1>3. Len(listed) \in Nat /\ p.added \in Nat /\ next \in 1..Len(listed) /\ entry \in Entry
  BY <1>1, <1>2, ListedTyped DEF Added
<1>4. CASE AddCatalog(p.catalogs, entry) = Refused
  BY <1>4, PhaseStep DEF LoadCatalog, Phases
<1>5. CASE AddCatalog(p.catalogs, entry) # Refused
  <2> DEFINE catalogs == With(p.catalogs, entry)
  <2>1. entry.name \notin DOMAIN p.catalogs /\ AddCatalog(p.catalogs, entry) = catalogs
    BY <1>5 DEF AddCatalog
  <2>2. process' = [p EXCEPT !.catalogs = catalogs, !.added = next]
    BY <1>5, <2>1 DEF LoadCatalog
  <2>3. /\ DOMAIN catalogs = DOMAIN p.catalogs \cup {entry.name}
        /\ catalogs[entry.name] = entry.kind
        /\ \A n \in DOMAIN p.catalogs : catalogs[n] = p.catalogs[n]
    BY <2>1 DEF With
  <2>4. catalogs \in CatalogMaps
    <3>1. PICK D \in SUBSET (STRING \cup {Internal}) : p.catalogs \in [D -> Kinds \cup {"internal"}]
      BY <1>1 DEF Process, CatalogMaps
    <3>2. catalogs \in [D \cup {entry.name} -> Kinds \cup {"internal"}]
      BY <1>3, <3>1 DEF With, Entry
    <3>3. D \cup {entry.name} \in SUBSET (STRING \cup {Internal})
      BY <1>3 DEF Entry
    <3> HIDE DEF catalogs
    <3> QED
      BY <3>2, <3>3 DEF CatalogMaps
  <2>5. IsFiniteSet(DOMAIN catalogs) /\ Cardinality(DOMAIN catalogs) = 1 + next
    <3> HIDE DEF entry
    <3>1. /\ IsFiniteSet(DOMAIN p.catalogs \cup {entry.name})
          /\ Cardinality(DOMAIN p.catalogs \cup {entry.name}) = Cardinality(DOMAIN p.catalogs) + 1
      BY <1>2, <2>1, FS_AddElement DEF Added
    <3> QED
      BY <1>2, <1>3, <2>3, <3>1 DEF Added
  <2> HIDE DEF catalogs
  <2>6. /\ process' \in Process /\ process'.phase = "loading" /\ process'.memory = p.memory
        /\ process'.start = p.start /\ process'.catalogs = catalogs /\ process'.added = next
    <3>1. next \in Nat
      BY <1>3
    <3> HIDE DEF next, listed
    <3> QED
      BY <1>1, <2>2, <2>4, <3>1 DEF Process, Phases
  <2>7. DOMAIN catalogs = {Internal} \cup {listed[i].name : i \in 1..next}
    <3>1. 1..next = 1..p.added \cup {next}
      BY <1>3
    <3>2. DOMAIN p.catalogs = {Internal} \cup {listed[i].name : i \in 1..p.added}
      BY <1>2 DEF Added
    <3> HIDE DEF listed, next
    <3> QED
      BY <2>3, <3>1, <3>2
  <2>8. catalogs[Internal] = "internal"
    BY <1>2, <2>3 DEF Added
  <2>9. ASSUME NEW i \in 1..next PROVE catalogs[listed[i].name] = listed[i].kind
    <3>1. CASE i = next
      BY <2>3, <3>1
    <3>2. CASE i # next
      <4>1. i \in 1..p.added
        BY <1>3, <3>2
      <4>2. p.catalogs[listed[i].name] = listed[i].kind /\ listed[i].name \in DOMAIN p.catalogs
        BY <1>2, <4>1 DEF Added
      <4> QED
        BY <2>3, <4>2
    <3> QED
      BY <3>1, <3>2
  <2>10. Added(process')
    <3> HIDE DEF listed
    <3> QED
      BY <1>3, <2>5, <2>6, <2>7, <2>8, <2>9 DEF Added, listed
  <2>11. Provided(process')
    BY <1>1, <2>6 DEF Configured, Provided, Given
  <2> QED
    BY <2>6, <2>10, <2>11 DEF Configured
<1> QED
  BY <1>4, <1>5

LEMMA MakeRuntimesKeeps ==
  ASSUME Configured(process), MakeRuntimes
  PROVE  Configured(process')
<1>1. /\ process \in Process /\ process.phase = "loading"
      /\ process' = [process EXCEPT !.phase = "loaded", !.owners = {"run"}]
      /\ process.added = Len(Listed(process.start.config))
  BY DEF Configured, MakeRuntimes, At
<1>2. /\ process' \in Process /\ process'.phase = "loaded" /\ process'.memory = process.memory
      /\ process'.start = process.start /\ process'.catalogs = process.catalogs
      /\ process'.added = process.added
  BY <1>1 DEF Process, Phases
<1>3. Added(process) /\ process.added = Len(Listed(process.start.config))
  BY <1>1 DEF Configured, Added
<1>4. Added(process')
  BY <1>2, <1>3 DEF Added
<1>5. Provided(process')
  BY <1>1, <1>2 DEF Configured, Provided, Given
<1> QED
  BY <1>2, <1>4, <1>5 DEF Configured

LEMMA BlockOnKeeps ==
  ASSUME Configured(process), BlockOn
  PROVE  Configured(process')
<1>1. /\ process \in Process /\ process.phase = "loaded"
      /\ process' = [process EXCEPT !.phase = "resolving", !.owners = Shared(@)]
  BY DEF Configured, BlockOn, At
<1>2. /\ process' \in Process /\ process'.phase = "resolving" /\ process'.memory = process.memory
      /\ process'.start = process.start /\ process'.catalogs = process.catalogs
      /\ process'.added = process.added
  BY <1>1 DEF Process, Phases, Shared
<1>3. Added(process) /\ process.added = Len(Listed(process.start.config))
  BY <1>1 DEF Configured, Added
<1>4. Added(process')
  BY <1>2, <1>3 DEF Added
<1>5. Provided(process')
  BY <1>1, <1>2 DEF Configured, Provided, Given
<1> QED
  BY <1>2, <1>4, <1>5 DEF Configured

LEMMA ResolveMemoryLimitKeeps ==
  ASSUME Configured(process), ResolveMemoryLimit
  PROVE  Configured(process')
<1> DEFINE p == process
           memory == IF p.memory # None THEN p.memory ELSE CalculateMemoryLimit(p.start.machine)
<1>1. p \in Process /\ p.phase = "resolving" /\ p.start \in Starts
  BY DEF Configured, ResolveMemoryLimit, At, Process
<1>2. /\ p.memory = Given(p) /\ p.memory \in Nat \cup {None}
      /\ p.start.config.memory # None => p.memory \in Nat
  BY <1>1 DEF Configured, Provided, Process
<1>3. CASE memory = Refused
  BY <1>3, PhaseStep DEF ResolveMemoryLimit, Phases
<1>4. CASE memory # Refused
  <2>1. process' = [p EXCEPT !.phase = "building", !.memory = memory]
    BY <1>4 DEF ResolveMemoryLimit
  <2>2. memory \in Nat
    BY <1>1, <1>2, <1>4, LimitCalculated
  <2>3. p.start.config.memory # None => memory = Given(p)
    BY <1>2, RefusedAssumption
  <2>4. p.start.config.memory = None => PartOf(p.start.machine, memory)
    <3> SUFFICES ASSUME p.start.config.memory = None PROVE PartOf(p.start.machine, memory)
      OBVIOUS
    <3>1. p.memory = None
      BY <1>2 DEF Given
    <3> QED
      BY <1>1, <1>4, <3>1, LimitCalculated
  <2> HIDE DEF memory
  <2>5. /\ process' \in Process /\ process'.phase = "building" /\ process'.memory = memory
        /\ process'.start = p.start /\ process'.catalogs = p.catalogs /\ process'.added = p.added
    BY <1>1, <2>1, <2>2 DEF Process, Phases
  <2>6. Added(process')
    BY <1>1, <2>5 DEF Configured, Added
  <2>7. Provided(process')
    BY <2>3, <2>4, <2>5 DEF Provided, Given
  <2> QED
    BY <2>5, <2>6, <2>7 DEF Configured
<1> QED
  BY <1>3, <1>4

LEMMA AddedKept ==
  ASSUME NEW p, NEW r, Added(p),
         r.start = p.start, r.catalogs = p.catalogs, r.added = p.added,
         r.phase \notin {"loaded", "resolving", "building", "opening", "serving"}
  PROVE  Added(r)
BY DEF Added

(* The context is let go of; nothing of it is promised any more.           *)
LEMMA LettingGo ==
  ASSUME Configured(process), NEW phase \in {"returned", "panicked", "closing"},
         NEW owners \in SUBSET {"run", "async_run"},
         process' = [process EXCEPT !.phase = phase, !.owners = owners]
  PROVE  Configured(process')
<1>1. process \in Process
  BY DEF Configured
<1>2. /\ process' \in Process /\ process'.phase = phase /\ process'.memory = process.memory
      /\ process'.start = process.start /\ process'.catalogs = process.catalogs
      /\ process'.added = process.added
  BY <1>1 DEF Process, Phases
<1>3. Added(process) /\ process'.phase \notin {"loaded", "resolving", "building", "opening", "serving"}
  BY <1>2 DEF Configured
<1>4. Added(process')
  <2>1. /\ process'.start = process.start /\ process'.catalogs = process.catalogs
        /\ process'.added = process.added
    BY <1>2
  <2> QED
    BY <1>3, <2>1, AddedKept
<1>5. Provided(process')
  BY <1>2 DEF Provided
<1> QED
  BY <1>2, <1>4, <1>5 DEF Configured

LEMMA ReturnKeeps ==
  ASSUME Configured(process), Return
  PROVE  Configured(process')
<1> DEFINE owners == process.owners \ {"async_run"}
           phase == IF owners = {} THEN "panicked" ELSE "returned"
<1>1. owners \in SUBSET {"run", "async_run"}
  BY DEF Configured, Process
<1>2. process' = [process EXCEPT !.phase = phase, !.owners = owners]
  BY DEF Return
<1>3. phase \in {"returned", "panicked", "closing"}
  OBVIOUS
<1> HIDE DEF phase, owners
<1> QED
  BY <1>1, <1>2, <1>3, LettingGo

LEMMA DropContextKeeps ==
  ASSUME Configured(process), DropContext
  PROVE  Configured(process')
<1>1. PICK owners : owners = {} /\ process' = [process EXCEPT !.phase = "closing", !.owners = owners]
  BY DEF DropContext
<1>2. owners \in SUBSET {"run", "async_run"}
  BY <1>1
<1> QED
  BY <1>1, <1>2, LettingGo

LEMMA ProcessKept == Configured(process) /\ [ProcessNext]_allvars => Configured(process')
<1> SUFFICES ASSUME Configured(process), [ProcessNext]_allvars PROVE Configured(process')
  OBVIOUS
<1>1. CASE process' = process
  BY <1>1
<1>2. CASE PrintVersion \/ BuildProviders \/ Open \/ Stop \/ Exit
  BY <1>2, PhaseStep DEF PrintVersion, BuildProviders, Open, Stop, Exit, At, Phases
<1>3. CASE StartUp
  BY <1>2, <1>3, ReadConfigKeeps, LoadCatalogKeeps, MakeRuntimesKeeps, BlockOnKeeps,
     ResolveMemoryLimitKeeps DEF StartUp
<1>4. CASE ShutDown
  BY <1>2, <1>4, ReturnKeeps, DropContextKeeps DEF ShutDown
<1>5. CASE NextStatement \/ \E q \in Queries : Abandon(q) \/ Receives(q) \/ \E k \in DOMAIN stream[q] : Work(q, k)
  BY <1>1, <1>5 DEF NextStatement, Ask, Abandon, Receives, Work
<1> QED
  BY <1>1, <1>2, <1>3, <1>4, <1>5 DEF ProcessNext, allvars

PInv == Configured(process)

LEMMA ProcessInvariance == ProcessSpec => []PInv
<1>1. ProcessInit => PInv
  BY StartConfigured DEF PInv
<1>2. PInv /\ [ProcessNext]_allvars => PInv'
  BY ProcessKept DEF PInv
<1> QED
  BY <1>1, <1>2, PTL DEF ProcessSpec

(* Whoever serves has every catalog of the configuration under its own     *)
(* name, beside the internal one, and the memory that was given or a part  *)
(* of what the machine and its cgroup have.                                *)
THEOREM ServesAsConfigured == ProcessSpec => []StartedAsConfigured
<1>1. PInv => StartedAsConfigured
  <2> SUFFICES ASSUME Configured(process), process.phase = "serving" PROVE StartedAsConfigured
    BY DEF PInv, StartedAsConfigured, At
  <2> DEFINE p == process
             listed == Listed(p.start.config)
  <2>1. p.start \in Starts /\ p.added = Len(listed)
    BY DEF Configured, Added, Process
  <2>2. DOMAIN listed = 1..Len(listed)
    BY <2>1, ListedTyped
  <2>3. /\ Cardinality(DOMAIN p.catalogs) = 1 + Len(listed)
        /\ p.catalogs[Internal] = "internal"
        /\ \A i \in DOMAIN listed : p.catalogs[listed[i].name] = listed[i].kind
    BY <2>1, <2>2 DEF Configured, Added
  <2>4. IF p.start.config.memory # None THEN p.memory = Given(p) ELSE PartOf(p.start.machine, p.memory)
    BY DEF Configured, Provided
  <2> QED
    BY <2>3, <2>4 DEF StartedAsConfigured, Given, PartOf
<1> QED
  BY <1>1, ProcessInvariance, PTL

-----------------------------------------------------------------------------

(* Numbers in a row: what a worker makes and what is made of it are such.  *)
Run(s, n) == [i \in 1..n |-> s + i - 1]

LEMMA RunTyped ==
  ASSUME NEW s \in Nat, NEW n \in Nat
  PROVE  /\ Run(s, n) \in Seq(Nat) /\ Len(Run(s, n)) = n /\ DOMAIN Run(s, n) = 1..n
         /\ \A i \in 1..n : Run(s, n)[i] = s + i - 1
         /\ Run(s, n) = <<>> <=> n = 0
<1> DEFINE r == Run(s, n)
<1>1. DOMAIN r = 1..n /\ \A i \in 1..n : r[i] = s + i - 1
  BY DEF Run
<1>2. r \in [1..n -> Nat]
  BY DEF Run
<1>3. r \in Seq(Nat)
  <2> HIDE DEF r
  <2> QED
    BY <1>2, SeqDef
<1> HIDE DEF r
<1>4. Len(r) \in Nat /\ DOMAIN r = 1..Len(r)
  BY <1>3, LenProperties
<1>5. Len(r) = n
  BY <1>1, <1>4
<1>6. r = <<>> <=> n = 0
  BY <1>3, <1>5, EmptySeq
<1> QED
  BY <1>1, <1>3, <1>5, <1>6 DEF r

LEMMA RunOf ==
  ASSUME NEW seq \in Seq(Nat), NEW s \in Nat, NEW n \in Nat, Len(seq) = n,
         \A i \in 1..n : seq[i] = s + i - 1
  PROVE  seq = Run(s, n)
<1>1. /\ Run(s, n) \in Seq(Nat) /\ Len(Run(s, n)) = n
      /\ \A i \in 1..n : Run(s, n)[i] = s + i - 1
  BY RunTyped
<1>2. \A i \in 1..Len(seq) : seq[i] = Run(s, n)[i]
  BY <1>1
<1> QED
  BY <1>1, <1>2, SeqEqual

LEMMA RunsJoin ==
  ASSUME NEW s \in Nat, NEW a \in Nat, NEW b \in Nat
  PROVE  Run(s, a) \o Run(s + a, b) = Run(s, a + b)
<1> DEFINE x == Run(s, a)
           y == Run(s + a, b)
<1>1. /\ x \in Seq(Nat) /\ Len(x) = a /\ \A i \in 1..a : x[i] = s + i - 1
      /\ y \in Seq(Nat) /\ Len(y) = b /\ \A i \in 1..b : y[i] = (s + a) + i - 1
  <2>1. s + a \in Nat
    OBVIOUS
  <2> QED
    BY <2>1, RunTyped
<1> HIDE DEF x, y
<1>2. /\ x \o y \in Seq(Nat) /\ Len(x \o y) = a + b
      /\ \A i \in 1..(a + b) : (x \o y)[i] = IF i <= a THEN x[i] ELSE y[i - a]
  BY <1>1, ConcatProperties
<1>3. \A i \in 1..(a + b) : (x \o y)[i] = s + i - 1
  BY <1>1, <1>2
<1>4. x \o y = Run(s, a + b)
  <2>1. a + b \in Nat
    OBVIOUS
  <2> QED
    BY <1>2, <1>3, <2>1, RunOf
<1> QED
  BY <1>4 DEF x, y

LEMMA RunsCut ==
  ASSUME NEW s \in Nat, NEW n \in Nat, NEW m \in 0..n
  PROVE  /\ SubSeq(Run(s, n), 1, m) = Run(s, m)
         /\ SubSeq(Run(s, n), m + 1, n) = Run(s + m, n - m)
<1> DEFINE r == Run(s, n)
           x == SubSeq(r, 1, m)
           y == SubSeq(r, m + 1, n)
<1>1. \A i \in 1..n : r[i] = s + i - 1 /\ r[i] \in Nat
  <2>1. \A i \in 1..n : r[i] = s + i - 1
    BY RunTyped
  <2> QED
    BY <2>1
<1> HIDE DEF r
<1>2. x \in Seq(Nat) /\ Len(x) = m /\ \A i \in 1..m : x[i] = r[i]
  <2>1. \A i \in 1..m : r[i] \in Nat
    BY <1>1
  <2> QED
    BY <2>1, SubSeqProperties
<1>3. y \in Seq(Nat) /\ Len(y) = n - m /\ \A i \in 1..(n - m) : y[i] = r[m + i]
  <2>1. \A i \in (m + 1)..n : r[i] \in Nat
    BY <1>1
  <2>2. /\ y \in Seq(Nat) /\ Len(y) = IF m + 1 <= n THEN n - (m + 1) + 1 ELSE 0
        /\ \A i \in 1..(n - (m + 1) + 1) : y[i] = r[(m + 1) + i - 1]
    BY <2>1, SubSeqProperties
  <2> HIDE DEF y
  <2>3. n - (m + 1) + 1 = n - m
    OBVIOUS
  <2>4. \A i \in 1..(n - m) : (m + 1) + i - 1 = m + i
    OBVIOUS
  <2> QED
    BY <2>2, <2>3, <2>4
<1> HIDE DEF x, y
<1>4. \A i \in 1..m : x[i] = s + i - 1
  BY <1>1, <1>2
<1>5. \A i \in 1..(n - m) : y[i] = (s + m) + i - 1
  BY <1>1, <1>3
<1>6. x = Run(s, m) /\ y = Run(s + m, n - m)
  <2>1. m \in Nat /\ s + m \in Nat /\ n - m \in Nat
    OBVIOUS
  <2> QED
    BY <1>2, <1>3, <1>4, <1>5, <2>1, RunOf
<1> QED
  BY <1>6 DEF x, y, r

LEMMA RunRange ==
  ASSUME NEW s \in Nat, NEW n \in Nat
  PROVE  Range(Run(s, n)) = s..(s + n - 1)
<1>1. DOMAIN Run(s, n) = 1..n /\ \A i \in 1..n : Run(s, n)[i] = s + i - 1
  BY RunTyped
<1>2. \A x \in s..(s + n - 1) : (x - s + 1) \in 1..n /\ x = s + (x - s + 1) - 1
  OBVIOUS
<1>3. Range(Run(s, n)) = {Run(s, n)[i] : i \in 1..n}
  BY <1>1 DEF Range
<1>4. \A x : x \in Range(Run(s, n)) <=> x \in s..(s + n - 1)
  <2>1. ASSUME NEW i \in 1..n PROVE Run(s, n)[i] \in s..(s + n - 1)
    BY <1>1
  <2>2. ASSUME NEW x \in s..(s + n - 1) PROVE \E i \in 1..n : x = Run(s, n)[i]
    BY <1>1, <1>2
  <2> QED
    BY <1>3, <2>1, <2>2
<1> QED
  BY <1>4

LEMMA RunCount ==
  ASSUME NEW s \in Nat, NEW n \in Nat
  PROVE  IsFiniteSet(s..(s + n - 1)) /\ Cardinality(s..(s + n - 1)) = n
BY FS_Interval

-----------------------------------------------------------------------------

(* Where the rows of a partition begin, and how many they are.             *)
First(t, p) ==
  IF t \in Whole THEN 1
  ELSE 1 + p * (Rows[t] \div PartitionCount(t)) + Min({p, Rows[t] % PartitionCount(t)})
Size(t, p) ==
  IF t \in Whole THEN Rows[t]
  ELSE Rows[t] \div PartitionCount(t) + (IF p < Rows[t] % PartitionCount(t) THEN 1 ELSE 0)

LEMMA Divides ==
  ASSUME NEW x \in Nat, NEW b \in Nat \ {0}
  PROVE  x \div b \in Nat /\ x % b \in 0..(b - 1) /\ x = b * (x \div b) + (x % b)
<1> DEFINE d == x \div b
           r == x % b
<1>1. r \in 0..(b - 1)
  OBVIOUS
<1>2. r = x - b * d
  OBVIOUS
<1>3. d \in Nat
  OBVIOUS
<1> HIDE DEF d, r
<1>4. b * d \in Nat
  BY <1>3
<1>5. x = b * d + r
  BY <1>1, <1>2, <1>4
<1> QED
  BY <1>1, <1>3, <1>5 DEF d, r

LEMMA Counted ==
  ASSUME NEW t \in Tables
  PROVE  PartitionCount(t) \in Nat \ {0} /\ (t \in Whole => PartitionCount(t) = 1)
BY MaxOf, SizesAssumption DEF PartitionCount

LEMMA PartTyped ==
  ASSUME NEW t \in Tables, NEW p \in 0..(PartitionCount(t) - 1)
  PROVE  /\ First(t, p) \in Nat \ {0} /\ Size(t, p) \in Nat
         /\ GeneratedRange(t, p) = Run(First(t, p), Size(t, p))
<1> DEFINE n == PartitionCount(t)
           size == Rows[t] \div n
           extra == Rows[t] % n
<1>1. n \in Nat \ {0} /\ Rows[t] \in Nat
  BY Counted, TablesAssumption
<1>2. size \in Nat /\ extra \in Nat
  <2>1. size \in Nat /\ extra \in 0..(n - 1)
    BY <1>1, Divides
  <2> HIDE DEF size, extra
  <2> QED
    BY <1>1, <2>1
<1>3. CASE t \in Whole
  <2>1. [k \in 1..Rows[t] |-> k] = Run(1, Rows[t])
    BY <1>1 DEF Run
  <2> QED
    BY <1>1, <1>3, <2>1 DEF First, Size, GeneratedRange
<1>4. CASE t \notin Whole
  <2>1. p \in Nat /\ Min({p, extra}) \in Nat
    BY <1>1, <1>2, MinOf
  <2> HIDE DEF size, extra, n
  <2>2. p * size \in Nat
    BY <1>2, <2>1
  <2>3. 1 + p * size + Min({p, extra}) \in Nat \ {0} /\ size + (IF p < extra THEN 1 ELSE 0) \in Nat
    BY <1>2, <2>1, <2>2
  <2> QED
    BY <1>4, <2>3 DEF First, Size, GeneratedRange, RowRange, Run, size, extra, n
<1> QED
  BY <1>3, <1>4

(* A partition ends before the next ones begin, and the last one with the  *)
(* last row.                                                               *)
LEMMA Steps ==
  ASSUME NEW a \in Nat, NEW p \in Nat, NEW q \in Nat, p < q
  PROVE  p * a + a <= q * a
<1>1. PICK d \in Nat : q = p + 1 + d
  <2>1. q - p - 1 \in Nat /\ q = p + 1 + (q - p - 1)
    OBVIOUS
  <2> QED
    BY <2>1
<1>2. d * a \in Nat
  OBVIOUS
<1>3. q * a = p * a + a + d * a
  BY <1>1
<1> QED
  BY <1>2, <1>3

LEMMA PartsInOrder ==
  ASSUME NEW t \in Tables,
         NEW p \in 0..(PartitionCount(t) - 1), NEW q \in 0..(PartitionCount(t) - 1), p < q
  PROVE  First(t, p) + Size(t, p) <= First(t, q)
<1> DEFINE n == PartitionCount(t)
           size == Rows[t] \div n
           extra == Rows[t] % n
<1>1. n \in Nat \ {0} /\ Rows[t] \in Nat /\ t \notin Whole
  BY Counted, TablesAssumption
<1>2. size \in Nat /\ extra \in Nat
  <2>1. size \in Nat /\ extra \in 0..(n - 1)
    BY <1>1, Divides
  <2> HIDE DEF size, extra
  <2> QED
    BY <1>1, <2>1
<1>3. /\ First(t, p) = 1 + p * size + Min({p, extra})
      /\ First(t, q) = 1 + q * size + Min({q, extra})
      /\ Size(t, p) = size + (IF p < extra THEN 1 ELSE 0)
  BY <1>1 DEF First, Size
<1> HIDE DEF size, extra, n
<1>4. p \in Nat /\ q \in Nat
  BY <1>1
<1>5. p * size + size <= q * size /\ p * size \in Nat /\ q * size \in Nat
  BY <1>2, <1>4, Steps
<1>6. /\ Min({p, extra}) = IF p <= extra THEN p ELSE extra
      /\ Min({q, extra}) = IF q <= extra THEN q ELSE extra
  BY <1>2, <1>4, MinOf
<1>7. Min({p, extra}) + (IF p < extra THEN 1 ELSE 0) <= Min({q, extra})
  BY <1>2, <1>4, <1>6
<1>8. ASSUME NEW ps \in Nat, NEW qs \in Nat, NEW mp \in Nat, NEW mq \in Nat, NEW one \in Nat,
             ps + size <= qs, mp + one <= mq
      PROVE  1 + ps + mp + (size + one) <= 1 + qs + mq
  BY <1>2, <1>8
<1>9. (IF p < extra THEN 1 ELSE 0) \in Nat /\ Min({p, extra}) \in Nat /\ Min({q, extra}) \in Nat
  BY <1>2, <1>4, <1>6
<1> QED
  BY <1>3, <1>5, <1>7, <1>8, <1>9

LEMMA PartsEnd ==
  ASSUME NEW t \in Tables, NEW p \in 0..(PartitionCount(t) - 1)
  PROVE  First(t, p) + Size(t, p) <= Rows[t] + 1
<1> DEFINE n == PartitionCount(t)
           size == Rows[t] \div n
           extra == Rows[t] % n
<1>1. n \in Nat \ {0} /\ Rows[t] \in Nat
  BY Counted, TablesAssumption
<1>2. size \in Nat /\ extra \in 0..(n - 1) /\ Rows[t] = n * size + extra
  BY <1>1, Divides
<1>3. CASE t \in Whole
  BY <1>1, <1>3 DEF First, Size
<1>4. CASE t \notin Whole
  <2>1. First(t, p) = 1 + p * size + Min({p, extra}) /\ Size(t, p) = size + (IF p < extra THEN 1 ELSE 0)
    BY <1>4 DEF First, Size
  <2> HIDE DEF size, extra, n
  <2>2. p \in Nat /\ p < n
    BY <1>1 DEF n
  <2>3. p * size + size <= n * size /\ p * size \in Nat /\ n * size \in Nat
    BY <1>1, <1>2, <2>2, Steps
  <2>4. Min({p, extra}) = IF p <= extra THEN p ELSE extra
    BY <1>2, <2>2, MinOf
  <2>5. Min({p, extra}) + (IF p < extra THEN 1 ELSE 0) <= extra
    BY <1>2, <2>2, <2>4
  <2>6. (IF p < extra THEN 1 ELSE 0) \in Nat /\ Min({p, extra}) \in Nat
    BY <1>2, <2>2, <2>4
  <2>7. ASSUME NEW ps \in Nat, NEW ns \in Nat, NEW mp \in Nat, NEW one \in Nat,
               ps + size <= ns, mp + one <= extra
        PROVE  1 + ps + mp + (size + one) <= (ns + extra) + 1
    BY <1>2, <2>7
  <2> QED
    BY <1>2, <2>1, <2>3, <2>5, <2>6, <2>7
<1> QED
  BY <1>3, <1>4

LEMMA QuotientBelow ==
  ASSUME NEW y \in Nat, NEW a \in Nat \ {0}, NEW m \in Nat, y < m * a
  PROVE  y \div a < m
<1> DEFINE d == y \div a
           r == y % a
<1>1. d \in Nat /\ y = a * d + r /\ r \in Nat
  BY Divides
<1> HIDE DEF d, r
<1>2. ASSUME m <= d PROVE FALSE
  <2>1. m * a <= d * a
    <3>1. CASE m = d
      <4>1. m * a \in Int
        OBVIOUS
      <4> QED
        BY <3>1, <4>1
    <3>2. CASE m < d
      <4>1. m * a + a <= d * a /\ m * a \in Int /\ d * a \in Int
        BY <1>1, <3>2, Steps
      <4> QED
        BY <4>1
    <3> QED
      BY <1>1, <1>2, <3>1, <3>2
  <2>2. d * a = a * d /\ a * d \in Int /\ m * a \in Int
    BY <1>1
  <2>3. ASSUME NEW e \in Int, NEW f \in Int, y < e, e <= f, y = f + r PROVE FALSE
    BY <1>1, <2>3
  <2> QED
    BY <1>1, <2>1, <2>2, <2>3
<1> QED
  BY <1>1, <1>2 DEF d

(* Every row has its partition.                                            *)
LEMMA PartsCover ==
  ASSUME NEW t \in Tables, NEW x \in 1..Rows[t]
  PROVE  \E p \in 0..(PartitionCount(t) - 1) : x \in First(t, p)..(First(t, p) + Size(t, p) - 1)
<1> DEFINE n == PartitionCount(t)
           size == Rows[t] \div n
           extra == Rows[t] % n
           y == x - 1
<1>1. n \in Nat \ {0} /\ Rows[t] \in Nat
  BY Counted, TablesAssumption
<1>2. size \in Nat /\ extra \in 0..(n - 1) /\ Rows[t] = n * size + extra
  BY <1>1, Divides
<1>3. CASE t \in Whole
  <2>1. 0 \in 0..(n - 1)
    BY <1>1
  <2> QED
    BY <1>1, <1>3, <2>1 DEF First, Size
<1>4. CASE t \notin Whole
  <2>1. \A p : First(t, p) = 1 + p * size + Min({p, extra}) /\ Size(t, p) = size + (IF p < extra THEN 1 ELSE 0)
    BY <1>4 DEF First, Size
  <2>2. y \in Nat /\ y < n * size + extra /\ x = y + 1
    BY <1>1, <1>2
  <2> HIDE DEF size, extra, y
  <2> SUFFICES \E p \in 0..(n - 1) :
                 /\ p * size + Min({p, extra}) <= y
                 /\ y < p * size + Min({p, extra}) + size + (IF p < extra THEN 1 ELSE 0)
    <3>1. PICK p \in 0..(n - 1) :
                 /\ p * size + Min({p, extra}) <= y
                 /\ y < p * size + Min({p, extra}) + size + (IF p < extra THEN 1 ELSE 0)
      OBVIOUS
    <3>2. Min({p, extra}) \in Nat /\ p * size \in Nat /\ (IF p < extra THEN 1 ELSE 0) \in Nat
      BY <1>1, <1>2, MinOf
    <3>3. ASSUME NEW ps \in Nat, NEW mp \in Nat, NEW one \in Nat, ps + mp <= y, y < ps + mp + size + one
          PROVE  x \in (1 + ps + mp)..((1 + ps + mp) + (size + one) - 1)
      BY <1>2, <2>2, <3>3
    <3>4. x \in (1 + p * size + Min({p, extra}))..((1 + p * size + Min({p, extra})) + (size + (IF p < extra THEN 1 ELSE 0)) - 1)
      BY <3>1, <3>2, <3>3
    <3> QED
      BY <2>1, <3>4
  <2> HIDE DEF n
  <2>3. CASE y < extra * (size + 1)
    <3> DEFINE p == y \div (size + 1)
    <3>1. p < extra /\ p \in Nat /\ y = (size + 1) * p + (y % (size + 1)) /\ y % (size + 1) \in 0..size
      <4>1. size + 1 \in Nat \ {0} /\ (size + 1) - 1 = size /\ extra \in Nat
        BY <1>2
      <4>2. p < extra
        BY <2>2, <2>3, <4>1, QuotientBelow
      <4> QED
        BY <2>2, <4>1, <4>2, Divides
    <3>2. PICK r \in 0..size : y = (size + 1) * p + r
      <4> DEFINE r == y % (size + 1)
      <4>1. r \in 0..size /\ y = (size + 1) * p + r
        BY <3>1, Zenon
      <4> HIDE DEF r, p
      <4> QED
        BY <4>1
    <3> HIDE DEF p
    <3>3. (size + 1) * p = p * size + p /\ p * size \in Nat
      BY <1>2, <3>1
    <3>4. Min({p, extra}) = p /\ p \in 0..(n - 1)
      BY <1>1, <1>2, <3>1, MinOf
    <3>5. p * size + p <= y /\ y < p * size + p + size + 1
      BY <1>2, <3>1, <3>2, <3>3
    <3> QED
      BY <3>1, <3>4, <3>5
  <2>4. CASE ~(y < extra * (size + 1))
    <3> DEFINE z == y - extra * (size + 1)
               p == extra + z \div size
    <3>1. extra * (size + 1) = extra * size + extra /\ extra * size \in Nat /\ n * size \in Nat
      BY <1>1, <1>2
    <3>2. z \in Nat /\ y = extra * size + extra + z
      BY <1>2, <2>2, <2>4, <3>1
    <3>3. n - extra \in Nat /\ n * size - extra * size = (n - extra) * size
      BY <1>1, <1>2
    <3> HIDE DEF z
    <3>4. z < (n - extra) * size
      BY <1>2, <2>2, <3>1, <3>2, <3>3
    <3>5. size # 0
      BY <3>2, <3>3, <3>4
    <3> DEFINE d == z \div size
               r == z % size
    <3>6. d < n - extra /\ d \in Nat /\ z = size * d + r /\ r \in 0..(size - 1) /\ p = extra + d
      <4>1. size \in Nat \ {0}
        BY <1>2, <3>5
      <4>2. d < n - extra
        BY <3>2, <3>3, <3>4, <4>1, QuotientBelow
      <4> QED
        BY <3>2, <4>1, <4>2, Divides
    <3> HIDE DEF d, r
    <3>7. d \in Nat /\ r \in 0..(size - 1) /\ d < n - extra /\ z = size * d + r /\ p = extra + d
      BY <3>6
    <3> HIDE DEF p
    <3>8. p * size = extra * size + size * d /\ p \in Nat /\ p >= extra /\ p < n
      BY <1>1, <1>2, <3>7
    <3>9. Min({p, extra}) = extra /\ p \in 0..(n - 1)
      BY <1>1, <1>2, <3>8, MinOf
    <3>10. size * d \in Nat
      BY <1>2, <3>7
    <3>11. p * size + extra <= y /\ y < p * size + extra + size
      BY <1>2, <3>1, <3>2, <3>7, <3>8, <3>10
    <3>12. ~(p < extra) /\ p * size \in Nat
      BY <1>2, <3>8
    <3> QED
      BY <1>2, <3>9, <3>11, <3>12
  <2> QED
    BY <2>3, <2>4
<1> QED
  BY <1>3, <1>4

(* A query and the stream of a worker.                                     *)
Workers == {"queued", "started", "making", "sending", "done", "failed", "aborted"}
Stream == [worker : Workers, rest : Seq(Nat), sending : Seq(Nat), channel : Seq(Nat), received : Seq(Nat)]
Query == [phase : {"idle", "running", "ended", "failed", "dropped"},
          plan : Plans \cup {None}, total : Nat, shown : Nat]

FirstAt(plan, k) == First(plan.scans[k[1]], k[2])
SizeAt(plan, k) == Size(plan.scans[k[1]], k[2])

(* The rows of a worker: received, in the channel, being sent, not made.   *)
Divided(w, s, n) ==
  \E a, b, c, d \in Nat :
    /\ a + b + c + d = n
    /\ w.received = Run(s, a) /\ w.channel = Run(s + a, b)
    /\ w.sending = Run(s + a + b, c) /\ w.rest = Run(s + a + b + c, d)
    /\ w.worker # "sending" => c = 0
    /\ w.worker = "done" => d = 0

(* Of the streams S of a query, what has been received of scan i.          *)
ReadOf(S, i) == UNION {Range(S[k].received) : k \in {j \in DOMAIN S : j[1] = i}}
Begun(S, plan) ==
  /\ DOMAIN S \subseteq Keys(plan)
  /\ \A k \in DOMAIN S : \E a \in 0..SizeAt(plan, k) : S[k].received = Run(FirstAt(plan, k), a)

Going(S, r) ==
  /\ r.plan \in Plans /\ r.plan.limit # 0
  /\ DOMAIN S = Keys(r.plan)
  /\ \A k \in DOMAIN S : Divided(S[k], FirstAt(r.plan, k), SizeAt(r.plan, k))
  /\ r.total = Cardinality(ReadOf(S, Len(r.plan.scans)))
  /\ r.plan.limit # None => r.total < r.plan.limit
  /\ r.shown = Min({r.total, r.plan.shown})

RowsOf(plan) == Rows[plan.scans[Len(plan.scans)]]
Answer(S, r) ==
  /\ r.plan \in Plans /\ Begun(S, r.plan)
  /\ r.total = IF r.plan.limit = None THEN RowsOf(r.plan) ELSE Min({r.plan.limit, RowsOf(r.plan)})
  /\ r.shown = Min({r.total, r.plan.shown})
  /\ r.plan.limit = None =>
       \A i \in DOMAIN r.plan.scans : ReadOf(S, i) = 1..Rows[r.plan.scans[i]]

Answers(S, r) ==
  /\ S = [k \in DOMAIN S |-> S[k]] /\ \A k \in DOMAIN S : S[k] \in Stream
  /\ r \in Query
  /\ r.phase = "idle" => r.total = 0 /\ r.shown = 0
  /\ r.phase = "running" => Going(S, r)
  /\ r.phase = "ended" => Answer(S, r)

-----------------------------------------------------------------------------

LEMMA PlanTyped ==
  ASSUME NEW plan \in Plans
  PROVE  /\ Len(plan.scans) \in Nat \ {0} /\ DOMAIN plan.scans = 1..Len(plan.scans)
         /\ \A i \in 1..Len(plan.scans) : plan.scans[i] \in Tables /\ Rows[plan.scans[i]] \in Nat
         /\ plan.shown \in Nat /\ plan.limit \in Nat \cup {None}
         /\ plan.limit # None => Len(plan.scans) = 1
<1>1. /\ plan.scans \in Seq(Tables) /\ plan.scans # <<>> /\ plan.shown \in Nat
      /\ plan.limit # None => plan.limit \in Nat /\ Len(plan.scans) = 1
  BY PlansAssumption
<1>2. Len(plan.scans) \in Nat \ {0}
  BY <1>1, EmptySeq
<1>3. DOMAIN plan.scans = 1..Len(plan.scans) /\ \A i \in 1..Len(plan.scans) : plan.scans[i] \in Tables
  BY <1>1, SeqTyped
<1>4. \A t \in Tables : Rows[t] \in Nat
  BY TablesAssumption
<1> QED
  BY <1>1, <1>2, <1>3, <1>4

LEMMA KeyTyped ==
  ASSUME NEW plan \in Plans, NEW k \in Keys(plan)
  PROVE  /\ k = <<k[1], k[2]>> /\ k[1] \in 1..Len(plan.scans)
         /\ k[2] \in 0..(PartitionCount(plan.scans[k[1]]) - 1)
         /\ FirstAt(plan, k) \in Nat \ {0} /\ SizeAt(plan, k) \in Nat
         /\ FirstAt(plan, k) + SizeAt(plan, k) <= Rows[plan.scans[k[1]]] + 1
<1>1. DOMAIN plan.scans = 1..Len(plan.scans) /\ \A i \in 1..Len(plan.scans) : plan.scans[i] \in Tables
  BY PlanTyped
<1>2. PICK i \in DOMAIN plan.scans : k \in {i} \X (0..(PartitionCount(plan.scans[i]) - 1))
  BY DEF Keys
<1>3. k = <<k[1], k[2]>> /\ k[1] = i /\ k[2] \in 0..(PartitionCount(plan.scans[i]) - 1)
  BY <1>2
<1>4. plan.scans[k[1]] \in Tables /\ k[2] \in 0..(PartitionCount(plan.scans[k[1]]) - 1)
  BY <1>1, <1>2, <1>3
<1> QED
  BY <1>1, <1>2, <1>3, <1>4, PartTyped, PartsEnd DEF FirstAt, SizeAt

(* Partitions of one scan have no row in common.                           *)
LEMMA KeysApart ==
  ASSUME NEW plan \in Plans, NEW k \in Keys(plan), NEW l \in Keys(plan), k[1] = l[1], k # l,
         NEW x \in FirstAt(plan, k)..(FirstAt(plan, k) + SizeAt(plan, k) - 1)
  PROVE  x \notin FirstAt(plan, l)..(FirstAt(plan, l) + SizeAt(plan, l) - 1)
<1> DEFINE t == plan.scans[k[1]]
<1>1. /\ k = <<k[1], k[2]>> /\ l = <<l[1], l[2]>> /\ t \in Tables
      /\ k[2] \in 0..(PartitionCount(t) - 1) /\ l[2] \in 0..(PartitionCount(t) - 1)
  BY KeyTyped, PlanTyped
<1>2. /\ FirstAt(plan, k) = First(t, k[2]) /\ SizeAt(plan, k) = Size(t, k[2])
      /\ FirstAt(plan, l) = First(t, l[2]) /\ SizeAt(plan, l) = Size(t, l[2])
  BY DEF FirstAt, SizeAt
<1>3. k[2] # l[2]
  BY <1>1
<1> HIDE DEF t
<1>4. k[2] < l[2] \/ l[2] < k[2]
  BY <1>1, <1>3, Counted
<1>5. /\ First(t, k[2]) \in Nat /\ Size(t, k[2]) \in Nat
      /\ First(t, l[2]) \in Nat /\ Size(t, l[2]) \in Nat
  BY <1>1, PartTyped
<1>6. \/ First(t, k[2]) + Size(t, k[2]) <= First(t, l[2])
      \/ First(t, l[2]) + Size(t, l[2]) <= First(t, k[2])
  BY <1>1, <1>4, PartsInOrder
<1> QED
  BY <1>2, <1>5, <1>6

LEMMA DividedBegins ==
  ASSUME NEW w, NEW s \in Nat, NEW n \in Nat, Divided(w, s, n)
  PROVE  \E a \in 0..n : w.received = Run(s, a)
<1>1. PICK a, b, c, d \in Nat : a + b + c + d = n /\ w.received = Run(s, a)
  BY DEF Divided
<1> QED
  BY <1>1

LEMMA GoingBegun ==
  ASSUME NEW S, NEW r, Going(S, r)
  PROVE  r.plan \in Plans /\ Begun(S, r.plan)
<1>1. r.plan \in Plans /\ DOMAIN S = Keys(r.plan)
  BY DEF Going
<1>2. ASSUME NEW k \in DOMAIN S
      PROVE  \E a \in 0..SizeAt(r.plan, k) : S[k].received = Run(FirstAt(r.plan, k), a)
  <2>1. FirstAt(r.plan, k) \in Nat /\ SizeAt(r.plan, k) \in Nat
    BY <1>1, KeyTyped
  <2>2. Divided(S[k], FirstAt(r.plan, k), SizeAt(r.plan, k))
    BY DEF Going
  <2> QED
    BY <2>1, <2>2, DividedBegins
<1> QED
  BY <1>1, <1>2 DEF Begun

(* What has been received of a scan are rows of its table.                 *)
LEMMA ReadBounded ==
  ASSUME NEW S, NEW plan \in Plans, Begun(S, plan), NEW i \in 1..Len(plan.scans)
  PROVE  /\ ReadOf(S, i) \subseteq 1..Rows[plan.scans[i]]
         /\ IsFiniteSet(ReadOf(S, i)) /\ Cardinality(ReadOf(S, i)) \in Nat
         /\ Cardinality(ReadOf(S, i)) <= Rows[plan.scans[i]]
<1>1. ASSUME NEW x \in ReadOf(S, i) PROVE x \in 1..Rows[plan.scans[i]]
  <2>1. PICK k \in DOMAIN S : k[1] = i /\ x \in Range(S[k].received)
    BY DEF ReadOf
  <2>2. k \in Keys(plan)
    BY DEF Begun
  <2>3. PICK a \in 0..SizeAt(plan, k) : S[k].received = Run(FirstAt(plan, k), a)
    BY DEF Begun
  <2>4. /\ FirstAt(plan, k) \in Nat \ {0} /\ SizeAt(plan, k) \in Nat
        /\ FirstAt(plan, k) + SizeAt(plan, k) <= Rows[plan.scans[i]] + 1
    BY <2>1, <2>2, KeyTyped
  <2>5. x \in FirstAt(plan, k)..(FirstAt(plan, k) + a - 1)
    <3>1. a \in Nat /\ FirstAt(plan, k) \in Nat
      BY <2>4
    <3>2. Range(Run(FirstAt(plan, k), a)) = FirstAt(plan, k)..(FirstAt(plan, k) + a - 1)
      BY <3>1, RunRange
    <3> QED
      BY <2>1, <2>3, <3>2
  <2>6. Rows[plan.scans[i]] \in Nat
    BY PlanTyped
  <2> QED
    BY <2>3, <2>4, <2>5, <2>6
<1>2. Rows[plan.scans[i]] \in Nat
  BY PlanTyped
<1>3. IsFiniteSet(1..Rows[plan.scans[i]]) /\ Cardinality(1..Rows[plan.scans[i]]) = Rows[plan.scans[i]]
  <2> DEFINE n == Rows[plan.scans[i]]
  <2>1. n \in Nat
    BY <1>2
  <2> HIDE DEF n
  <2>2. IsFiniteSet(1..n) /\ Cardinality(1..n) = IF 1 > n THEN 0 ELSE n - 1 + 1
    BY <2>1, FS_Interval
  <2> QED
    BY <2>1, <2>2 DEF n
<1>4. ReadOf(S, i) \subseteq 1..Rows[plan.scans[i]]
  BY <1>1
<1> QED
  BY <1>3, <1>4, FS_Subset, FS_CardinalityType

LEMMA SameRead ==
  ASSUME NEW S, NEW T, DOMAIN T = DOMAIN S,
         \A k \in DOMAIN S : T[k].received = S[k].received
  PROVE  /\ \A i : ReadOf(T, i) = ReadOf(S, i)
         /\ \A plan : Begun(S, plan) => Begun(T, plan)
<1>1. ASSUME NEW i PROVE ReadOf(T, i) = ReadOf(S, i)
  <2>1. \A x : x \in ReadOf(T, i) <=> x \in ReadOf(S, i)
    BY DEF ReadOf
  <2> QED
    BY <2>1
<1>2. ASSUME NEW plan, Begun(S, plan) PROVE Begun(T, plan)
  BY <1>2 DEF Begun
<1> QED
  BY <1>1, <1>2

(* When every worker is done, every row has come.                          *)
LEMMA AllRead ==
  ASSUME NEW S, NEW r, Going(S, r),
         \A k \in DOMAIN S : S[k].worker = "done" /\ S[k].channel = <<>>
  PROVE  \A i \in 1..Len(r.plan.scans) : ReadOf(S, i) = 1..Rows[r.plan.scans[i]]
<1> DEFINE plan == r.plan
<1>1. plan \in Plans /\ DOMAIN S = Keys(plan) /\ Begun(S, plan)
  BY GoingBegun DEF Going
<1>2. ASSUME NEW k \in DOMAIN S PROVE S[k].received = Run(FirstAt(plan, k), SizeAt(plan, k))
  <2> DEFINE s == FirstAt(plan, k)
             n == SizeAt(plan, k)
  <2>1. s \in Nat /\ n \in Nat
    BY <1>1, KeyTyped
  <2>2. Divided(S[k], s, n)
    BY DEF Going
  <2> HIDE DEF s, n
  <2>3. PICK a, b, c, d \in Nat :
          /\ a + b + c + d = n /\ S[k].received = Run(s, a) /\ S[k].channel = Run(s + a, b)
          /\ S[k].worker # "sending" => c = 0
          /\ S[k].worker = "done" => d = 0
    BY <2>2 DEF Divided
  <2>4. c = 0 /\ d = 0
    BY <2>3
  <2>5. b = 0
    <3>1. s + a \in Nat
      BY <2>1
    <3> QED
      BY <2>3, <3>1, RunTyped
  <2>6. a = n
    BY <2>1, <2>3, <2>4, <2>5
  <2> QED
    BY <2>3, <2>6 DEF s, n
<1>3. ASSUME NEW i \in 1..Len(plan.scans), NEW x \in 1..Rows[plan.scans[i]]
      PROVE  x \in ReadOf(S, i)
  <2> DEFINE t == plan.scans[i]
  <2>1. t \in Tables /\ i \in DOMAIN plan.scans
    BY <1>1, PlanTyped
  <2>2. PICK p \in 0..(PartitionCount(t) - 1) : x \in First(t, p)..(First(t, p) + Size(t, p) - 1)
    BY <2>1, PartsCover
  <2> DEFINE k == <<i, p>>
  <2>3. k \in DOMAIN S /\ k[1] = i /\ k[2] = p
    BY <1>1, <2>1 DEF Keys
  <2>4. S[k].received = Run(First(t, p), Size(t, p))
    BY <1>2, <2>3 DEF FirstAt, SizeAt
  <2>5. First(t, p) \in Nat /\ Size(t, p) \in Nat
    BY <2>1, PartTyped
  <2>6. x \in Range(S[k].received)
    BY <2>2, <2>4, <2>5, RunRange
  <2> HIDE DEF k
  <2> QED
    BY <2>3, <2>6 DEF ReadOf
<1>4. \A i \in 1..Len(plan.scans) : ReadOf(S, i) \subseteq 1..Rows[plan.scans[i]]
  BY <1>1, ReadBounded
<1> QED
  BY <1>3, <1>4

(* A batch that is taken out of the channel: its rows are new.             *)
Takes(w, v) ==
  /\ v.received = w.received \o w.channel /\ v.channel = <<>>
  /\ v.worker = w.worker /\ v.sending = w.sending /\ v.rest = w.rest
Grown(w, v, s, n) ==
  \E a, b \in Nat :
    /\ a + b <= n /\ Len(w.channel) = b
    /\ Range(w.received) = s..(s + a - 1)
    /\ Range(w.channel) = (s + a)..(s + a + b - 1)
    /\ Range(v.received) = s..(s + a + b - 1)
Taking(S, T, k) ==
  /\ DOMAIN T = DOMAIN S /\ Takes(S[k], T[k])
  /\ \A j \in DOMAIN S : j # k => T[j] = S[j]

LEMMA TakenDivides ==
  ASSUME NEW w, NEW v, NEW s \in Nat, NEW n \in Nat, Divided(w, s, n), Takes(w, v)
  PROVE  Divided(v, s, n) /\ Grown(w, v, s, n)
<1>0. /\ v.received = w.received \o w.channel /\ v.channel = <<>>
      /\ v.worker = w.worker /\ v.sending = w.sending /\ v.rest = w.rest
  BY DEF Takes
<1>1. PICK a, b, c, d \in Nat :
        /\ a + b + c + d = n
        /\ w.received = Run(s, a) /\ w.channel = Run(s + a, b)
        /\ w.sending = Run(s + a + b, c) /\ w.rest = Run(s + a + b + c, d)
        /\ w.worker # "sending" => c = 0
        /\ w.worker = "done" => d = 0
  BY DEF Divided
<1>2. /\ s + a \in Nat /\ a + b \in Nat /\ s + (a + b) = s + a + b /\ a + b <= n
      /\ s + (a + b) + 0 = s + a + b /\ (a + b) + 0 + c + d = n
  BY <1>1
<1>3. v.received = Run(s, a + b)
  <2>1. Run(s, a) \o Run(s + a, b) = Run(s, a + b)
    BY RunsJoin
  <2> QED
    BY <1>0, <1>1, <2>1, Zenon
<1>4. v.channel = Run(s + (a + b), 0)
  <2>1. s + (a + b) \in Nat /\ 0 \in Nat
    OBVIOUS
  <2> QED
    BY <1>0, <2>1, RunTyped
<1>5. /\ v.sending = Run(s + (a + b) + 0, c) /\ v.rest = Run(s + (a + b) + 0 + c, d)
  BY <1>0, <1>1, <1>2
<1>6. Divided(v, s, n)
  <2> DEFINE e == a + b
  <2>1. /\ e \in Nat /\ e + 0 + c + d = n
        /\ v.received = Run(s, e) /\ v.channel = Run(s + e, 0)
        /\ v.sending = Run(s + e + 0, c) /\ v.rest = Run(s + e + 0 + c, d)
        /\ v.worker # "sending" => c = 0
        /\ v.worker = "done" => d = 0
    BY <1>0, <1>1, <1>2, <1>3, <1>4, <1>5
  <2>2. 0 \in Nat
    OBVIOUS
  <2> HIDE DEF e
  <2> QED
    BY <2>1, <2>2 DEF Divided
<1>7. /\ Range(w.received) = s..(s + a - 1) /\ Len(w.channel) = b
      /\ Range(w.channel) = (s + a)..(s + a + b - 1)
      /\ Range(v.received) = s..(s + a + b - 1)
  <2>1. Range(Run(s, a)) = s..(s + a - 1)
    BY RunRange
  <2>2. Range(Run(s + a, b)) = (s + a)..(s + a + b - 1) /\ Len(Run(s + a, b)) = b
    BY <1>2, RunRange, RunTyped
  <2>3. Range(Run(s, a + b)) = s..(s + (a + b) - 1) 
    BY <1>2, RunRange
  <2>4. s + (a + b) - 1 = s + a + b - 1
    BY <1>1
  <2> QED
    BY <1>1, <1>3, <2>1, <2>2, <2>3, <2>4, Zenon
<1> QED
  BY <1>1, <1>2, <1>6, <1>7, Zenon DEF Grown

LEMMA Taken ==
  ASSUME NEW S, NEW T, NEW r, Going(S, r), NEW k \in DOMAIN S, Taking(S, T, k)
  PROVE  /\ \A j \in DOMAIN T : Divided(T[j], FirstAt(r.plan, j), SizeAt(r.plan, j))
         /\ Begun(T, r.plan)
         /\ Len(S[k].channel) \in Nat
         /\ \A i : i # k[1] => ReadOf(T, i) = ReadOf(S, i)
         /\ Cardinality(ReadOf(T, k[1])) = Cardinality(ReadOf(S, k[1])) + Len(S[k].channel)
<1> DEFINE plan == r.plan
           s == FirstAt(plan, k)
           n == SizeAt(plan, k)
<1>1. plan \in Plans /\ Begun(S, plan) /\ DOMAIN S = Keys(plan)
  BY GoingBegun DEF Going
<1>2. s \in Nat \ {0} /\ n \in Nat
  BY <1>1, KeyTyped
<1>3. Divided(T[k], s, n) /\ Grown(S[k], T[k], s, n)
  <2>1. Divided(S[k], s, n) /\ Takes(S[k], T[k])
    BY DEF Going, Taking
  <2> HIDE DEF s, n
  <2> QED
    BY <1>2, <2>1, TakenDivides
<1>4. \A j \in DOMAIN T : Divided(T[j], FirstAt(plan, j), SizeAt(plan, j))
  BY <1>3 DEF Taking, Going
<1>5. ASSUME NEW j \in DOMAIN T
      PROVE  \E a \in 0..SizeAt(plan, j) : T[j].received = Run(FirstAt(plan, j), a)
  <2>1. j \in Keys(plan)
    BY <1>1 DEF Taking
  <2>2. FirstAt(plan, j) \in Nat /\ SizeAt(plan, j) \in Nat
    BY <1>1, <2>1, KeyTyped
  <2> QED
    BY <1>4, <2>2, DividedBegins
<1>6. Begun(T, plan)
  BY <1>1, <1>5 DEF Begun, Taking
<1>7. ASSUME NEW i, i # k[1] PROVE ReadOf(T, i) = ReadOf(S, i)
  <2>1. \A x : x \in ReadOf(T, i) <=> x \in ReadOf(S, i)
    BY <1>7 DEF ReadOf, Taking
  <2> QED
    BY <2>1
<1>8. PICK a \in Nat, b \in Nat :
        /\ a + b <= n /\ Len(S[k].channel) = b
        /\ Range(S[k].received) = s..(s + a - 1)
        /\ Range(S[k].channel) = (s + a)..(s + a + b - 1)
        /\ Range(T[k].received) = s..(s + a + b - 1)
  BY <1>3, Zenon DEF Grown
<1> DEFINE new == (s + a)..(s + a + b - 1)
           i == k[1]
<1>9. ReadOf(T, i) = ReadOf(S, i) \cup new
  <2>1. \A x : x \in Range(T[k].received) <=> x \in Range(S[k].received) \/ x \in new
    <3> HIDE DEF s, n
    <3> QED
      BY <1>2, <1>8
  <2>2. ASSUME NEW x PROVE x \in ReadOf(T, i) <=> x \in ReadOf(S, i) \/ x \in new
    <3>1. \A y, j : y \in ReadOf(T, i) <=> \E l \in DOMAIN S : l[1] = i /\ y \in Range(T[l].received)
      BY DEF ReadOf, Taking
    <3>2. \A y : y \in ReadOf(S, i) <=> \E l \in DOMAIN S : l[1] = i /\ y \in Range(S[l].received)
      BY DEF ReadOf
    <3>3. \A l \in DOMAIN S : l # k => T[l] = S[l]
      BY DEF Taking
    <3> HIDE DEF new
    <3> QED
      BY <2>1, <3>1, <3>2, <3>3
  <2> HIDE DEF new, i
  <2> QED
    BY <2>2
<1>10. ReadOf(S, i) \cap new = {}
  <2> SUFFICES ASSUME NEW x \in ReadOf(S, i), x \in new PROVE FALSE
    OBVIOUS
  <2>1. PICK l \in DOMAIN S : l[1] = i /\ x \in Range(S[l].received)
    BY DEF ReadOf
  <2>2. x \in s..(s + n - 1)
    <3> HIDE DEF s, n
    <3> QED
      BY <1>2, <1>8
  <2>3. CASE l = k
    <3>1. x \in s..(s + a - 1)
      BY <1>8, <2>1, <2>3
    <3> HIDE DEF s, n
    <3> QED
      BY <1>2, <1>8, <3>1
  <2>4. CASE l # k
    <3>1. PICK e \in 0..SizeAt(plan, l) : S[l].received = Run(FirstAt(plan, l), e)
      BY <1>1 DEF Begun
    <3>2. FirstAt(plan, l) \in Nat /\ SizeAt(plan, l) \in Nat /\ e \in Nat
      BY <1>1, KeyTyped
    <3>3. x \in FirstAt(plan, l)..(FirstAt(plan, l) + e - 1)
      BY <2>1, <3>1, <3>2, RunRange
    <3>4. x \in FirstAt(plan, l)..(FirstAt(plan, l) + SizeAt(plan, l) - 1)
      BY <3>1, <3>2, <3>3
    <3> QED
      BY <1>1, <2>1, <2>2, <2>4, <3>4, KeysApart
  <2> QED
    BY <2>3, <2>4
<1>11. IsFiniteSet(ReadOf(S, i)) /\ Cardinality(ReadOf(S, i)) \in Nat
  <2>1. i \in 1..Len(plan.scans)
    BY <1>1, KeyTyped
  <2> QED
    BY <1>1, <2>1, ReadBounded
<1>12. IsFiniteSet(new) /\ Cardinality(new) = b
  <2>1. s + a \in Nat
    BY <1>2
  <2> QED
    BY <2>1, RunCount
<1>13. Cardinality(ReadOf(T, i)) = Cardinality(ReadOf(S, i)) + b
  <2> HIDE DEF new, i
  <2>1. Cardinality(ReadOf(S, i) \cup new) = Cardinality(ReadOf(S, i)) + Cardinality(new) - Cardinality({})
    BY <1>10, <1>11, <1>12, FS_Union
  <2>2. Cardinality({}) = 0
    BY FS_EmptySet
  <2> QED
    BY <1>9, <1>11, <1>12, <2>1, <2>2
<1> QED
  BY <1>4, <1>6, <1>7, <1>8, <1>13

KeepsDivided(w, v) == \A s, n \in Nat : Divided(w, s, n) => Divided(v, s, n)

LEMMA OnlyWorker ==
  ASSUME NEW w \in Stream, NEW phase \in Workers \ {"done"}, w.worker # "sending"
  PROVE  LET v == [w EXCEPT !.worker = phase] IN
         v \in Stream /\ v.received = w.received /\ KeepsDivided(w, v)
<1> DEFINE v == [w EXCEPT !.worker = phase]
<1>1. v \in Stream
  BY DEF Stream
<1>2. /\ v.worker = phase /\ v.received = w.received /\ v.channel = w.channel
      /\ v.sending = w.sending /\ v.rest = w.rest
  BY DEF Stream
<1> HIDE DEF v
<1>3. ASSUME NEW s \in Nat, NEW n \in Nat, Divided(w, s, n) PROVE Divided(v, s, n)
  <2>1. PICK a, b, c, d \in Nat :
          /\ a + b + c + d = n
          /\ w.received = Run(s, a) /\ w.channel = Run(s + a, b)
          /\ w.sending = Run(s + a + b, c) /\ w.rest = Run(s + a + b + c, d)
          /\ w.worker # "sending" => c = 0
    BY <1>3 DEF Divided
  <2>2. c = 0 /\ v.worker # "done"
    BY <1>2, <2>1
  <2> QED
    BY <1>2, <2>1, <2>2 DEF Divided
<1> QED
  BY <1>1, <1>2, <1>3 DEF KeepsDivided, v

LEMMA LastBatch ==
  ASSUME NEW w \in Stream, w.worker = "making", w.rest = <<>>
  PROVE  LET v == [w EXCEPT !.worker = "done"] IN
         v \in Stream /\ v.received = w.received /\ KeepsDivided(w, v)
<1> DEFINE v == [w EXCEPT !.worker = "done"]
<1>1. v \in Stream
  BY DEF Stream, Workers
<1>2. /\ v.worker = "done" /\ v.received = w.received /\ v.channel = w.channel
      /\ v.sending = w.sending /\ v.rest = w.rest
  BY DEF Stream
<1> HIDE DEF v
<1>3. ASSUME NEW s \in Nat, NEW n \in Nat, Divided(w, s, n) PROVE Divided(v, s, n)
  <2>1. PICK a, b, c, d \in Nat :
          /\ a + b + c + d = n
          /\ w.received = Run(s, a) /\ w.channel = Run(s + a, b)
          /\ w.sending = Run(s + a + b, c) /\ w.rest = Run(s + a + b + c, d)
          /\ w.worker # "sending" => c = 0
    BY <1>3 DEF Divided
  <2>2. c = 0
    BY <2>1
  <2>3. d = 0
    <3>1. s + a + b + c \in Nat
      BY <2>1
    <3> QED
      BY <2>1, <3>1, RunTyped
  <2> QED
    BY <1>2, <2>1, <2>2, <2>3 DEF Divided
<1> QED
  BY <1>1, <1>2, <1>3 DEF KeepsDivided, v

(* A batch is cut off the rows that are left.                              *)
LEMMA NextBatch ==
  ASSUME NEW w \in Stream, w.worker = "making"
  PROVE  LET batch == SubSeq(w.rest, 1, Min({BatchSize, Len(w.rest)}))
             v == [w EXCEPT !.worker = "sending", !.sending = batch,
                            !.rest = SubSeq(w.rest, Len(batch) + 1, Len(w.rest))] IN
         v \in Stream /\ v.received = w.received /\ KeepsDivided(w, v)
<1> DEFINE rest == w.rest
           m == Min({BatchSize, Len(rest)})
           batch == SubSeq(rest, 1, m)
           left == SubSeq(rest, Len(batch) + 1, Len(rest))
           v == [w EXCEPT !.worker = "sending", !.sending = batch, !.rest = left]
<1>1. rest \in Seq(Nat) /\ Len(rest) \in Nat /\ \A i \in 1..Len(rest) : rest[i] \in Nat
  BY SeqTyped DEF Stream
<1>2. m \in 0..Len(rest)
  BY <1>1, MinOf, SizesAssumption
<1>3. batch \in Seq(Nat) /\ Len(batch) = m
  <2> HIDE DEF m, rest
  <2>1. \A i \in 1..m : rest[i] \in Nat
    BY <1>1, <1>2
  <2> QED
    BY <1>1, <1>2, <2>1, SubSeqProperties
<1>4. left \in Seq(Nat)
  <2> HIDE DEF m, rest, batch
  <2>1. \A i \in (Len(batch) + 1)..Len(rest) : rest[i] \in Nat
    BY <1>1, <1>2, <1>3
  <2>2. Len(batch) + 1 \in Int /\ Len(rest) \in Int
    BY <1>1, <1>2, <1>3
  <2> QED
    BY <2>1, <2>2, SubSeqProperties
<1> HIDE DEF batch, left
<1>5. v \in Stream
  BY <1>3, <1>4 DEF Stream, Workers
<1>6. /\ v.worker = "sending" /\ v.received = w.received /\ v.channel = w.channel
      /\ v.sending = batch /\ v.rest = left
  BY DEF Stream
<1> HIDE DEF v
<1>7. ASSUME NEW s \in Nat, NEW n \in Nat, Divided(w, s, n) PROVE Divided(v, s, n)
  <2>1. PICK a, b, c, d \in Nat :
          /\ a + b + c + d = n
          /\ w.received = Run(s, a) /\ w.channel = Run(s + a, b)
          /\ w.sending = Run(s + a + b, c) /\ rest = Run(s + a + b + c, d)
          /\ w.worker # "sending" => c = 0
    BY <1>7 DEF Divided
  <2>2. c = 0 /\ s + a + b \in Nat /\ s + a + b + c = s + a + b
    BY <2>1
  <2>3. rest = Run(s + a + b, d) /\ Len(rest) = d
    BY <2>1, <2>2, RunTyped
  <2> HIDE DEF rest, m
  <2>4. m \in 0..d
    BY <1>2, <2>3
  <2>5. batch = Run(s + a + b, m) /\ left = Run(s + a + b + m, d - m)
    <3>1. batch = SubSeq(rest, 1, m) /\ left = SubSeq(rest, m + 1, d)
      BY <1>3, <2>3 DEF batch, left
    <3> QED
      BY <2>2, <2>3, <2>4, <3>1, RunsCut
  <2>6. m \in Nat /\ d - m \in Nat /\ a + b + m + (d - m) = n
    BY <2>1, <2>2, <2>4
  <2> DEFINE e == d - m
  <2>7. e \in Nat /\ a + b + m + e = n /\ left = Run(s + a + b + m, e)
    BY <2>5, <2>6
  <2> HIDE DEF e
  <2> QED
    BY <1>6, <2>1, <2>5, <2>6, <2>7 DEF Divided
<1> QED
  BY <1>5, <1>6, <1>7 DEF KeepsDivided, v, batch, left

LEMMA BatchSent ==
  ASSUME NEW w \in Stream, w.worker = "sending", w.channel = <<>>
  PROVE  LET v == [w EXCEPT !.worker = "making", !.channel = w.sending, !.sending = <<>>] IN
         v \in Stream /\ v.received = w.received /\ KeepsDivided(w, v)
<1> DEFINE v == [w EXCEPT !.worker = "making", !.channel = w.sending, !.sending = <<>>]
<1>0. <<>> \in Seq(Nat) /\ w.sending \in Seq(Nat)
  BY EmptySeq DEF Stream
<1>1. v \in Stream
  BY <1>0 DEF Stream, Workers
<1>2. /\ v.worker = "making" /\ v.received = w.received /\ v.channel = w.sending
      /\ v.sending = <<>> /\ v.rest = w.rest
  BY DEF Stream
<1> HIDE DEF v
<1>3. ASSUME NEW s \in Nat, NEW n \in Nat, Divided(w, s, n) PROVE Divided(v, s, n)
  <2>1. PICK a, b, c, d \in Nat :
          /\ a + b + c + d = n
          /\ w.received = Run(s, a) /\ w.channel = Run(s + a, b)
          /\ w.sending = Run(s + a + b, c) /\ w.rest = Run(s + a + b + c, d)
    BY <1>3 DEF Divided
  <2>2. b = 0
    <3>1. s + a \in Nat
      BY <2>1
    <3> QED
      BY <2>1, <3>1, RunTyped
  <2>3. s + a + c \in Nat /\ s + a + b = s + a /\ s + a + b + c = s + a + c + 0 /\ a + c + 0 + d = n
    BY <2>1, <2>2
  <2>4. v.sending = Run(s + a + c, 0) /\ 0 \in Nat
    BY <1>2, <2>3, RunTyped
  <2>5. v.channel = Run(s + a, c) /\ v.rest = Run(s + a + c + 0, d)
    BY <1>2, <2>1, <2>3
  <2> QED
    BY <1>2, <2>1, <2>3, <2>4, <2>5 DEF Divided
<1> QED
  BY <1>1, <1>2, <1>3 DEF KeepsDivided, v

(* The worker of a query that no longer runs ends.                         *)
LEMMA EndedTyped ==
  ASSUME NEW w \in Stream
  PROVE  /\ [w EXCEPT !.worker = "done"] \in Stream
         /\ [w EXCEPT !.worker = "done"].received = w.received
         /\ [w EXCEPT !.worker = "done", !.sending = <<>>] \in Stream
         /\ [w EXCEPT !.worker = "done", !.sending = <<>>].received = w.received
<1>1. <<>> \in Seq(Nat)
  BY EmptySeq
<1> QED
  BY <1>1 DEF Stream, Workers

-----------------------------------------------------------------------------

LEMMA WorkerKeeps ==
  ASSUME NEW S, NEW r, Answers(S, r), NEW k \in DOMAIN S, NEW v \in Stream,
         v.received = S[k].received,
         r.phase = "running" => KeepsDivided(S[k], v)
  PROVE  Answers([S EXCEPT ![k] = v], r)
<1> DEFINE T == [S EXCEPT ![k] = v]
<1>1. /\ S = [j \in DOMAIN S |-> S[j]] /\ \A j \in DOMAIN S : S[j] \in Stream
      /\ r \in Query /\ r.phase = "idle" => r.total = 0 /\ r.shown = 0
  BY DEF Answers
<1>2. /\ T = [j \in DOMAIN T |-> T[j]] /\ DOMAIN T = DOMAIN S
      /\ \A j \in DOMAIN T : T[j] = IF j = k THEN v ELSE S[j]
  BY <1>1
<1> HIDE DEF T
<1>3. \A j \in DOMAIN T : T[j] \in Stream
  BY <1>1, <1>2
<1>4. /\ \A i : ReadOf(T, i) = ReadOf(S, i)
      /\ \A plan : Begun(S, plan) => Begun(T, plan)
  <2>1. \A j \in DOMAIN S : T[j].received = S[j].received
    BY <1>2
  <2> QED
    BY <1>2, <2>1, SameRead
<1>5. ASSUME r.phase = "running" PROVE Going(T, r)
  <2>1. Going(S, r) /\ KeepsDivided(S[k], v)
    BY <1>5 DEF Answers
  <2>2. r.plan \in Plans /\ DOMAIN S = Keys(r.plan)
    BY <2>1 DEF Going
  <2>3. ASSUME NEW j \in DOMAIN T PROVE Divided(T[j], FirstAt(r.plan, j), SizeAt(r.plan, j))
    <3>1. FirstAt(r.plan, j) \in Nat /\ SizeAt(r.plan, j) \in Nat
      BY <1>2, <2>2, KeyTyped
    <3>2. Divided(S[j], FirstAt(r.plan, j), SizeAt(r.plan, j))
      BY <1>2, <2>1 DEF Going
    <3> QED
      BY <1>2, <2>1, <3>1, <3>2 DEF KeepsDivided
  <2> QED
    BY <1>2, <1>4, <2>1, <2>3 DEF Going
<1>6. ASSUME r.phase = "ended" PROVE Answer(T, r)
  BY <1>4, <1>6 DEF Answers, Answer
<1> QED
  BY <1>1, <1>2, <1>3, <1>5, <1>6 DEF Answers, T

AnswersInv ==
  /\ query = [q \in Queries |-> query[q]] /\ stream = [q \in Queries |-> stream[q]]
  /\ \A q \in Queries : Answers(stream[q], query[q])

LEMMA OnlyOne ==
  ASSUME AnswersInv, NEW q \in Queries, NEW T, NEW r, Answers(T, r),
         stream' = [stream EXCEPT ![q] = T], query' = [query EXCEPT ![q] = r]
  PROVE  AnswersInv'
<1>1. query = [p \in Queries |-> query[p]] /\ stream = [p \in Queries |-> stream[p]]
  BY DEF AnswersInv
<1>2. /\ query' = [p \in Queries |-> query'[p]] /\ stream' = [p \in Queries |-> stream'[p]]
      /\ \A p \in Queries : /\ query'[p] = IF p = q THEN r ELSE query[p]
                            /\ stream'[p] = IF p = q THEN T ELSE stream[p]
  BY <1>1
<1>3. ASSUME NEW p \in Queries PROVE Answers(stream'[p], query'[p])
  BY <1>2 DEF AnswersInv
<1>4. \A p \in Queries : Answers(stream[p], query[p])'
  BY <1>3
<1> QED
  BY <1>2, <1>4 DEF AnswersInv

(* A step of a worker changes its stream only, and loses no row of a query *)
(* that runs.                                                              *)
LEMMA WorkerSteps ==
  ASSUME AnswersInv, NEW q \in Queries, NEW k, WorkerStep(q, k)
  PROVE  AnswersInv'
<1> DEFINE S == stream[q]
           w == S[k]
<1>1. k \in DOMAIN S /\ w \in Stream /\ Answers(S, query[q]) /\ query = [p \in Queries |-> query[p]]
      /\ stream = [p \in Queries |-> stream[p]]
  BY DEF WorkerStep, AnswersInv, Answers
<1>2. ASSUME NEW v \in Stream, v.received = w.received, Running(q) => KeepsDivided(w, v),
             stream' = [stream EXCEPT ![q] = [S EXCEPT ![k] = v]], query' = query
      PROVE  AnswersInv'
  <2>1. query[q].phase = "running" => KeepsDivided(w, v)
    BY <1>2 DEF Running
  <2>2. Answers([S EXCEPT ![k] = v], query[q])
    BY <1>1, <1>2, <2>1, WorkerKeeps
  <2>3. query' = [query EXCEPT ![q] = query[q]]
    BY <1>1, <1>2
  <2> DEFINE T == [S EXCEPT ![k] = v]
  <2> HIDE DEF T
  <2> QED
    BY <1>2, <2>2, <2>3, OnlyOne DEF T
<1>3. ASSUME NEW v, stream' = [stream EXCEPT ![q][k] = v]
      PROVE  stream' = [stream EXCEPT ![q] = [S EXCEPT ![k] = v]]
  BY <1>3
<1>4. CASE StartWorker(q, k)
  <2> DEFINE v == [w EXCEPT !.worker = "started"]
  <2>1. /\ w.worker = "queued" /\ query' = query
        /\ stream' = [stream EXCEPT ![q] = [S EXCEPT ![k] = v]]
    BY <1>4 DEF StartWorker, Is
  <2>2. v \in Stream /\ v.received = w.received /\ KeepsDivided(w, v)
    <3>1. "started" \in Workers \ {"done"}
      BY DEF Workers
    <3> QED
      BY <1>1, <2>1, <3>1, OnlyWorker
  <2> HIDE DEF v
  <2> QED
    BY <1>2, <2>1, <2>2
<1>5. CASE Initialize(q, k)
  <2> DEFINE v == [w EXCEPT !.worker = IF Running(q) THEN "making" ELSE "done"]
  <2>1. /\ w.worker = "started" /\ query' = query
        /\ stream' = [stream EXCEPT ![q] = [S EXCEPT ![k] = v]]
    BY <1>5 DEF Initialize, Is
  <2>2. v \in Stream /\ v.received = w.received /\ (Running(q) => KeepsDivided(w, v))
    <3>1. CASE Running(q)
      <4>1. v = [w EXCEPT !.worker = "making"] /\ "making" \in Workers \ {"done"}
        BY <3>1 DEF Workers
      <4> HIDE DEF v
      <4> QED
        BY <1>1, <2>1, <4>1, OnlyWorker
    <3>2. CASE ~Running(q)
      <4>1. v = [w EXCEPT !.worker = "done"]
        BY <3>2
      <4> HIDE DEF v
      <4> QED
        BY <1>1, <3>2, <4>1, EndedTyped
    <3> QED
      BY <3>1, <3>2
  <2> HIDE DEF v
  <2> QED
    BY <1>2, <2>1, <2>2
<1>6. CASE Generate(q, k)
  <2> DEFINE batch == SubSeq(w.rest, 1, Min({BatchSize, Len(w.rest)}))
             left == SubSeq(w.rest, Len(batch) + 1, Len(w.rest))
             v == IF ~Running(q) \/ w.rest = <<>> THEN [w EXCEPT !.worker = "done"]
                  ELSE [w EXCEPT !.worker = "sending", !.sending = batch, !.rest = left]
  <2>1. /\ w.worker = "making" /\ query' = query
        /\ stream' = [stream EXCEPT ![q] = [S EXCEPT ![k] = v]]
    BY <1>6 DEF Generate, Is
  <2>2. v \in Stream /\ v.received = w.received /\ (Running(q) => KeepsDivided(w, v))
    <3>1. CASE ~Running(q)
      BY <1>1, <3>1, EndedTyped
    <3>2. CASE Running(q) /\ w.rest = <<>>
      BY <1>1, <2>1, <3>2, LastBatch
    <3>3. CASE Running(q) /\ w.rest # <<>>
      BY <1>1, <2>1, <3>3, NextBatch
    <3> QED
      BY <3>1, <3>2, <3>3
  <2> HIDE DEF v
  <2> QED
    BY <1>2, <2>1, <2>2
<1>7. CASE GeneratorFails(q, k)
  <2> DEFINE v == [w EXCEPT !.worker = "failed"]
  <2>1. /\ w.worker \in {"started", "making"} /\ query' = query
        /\ stream' = [stream EXCEPT ![q] = [S EXCEPT ![k] = v]]
    BY <1>7 DEF GeneratorFails, Is, Failure
  <2>2. v \in Stream /\ v.received = w.received /\ KeepsDivided(w, v)
    <3>1. "failed" \in Workers \ {"done"} /\ w.worker # "sending"
      BY <2>1 DEF Workers
    <3> QED
      BY <1>1, <2>1, <3>1, OnlyWorker
  <2> HIDE DEF v
  <2> QED
    BY <1>2, <2>1, <2>2
<1>8. CASE Send(q, k)
  <2>1. CASE ~Running(q)
    <3> DEFINE v == [w EXCEPT !.worker = "done", !.sending = <<>>]
    <3>1. query' = query /\ stream' = [stream EXCEPT ![q] = [S EXCEPT ![k] = v]]
      BY <1>8, <2>1 DEF Send
    <3>2. v \in Stream /\ v.received = w.received
      BY <1>1, EndedTyped
    <3> HIDE DEF v
    <3> QED
      BY <1>2, <2>1, <3>1, <3>2
  <2>2. CASE Running(q)
    <3> DEFINE v == [w EXCEPT !.worker = "making", !.channel = w.sending, !.sending = <<>>]
    <3>1. /\ w.worker = "sending" /\ w.channel = <<>> /\ query' = query
          /\ stream' = [stream EXCEPT ![q] = [S EXCEPT ![k] = v]]
      BY <1>8, <2>2 DEF Send, Is
    <3>2. v \in Stream /\ v.received = w.received /\ KeepsDivided(w, v)
      BY <1>1, <3>1, BatchSent
    <3> HIDE DEF v
    <3> QED
      BY <1>2, <3>1, <3>2
  <2> QED
    BY <2>1, <2>2
<1> QED
  BY <1>4, <1>5, <1>6, <1>7, <1>8 DEF WorkerStep

-----------------------------------------------------------------------------

LEMMA DroppedTyped ==
  ASSUME NEW S, \A k \in DOMAIN S : S[k] \in Stream, NEW phase
  PROVE  LET T == Dropped(S, phase) IN
         /\ T = [k \in DOMAIN T |-> T[k]] /\ DOMAIN T = DOMAIN S
         /\ \A k \in DOMAIN T : T[k] \in Stream
         /\ phase = "ended" => \A k \in DOMAIN S : T[k].received = S[k].received
<1> DEFINE T == Dropped(S, phase)
<1>1. <<>> \in Seq(Nat)
  BY EmptySeq
<1>2. T = [k \in DOMAIN T |-> T[k]] /\ DOMAIN T = DOMAIN S
  BY DEF Dropped
<1>3. ASSUME NEW k \in DOMAIN S
      PROVE  T[k] \in Stream /\ (phase = "ended" => T[k].received = S[k].received)
  <2>1. S[k].worker \in Workers /\ S[k].received \in Seq(Nat)
    BY DEF Stream
  <2>2. T[k] = [worker |-> IF S[k].worker = "queued" THEN "aborted" ELSE S[k].worker,
                rest |-> <<>>, sending |-> <<>>, channel |-> <<>>,
                received |-> IF phase = "ended" THEN S[k].received ELSE <<>>]
    BY DEF Dropped
  <2>3. (IF S[k].worker = "queued" THEN "aborted" ELSE S[k].worker) \in Workers
    BY <2>1 DEF Workers
  <2>4. (IF phase = "ended" THEN S[k].received ELSE <<>>) \in Seq(Nat)
    BY <1>1, <2>1
  <2> HIDE DEF T
  <2> QED
    BY <1>1, <2>2, <2>3, <2>4 DEF Stream
<1> QED
  BY <1>2, <1>3

LEMMA Leaves ==
  ASSUME NEW S, NEW r, Answers(S, r), NEW phase \in {"failed", "dropped"}
  PROVE  Answers(Dropped(S, phase), [phase |-> phase, plan |-> r.plan, total |-> 0, shown |-> 0])
<1> DEFINE T == Dropped(S, phase)
           u == [phase |-> phase, plan |-> r.plan, total |-> 0, shown |-> 0]
<1>1. T = [k \in DOMAIN T |-> T[k]] /\ \A k \in DOMAIN T : T[k] \in Stream
  BY DroppedTyped DEF Answers
<1>2. u \in Query /\ u.phase \in {"failed", "dropped"}
  BY DEF Answers, Query
<1> HIDE DEF T, u
<1>3. Answers(T, u)
  BY <1>1, <1>2 DEF Answers
<1> QED
  BY <1>3 DEF T, u

LEMMA ReadToTheEnd ==
  ASSUME NEW S, NEW r, Answers(S, r), r.phase = "running",
         \A k \in DOMAIN S : S[k].worker = "done" /\ S[k].channel = <<>>
  PROVE  Answers(Dropped(S, "ended"), [r EXCEPT !.phase = "ended"])
<1> DEFINE T == Dropped(S, "ended")
           u == [r EXCEPT !.phase = "ended"]
           plan == r.plan
           last == Len(plan.scans)
<1>1. /\ T = [k \in DOMAIN T |-> T[k]] /\ DOMAIN T = DOMAIN S /\ \A k \in DOMAIN T : T[k] \in Stream
      /\ \A k \in DOMAIN S : T[k].received = S[k].received
  BY DroppedTyped DEF Answers
<1>2. /\ u \in Query /\ u.phase = "ended" /\ u.plan = plan /\ u.total = r.total /\ u.shown = r.shown
      /\ r.total \in Nat
  BY DEF Answers, Query
<1>3. Going(S, r) /\ plan \in Plans /\ Begun(S, plan)
  BY GoingBegun DEF Answers
<1> HIDE DEF T, u
<1>4. \A i : ReadOf(T, i) = ReadOf(S, i)
  BY <1>1, SameRead
<1>5. Begun(T, plan)
  BY <1>1, <1>3, SameRead
<1>6. /\ last \in Nat \ {0} /\ DOMAIN plan.scans = 1..last /\ RowsOf(plan) \in Nat
      /\ plan.limit \in Nat \cup {None}
  BY <1>3, PlanTyped DEF RowsOf
<1>7. \A i \in DOMAIN plan.scans : ReadOf(T, i) = 1..Rows[plan.scans[i]]
  BY <1>3, <1>4, <1>6, AllRead
<1>8. r.total = RowsOf(plan)
  <2>1. r.total = Cardinality(ReadOf(S, last))
    BY <1>3 DEF Going
  <2>2. ReadOf(S, last) = 1..RowsOf(plan)
    BY <1>4, <1>6, <1>7 DEF RowsOf
  <2>3. Cardinality(1..RowsOf(plan)) = IF 1 > RowsOf(plan) THEN 0 ELSE RowsOf(plan) - 1 + 1
    <3> DEFINE n == RowsOf(plan)
    <3>1. n \in Int /\ 1 \in Int
      BY <1>6
    <3> HIDE DEF n
    <3>2. Cardinality(1..n) = IF 1 > n THEN 0 ELSE n - 1 + 1
      BY <3>1, FS_Interval
    <3> QED
      BY <3>2 DEF n
  <2> QED
    BY <1>6, <2>1, <2>2, <2>3
<1>9. plan.limit # None => r.total < plan.limit
  BY <1>3 DEF Going
<1>10. plan.limit # None => Min({plan.limit, RowsOf(plan)}) = r.total
  BY <1>2, <1>6, <1>8, <1>9, MinOf
<1>11. Answer(T, u)
  <2>1. u.shown = Min({u.total, plan.shown})
    BY <1>2, <1>3 DEF Going
  <2> QED
    BY <1>2, <1>3, <1>5, <1>7, <1>8, <1>10, <2>1 DEF Answer
<1>12. Answers(T, u)
  BY <1>1, <1>2, <1>11 DEF Answers
<1> QED
  BY <1>12 DEF T, u

LEMMA StreamMade ==
  ASSUME NEW s \in Nat, NEW n \in Nat
  PROVE  LET w == [worker |-> "queued", rest |-> Run(s, n), sending |-> <<>>, channel |-> <<>>,
                   received |-> <<>>] IN
         w \in Stream /\ Divided(w, s, n) /\ Range(w.received) = {}
<1> DEFINE w == [worker |-> "queued", rest |-> Run(s, n), sending |-> <<>>, channel |-> <<>>,
                 received |-> <<>>]
<1>1. Run(s, n) \in Seq(Nat) /\ <<>> \in Seq(Nat)
  BY RunTyped, EmptySeq
<1>2. w \in Stream
  BY <1>1 DEF Stream, Workers
<1>3. Run(s, 0) = <<>> /\ s + 0 = s
  BY RunTyped
<1>4. /\ 0 \in Nat /\ 0 + 0 + 0 + n = n /\ s + 0 + 0 = s /\ s + 0 + 0 + 0 = s
      /\ w.received = Run(s, 0) /\ w.channel = Run(s + 0, 0) /\ w.sending = Run(s + 0 + 0, 0)
      /\ w.rest = Run(s + 0 + 0 + 0, n) /\ w.worker = "queued"
  BY <1>3
<1> HIDE DEF w
<1>5. Divided(w, s, n)
  BY <1>4 DEF Divided
<1>6. Range(w.received) = {}
  <2>1. Range(Run(s, 0)) = s..(s + 0 - 1)
    BY <1>4, RunRange
  <2>2. s..(s + 0 - 1) = {}
    OBVIOUS
  <2> QED
    BY <1>4, <2>1, <2>2
<1> QED
  BY <1>2, <1>5, <1>6 DEF w

LEMMA Executes ==
  ASSUME NEW S, NEW r, Answers(S, r), r.phase = "idle", NEW plan \in Plans
  PROVE  Answers(IF plan.limit = 0 THEN NoStreams ELSE
                   [k \in Keys(plan) |->
                      [worker |-> "queued", rest |-> GeneratedRange(plan.scans[k[1]], k[2]),
                       sending |-> <<>>, channel |-> <<>>, received |-> <<>>]],
                 [r EXCEPT !.phase = IF plan.limit = 0 THEN "ended" ELSE "running", !.plan = plan])
<1> DEFINE u == [r EXCEPT !.phase = IF plan.limit = 0 THEN "ended" ELSE "running", !.plan = plan]
           T == [k \in Keys(plan) |->
                   [worker |-> "queued", rest |-> GeneratedRange(plan.scans[k[1]], k[2]),
                    sending |-> <<>>, channel |-> <<>>, received |-> <<>>]]
<1>1. /\ u \in Query /\ u.plan = plan /\ u.total = 0 /\ u.shown = 0
      /\ u.phase = IF plan.limit = 0 THEN "ended" ELSE "running"
  BY DEF Answers, Query
<1>2. /\ plan.shown \in Nat /\ plan.limit \in Nat \cup {None} /\ RowsOf(plan) \in Nat
      /\ Len(plan.scans) \in Nat \ {0}
  BY PlanTyped DEF RowsOf
<1>3. Min({0, plan.shown}) = 0 /\ Min({0, RowsOf(plan)}) = 0
  BY <1>2, MinOf
<1> HIDE DEF u
<1>4. CASE plan.limit = 0
  <2>1. plan.limit # None /\ u.phase = "ended"
    BY <1>1, <1>4, RefusedAssumption
  <2>2. Begun(NoStreams, plan)
    BY DEF Begun, NoStreams
  <2>3. Answer(NoStreams, u)
    BY <1>1, <1>3, <1>4, <2>1, <2>2 DEF Answer
  <2>4. NoStreams = [k \in DOMAIN NoStreams |-> NoStreams[k]] /\ DOMAIN NoStreams = {}
    BY DEF NoStreams
  <2>5. Answers(NoStreams, u)
    BY <1>1, <2>1, <2>3, <2>4 DEF Answers
  <2> QED
    BY <1>4, <2>5 DEF u
<1>5. CASE plan.limit # 0
  <2>1. u.phase = "running"
    BY <1>1, <1>5
  <2>2. ASSUME NEW k \in Keys(plan)
        PROVE  /\ T[k] \in Stream /\ Range(T[k].received) = {}
               /\ Divided(T[k], FirstAt(plan, k), SizeAt(plan, k))
    <3> DEFINE t == plan.scans[k[1]]
    <3>1. t \in Tables /\ k[2] \in 0..(PartitionCount(t) - 1)
      BY KeyTyped, PlanTyped
    <3>2. First(t, k[2]) \in Nat /\ Size(t, k[2]) \in Nat /\ GeneratedRange(t, k[2]) = Run(First(t, k[2]), Size(t, k[2]))
      BY <3>1, PartTyped
    <3>3. FirstAt(plan, k) = First(t, k[2]) /\ SizeAt(plan, k) = Size(t, k[2])
      BY DEF FirstAt, SizeAt
    <3>4. T[k] = [worker |-> "queued", rest |-> Run(First(t, k[2]), Size(t, k[2])),
                  sending |-> <<>>, channel |-> <<>>, received |-> <<>>]
      BY <3>2
    <3> HIDE DEF T, t
    <3> QED
      BY <3>2, <3>3, <3>4, StreamMade
  <2>3. T = [k \in DOMAIN T |-> T[k]] /\ DOMAIN T = Keys(plan)
    OBVIOUS
  <2> HIDE DEF T
  <2>4. ReadOf(T, Len(plan.scans)) = {}
    BY <2>2, <2>3 DEF ReadOf
  <2>5. Cardinality({}) = 0
    BY FS_EmptySet
  <2>6. plan.limit # None => 0 < plan.limit
    BY <1>2, <1>5
  <2>7. Going(T, u)
    BY <1>1, <1>3, <1>5, <2>2, <2>3, <2>4, <2>5, <2>6 DEF Going
  <2>8. Answers(T, u)
    BY <1>1, <2>1, <2>2, <2>3, <2>7 DEF Answers
  <2> QED
    BY <1>5, <2>8 DEF u, T
<1> QED
  BY <1>4, <1>5

LEMMA Displayed ==
  ASSUME NEW total \in Nat, NEW n \in Nat, NEW most \in Nat
  PROVE  Min({total, most}) + Min({n, Max({0, most - total})}) = Min({total + n, most})
<1>1. Max({0, most - total}) = IF 0 >= most - total THEN 0 ELSE most - total
  BY MaxOf
<1>2. Max({0, most - total}) \in Int
  BY <1>1
<1>3. Min({n, Max({0, most - total})}) = IF n <= Max({0, most - total}) THEN n ELSE Max({0, most - total})
  BY <1>2, MinOf
<1>4. /\ Min({total, most}) = IF total <= most THEN total ELSE most
      /\ Min({total + n, most}) = IF total + n <= most THEN total + n ELSE most
  BY MinOf
<1> QED
  BY <1>1, <1>3, <1>4

LEMMA ReceivesBatch ==
  ASSUME NEW S, NEW r, Answers(S, r), r.phase = "running", NEW k \in DOMAIN S
  PROVE  LET plan == r.plan
             batch == S[k].channel
             n == IF k[1] # Len(plan.scans) THEN 0
                  ELSE IF plan.limit = None THEN Len(batch) ELSE Min({Len(batch), plan.limit - r.total})
             last == plan.limit # None /\ r.total + n = plan.limit
             taken == [S EXCEPT ![k].channel = <<>>, ![k].received = @ \o batch] IN
         Answers(IF last THEN Dropped(taken, "ended") ELSE taken,
                 [r EXCEPT !.phase = IF last THEN "ended" ELSE @, !.total = @ + n,
                           !.shown = @ + Min({n, Max({0, plan.shown - r.total})})])
<1> DEFINE plan == r.plan
           batch == S[k].channel
           n == IF k[1] # Len(plan.scans) THEN 0
                ELSE IF plan.limit = None THEN Len(batch) ELSE Min({Len(batch), plan.limit - r.total})
           last == plan.limit # None /\ r.total + n = plan.limit
           taken == [S EXCEPT ![k].channel = <<>>, ![k].received = @ \o batch]
           more == Min({n, Max({0, plan.shown - r.total})})
           u == [r EXCEPT !.phase = IF last THEN "ended" ELSE @, !.total = @ + n, !.shown = @ + more]
<1>1. /\ Going(S, r) /\ plan \in Plans /\ Begun(S, plan) /\ DOMAIN S = Keys(plan)
      /\ S = [j \in DOMAIN S |-> S[j]] /\ \A j \in DOMAIN S : S[j] \in Stream
      /\ r \in Query /\ r.total \in Nat /\ r.shown \in Nat
  BY GoingBegun DEF Answers, Going, Query
<1>2. /\ k[1] \in 1..Len(plan.scans) /\ Len(plan.scans) \in Nat \ {0} /\ plan.shown \in Nat
      /\ plan.limit \in Nat \cup {None} /\ (plan.limit # None => Len(plan.scans) = 1)
      /\ RowsOf(plan) \in Nat /\ DOMAIN plan.scans = 1..Len(plan.scans)
  <2>1. k \in Keys(plan)
    BY <1>1
  <2>2. k[1] \in 1..Len(plan.scans)
    BY <1>1, <2>1, KeyTyped
  <2> HIDE DEF plan
  <2> QED
    BY <1>1, <2>2, PlanTyped DEF RowsOf
<1>3. /\ DOMAIN taken = DOMAIN S /\ taken = [j \in DOMAIN S |-> taken[j]]
      /\ taken[k] = [S[k] EXCEPT !.channel = <<>>, !.received = @ \o batch]
      /\ \A j \in DOMAIN S : j # k => taken[j] = S[j]
  BY <1>1
<1>4. /\ Takes(S[k], taken[k]) /\ taken[k] \in Stream
  <2>1. <<>> \in Seq(Nat) /\ S[k].received \o batch \in Seq(Nat)
    <3>1. S[k].received \in Seq(Nat) /\ batch \in Seq(Nat)
      BY <1>1 DEF Stream
    <3> QED
      BY <3>1, ConcatProperties, EmptySeq
  <2> HIDE DEF taken
  <2> QED
    BY <1>1, <1>3, <2>1 DEF Takes, Stream
<1> HIDE DEF taken
<1>5. Taking(S, taken, k)
  BY <1>3, <1>4 DEF Taking
<1>6. \A j \in DOMAIN taken : taken[j] \in Stream
  BY <1>1, <1>3, <1>4
<1> HIDE DEF batch
<1>7. /\ \A j \in DOMAIN taken : Divided(taken[j], FirstAt(plan, j), SizeAt(plan, j))
      /\ Begun(taken, plan) /\ Len(batch) \in Nat
      /\ \A i : i # k[1] => ReadOf(taken, i) = ReadOf(S, i)
      /\ Cardinality(ReadOf(taken, k[1])) = Cardinality(ReadOf(S, k[1])) + Len(batch)
  BY <1>1, <1>5, Taken DEF batch
<1>8. plan.limit # None => k[1] = Len(plan.scans) /\ r.total < plan.limit /\ plan.limit \in Nat
  <2>1. plan.limit # None => r.total < plan.limit
    BY <1>1 DEF Going
  <2>2. plan.limit # None => k[1] = Len(plan.scans)
    <3> DEFINE l == Len(plan.scans)
    <3>1. k[1] \in 1..l /\ (plan.limit # None => l = 1)
      BY <1>2
    <3> HIDE DEF l
    <3>2. plan.limit # None => k[1] = l
      BY <3>1
    <3> QED
      BY <3>2 DEF l
  <2> QED
    BY <1>2, <2>1, <2>2
<1>9. /\ n \in Nat /\ n <= Len(batch)
      /\ k[1] = Len(plan.scans) /\ n # Len(batch) => last
      /\ plan.limit # None => r.total + n <= plan.limit
  <2>1. CASE plan.limit = None
    BY <1>7, <2>1
  <2>2. CASE plan.limit # None
    <3>1. n = IF Len(batch) <= plan.limit - r.total THEN Len(batch) ELSE plan.limit - r.total
      <4>1. plan.limit - r.total \in Int
        BY <1>1, <1>8, <2>2
      <4> QED
        BY <1>7, <1>8, <2>2, <4>1, MinOf
    <3> HIDE DEF n
    <3> QED
      BY <1>1, <1>7, <1>8, <2>2, <3>1
  <2> QED
    BY <2>1, <2>2
<1>10. r.total = Cardinality(ReadOf(S, Len(plan.scans))) /\ r.shown = Min({r.total, plan.shown})
  BY <1>1 DEF Going
<1>11. Cardinality(ReadOf(taken, Len(plan.scans))) = r.total + (IF k[1] = Len(plan.scans) THEN Len(batch) ELSE 0)
  BY <1>1, <1>7, <1>10
<1>12. k[1] # Len(plan.scans) => n = 0
  OBVIOUS
<1> HIDE DEF n
<1>13. r.shown + more = Min({r.total + n, plan.shown}) /\ more \in Nat
  <2>1. Max({0, plan.shown - r.total}) \in Nat
    <3>1. plan.shown - r.total \in Int /\ 0 \in Int
      BY <1>1, <1>2
    <3> QED
      BY <3>1, MaxOf
  <2>2. more \in Nat
    <3> DEFINE m == Max({0, plan.shown - r.total})
    <3>1. m \in Nat
      BY <2>1
    <3> HIDE DEF m
    <3>2. Min({n, m}) = IF n <= m THEN n ELSE m
      BY <1>9, <3>1, MinOf
    <3> QED
      BY <1>9, <3>1, <3>2 DEF m
  <2> QED
    <3>1. Min({r.total, plan.shown}) + Min({n, Max({0, plan.shown - r.total})}) = Min({r.total + n, plan.shown})
      BY <1>1, <1>2, <1>9, Displayed
    <3> QED
      BY <1>10, <2>2, <3>1
<1>14. /\ u \in Query /\ u.plan = plan /\ u.total = r.total + n /\ u.shown = Min({u.total, plan.shown})
       /\ u.phase = IF last THEN "ended" ELSE "running"
  <2> HIDE DEF last, more
  <2>1. r.total + n \in Nat /\ r.shown + more \in Nat
    BY <1>1, <1>9, <1>13
  <2> QED
    BY <1>1, <1>13, <2>1 DEF Query
<1> HIDE DEF u
<1>15. CASE ~last
  <2>1. Cardinality(ReadOf(taken, Len(plan.scans))) = u.total
    BY <1>1, <1>7, <1>9, <1>11, <1>12, <1>14, <1>15
  <2>2. plan.limit # None => u.total < plan.limit
    <3> SUFFICES ASSUME plan.limit # None PROVE u.total < plan.limit
      OBVIOUS
    <3>1. Len(batch) = n
      BY <1>8, <1>9, <1>15
    <3> QED
      BY <1>1, <1>7, <1>8, <1>9, <1>14, <1>15
  <2>3. Going(taken, u)
    BY <1>1, <1>3, <1>7, <1>14, <2>1, <2>2 DEF Going
  <2>4. Answers(taken, u)
    BY <1>3, <1>6, <1>14, <1>15, <2>3 DEF Answers
  <2> QED
    BY <1>15, <2>4 DEF u, last, n, taken, batch
<1>16. CASE last
  <2> DEFINE T == Dropped(taken, "ended")
  <2>1. /\ T = [j \in DOMAIN T |-> T[j]] /\ DOMAIN T = DOMAIN taken /\ \A j \in DOMAIN T : T[j] \in Stream
        /\ \A j \in DOMAIN taken : T[j].received = taken[j].received
    BY <1>6, DroppedTyped
  <2> HIDE DEF T
  <2>2. Begun(T, plan)
    BY <1>7, <2>1, SameRead
  <2>3. Cardinality(ReadOf(taken, Len(plan.scans))) <= RowsOf(plan)
    BY <1>1, <1>2, <1>7, ReadBounded DEF RowsOf
  <2>4. plan.limit # None /\ plan.limit = r.total + n
    BY <1>16
  <2>5. Cardinality(ReadOf(taken, Len(plan.scans))) = r.total + Len(batch)
    BY <1>8, <1>11, <2>4
  <2>6. plan.limit <= RowsOf(plan)
    BY <1>1, <1>2, <1>7, <1>9, <2>3, <2>4, <2>5
  <2>7. Min({plan.limit, RowsOf(plan)}) = u.total
    BY <1>2, <1>8, <1>14, <2>4, <2>6, MinOf
  <2>8. Answer(T, u)
    BY <1>1, <1>14, <2>2, <2>4, <2>7 DEF Answer
  <2>9. Answers(T, u)
    BY <1>14, <1>16, <2>1, <2>8 DEF Answers
  <2> QED
    BY <1>16, <2>9 DEF u, T, last, n, taken, batch
<1> QED
  BY <1>15, <1>16

LEMMA StartsUnanswered == ProcessInit => AnswersInv
<1> SUFFICES ASSUME ProcessInit PROVE AnswersInv
  OBVIOUS
<1>1. /\ query = [q \in Queries |-> [phase |-> "idle", plan |-> None, total |-> 0, shown |-> 0]]
      /\ stream = [q \in Queries |-> NoStreams]
  BY DEF ProcessInit, Init
<1>2. NoStreams = [k \in DOMAIN NoStreams |-> NoStreams[k]] /\ DOMAIN NoStreams = {}
  BY DEF NoStreams
<1>3. ASSUME NEW q \in Queries PROVE Answers(stream[q], query[q])
  <2>1. query[q] = [phase |-> "idle", plan |-> None, total |-> 0, shown |-> 0] /\ stream[q] = NoStreams
    BY <1>1
  <2>2. query[q] \in Query
    BY <2>1 DEF Query
  <2> QED
    BY <1>2, <2>1, <2>2 DEF Answers
<1> QED
  BY <1>1, <1>3 DEF AnswersInv

LEMMA Polls ==
  ASSUME AnswersInv, NEW q \in Queries, Poll(q) \/ Cancel(q)
  PROVE  AnswersInv'
<1> DEFINE S == stream[q]
           r == query[q]
<1>1. Answers(S, r)
  BY DEF AnswersInv
<1>2. ASSUME NEW k, Receive(q, k) PROVE AnswersInv'
  <2> DEFINE batch == S[k].channel
             limit == r.plan.limit
             n == IF k[1] # Len(r.plan.scans) THEN 0
                  ELSE IF limit = None THEN Len(batch) ELSE Min({Len(batch), limit - r.total})
             last == limit # None /\ r.total + n = limit
             taken == [S EXCEPT ![k].channel = <<>>, ![k].received = @ \o batch]
             u == [r EXCEPT !.phase = IF last THEN "ended" ELSE @, !.total = @ + n,
                            !.shown = @ + Min({n, Max({0, r.plan.shown - r.total})})]
             T == IF last THEN Dropped(taken, "ended") ELSE taken
  <2>1. k \in DOMAIN S /\ r.phase = "running"
    BY <1>2 DEF Receive, Readable, Running
  <2>2. query' = [query EXCEPT ![q] = u] /\ stream' = [stream EXCEPT ![q] = T]
    <3>1. query' = [query EXCEPT ![q] = u]
      BY <1>2, Zenon DEF Receive, IsLast, RowsToDisplay
    <3>2. stream' = [stream EXCEPT ![q] = T]
      BY <1>2, Zenon DEF Receive, IsLast
    <3> QED
      BY <3>1, <3>2
  <2>3. Answers(T, u)
    BY <1>1, <2>1, ReceivesBatch
  <2> HIDE DEF T, u
  <2> QED
    BY <2>2, <2>3, OnlyOne
<1>3. ASSUME NEW phase \in {"failed", "dropped"}, Leave(q, phase) PROVE AnswersInv'
  <2> DEFINE u == [phase |-> phase, plan |-> r.plan, total |-> 0, shown |-> 0]
             T == Dropped(S, phase)
  <2>1. query' = [query EXCEPT ![q] = u] /\ stream' = [stream EXCEPT ![q] = T]
    BY <1>3 DEF Leave
  <2>2. Answers(T, u)
    BY <1>1, Leaves
  <2> HIDE DEF T, u
  <2> QED
    BY <2>1, <2>2, OnlyOne
<1>4. CASE Finish(q)
  <2> DEFINE u == [r EXCEPT !.phase = "ended"]
             T == Dropped(S, "ended")
  <2>1. /\ r.phase = "running" /\ \A k \in DOMAIN S : S[k].worker = "done" /\ S[k].channel = <<>>
        /\ query' = [query EXCEPT ![q] = u] /\ stream' = [stream EXCEPT ![q] = T]
    BY <1>4 DEF Finish, Running, Ended, Is, Leave
  <2>2. Answers(T, u)
    BY <1>1, <2>1, ReadToTheEnd
  <2> HIDE DEF T, u
  <2> QED
    BY <2>1, <2>2, OnlyOne
<1> QED
  BY <1>2, <1>3, <1>4 DEF Poll, Fail, Cancel

LEMMA Asks ==
  ASSUME AnswersInv, NEW q \in Queries, NEW plan \in Plans, Execute(q, plan)
  PROVE  AnswersInv'
<1> DEFINE S == stream[q]
           r == query[q]
           u == [r EXCEPT !.phase = IF plan.limit = 0 THEN "ended" ELSE "running", !.plan = plan]
           T == IF plan.limit = 0 THEN NoStreams ELSE
                  [k \in Keys(plan) |->
                     [worker |-> "queued", rest |-> GeneratedRange(plan.scans[k[1]], k[2]),
                      sending |-> <<>>, channel |-> <<>>, received |-> <<>>]]
<1>1. Answers(S, r) /\ r.phase = "idle"
  BY DEF AnswersInv, Execute
<1>2. query' = [query EXCEPT ![q] = u] /\ stream' = [stream EXCEPT ![q] = T]
  BY DEF Execute
<1>3. Answers(T, u)
  BY <1>1, Executes
<1> HIDE DEF T, u
<1> QED
  BY <1>2, <1>3, OnlyOne

LEMMA AnswersKept == AnswersInv /\ [ProcessNext]_allvars => AnswersInv'
<1> SUFFICES ASSUME AnswersInv, [ProcessNext]_allvars PROVE AnswersInv'
  OBVIOUS
<1>1. ASSUME UNCHANGED scanning PROVE AnswersInv'
  <2>1. query' = query /\ stream' = stream
    BY <1>1 DEF scanning
  <2>2. \A q \in Queries : Answers(stream[q], query[q])'
    BY <2>1 DEF AnswersInv
  <2> QED
    BY <2>1, <2>2 DEF AnswersInv
<1>2. CASE StartUp
  BY <1>1, <1>2 DEF StartUp, ReadConfig, LoadCatalog, MakeRuntimes, BlockOn, ResolveMemoryLimit,
     BuildProviders, Open, PrintVersion
<1>3. CASE ShutDown \/ Stop
  BY <1>1, <1>3 DEF ShutDown, Return, DropContext, Exit, Stop
<1>4. CASE NextStatement
  BY <1>4, Asks DEF NextStatement, Ask
<1>5. ASSUME NEW q \in Queries, Abandon(q) \/ Receives(q) PROVE AnswersInv'
  BY <1>5, Polls DEF Abandon, Receives
<1>6. ASSUME NEW q \in Queries, NEW k \in DOMAIN stream[q], Work(q, k) PROVE AnswersInv'
  BY <1>6, WorkerSteps DEF Work
<1>7. CASE UNCHANGED allvars
  BY <1>1, <1>7 DEF allvars
<1> QED
  BY <1>2, <1>3, <1>4, <1>5, <1>6, <1>7 DEF ProcessNext

(* A query that ends has been answered whole: for any tables, plans and    *)
(* numbers of partitions, of rows in a batch and of threads, whatever the  *)
(* order in which workers make, send, fail and are dropped.                *)
THEOREM AnswersAreWhole == ProcessSpec => []AnswersWhole
<1>1. ASSUME AnswersInv PROVE AnswersWhole
  <2> SUFFICES ASSUME NEW q \in Queries, query[q].phase = "ended"
               PROVE  LET plan == query[q].plan
                          rows == Rows[plan.scans[Len(plan.scans)]]
                          received(k) == stream[q][k].received
                          of(i) == {k \in DOMAIN stream[q] : k[1] = i} IN
                      /\ query[q].total = IF plan.limit = None THEN rows ELSE Min({plan.limit, rows})
                      /\ query[q].shown = Min({query[q].total, plan.shown})
                      /\ \A k \in DOMAIN stream[q] : \A a, b \in DOMAIN received(k) :
                           a < b => received(k)[a] < received(k)[b]
                      /\ \A k, l \in DOMAIN stream[q] :
                           k[1] = l[1] /\ k # l => Range(received(k)) \cap Range(received(l)) = {}
                      /\ plan.limit = None => \A i \in DOMAIN plan.scans :
                           UNION {Range(received(k)) : k \in of(i)} = 1..Rows[plan.scans[i]]
    BY DEF AnswersWhole
  <2> DEFINE S == stream[q]
             r == query[q]
             plan == r.plan
  <2>1. Answer(S, r)
    BY <1>1 DEF AnswersInv, Answers
  <2>2. plan \in Plans /\ DOMAIN S \subseteq Keys(plan)
    BY <2>1 DEF Answer, Begun
  <2>3. ASSUME NEW k \in DOMAIN S
        PROVE  \E a \in 0..SizeAt(plan, k) :
                 /\ S[k].received = Run(FirstAt(plan, k), a) /\ DOMAIN S[k].received = 1..a
                 /\ \A i \in 1..a : S[k].received[i] = FirstAt(plan, k) + i - 1
                 /\ Range(S[k].received) = FirstAt(plan, k)..(FirstAt(plan, k) + a - 1)
    <3>1. PICK a \in 0..SizeAt(plan, k) : S[k].received = Run(FirstAt(plan, k), a)
      BY <2>1 DEF Answer, Begun
    <3>2. FirstAt(plan, k) \in Nat /\ SizeAt(plan, k) \in Nat
      BY <2>2, KeyTyped
    <3>3. a \in Nat
      BY <3>2
    <3> DEFINE s == FirstAt(plan, k)
    <3>4. /\ DOMAIN Run(s, a) = 1..a /\ \A i \in 1..a : Run(s, a)[i] = s + i - 1
          /\ Range(Run(s, a)) = s..(s + a - 1)
      <4> HIDE DEF s
      <4>1. s \in Nat
        BY <3>2 DEF s
      <4> QED
        BY <3>3, <4>1, RunTyped, RunRange
    <3> QED
      BY <3>1, <3>4
  <2>4. \A k \in DOMAIN S : FirstAt(plan, k) \in Nat /\ SizeAt(plan, k) \in Nat
    BY <2>2, KeyTyped
  <2>5. ASSUME NEW k \in DOMAIN S, NEW a \in DOMAIN S[k].received, NEW b \in DOMAIN S[k].received, a < b
        PROVE  S[k].received[a] < S[k].received[b]
    BY <2>3, <2>4, <2>5
  <2>6. ASSUME NEW k \in DOMAIN S, NEW l \in DOMAIN S, k[1] = l[1], k # l
        PROVE  Range(S[k].received) \cap Range(S[l].received) = {}
    <3> SUFFICES ASSUME NEW x \in Range(S[k].received), x \in Range(S[l].received) PROVE FALSE
      OBVIOUS
    <3>1. x \in FirstAt(plan, k)..(FirstAt(plan, k) + SizeAt(plan, k) - 1)
      BY <2>3, <2>4
    <3>2. x \in FirstAt(plan, l)..(FirstAt(plan, l) + SizeAt(plan, l) - 1)
      BY <2>3, <2>4
    <3> QED
      BY <2>2, <2>6, <3>1, <3>2, KeysApart
  <2>7. /\ r.total = IF plan.limit = None THEN RowsOf(plan) ELSE Min({plan.limit, RowsOf(plan)})
        /\ r.shown = Min({r.total, plan.shown})
    BY <2>1 DEF Answer
  <2>8. plan.limit = None => \A i \in DOMAIN plan.scans : ReadOf(S, i) = 1..Rows[plan.scans[i]]
    BY <2>1 DEF Answer
  <2> QED
    BY <2>5, <2>6, <2>7, <2>8 DEF ReadOf, RowsOf
<1>2. AnswersInv => AnswersWhole
  BY <1>1
<1> QED
  BY <1>2, StartsUnanswered, AnswersKept, PTL DEF ProcessSpec

=============================================================================
