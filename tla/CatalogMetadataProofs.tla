----------------------- MODULE CatalogMetadataProofs -----------------------
(***************************************************************************)
(* The safety of metadata calls, for any catalogs, commands and changes of *)
(* the metastores.  The inductive invariant has three parts: the types;    *)
(* of each call, from its own record and what its catalog has had, what    *)
(* its answer so far is good for; and of each catalog's client, who        *)
(* connects it.                                                            *)
(***************************************************************************)
EXTENDS CatalogMetadataProperties, FiniteSetTheorems, SequenceTheorems, TLAPS

Lists(command) == Listing(command) \/ command.kind \in Shows
Catalogued(r) == Scope(r.command).catalog

(* A listing that is under way: what there was all the time is there now,  *)
(* and what is there now was there at some time.                           *)
Heard(r, there, s, a) ==
  r.phase \in {"client", "connect", "schemas", "tables"} =>
    /\ Lists(r.command) /\ Catalogued(r) \in Catalogs
    /\ a \subseteq there /\ there \subseteq s

(* Nothing of the answer is wrong, and what is missing, or its schema, is  *)
(* still to be listed; every table that is to be listed is asked for.      *)
Partly(r, s, a) ==
  r.phase \in {"schemas", "tables"} =>
    /\ r.out \subseteq {n \in s : Asked(r.command, n)}
    /\ \A n \in a : Asked(r.command, n) =>
         <<n[1], None>> \in r.left \/ n \in r.left \/ n \in r.out
    /\ \A n \in r.left : n[2] # None /\ Like(r.command.tablePattern, n[2]) => Asked(r.command, n)

(* What is still to be listed in each of the two phases.                   *)
Rest(r) ==
  /\ r.phase = "schemas" =>
       \A n \in r.left : n[1] \in Schemas /\ (r.command.kind # "tables" => n[2] = None)
  /\ r.phase = "tables" =>
       r.command.kind \in {"tables", "show_tables"} /\ \A n \in r.left : n[2] # None

Answered(r, s, a) ==
  r.phase = "done" /\ Lists(r.command) =>
    /\ r.out \subseteq {n \in s : Asked(r.command, n)}
    /\ {n \in a : Asked(r.command, n)} \subseteq r.out

(* What is known of a call in each phase.                                  *)
Phased(r) ==
  /\ r.phase \notin {"idle", "failed", "gone"} => r.command \in Commands
  /\ r.phase = "ticket" => r.command.kind \notin Shows /\ Issue(r.command)
  /\ r.phase = "execute" => r.command.kind = "statement"
  /\ r.phase # "rejected"
  /\ r.phase \in {"idle", "ticket", "client", "connect"} => r.out = {} /\ r.left = {}
  /\ r.phase = "schemas" => r.command.kind # "show_tables"
  /\ r.left # {} => r.phase \in {"schemas", "tables"}

Good(r, there, s, a) ==
  Phased(r) /\ Rest(r) /\ Heard(r, there, s, a) /\ Partly(r, s, a) /\ Answered(r, s, a)

(* The client of a catalog: a call that connects it is the only one.       *)
Connecting(k) == {c \in Calls : At(c, "connect") /\ Catalog(c) = k}
Cell(k) ==
  /\ Connecting(k) # {} => client[k] = "busy"
  /\ \A c, d \in Connecting(k) : c = d
  /\ client[k] = "ready" => \E c \in Calls : made[k] = {c}
  /\ client[k] # "ready" => made[k] = {}

IInv ==
  /\ TypeOK
  /\ \A c \in Calls : Good(call[c], There(Catalog(c)), some[c], all[c])
  /\ \A k \in Catalogs : Cell(k)

-----------------------------------------------------------------------------

(* What is in a metastore: its schemas, and tables in each.                *)
LEMMA InThere ==
  ASSUME NEW schemas, NEW n
  PROVE  n \in ThereIn(schemas) <=>
           \E s \in DOMAIN schemas : \E t \in schemas[s] \cup {None} : n = <<s, t>>
BY DEF ThereIn

LEMMA ThereTyped ==
  ASSUME NEW schemas \in Partial(Schemas, SUBSET Tables)
  PROVE  /\ ThereIn(schemas) \subseteq Names
         /\ DOMAIN schemas \subseteq Schemas
         /\ \A s \in DOMAIN schemas : schemas[s] \subseteq Tables
<1>1. PICK d \in SUBSET Schemas : schemas \in [d -> SUBSET Tables]
  BY DEF Partial
<1>2. DOMAIN schemas = d /\ \A s \in d : schemas[s] \subseteq Tables
  BY <1>1
<1>3. ASSUME NEW n \in ThereIn(schemas) PROVE n \in Names
  <2>1. PICK s, t : s \in DOMAIN schemas /\ t \in schemas[s] \cup {None} /\ n = <<s, t>>
    BY <1>3, InThere
  <2> QED
    BY <2>1, <1>2 DEF Names
<1> QED
  BY <1>2, <1>3

LEMMA InPartial ==
  ASSUME NEW f, NEW d \in SUBSET Schemas, f \in [d -> SUBSET Tables]
  PROVE  f \in Partial(Schemas, SUBSET Tables)
BY DEF Partial

(* What others make of a catalog is one.                                   *)
LEMMA ChangeTyped ==
  ASSUME NEW schemas \in Partial(Schemas, SUBSET Tables), NEW s \in Schemas, NEW t \in Tables
  PROVE  /\ Created(schemas, s, t) \in Partial(Schemas, SUBSET Tables)
         /\ s \in DOMAIN schemas => Dropped(schemas, s, t) \in Partial(Schemas, SUBSET Tables)
<1>1. PICK d \in SUBSET Schemas : schemas \in [d -> SUBSET Tables]
  BY DEF Partial
<1>2. CASE s \in d
  <2>1. [schemas EXCEPT ![s] = @ \cup {t}] \in [d -> SUBSET Tables]
    BY <1>1, <1>2
  <2>2. [schemas EXCEPT ![s] = @ \ {t}] \in [d -> SUBSET Tables]
    BY <1>1, <1>2
  <2>3. [x \in DOMAIN schemas \ {s} |-> schemas[x]] \in [d \ {s} -> SUBSET Tables]
    BY <1>1
  <2> QED
    BY <1>1, <1>2, <2>1, <2>2, <2>3, InPartial DEF Created, Dropped
<1>3. CASE s \notin d
  <2>1. [x \in DOMAIN schemas \cup {s} |-> IF x = s THEN {} ELSE schemas[x]]
          \in [d \cup {s} -> SUBSET Tables]
    BY <1>1, <1>3
  <2> QED
    BY <1>1, <1>3, <2>1, InPartial DEF Created
<1> QED
  BY <1>2, <1>3

LEMMA LastInSeq ==
  ASSUME NEW X, NEW parts \in Seq(X), parts # <<>>
  PROVE  parts[Len(parts)] \in X
<1>1. Len(parts) \in Nat /\ Len(parts) # 0
  BY EmptySeq, LenProperties
<1> QED
  BY <1>1, ElementOfSeq

(* The catalog and the schema a command is about.                          *)
LEMMA ScopeTyped ==
  ASSUME NEW command \in Commands, command.kind = "show_tables"
  PROVE  Scope(command).schema \in SchemaNames
<1> DEFINE X == Catalogs \cup Schemas \cup {"unknown"}
<1>1. command.scope \in UNION {[1..n -> X] : n \in 0..3}
  BY CommandsAssumption DEF Command
<1>2. PICK n : n \in 0..3 /\ command.scope \in [1..n -> X]
  BY <1>1
<1> HIDE DEF X
<1>3. command.scope \in Seq(X)
  <2>1. n \in Nat /\ command.scope \in [1..n -> X]
    BY <1>2
  <2>2. command.scope \in UNION {[1..m -> X] : m \in Nat}
    BY <2>1
  <2> QED
    BY <2>2, SeqDef
<1>4. command.scope # <<>> => command.scope[Len(command.scope)] \in X
  BY <1>3, LastInSeq
<1>5. Scope(command).schema =
        IF command.scope = <<>> THEN DefaultSchema ELSE command.scope[Len(command.scope)]
  BY DEF Scope
<1> QED
  BY <1>4, <1>5, DefaultAssumption DEF SchemaNames, X

-----------------------------------------------------------------------------

(* The initial states are good.                                            *)
LEMMA InitGood == Init => IInv
<1> SUFFICES ASSUME Init PROVE IInv
  OBVIOUS
<1>1. Idle \in Call
  BY DEF Idle, Call
<1>2. TypeOK
  BY <1>1, StartAssumption DEF Init, TypeOK, Idle
<1>3. \A c \in Calls : call[c] = Idle /\ some[c] = {} /\ all[c] = {}
  BY DEF Init
<1>4. ASSUME NEW c \in Calls PROVE Good(call[c], There(Catalog(c)), some[c], all[c])
  <2>1. call[c].phase = "idle" /\ call[c].out = {} /\ call[c].left = {}
    BY <1>3 DEF Idle
  <2> QED
    BY <2>1 DEF Good, Phased, Rest, Heard, Partly, Answered
<1>5. ASSUME NEW k \in Catalogs PROVE Cell(k)
  <2>1. client[k] = "empty" /\ made[k] = {}
    BY DEF Init
  <2>2. Connecting(k) = {}
    BY <1>3 DEF Connecting, At, Idle
  <2> QED
    BY <2>1, <2>2 DEF Cell
<1> QED
  BY <1>2, <1>4, <1>5 DEF IInv

(* A step that leaves a call alone, and the metastores.                    *)
LEMMA OthersKept ==
  ASSUME IInv, NEW d \in Calls, call'[d] = call[d], some'[d] = some[d], all'[d] = all[d],
         UNCHANGED content
  PROVE  Good(call[d], There(Catalog(d)), some[d], all[d])'
<1>1. Catalog(d)' = Catalog(d)
  BY DEF Catalog
<1>2. There(Catalog(d))' = There(Catalog(d))
  BY <1>1 DEF There
<1> QED
  BY <1>2 DEF IInv

(* ... and a step of a call that neither connects the client before nor    *)
(* after it leaves every client alone.                                     *)
LEMMA CellsKept ==
  ASSUME IInv, NEW c \in Calls, UNCHANGED clients, \A d \in Calls : d # c => call'[d] = call[d],
         ~At(c, "connect"), ~At(c, "connect")'
  PROVE  \A k \in Catalogs : Cell(k)'
<1> SUFFICES ASSUME NEW k \in Catalogs PROVE Cell(k)'
  OBVIOUS
<1>1. Connecting(k)' = Connecting(k)
  BY DEF Connecting, At, Catalog
<1>2. Cell(k)
  BY DEF IInv
<1>3. client' = client /\ made' = made
  BY DEF clients
<1> QED
  BY <1>1, <1>2, <1>3 DEF Cell

(* One call takes a step, and the metastores stay as they are.             *)
LEMMA CallStep ==
  ASSUME IInv, NEW c \in Calls, NEW r \in Call,
         call' = [call EXCEPT ![c] = r], UNCHANGED content,
         NEW s \in SUBSET Names, NEW a \in SUBSET Names,
         some' = [some EXCEPT ![c] = s], all' = [all EXCEPT ![c] = a],
         client' \in [Catalogs -> {"empty", "busy", "ready"}], made' \in [Catalogs -> SUBSET Calls],
         Good(r, There(Scope(r.command).catalog), s, a),
         \A k \in Catalogs : Cell(k)'
  PROVE  IInv'
<1>1. call'[c] = r /\ some'[c] = s /\ all'[c] = a
  BY DEF IInv, TypeOK
<1>2. \A d \in Calls : d # c => call'[d] = call[d] /\ some'[d] = some[d] /\ all'[d] = all[d]
  BY DEF IInv, TypeOK
<1>3. TypeOK'
  <2>1. call' \in [Calls -> Call] /\ some' \in [Calls -> SUBSET Names] /\ all' \in [Calls -> SUBSET Names]
    BY DEF IInv, TypeOK
  <2>2. \A d \in Calls : call'[d].left # {} => call'[d].phase \in {"schemas", "tables"}
    BY <1>1, <1>2 DEF Good, Phased, IInv, TypeOK
  <2> QED
    BY <2>1, <2>2 DEF IInv, TypeOK
<1>4. Good(call[c], There(Catalog(c)), some[c], all[c])'
  <2>1. There(Catalog(c))' = There(Scope(r.command).catalog)
    BY <1>1 DEF There, Catalog
  <2> QED
    BY <1>1, <2>1
<1>5. ASSUME NEW d \in Calls PROVE Good(call[d], There(Catalog(d)), some[d], all[d])'
  BY <1>2, <1>4, OthersKept
<1> QED
  BY <1>3, <1>5 DEF IInv

(* ... and so does what the call has heard of its catalog.                 *)
LEMMA QuietStep ==
  ASSUME IInv, NEW c \in Calls, NEW r \in Call,
         call' = [call EXCEPT ![c] = r], UNCHANGED <<content, history>>,
         client' \in [Catalogs -> {"empty", "busy", "ready"}], made' \in [Catalogs -> SUBSET Calls],
         Good(r, There(Scope(r.command).catalog), some[c], all[c]),
         \A k \in Catalogs : Cell(k)'
  PROVE  IInv'
<1>1. some' = some /\ all' = all /\ content' = content
  BY DEF history
<1>2. some[c] \in SUBSET Names /\ all[c] \in SUBSET Names
  BY DEF IInv, TypeOK
<1>3. some' = [some EXCEPT ![c] = some[c]] /\ all' = [all EXCEPT ![c] = all[c]]
  BY <1>1 DEF IInv, TypeOK
<1> QED
  BY <1>1, <1>2, <1>3, CallStep

LEMMA ClientsTyped ==
  ASSUME IInv, UNCHANGED clients
  PROVE  client' \in [Catalogs -> {"empty", "busy", "ready"}] /\ made' \in [Catalogs -> SUBSET Calls]
BY DEF IInv, TypeOK, clients

LEMMA RecordOf ==
  ASSUME IInv, NEW c \in Calls
  PROVE  /\ call[c] \in Call
         /\ Phased(call[c])
         /\ Rest(call[c])
         /\ Heard(call[c], There(Catalog(c)), some[c], all[c])
         /\ Partly(call[c], some[c], all[c])
         /\ Answered(call[c], some[c], all[c])
BY DEF IInv, TypeOK, Good

(* A listing that starts has heard of what there is.                       *)
LEMMA Starts ==
  ASSUME IInv, NEW c \in Calls, NEW r \in Call,
         call' = [call EXCEPT ![c] = r], UNCHANGED <<content, clients>>,
         Listen(c, r.command), ~At(c, "connect"),
         r.phase = "client", r.command \in Commands, Lists(r.command), Catalogued(r) \in Catalogs,
         r.out = {}, r.left = {}
  PROVE  IInv'
<1> DEFINE there == There(Scope(r.command).catalog)
<1>1. there \in SUBSET Names
  <2>1. content[Catalogued(r)] \in Partial(Schemas, SUBSET Tables)
    BY DEF IInv, TypeOK
  <2> QED
    BY <2>1, ThereTyped DEF There, Catalogued
<1>2. some' = [some EXCEPT ![c] = there] /\ all' = [all EXCEPT ![c] = there]
  BY DEF Listen
<1>3. Good(r, there, there, there)
  <2> HIDE DEF there
  <2>1. Phased(r)
    BY DEF Phased
  <2>2. Heard(r, there, there, there)
    BY DEF Heard
  <2> QED
    BY <2>1, <2>2 DEF Good, Rest, Partly, Answered
<1>4. call'[c] = r /\ \A d \in Calls : d # c => call'[d] = call[d]
  BY DEF IInv, TypeOK
<1>5. \A k \in Catalogs : Cell(k)'
  <2>1. ~At(c, "connect")'
    BY <1>4 DEF At
  <2> QED
    BY <1>4, <2>1, CellsKept
<1>6. content' = content
  OBVIOUS
<1> HIDE DEF there
<1>7. Good(r, There(Scope(r.command).catalog), there, there)
  BY <1>3 DEF there
<1> QED
  BY <1>1, <1>2, <1>5, <1>6, <1>7, ClientsTyped, CallStep

-----------------------------------------------------------------------------

(* A call that is not one which connects, before nor after, and changes    *)
(* nothing but its own record.                                             *)
LEMMA OwnStep ==
  ASSUME IInv, NEW c \in Calls, NEW r \in Call,
         call' = [call EXCEPT ![c] = r], UNCHANGED <<content, clients, history>>,
         ~At(c, "connect"), r.phase # "connect",
         Good(r, There(Scope(r.command).catalog), some[c], all[c])
  PROVE  IInv'
<1>1. call'[c] = r /\ \A d \in Calls : d # c => call'[d] = call[d]
  BY DEF IInv, TypeOK
<1>2. \A k \in Catalogs : Cell(k)'
  <2>1. ~At(c, "connect")'
    BY <1>1 DEF At
  <2> QED
    BY <1>1, <2>1, CellsKept
<1> QED
  BY <1>2, ClientsTyped, QuietStep

LEMMA GetFlightInfoGood ==
  ASSUME IInv, NEW c \in Calls, NEW command \in Commands, GetFlightInfo(c, command)
  PROVE  IInv'
<1> DEFINE r == [call[c] EXCEPT !.phase = IF Issue(command) THEN "ticket" ELSE "refused",
                                !.command = command]
<1>1. call[c] \in Call /\ call[c].phase = "idle" /\ command.kind \notin Shows
  BY RecordOf DEF GetFlightInfo, At
<1>2. call[c].out = {} /\ call[c].left = {}
  BY <1>1, RecordOf DEF Phased
<1>3. r \in Call
  BY <1>1 DEF Call
<1>4. /\ r.phase = IF Issue(command) THEN "ticket" ELSE "refused"
      /\ r.command = command /\ r.out = {} /\ r.left = {}
  BY <1>1, <1>2 DEF Call
<1>5. call' = [call EXCEPT ![c] = r] /\ UNCHANGED <<content, clients, history>>
  BY DEF GetFlightInfo
<1> HIDE DEF r
<1>6. Good(r, There(Scope(r.command).catalog), some[c], all[c])
  <2>1. Phased(r)
    BY <1>1, <1>4 DEF Phased
  <2>2. r.phase \in {"ticket", "refused"}
    BY <1>4
  <2> QED
    BY <2>1, <2>2 DEF Good, Rest, Heard, Partly, Answered
<1>7. ~At(c, "connect") /\ r.phase # "connect"
  BY <1>1, <1>4 DEF At
<1> QED
  BY <1>3, <1>5, <1>6, <1>7, OwnStep

LEMMA ShowGood ==
  ASSUME IInv, NEW c \in Calls, NEW command \in Commands, Show(c, command)
  PROVE  IInv'
<1> DEFINE r == [call[c] EXCEPT !.phase = IF Shown(command) THEN "client" ELSE "refused",
                                !.command = command]
<1>1. call[c] \in Call /\ call[c].phase = "idle" /\ command.kind \in Shows
  BY RecordOf DEF Show, At
<1>2. call[c].out = {} /\ call[c].left = {}
  BY <1>1, RecordOf DEF Phased
<1>3. r \in Call
  BY <1>1 DEF Call, Waiting
<1>4. /\ r.phase = IF Shown(command) THEN "client" ELSE "refused"
      /\ r.command = command /\ r.out = {} /\ r.left = {}
  BY <1>1, <1>2 DEF Call
<1>5. call' = [call EXCEPT ![c] = r] /\ UNCHANGED <<content, clients>>
  BY DEF Show
<1> HIDE DEF r
<1>6. ~At(c, "connect")
  BY <1>1 DEF At
<1>7. CASE Shown(command)
  <2>1. Listen(c, r.command)
    BY <1>4, <1>7 DEF Show
  <2>2. Lists(r.command) /\ Catalogued(r) \in Catalogs
    BY <1>1, <1>4, <1>7 DEF Lists, Catalogued, Shown
  <2> QED
    BY <1>3, <1>4, <1>5, <1>6, <1>7, <2>1, <2>2, Starts
<1>8. CASE ~Shown(command)
  <2>1. UNCHANGED history
    BY <1>8 DEF Show
  <2>2. r.phase = "refused"
    BY <1>4, <1>8
  <2>3. Good(r, There(Scope(r.command).catalog), some[c], all[c])
    <3>1. Phased(r)
      BY <1>4, <2>2 DEF Phased
    <3> QED
      BY <2>2, <3>1 DEF Good, Rest, Heard, Partly, Answered
  <2> QED
    BY <1>3, <1>5, <1>6, <2>1, <2>2, <2>3, OwnStep
<1> QED
  BY <1>7, <1>8

(* A ticket was issued for the same command: DoGet finds it valid too.     *)
LEMMA DoGetGood ==
  ASSUME IInv, NEW c \in Calls, DoGet(c)
  PROVE  IInv'
<1> DEFINE command == call[c].command
           r == [call[c] EXCEPT !.phase = IF command.kind = "statement" THEN "execute"
                                          ELSE IF Valid(command) THEN "client" ELSE "rejected"]
<1>1. call[c] \in Call /\ call[c].phase = "ticket" /\ ~At(c, "connect")
  BY RecordOf DEF DoGet, At
<1>2. /\ command \in Commands /\ Issue(command) /\ call[c].out = {} /\ call[c].left = {}
      /\ Listing(command) \/ command.kind = "statement"
  BY <1>1, RecordOf DEF Phased, DoGet
<1>3. r \in Call
  BY <1>1 DEF Call, Waiting
<1>4. /\ r.phase = IF command.kind = "statement" THEN "execute" ELSE "client"
      /\ r.command = command /\ r.out = {} /\ r.left = {}
  BY <1>1, <1>2 DEF Call, Issue
<1>5. call' = [call EXCEPT ![c] = r] /\ UNCHANGED <<content, clients>>
  BY DEF DoGet, Move
<1>6. IF Listing(command) /\ Valid(command) THEN Listen(c, command) ELSE UNCHANGED history
  BY DEF DoGet
<1> HIDE DEF r
<1>7. CASE command.kind = "statement"
  <2>1. UNCHANGED history
    BY <1>6, <1>7 DEF Listing
  <2>2. r.phase = "execute"
    BY <1>4, <1>7
  <2>3. Good(r, There(Scope(r.command).catalog), some[c], all[c])
    <3>1. Phased(r)
      BY <1>2, <1>4, <1>7, <2>2 DEF Phased
    <3> QED
      BY <2>2, <3>1 DEF Good, Rest, Heard, Partly, Answered
  <2> QED
    BY <1>1, <1>3, <1>5, <2>1, <2>2, <2>3, OwnStep
<1>8. CASE command.kind # "statement"
  <2>1. Listing(command) /\ Valid(command)
    BY <1>2, <1>8 DEF Issue
  <2>2. Listen(c, r.command)
    BY <1>4, <1>6, <2>1
  <2>3. Lists(r.command) /\ Catalogued(r) \in Catalogs
    BY <1>4, <2>1 DEF Lists, Catalogued, Valid, Listing, Scope
  <2> QED
    BY <1>1, <1>2, <1>3, <1>4, <1>5, <1>8, <2>2, <2>3, Starts
<1> QED
  BY <1>7, <1>8

(* A call that ends with no listing.                                       *)
LEMMA Finishes ==
  ASSUME IInv, NEW c \in Calls, Move(c, "done"), UNCHANGED <<content, clients, history>>,
         call[c].phase \in {"ticket", "execute"}, ~Lists(call[c].command)
  PROVE  IInv'
<1> DEFINE r == [call[c] EXCEPT !.phase = "done"]
<1>1. call[c] \in Call /\ ~At(c, "connect") /\ call[c].command \in Commands /\ call[c].left = {}
  BY RecordOf DEF Phased, At
<1>2. r \in Call /\ r.phase = "done" /\ r.command = call[c].command /\ r.left = {}
  BY <1>1 DEF Call
<1>3. call' = [call EXCEPT ![c] = r]
  BY DEF Move
<1> HIDE DEF r
<1>4. Good(r, There(Scope(r.command).catalog), some[c], all[c])
  <2>1. Phased(r)
    BY <1>1, <1>2 DEF Phased
  <2> QED
    BY <1>2, <2>1 DEF Good, Rest, Heard, Partly, Answered
<1> QED
  BY <1>1, <1>2, <1>3, <1>4, OwnStep

LEMMA DoGetConstantGood ==
  ASSUME IInv, NEW c \in Calls, DoGetConstant(c)
  PROVE  IInv'
<1>1. ~Lists(call[c].command)
  BY DEF DoGetConstant, Lists, Listing, Constant, Shows
<1> QED
  BY <1>1, Finishes DEF DoGetConstant, At

LEMMA ExecuteStatementGood ==
  ASSUME IInv, NEW c \in Calls, ExecuteStatement(c)
  PROVE  IInv'
<1>1. ~Lists(call[c].command)
  BY RecordOf DEF ExecuteStatement, Phased, At, Lists, Listing, Shows
<1> QED
  BY <1>1, Finishes DEF ExecuteStatement, At

-----------------------------------------------------------------------------

(* A call that is about to list has listed nothing.                        *)
LEMMA ListingGoesOn ==
  ASSUME IInv, NEW c \in Calls, call[c].phase \in {"client", "connect"}
  PROVE  /\ call[c] \in Call /\ call[c].command \in Commands
         /\ call[c].out = {} /\ call[c].left = {}
         /\ Lists(call[c].command) /\ Catalog(c) \in Catalogs
         /\ all[c] \subseteq There(Catalog(c)) /\ There(Catalog(c)) \subseteq some[c]
BY RecordOf DEF Phased, Heard, Catalogued, Catalog

(* What a call that has its client does next: nothing is answered yet.     *)
LEMMA Requests ==
  ASSUME IInv, NEW c \in Calls, call[c].phase \in {"client", "connect"}, Request(c)
  PROVE  \E r \in Call :
           /\ call' = [call EXCEPT ![c] = r]
           /\ r.phase \in {"tables", "schemas"}
           /\ Good(r, There(Scope(r.command).catalog), some[c], all[c])
<1> DEFINE command == call[c].command
           schema == Scope(command).schema
           r == IF command.kind = "show_tables"
                THEN [call[c] EXCEPT !.phase = "tables", !.left = {schema} \X Tables]
                ELSE [call[c] EXCEPT !.phase = "schemas", !.left = Schemas \X {None}]
<1>1. /\ call[c] \in Call /\ command \in Commands /\ call[c].out = {} /\ call[c].left = {}
      /\ Lists(command) /\ Catalog(c) \in Catalogs
      /\ all[c] \subseteq There(Catalog(c)) /\ There(Catalog(c)) \subseteq some[c]
  BY ListingGoesOn
<1>2. command.kind = "show_tables" => schema \in SchemaNames
  BY <1>1, ScopeTyped
<1>3. r \in Call
  <2>1. command.kind = "show_tables" => {schema} \X Tables \subseteq SchemaNames \X (Tables \cup {None})
    BY <1>2
  <2>2. Schemas \X {None} \subseteq SchemaNames \X (Tables \cup {None})
    BY DEF SchemaNames
  <2> HIDE DEF schema
  <2> QED
    BY <1>1, <2>1, <2>2 DEF Call, Waiting
<1> HIDE DEF schema
<1>4. /\ r.phase = IF command.kind = "show_tables" THEN "tables" ELSE "schemas"
      /\ r.command = command /\ r.out = {}
      /\ r.left = IF command.kind = "show_tables" THEN {schema} \X Tables ELSE Schemas \X {None}
  BY <1>1 DEF Call
<1>5. call' = [call EXCEPT ![c] = r]
  BY DEF Request, Kind, schema
<1>11. all[c] \in SUBSET Names /\ \A n \in Names : n = <<n[1], n[2]>> /\ n[1] \in Schemas
  BY DEF IInv, TypeOK, Names
<1> HIDE DEF r
<1>6. Phased(r)
  BY <1>1, <1>4 DEF Phased
<1>7. Heard(r, There(Scope(r.command).catalog), some[c], all[c])
  BY <1>1, <1>4 DEF Heard, Catalogued, Catalog
<1>8. Rest(r) /\ Partly(r, some[c], all[c])
  <2>1. CASE command.kind = "show_tables"
    <3>1. schema = IF command.scope = <<>> THEN DefaultSchema ELSE Last(command.scope)
      BY <2>1 DEF Scope, Last, schema
    <3>2. \A n : Asked(command, n) <=>
            n[1] = schema /\ n[2] # None /\ Like(command.tablePattern, n[2])
      BY <2>1, <3>1 DEF Asked
    <3>3. r.phase = "tables" /\ r.left = {schema} \X Tables
      BY <1>4, <2>1
    <3>4. \A n \in r.left : n[1] = schema /\ n[2] # None
      BY <3>3, NoneAssumption
    <3>5. \A n \in all[c] : Asked(command, n) => n \in r.left
      <4> SUFFICES ASSUME NEW n \in all[c], Asked(command, n) PROVE n \in r.left
        OBVIOUS
      <4>1. n[1] = schema /\ n[2] # None /\ n \in Names
        BY <1>11, <3>2
      <4>2. n[2] \in Tables /\ n = <<n[1], n[2]>>
        BY <4>1 DEF Names
      <4> QED
        BY <3>3, <4>1, <4>2
    <3> QED
      BY <1>4, <2>1, <3>2, <3>3, <3>4, <3>5 DEF Rest, Partly
  <2>2. CASE command.kind # "show_tables"
    <3>1. r.phase = "schemas" /\ r.left = Schemas \X {None}
      BY <1>4, <2>2
    <3>2. \A n \in r.left : n[1] \in Schemas /\ n[2] = None
      BY <3>1
    <3>3. \A n \in all[c] : <<n[1], None>> \in r.left
      BY <1>11, <3>1
    <3> QED
      BY <1>4, <3>1, <3>2, <3>3 DEF Rest, Partly
  <2> QED
    BY <2>1, <2>2
<1>9. Good(r, There(Scope(r.command).catalog), some[c], all[c])
  BY <1>4, <1>6, <1>7, <1>8 DEF Good, Answered
<1>10. r.phase \in {"tables", "schemas"}
  BY <1>4
<1> QED
  BY <1>3, <1>5, <1>9, <1>10

LEMMA UseClientGood ==
  ASSUME IInv, NEW c \in Calls, UseClient(c)
  PROVE  IInv'
<1>1. PICK r \in Call :
        /\ call' = [call EXCEPT ![c] = r]
        /\ r.phase \in {"tables", "schemas"}
        /\ Good(r, There(Scope(r.command).catalog), some[c], all[c])
  BY Requests DEF UseClient, At
<1>2. ~At(c, "connect") /\ r.phase # "connect"
  BY <1>1 DEF UseClient, At
<1> QED
  BY <1>1, <1>2, OwnStep DEF UseClient

(* Who connects a client, after a step of one call.                        *)
LEMMA ConnectingAfter ==
  ASSUME NEW c \in Calls, NEW r, \A d \in Calls : call'[d] = IF d = c THEN r ELSE call[d], NEW k
  PROVE  \A d : d \in Connecting(k)' <=>
           IF d = c THEN r.phase = "connect" /\ Scope(r.command).catalog = k
           ELSE d \in Connecting(k)
<1>1. \A d : d \in Connecting(k)' <=> /\ d \in Calls /\ call'[d].phase = "connect"
                                     /\ Scope(call'[d].command).catalog = k
  BY DEF Connecting, At, Catalog
<1>2. \A d : d \in Connecting(k) <=> /\ d \in Calls /\ call[d].phase = "connect"
                                    /\ Scope(call[d].command).catalog = k
  BY DEF Connecting, At, Catalog
<1> QED
  BY <1>1, <1>2

(* The caller that finds the cell empty is the only one that connects.     *)
LEMMA ConnectGood ==
  ASSUME IInv, NEW c \in Calls, Connect(c)
  PROVE  IInv'
<1> DEFINE r == [call[c] EXCEPT !.phase = "connect"]
<1>0. PICK k : k = Catalog(c)
  OBVIOUS
<1>1. /\ call[c] \in Call /\ call[c].command \in Commands /\ call[c].out = {} /\ call[c].left = {}
      /\ Lists(call[c].command) /\ k \in Catalogs
      /\ all[c] \subseteq There(k) /\ There(k) \subseteq some[c]
  BY <1>0, ListingGoesOn DEF Connect, At
<1>2. r \in Call
  BY <1>1 DEF Call, Waiting
<1>3. r.phase = "connect" /\ r.command = call[c].command /\ r.out = {} /\ r.left = {}
  BY <1>1 DEF Call
<1>4. call' = [call EXCEPT ![c] = r] /\ UNCHANGED <<content, history>>
  BY DEF Connect, Move
<1>5. client[k] = "empty" /\ client' = [client EXCEPT ![k] = "busy"] /\ made' = made
  BY <1>0 DEF Connect, MayConnect
<1>6. k = Scope(r.command).catalog
  BY <1>0, <1>3 DEF Catalog
<1> HIDE DEF r
<1>7. Good(r, There(Scope(r.command).catalog), some[c], all[c])
  <2>1. Phased(r)
    BY <1>1, <1>3 DEF Phased
  <2>2. Heard(r, There(Scope(r.command).catalog), some[c], all[c])
    BY <1>1, <1>3, <1>6 DEF Heard, Catalogued
  <2> QED
    BY <1>3, <2>1, <2>2 DEF Good, Rest, Partly, Answered
<1>8. \A d \in Calls : call'[d] = IF d = c THEN r ELSE call[d]
  BY <1>4 DEF IInv, TypeOK
<1>11. \A j : c \notin Connecting(j)
  BY DEF Connect, Connecting, At
<1>9. ASSUME NEW j \in Catalogs PROVE Cell(j)'
  <2>1. Cell(j) /\ client \in [Catalogs -> {"empty", "busy", "ready"}]
    BY DEF IInv, TypeOK
  <2>2. CASE j = k
    <3>1. Connecting(k) = {} /\ made[k] = {}
      BY <1>5, <2>1, <2>2 DEF Cell
    <3>2. Connecting(k)' \subseteq {c}
      BY <1>8, <3>1, ConnectingAfter
    <3> QED
      BY <1>1, <1>5, <2>1, <2>2, <3>1, <3>2 DEF Cell
  <2>3. CASE j # k
    <3>0. \A d : d \in Connecting(j)' <=> d \in Connecting(j)
      BY <1>6, <1>8, <1>11, <2>3, ConnectingAfter
    <3>1. Connecting(j)' = Connecting(j)
      BY <3>0 DEF Connecting
    <3> QED
      BY <1>1, <1>5, <2>1, <2>3, <3>1 DEF Cell
  <2> QED
    BY <2>2, <2>3
<1>10. client' \in [Catalogs -> {"empty", "busy", "ready"}] /\ made' \in [Catalogs -> SUBSET Calls]
  BY <1>5 DEF IInv, TypeOK
<1> QED
  BY <1>2, <1>4, <1>7, <1>9, <1>10, QuietStep

(* It fills the cell, which nobody has filled before.                      *)
LEMMA ConnectedGood ==
  ASSUME IInv, NEW c \in Calls, Connected(c)
  PROVE  IInv'
<1>1. PICK r \in Call :
        /\ call' = [call EXCEPT ![c] = r]
        /\ r.phase \in {"tables", "schemas"}
        /\ Good(r, There(Scope(r.command).catalog), some[c], all[c])
  BY Requests DEF Connected, At
<1>0. PICK k : k = Catalog(c)
  OBVIOUS
<1>2. k \in Catalogs /\ call[c].phase = "connect"
  BY <1>0, ListingGoesOn DEF Connected, At
<1>3. /\ client' = [client EXCEPT ![k] = "ready"]
      /\ made' = [made EXCEPT ![k] = @ \cup {c}]
      /\ UNCHANGED <<content, history>>
  BY <1>0 DEF Connected
<1>4. c \in Connecting(k)
  BY <1>0, <1>2 DEF Connecting, At
<1>8. \A j : j # k => c \notin Connecting(j)
  BY <1>0 DEF Connecting
<1>5. \A d \in Calls : call'[d] = IF d = c THEN r ELSE call[d]
  BY <1>1 DEF IInv, TypeOK
<1>6. ASSUME NEW j \in Catalogs PROVE Cell(j)'
  <2>1. /\ Cell(j) /\ client \in [Catalogs -> {"empty", "busy", "ready"}]
        /\ made \in [Catalogs -> SUBSET Calls]
    BY DEF IInv, TypeOK
  <2>2. CASE j = k
    <3>1. Connecting(k) = {c} /\ client[k] = "busy" /\ made[k] = {}
      BY <1>4, <2>1, <2>2 DEF Cell
    <3>2. Connecting(k)' = {}
      BY <1>1, <1>5, <3>1, ConnectingAfter
    <3>3. client'[k] = "ready" /\ made'[k] = {c}
      BY <1>2, <1>3, <2>1, <3>1
    <3> QED
      BY <2>2, <3>2, <3>3 DEF Cell
  <2>3. CASE j # k
    <3>0. \A d : d \in Connecting(j)' <=> d \in Connecting(j)
      BY <1>1, <1>4, <1>5, <1>8, <2>3, ConnectingAfter
    <3>1. Connecting(j)' = Connecting(j)
      BY <3>0 DEF Connecting
    <3>2. client'[j] = client[j] /\ made'[j] = made[j]
      BY <1>3, <2>1, <2>3
    <3> QED
      BY <2>1, <3>1, <3>2 DEF Cell
  <2> QED
    BY <2>2, <2>3
<1>7. client' \in [Catalogs -> {"empty", "busy", "ready"}] /\ made' \in [Catalogs -> SUBSET Calls]
  BY <1>3 DEF IInv, TypeOK
<1> QED
  BY <1>1, <1>3, <1>6, <1>7, QuietStep

(* A call that ends while it connects empties the cell.                    *)
LEMMA EndGood ==
  ASSUME IInv, NEW c \in Calls, NEW phase \in {"failed", "gone"}, End(c, phase)
  PROVE  IInv'
<1> DEFINE r == [Idle EXCEPT !.phase = phase]
<1>0. PICK k : k = Catalog(c)
  OBVIOUS
<1>2. r \in Call
  BY DEF Call, Idle
<1>3. r.phase = phase /\ r.out = {} /\ r.left = {}
  BY DEF Idle
<1>4. /\ call' = [call EXCEPT ![c] = r] /\ content' = content /\ made' = made
      /\ some' = [some EXCEPT ![c] = {}] /\ all' = [all EXCEPT ![c] = {}]
  BY DEF End
<1>5. client' = IF call[c].phase = "connect" THEN [client EXCEPT ![k] = "empty"] ELSE client
  BY <1>0 DEF End, Release, At
<1>6. call[c].phase = "connect" => k \in Catalogs /\ c \in Connecting(k)
  BY <1>0, ListingGoesOn DEF Connecting, At
<1>11. \A j : ~(call[c].phase = "connect" /\ j = k) => c \notin Connecting(j)
  BY <1>0 DEF Connecting, At
<1> HIDE DEF r
<1>7. Good(r, There(Scope(r.command).catalog), {}, {})
  <2>1. Phased(r)
    BY <1>3 DEF Phased
  <2> QED
    BY <1>3, <2>1 DEF Good, Rest, Heard, Partly, Answered
<1>8. \A d \in Calls : call'[d] = IF d = c THEN r ELSE call[d]
  BY <1>4 DEF IInv, TypeOK
<1>9. ASSUME NEW j \in Catalogs PROVE Cell(j)'
  <2>1. Cell(j) /\ client \in [Catalogs -> {"empty", "busy", "ready"}]
    BY DEF IInv, TypeOK
  <2>2. CASE call[c].phase = "connect" /\ j = k
    <3>1. Connecting(k) = {c} /\ client[k] = "busy" /\ made[k] = {}
      BY <1>6, <2>1, <2>2 DEF Cell
    <3>2. Connecting(k)' = {}
      BY <1>3, <1>8, <3>1, ConnectingAfter
    <3>3. client'[k] = "empty" /\ made'[k] = {}
      BY <1>4, <1>5, <1>6, <2>1, <2>2, <3>1
    <3> QED
      BY <2>2, <3>2, <3>3 DEF Cell
  <2>3. CASE ~(call[c].phase = "connect" /\ j = k)
    <3>0. \A d : d \in Connecting(j)' <=> d \in Connecting(j)
      BY <1>3, <1>8, <1>11, <2>3, ConnectingAfter
    <3>1. Connecting(j)' = Connecting(j)
      BY <3>0 DEF Connecting
    <3>2. client'[j] = client[j] /\ made'[j] = made[j]
      BY <1>4, <1>5, <2>1, <2>3
    <3> QED
      BY <2>1, <3>1, <3>2 DEF Cell
  <2> QED
    BY <2>2, <2>3
<1>10. client' \in [Catalogs -> {"empty", "busy", "ready"}] /\ made' \in [Catalogs -> SUBSET Calls]
  BY <1>4, <1>5 DEF IInv, TypeOK
<1> QED
  BY <1>2, <1>4, <1>7, <1>9, <1>10, CallStep

-----------------------------------------------------------------------------

(* A call that lists, and what it is known to have listed.                 *)
LEMMA Lister ==
  ASSUME IInv, NEW c \in Calls, call[c].phase \in {"schemas", "tables"}
  PROVE  /\ call[c] \in Call /\ call[c].command \in Commands /\ Lists(call[c].command)
         /\ Catalog(c) \in Catalogs
         /\ all[c] \subseteq There(Catalog(c)) /\ There(Catalog(c)) \subseteq some[c]
         /\ Rest(call[c]) /\ Partly(call[c], some[c], all[c])
         /\ content[Catalog(c)] \in Partial(Schemas, SUBSET Tables)
         /\ There(Catalog(c)) \subseteq Names
         /\ \A n \in There(Catalog(c)) : n = <<n[1], n[2]>>
         /\ \A n \in call[c].left : n = <<n[1], n[2]>>
<1>1. /\ call[c] \in Call /\ call[c].command \in Commands /\ Lists(call[c].command)
      /\ Catalog(c) \in Catalogs
      /\ all[c] \subseteq There(Catalog(c)) /\ There(Catalog(c)) \subseteq some[c]
      /\ Rest(call[c]) /\ Partly(call[c], some[c], all[c])
  BY RecordOf DEF Phased, Heard, Catalogued, Catalog
<1>2. content[Catalog(c)] \in Partial(Schemas, SUBSET Tables)
  BY <1>1 DEF IInv, TypeOK
<1>3. There(Catalog(c)) \subseteq Names
  BY <1>2, ThereTyped DEF There
<1>4. \A n \in There(Catalog(c)) : n = <<n[1], n[2]>>
  BY <1>3 DEF Names
<1>5. \A n \in call[c].left : n = <<n[1], n[2]>>
  BY <1>1 DEF Call
<1> QED
  BY <1>1, <1>2, <1>3, <1>4, <1>5

(* The schemas on a page answer for those there all the time.              *)
LEMMA ListSchemasGood ==
  ASSUME IInv, NEW c \in Calls, NEW page \in SUBSET Schemas, ListSchemas(c, page)
  PROVE  IInv'
<1> DEFINE command == call[c].command
           k == Catalog(c)
           left == call[c].left
           found == ToAsk(c, page \cap DOMAIN content[k])
           rest == left \ (page \X {None})
           phase == IF page # Unlisted(c) THEN call[c].phase
                    ELSE IF command.kind = "tables" THEN "tables" ELSE "done"
           still == IF command.kind = "tables" THEN rest \cup (found \X Tables) ELSE rest
           out == IF command.kind = "tables" THEN call[c].out ELSE call[c].out \cup (found \X {None})
           r == [call[c] EXCEPT !.phase = phase, !.left = still, !.out = out]
<1>1. /\ call[c] \in Call /\ call[c].phase = "schemas" /\ command \in Commands /\ Lists(command)
      /\ k \in Catalogs /\ all[c] \subseteq There(k) /\ There(k) \subseteq some[c]
      /\ content[k] \in Partial(Schemas, SUBSET Tables) /\ There(k) \subseteq Names
      /\ \A n \in There(k) : n = <<n[1], n[2]>>
      /\ \A n \in left : n = <<n[1], n[2]>>
  BY Lister DEF ListSchemas, At
<1>2. /\ call[c].out \subseteq {n \in some[c] : Asked(command, n)}
      /\ \A n \in all[c] : Asked(command, n) =>
           <<n[1], None>> \in left \/ n \in left \/ n \in call[c].out
      /\ \A n \in left : n[2] # None /\ Like(command.tablePattern, n[2]) => Asked(command, n)
      /\ \A n \in left : n[1] \in Schemas /\ (command.kind # "tables" => n[2] = None)
  BY <1>1, Lister DEF Partly, Rest
<1>3. command.kind \in {"schemas", "tables", "show_schemas"}
  BY <1>1, RecordOf DEF Phased, Lists, Listing, Shows
<1>4. page \subseteq Unlisted(c)
  BY DEF ListSchemas, Page
<1>5. found = {s \in page \cap DOMAIN content[k] : Like(command.schemaPattern, s)} /\ found \subseteq Schemas
  BY DEF ToAsk
<1>6. /\ call' = [call EXCEPT ![c] = r] /\ UNCHANGED <<content, clients, history>>
  BY DEF ListSchemas, Kind
<1>7. left \subseteq SchemaNames \X (Tables \cup {None}) /\ call[c].out \subseteq Names
  BY <1>1 DEF Call
<1> HIDE DEF found
<1>8. still \subseteq SchemaNames \X (Tables \cup {None}) /\ out \subseteq Names
  BY <1>5, <1>7 DEF SchemaNames, Names
<1>9. phase \in {"schemas", "tables", "done"}
  BY <1>1
<1> HIDE DEF rest, still, out, phase, left
<1>10. r \in Call
  BY <1>1, <1>8, <1>9 DEF Call, Waiting
<1>11. r.command = command /\ r.phase = phase /\ r.left = still /\ r.out = out
  BY <1>1 DEF Call
<1>12. Catalogued(r) = k
  BY <1>11 DEF Catalogued, Catalog
<1> HIDE DEF r, k, command
<1>13. \A n \in There(k) : n[1] \in DOMAIN content[k]
  BY InThere DEF There
<1>14. \A s \in DOMAIN content[k] : <<s, None>> \in There(k)
  BY InThere DEF There
<1>15. \A n : n \in rest <=> n \in left /\ n \notin page \X {None}
  BY DEF rest
<1>16. \A n \in all[c] : Asked(command, n) /\ n[1] \in page => n[1] \in found
  BY <1>1, <1>3, <1>5, <1>13 DEF Asked
<1>17. \A n \in all[c] : n = <<n[1], n[2]>> /\ n[1] \in Schemas /\ n[2] \in Tables \cup {None}
  BY <1>1 DEF Names
<1>18. phase # "schemas" => \A n \in rest : n[2] # None
  <2> SUFFICES ASSUME phase # "schemas", NEW n \in rest, n[2] = None PROVE FALSE
    OBVIOUS
  <2>1. page = Unlisted(c)
    BY <1>1 DEF phase
  <2>2. n \in left /\ n = <<n[1], None>> /\ n[1] \in Schemas
    BY <1>1, <1>2, <1>15
  <2>3. n[1] \in page
    BY <2>1, <2>2 DEF Unlisted, left
  <2> QED
    BY <1>15, <2>2, <2>3
<1>19. CASE command.kind = "tables"
  <2>1. still = rest \cup (found \X Tables) /\ out = call[c].out /\ phase \in {"schemas", "tables"}
    BY <1>1, <1>19 DEF still, out, phase
  <2>2. \A n : Asked(command, n) <=>
          Like(command.schemaPattern, n[1]) /\ n[2] # None /\ Like(command.tablePattern, n[2])
    BY <1>19 DEF Asked
  <2>3. \A n \in found \X Tables : n[1] \in found /\ n[2] \in Tables /\ n[2] # None
    BY NoneAssumption
  <2>4. Rest(r)
    BY <1>2, <1>5, <1>11, <1>15, <1>18, <1>19, <2>1, <2>3 DEF Rest
  <2>5. ASSUME NEW n \in all[c], Asked(command, n)
        PROVE  <<n[1], None>> \in still \/ n \in still \/ n \in out
    <3>1. CASE n[1] \in page
      <4>1. n[1] \in found /\ n[2] \in Tables /\ n = <<n[1], n[2]>>
        BY <1>16, <1>17, <2>2, <2>5, <3>1
      <4> QED
        BY <2>1, <4>1
    <3>2. CASE n[1] \notin page
      <4>1. <<n[1], None>> \in left => <<n[1], None>> \in rest
        BY <1>15, <3>2
      <4>2. n \in left => n \in rest
        BY <1>15, <2>2, <2>5
      <4> QED
        BY <1>2, <2>1, <2>5, <4>1, <4>2
    <3> QED
      BY <3>1, <3>2
  <2>6. \A n \in still : n[2] # None /\ Like(command.tablePattern, n[2]) => Asked(command, n)
    BY <1>2, <1>5, <1>15, <2>1, <2>2, <2>3
  <2>7. Partly(r, some[c], all[c])
    BY <1>2, <1>11, <2>1, <2>5, <2>6 DEF Partly
  <2>8. Phased(r) /\ Heard(r, There(k), some[c], all[c]) /\ Answered(r, some[c], all[c])
    BY <1>1, <1>3, <1>11, <1>12, <2>1 DEF Phased, Heard, Answered
  <2>9. Good(r, There(Scope(r.command).catalog), some[c], all[c])
    BY <1>12, <2>4, <2>7, <2>8 DEF Good, Catalogued
  <2> QED
    BY <1>1, <1>6, <1>10, <1>11, <2>1, <2>9, OwnStep DEF At
<1>20. CASE command.kind # "tables"
  <2>1. /\ still = rest /\ out = call[c].out \cup (found \X {None})
        /\ phase \in {"schemas", "done"} /\ command.kind \in {"schemas", "show_schemas"}
    BY <1>1, <1>3, <1>20 DEF still, out, phase
  <2>2. \A n : Asked(command, n) <=> Like(command.schemaPattern, n[1]) /\ n[2] = None
    BY <2>1 DEF Asked
  <2>3. \A n \in rest : n[1] \in Schemas /\ n[2] = None
    BY <1>2, <1>15, <1>20
  <2>4. phase = "done" => rest = {}
    BY <1>18, <2>3
  <2>5. \A s \in found : <<s, None>> \in some[c] /\ Asked(command, <<s, None>>)
    BY <1>1, <1>5, <1>14, <2>2
  <2>6. out \subseteq {n \in some[c] : Asked(command, n)}
    BY <1>2, <2>1, <2>5
  <2>7. ASSUME NEW n \in all[c], Asked(command, n)
        PROVE  n \in rest \/ n \in out
    <3>1. n = <<n[1], None>>
      BY <1>17, <2>2, <2>7
    <3>2. CASE n[1] \in page
      <4>1. n[1] \in found
        BY <1>16, <2>7, <3>2
      <4> QED
        BY <2>1, <3>1, <4>1
    <3>3. CASE n[1] \notin page
      BY <1>2, <1>15, <2>1, <2>7, <3>1, <3>3
    <3> QED
      BY <3>2, <3>3
  <2>8. Rest(r) /\ Partly(r, some[c], all[c])
    BY <1>11, <2>1, <2>3, <2>6, <2>7 DEF Rest, Partly
  <2>9. Phased(r)
    BY <1>1, <1>3, <1>11, <2>1, <2>4 DEF Phased
  <2>10. Heard(r, There(k), some[c], all[c])
    BY <1>1, <1>11, <1>12 DEF Heard
  <2>11. Answered(r, some[c], all[c])
    BY <1>11, <2>4, <2>6, <2>7 DEF Answered
  <2>12. Good(r, There(Scope(r.command).catalog), some[c], all[c])
    BY <1>12, <2>8, <2>9, <2>10, <2>11 DEF Good, Catalogued
  <2> QED
    BY <1>1, <1>6, <1>10, <1>11, <2>1, <2>12, OwnStep DEF At
<1> QED
  BY <1>19, <1>20

(* ... and so do the tables on a page of one of them.                      *)
LEMMA ListTablesGood ==
  ASSUME IInv, NEW c \in Calls, NEW s \in SchemaNames, NEW page \in SUBSET Tables, ListTables(c, s, page)
  PROVE  IInv'
<1> DEFINE command == call[c].command
           k == Catalog(c)
           left == call[c].left
           found == {t \in page \cap TablesIn(k, s) : Like(command.tablePattern, t)}
           r == [call[c] EXCEPT !.left = @ \ ({s} \X page), !.out = @ \cup ({s} \X found)]
<1>1. /\ call[c] \in Call /\ call[c].phase = "tables" /\ command \in Commands /\ Lists(command)
      /\ k \in Catalogs /\ all[c] \subseteq There(k) /\ There(k) \subseteq some[c]
      /\ There(k) \subseteq Names
      /\ \A n \in There(k) : n = <<n[1], n[2]>>
      /\ \A n \in left : n = <<n[1], n[2]>>
  BY Lister DEF ListTables, At
<1>2. /\ call[c].out \subseteq {n \in some[c] : Asked(command, n)}
      /\ \A n \in all[c] : Asked(command, n) =>
           <<n[1], None>> \in left \/ n \in left \/ n \in call[c].out
      /\ \A n \in left : n[2] # None /\ Like(command.tablePattern, n[2]) => Asked(command, n)
      /\ \A n \in left : n[2] # None
      /\ command.kind \in {"tables", "show_tables"}
  BY <1>1, Lister DEF Partly, Rest
<1>3. \A t \in page : <<s, t>> \in left
  BY DEF ListTables, Page
<1>4. \A t : t \in found <=> /\ t \in page /\ t # None /\ Like(command.tablePattern, t)
                             /\ <<s, t>> \in There(k)
  BY <1>1 DEF TablesIn
<1>5. {s} \X found \subseteq Names
  BY <1>1, <1>4
<1>6. r \in Call
  BY <1>1, <1>5 DEF Call
<1>7. /\ r.command = command /\ r.phase = "tables" /\ r.left = left \ ({s} \X page)
      /\ r.out = call[c].out \cup ({s} \X found)
  BY <1>1 DEF Call
<1>8. call' = [call EXCEPT ![c] = r] /\ UNCHANGED <<content, clients, history>>
  BY DEF ListTables
<1>9. Catalogued(r) = k
  BY <1>7 DEF Catalogued, Catalog
<1> HIDE DEF r, k, found, left, command
<1>10. \A n : n \in r.left <=> n \in left /\ n \notin {s} \X page
  BY <1>7
<1>11. Rest(r) /\ Phased(r)
  BY <1>1, <1>2, <1>7, <1>10 DEF Rest, Phased
<1>12. \A t \in found : <<s, t>> \in some[c] /\ Asked(command, <<s, t>>)
  BY <1>1, <1>2, <1>3, <1>4
<1>13. ASSUME NEW n \in all[c], Asked(command, n)
       PROVE  n \in r.left \/ n \in r.out
  <2>1. n = <<n[1], n[2]>> /\ n \in There(k) /\ n[2] # None /\ Like(command.tablePattern, n[2])
    BY <1>1, <1>2, <1>13 DEF Asked
  <2>2. n \in left \/ n \in call[c].out
    BY <1>2, <1>13
  <2>3. CASE n[1] = s /\ n[2] \in page
    <3>1. n[2] \in found /\ n = <<s, n[2]>>
      BY <1>4, <2>1, <2>3
    <3> QED
      BY <1>7, <3>1
  <2>4. CASE ~(n[1] = s /\ n[2] \in page)
    BY <1>7, <1>10, <2>1, <2>2, <2>4
  <2> QED
    BY <2>3, <2>4
<1>14. r.out \subseteq {n \in some[c] : Asked(command, n)}
  BY <1>2, <1>7, <1>12
<1>15. Partly(r, some[c], all[c])
  BY <1>2, <1>7, <1>10, <1>13, <1>14 DEF Partly
<1>16. Heard(r, There(k), some[c], all[c]) /\ Answered(r, some[c], all[c])
  BY <1>1, <1>7, <1>9 DEF Heard, Answered
<1>17. Good(r, There(Scope(r.command).catalog), some[c], all[c])
  BY <1>9, <1>11, <1>15, <1>16 DEF Good, Catalogued
<1> QED
  BY <1>1, <1>6, <1>7, <1>8, <1>17, OwnStep DEF At

LEMMA SendTablesGood ==
  ASSUME IInv, NEW c \in Calls, SendTables(c)
  PROVE  IInv'
<1> DEFINE r == [call[c] EXCEPT !.phase = "done"]
<1>1. call[c] \in Call /\ call[c].phase = "tables" /\ call[c].left = {} /\ call[c].command \in Commands
  BY Lister DEF SendTables, At
<1>2. /\ call[c].out \subseteq {n \in some[c] : Asked(call[c].command, n)}
      /\ {n \in all[c] : Asked(call[c].command, n)} \subseteq call[c].out
  BY <1>1, RecordOf DEF Partly
<1>3. r \in Call
  BY <1>1 DEF Call
<1>4. r.command = call[c].command /\ r.phase = "done" /\ r.left = {} /\ r.out = call[c].out
  BY <1>1 DEF Call
<1>5. call' = [call EXCEPT ![c] = r] /\ UNCHANGED <<content, clients, history>>
  BY DEF SendTables, Move
<1> HIDE DEF r
<1>6. Phased(r) /\ Answered(r, some[c], all[c])
  BY <1>1, <1>2, <1>4 DEF Phased, Answered
<1>7. Good(r, There(Scope(r.command).catalog), some[c], all[c])
  BY <1>4, <1>6 DEF Good, Rest, Heard, Partly
<1> QED
  BY <1>1, <1>3, <1>4, <1>5, <1>7, OwnStep DEF At

-----------------------------------------------------------------------------

(* Whatever happens to a catalog, its listings hear of it.                 *)
LEMMA ChangeCatalogGood ==
  ASSUME IInv, NEW k \in Catalogs, NEW s \in Schemas, NEW t \in Tables, ChangeCatalog(k, s, t)
  PROVE  IInv'
<1> DEFINE asks(c) == call[c].phase \in Waiting /\ Kind(c) # "statement" /\ Catalog(c) = k
<1>1. PICK new : new \in Partial(Schemas, SUBSET Tables) /\ content' = [content EXCEPT ![k] = new]
  <2>1. content[k] \in Partial(Schemas, SUBSET Tables)
    BY DEF IInv, TypeOK
  <2>2. CASE content' = [content EXCEPT ![k] = Created(content[k], s, t)]
    BY <2>1, <2>2, ChangeTyped
  <2>3. CASE s \in DOMAIN content[k] /\ content' = [content EXCEPT ![k] = Dropped(content[k], s, t)]
    BY <2>1, <2>3, ChangeTyped
  <2> QED
    BY <2>2, <2>3 DEF ChangeCatalog
<1>2. content' \in [Catalogs -> Partial(Schemas, SUBSET Tables)] /\ content'[k] = new
      /\ \A j \in Catalogs \ {k} : content'[j] = content[j]
  BY <1>1 DEF IInv, TypeOK
<1>3. call' = call /\ client' = client /\ made' = made
  BY DEF ChangeCatalog, clients
<1>4. ThereIn(new) \subseteq Names
  BY <1>1, ThereTyped
<1>5. /\ some' = [c \in Calls |-> IF asks(c) THEN some[c] \cup ThereIn(new) ELSE some[c]]
      /\ all' = [c \in Calls |-> IF asks(c) THEN all[c] \cap ThereIn(new) ELSE all[c]]
  BY <1>2 DEF ChangeCatalog
<1>6. \A c \in Calls : /\ some'[c] = IF asks(c) THEN some[c] \cup ThereIn(new) ELSE some[c]
                       /\ all'[c] = IF asks(c) THEN all[c] \cap ThereIn(new) ELSE all[c]
  BY <1>5
<1>7. TypeOK'
  <2>1. some' \in [Calls -> SUBSET Names] /\ all' \in [Calls -> SUBSET Names]
    BY <1>4, <1>5 DEF IInv, TypeOK
  <2> QED
    BY <1>2, <1>3, <2>1 DEF IInv, TypeOK
<1>8. ASSUME NEW c \in Calls PROVE Good(call[c], There(Catalog(c)), some[c], all[c])'
  <2> DEFINE r == call[c]
  <2>1. Phased(r) /\ Rest(r) /\ Heard(r, There(Catalog(c)), some[c], all[c])
        /\ Partly(r, some[c], all[c]) /\ Answered(r, some[c], all[c])
    BY RecordOf
  <2>2. some[c] \subseteq some'[c] /\ all'[c] \subseteq all[c]
    BY <1>6
  <2>3. r' = r /\ Catalog(c)' = Catalog(c)
    BY <1>3 DEF Catalog
  <2>4. Heard(r, There(Catalog(c))', some'[c], all'[c])
    <3>1. SUFFICES ASSUME r.phase \in {"client", "connect", "schemas", "tables"}
                   PROVE  /\ Lists(r.command) /\ Catalogued(r) \in Catalogs
                          /\ all'[c] \subseteq There(Catalog(c))'
                          /\ There(Catalog(c))' \subseteq some'[c]
      BY DEF Heard
    <3>2. /\ Lists(r.command) /\ Catalogued(r) \in Catalogs
          /\ all[c] \subseteq There(Catalog(c)) /\ There(Catalog(c)) \subseteq some[c]
      BY <2>1, <3>1 DEF Heard
    <3>3. Catalogued(r) = Catalog(c)
      BY DEF Catalogued, Catalog
    <3>4. CASE Catalog(c) = k
      <4>1. asks(c)
        BY <3>1, <3>2, <3>4 DEF Waiting, Kind, Lists, Listing, Shows
      <4>2. There(Catalog(c))' = ThereIn(new)
        BY <1>2, <2>3, <3>4 DEF There
      <4> QED
        BY <1>6, <3>2, <4>1, <4>2
    <3>5. CASE Catalog(c) # k
      <4>1. There(Catalog(c))' = There(Catalog(c))
        BY <1>2, <2>3, <3>2, <3>3, <3>5 DEF There
      <4> QED
        BY <1>6, <3>2, <3>5, <4>1
    <3> QED
      BY <3>4, <3>5
  <2>5. Partly(r, some'[c], all'[c])
    BY <2>1, <2>2 DEF Partly
  <2>6. Answered(r, some'[c], all'[c])
    BY <2>1, <2>2 DEF Answered
  <2> QED
    BY <2>1, <2>3, <2>4, <2>5, <2>6 DEF Good
<1>9. ASSUME NEW j \in Catalogs PROVE Cell(j)'
  <2>1. Cell(j) /\ Connecting(j)' = Connecting(j)
    BY <1>3 DEF IInv, Connecting, At, Catalog
  <2> QED
    BY <1>3, <2>1 DEF Cell
<1> QED
  BY <1>7, <1>8, <1>9 DEF IInv

LEMMA StepGood == IInv /\ [Next]_vars => IInv'
<1> SUFFICES ASSUME IInv, [Next]_vars PROVE IInv'
  OBVIOUS
<1>1. ASSUME NEW v \in Volatile, ChangeCatalog(v[1], v[2], v[3]) PROVE IInv'
  BY <1>1, VolatileAssumption, ChangeCatalogGood
<1>2. ASSUME NEW c \in Calls,
             \/ \E command \in Commands : GetFlightInfo(c, command) \/ Show(c, command)
             \/ DoGet(c) \/ DoGetConstant(c)
             \/ End(c, "failed") \/ End(c, "gone")
      PROVE  IInv'
  BY <1>2, GetFlightInfoGood, ShowGood, DoGetGood, DoGetConstantGood, EndGood
<1>3. ASSUME NEW c \in Calls, Work(c) PROVE IInv'
  BY <1>3, ConnectGood, ConnectedGood, UseClientGood, ListSchemasGood, ListTablesGood,
     SendTablesGood, ExecuteStatementGood DEF Work
<1>4. CASE UNCHANGED vars
  <2>1. content' = content /\ call' = call /\ client' = client /\ made' = made /\ some' = some /\ all' = all
    BY <1>4 DEF vars
  <2>2. ASSUME NEW j \in Catalogs PROVE Cell(j)'
    BY <2>1 DEF IInv, Cell, Connecting, At, Catalog
  <2>3. ASSUME NEW c \in Calls PROVE Good(call[c], There(Catalog(c)), some[c], all[c])'
    BY <2>1, OthersKept
  <2> QED
    BY <2>1, <2>2, <2>3 DEF IInv, TypeOK
<1> QED
  BY <1>1, <1>2, <1>3, <1>4 DEF Next

LEMMA Invariance == Spec => []IInv
BY InitGood, StepGood, PTL DEF Spec

(* Calls, the metastores and what calls have heard of them keep their      *)
(* types, whatever commands are asked.                                     *)
THEOREM MetadataTyped == Spec => []TypeOK
<1>1. IInv => TypeOK
  BY DEF IInv
<1> QED
  BY <1>1, Invariance, PTL

(* A listing that succeeds has no name that was not there while it was     *)
(* made and misses none that was there all the time, however many requests *)
(* and pages it takes and whatever others create and drop between them.    *)
THEOREM ListingsTrue == Spec => []ListingTrue
<1>1. IInv => ListingTrue
  <2> SUFFICES ASSUME IInv, NEW c \in Calls, At(c, "done"), Kind(c) \notin Constant \cup {"statement"}
               PROVE  /\ call[c].out \subseteq {n \in some[c] : Asked(call[c].command, n)}
                      /\ {n \in all[c] : Asked(call[c].command, n)} \subseteq call[c].out
    BY DEF ListingTrue
  <2>1. call[c].command \in Command /\ call[c].phase = "done"
    BY RecordOf, CommandsAssumption DEF At, Phased
  <2>2. Lists(call[c].command)
    BY <2>1 DEF Command, Kind, Lists, Listing
  <2> QED
    BY <2>1, <2>2, RecordOf DEF Answered
<1> QED
  BY <1>1, Invariance, PTL

(* The ticket of every command is one that DoGet redeems.                  *)
THEOREM TicketsHold == Spec => []TicketsRedeemable
<1>1. IInv => TicketsRedeemable
  BY RecordOf DEF TicketsRedeemable, At, Phased
<1> QED
  BY <1>1, Invariance, PTL

(* However many calls there are, of however many catalogs, one of them     *)
(* connects each client.                                                   *)
THEOREM ConnectedOnlyOnce == Spec => []ConnectedOnce
<1>1. IInv => ConnectedOnce
  <2> SUFFICES ASSUME IInv, NEW k \in Catalogs
               PROVE  Cardinality(made[k]) <= 1 /\ (made[k] # {} => client[k] = "ready")
    BY DEF ConnectedOnce
  <2>1. Cell(k)
    BY DEF IInv
  <2>2. CASE client[k] = "ready"
    <3>1. PICK c \in Calls : made[k] = {c}
      BY <2>1, <2>2 DEF Cell
    <3>2. Cardinality({c}) = 1
      BY FS_Singleton
    <3> QED
      BY <2>2, <3>1, <3>2
  <2>3. CASE client[k] # "ready"
    <3>1. made[k] = {} /\ Cardinality({}) = 0
      BY <2>1, <2>3, FS_EmptySet DEF Cell
    <3> QED
      BY <3>1
  <2> QED
    BY <2>2, <2>3
<1> QED
  BY <1>1, Invariance, PTL

=============================================================================
