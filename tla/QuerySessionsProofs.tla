------------------------ MODULE QuerySessionsProofs ------------------------
(***************************************************************************)
(* The safety of QuerySessions for any clients, catalogs and inputs.  The  *)
(* inductive invariant says of each client, from its own task, scope,      *)
(* catalog list and beliefs alone, what must be so in each phase: no       *)
(* action of another client touches any of the four.                       *)
(*                                                                         *)
(* Then that of SqlScripts, which gives sessions their statements, for     *)
(* texts of any length.  The tokenizer and the parser go through a text    *)
(* step by step, the property is about the whole; what was read of it is   *)
(* compared by counting the positions before the one they are at.          *)
(***************************************************************************)
EXTENDS QuerySessionsProperties, SqlScripts, FiniteSetTheorems, SequenceTheorems, WellFoundedInduction, TLAPS

Typed(t, s, r, b) ==
  /\ t \in Task
  /\ s \in Scope
  /\ r \in CatalogList \cup {None}
  /\ b \in Scope \cup {None}

(* What the code relies on across an await, phase by phase.                *)
Sound(t, s, r, b, c) ==
  /\ t.phase # "idle" => t.rest # <<>>
  /\ t.phase \in {"resolve", "plan", "planned"} => t.full = Qualify(Head(t.rest), s)
  /\ t.phase = "plan" => r \in CatalogList /\ r.by = c
  /\ t.phase = "check" => t.full \in Scope /\ s.catalog = t.full.catalog
  /\ t.phase # "check" /\ b # None => s = b

(* A Flight SQL request is one statement, in the scope of its headers      *)
(* until a USE changes it.                                                 *)
OneStatement(t, s, c) ==
  c \notin Repl =>
    /\ t.phase # "idle" => Len(t.rest) = 1
    /\ t.phase \notin {"idle", "check"} => s = Headers[c]

Good(t, s, r, b, c) == Typed(t, s, r, b) /\ Sound(t, s, r, b, c) /\ OneStatement(t, s, c)

Functions ==
  /\ schemas \in [Catalogs -> SUBSET SchemaNames]
  /\ scope = [c \in Clients |-> scope[c]]
  /\ registered = [c \in Clients |-> registered[c]]
  /\ task = [c \in Clients |-> task[c]]
  /\ believed = [c \in Clients |-> believed[c]]

IInv ==
  /\ Functions
  /\ \A c \in Clients : Good(task[c], scope[c], registered[c], believed[c], c)

-----------------------------------------------------------------------------

(* A qualified name is a scope.                                            *)
LEMMA QualifyTyped ==
  ASSUME NEW stmt \in Statement, NEW default \in Scope
  PROVE  Qualify(stmt, default) \in Scope
BY DEF Qualify, Statement, Scope

(* The statement a task is at, and what is left after it.                  *)
LEMMA RestTyped ==
  ASSUME NEW rest \in Seq(Statement), rest # <<>>
  PROVE  /\ Head(rest) \in Statement
         /\ Tail(rest) \in Seq(Statement)
         /\ Len(rest) > 1 => Tail(rest) # <<>>
<1>1. Len(rest) \in Nat /\ Len(rest) # 0
  OBVIOUS
<1>2. Head(rest) \in Statement /\ Tail(rest) \in Seq(Statement) /\ Len(Tail(rest)) = Len(rest) - 1
  BY HeadTailProperties
<1>3. Len(<<>>) = 0
  OBVIOUS
<1> HIDE DEF Statement
<1>4. Len(rest) > 1 => Len(Tail(rest)) # 0
  BY <1>1, <1>2
<1> QED
  BY <1>2, <1>3, <1>4

(* The initial states are good.                                            *)
LEMMA InitGood == Init => IInv
<1> SUFFICES ASSUME Init PROVE IInv
  OBVIOUS
<1>1. Functions
  BY HeadersAssumption DEF Init, Functions
<1>2. ASSUME NEW c \in Clients
      PROVE  Good(task[c], scope[c], registered[c], believed[c], c)
  <2>1. task[c] = Idle /\ scope[c] = Headers[c] /\ registered[c] = None /\ believed[c] = Headers[c]
    BY <1>2 DEF Init
  <2>2. Headers[c] \in Scope
    BY HeadersAssumption
  <2>3. Idle \in Task /\ Idle.phase = "idle"
    BY DEF Idle, Task, Phase
  <2> QED
    BY <2>1, <2>2, <2>3 DEF Good, Typed, Sound, OneStatement
<1> QED
  BY <1>1, <1>2 DEF IInv

(* A step that changes one client, and leaves it good, keeps IInv.         *)
LEMMA OneClient ==
  ASSUME IInv, NEW c \in Clients, NEW t, NEW s, NEW r, NEW b,
         task' = [task EXCEPT ![c] = t], scope' = [scope EXCEPT ![c] = s],
         registered' = [registered EXCEPT ![c] = r],
         believed' = [believed EXCEPT ![c] = b],
         schemas' = schemas,
         Good(t, s, r, b, c)
  PROVE  IInv'
<1>1. Functions'
  BY DEF IInv, Functions
<1>2. ASSUME NEW d \in Clients
      PROVE  Good(task'[d], scope'[d], registered'[d], believed'[d], d)
  <2>1. CASE d = c
    BY <2>1 DEF IInv, Functions
  <2>2. CASE d # c
    <3>1. /\ task'[d] = task[d] /\ scope'[d] = scope[d]
          /\ registered'[d] = registered[d] /\ believed'[d] = believed[d]
      BY <2>2 DEF IInv, Functions
    <3> QED
      BY <3>1 DEF IInv
  <2> QED
    BY <2>1, <2>2
<1>3. \A d \in Clients : Good(task[d], scope[d], registered[d], believed[d], d)'
  BY <1>2 DEF Good, Typed, Sound, OneStatement
<1> QED
  BY <1>1, <1>3 DEF IInv

-----------------------------------------------------------------------------
(* One lemma per group of actions: each leaves its client good.            *)

(* What a client looks like before its step.                               *)
LEMMA Before ==
  ASSUME IInv, NEW c \in Clients
  PROVE  /\ Good(task[c], scope[c], registered[c], believed[c], c)
         /\ task = [task EXCEPT ![c] = task[c]]
         /\ scope = [scope EXCEPT ![c] = scope[c]]
         /\ registered = [registered EXCEPT ![c] = registered[c]]
         /\ believed = [believed EXCEPT ![c] = believed[c]]
BY DEF IInv, Functions

(* A dropped or failed statement leaves scope and beliefs as they were; a  *)
(* USE that fails half way leaves the client with no belief.               *)
LEMMA FailGood ==
  ASSUME IInv, NEW c \in Clients, NEW b \in {believed[c], None},
         At(c, "check") => b = None, Fail(c),
         believed' = [believed EXCEPT ![c] = b],
         UNCHANGED <<schemas, scope, registered>>
  PROVE  IInv'
<1>1. Idle \in Task /\ Idle.phase = "idle"
  BY DEF Idle, Task, Phase
<1>2. Good(Idle, scope[c], registered[c], b, c)
  BY <1>1, Before DEF Good, Typed, Sound, OneStatement, At
<1> QED
  BY <1>2, Before, OneClient DEF Fail

(* The next statement of the input is up, or the client idles again.       *)
LEMMA SucceedGood ==
  ASSUME IInv, NEW c \in Clients, ~At(c, "idle"), Succeed(c),
         NEW s \in Scope, NEW b \in Scope \cup {None}, b # None => b = s,
         scope' = [scope EXCEPT ![c] = s], believed' = [believed EXCEPT ![c] = b],
         UNCHANGED <<schemas, registered>>
  PROVE  IInv'
<1> DEFINE t == [phase |-> IF Len(task[c].rest) > 1 THEN "next" ELSE "idle",
                 rest |-> Tail(task[c].rest), full |-> None]
<1>1. /\ task[c].rest \in Seq(Statement) /\ task[c].rest # <<>>
      /\ c \notin Repl => Len(task[c].rest) = 1
      /\ registered[c] \in CatalogList \cup {None}
  BY Before DEF Good, Typed, Sound, OneStatement, Task, At
<1>2. /\ Tail(task[c].rest) \in Seq(Statement)
      /\ Len(task[c].rest) > 1 => Tail(task[c].rest) # <<>>
  BY <1>1, RestTyped
<1>3. t \in Task
  BY <1>2 DEF Task, Phase
<1>4. Sound(t, s, registered[c], b, c)
  BY <1>2 DEF Sound
<1>5. OneStatement(t, s, c)
  <2>0. ~(1 > 1)
    OBVIOUS
  <2>1. c \notin Repl => t.phase = "idle"
    BY <1>1, <2>0, Zenon
  <2> QED
    BY <2>1 DEF OneStatement
<1>6. Good(t, s, registered[c], b, c)
  BY <1>1, <1>3, <1>4, <1>5 DEF Good, Typed
<1>7. task' = [task EXCEPT ![c] = t]
  BY DEF Succeed
<1> HIDE DEF t
<1> QED
  BY <1>6, <1>7, Before, OneClient

(* A request gets the scope of its headers, the REPL keeps its own.        *)
LEMMA SubmitGood ==
  ASSUME IInv, NEW c \in Clients, NEW sent \in Inputs, sent # <<>>, Submit(c, sent)
  PROVE  IInv'
<1> DEFINE t == [phase |-> "next", rest |-> sent, full |-> None]
           r == IF c \in Repl THEN registered[c] ELSE None
           b == IF c \in Repl THEN believed[c] ELSE Headers[c]
<1>1. sent \in Seq(Statement) /\ (c \notin Repl => Len(sent) = 1)
  BY InputsAssumption DEF Submit
<1>2. Headers[c] \in Scope
  BY HeadersAssumption
<1>3. t \in Task
  BY <1>1 DEF Task, Phase
<1>4. Good(task[c], scope[c], registered[c], believed[c], c) /\ task[c].phase = "idle"
  BY Before DEF Submit, At
<1>5. Typed(t, NewScope(c), r, b)
  BY <1>2, <1>3, <1>4 DEF Good, Typed, NewScope, SessionOf
<1>6. Sound(t, NewScope(c), r, b, c)
  BY <1>4 DEF Good, Sound, NewScope, SessionOf
<1>7. OneStatement(t, NewScope(c), c)
  BY <1>1 DEF OneStatement, NewScope
<1>8. /\ task' = [task EXCEPT ![c] = t]
      /\ scope' = [scope EXCEPT ![c] = NewScope(c)]
      /\ schemas' = schemas
  BY DEF Submit, SessionOf
<1>9. registered' = [registered EXCEPT ![c] = r] /\ believed' = [believed EXCEPT ![c] = b]
  BY Before DEF Submit, SessionOf
<1> HIDE DEF t, r, b
<1> QED
  BY <1>5, <1>6, <1>7, <1>8, <1>9, OneClient DEF Good

(* USE writes the catalog before it asks for the schema.                   *)
LEMMA UseCatalogGood ==
  ASSUME IInv, NEW c \in Clients, UseCatalog(c)
  PROVE  IInv'
<1> DEFINE target == UseTarget(c)
           s == [scope[c] EXCEPT !.catalog = target.catalog]
<1>1. /\ Typed(task[c], scope[c], registered[c], believed[c])
      /\ task[c].phase = "next" /\ task[c].rest # <<>>
      /\ c \notin Repl => Len(task[c].rest) = 1
  BY Before DEF UseCatalog, IsUse, At, Good, Sound, OneStatement
<1>2. task[c] \in Task /\ scope[c] \in Scope
  BY <1>1 DEF Typed
<1>3. Current(c) \in Statement
  BY <1>1, <1>2, RestTyped DEF Current, Task
<1>4. target \in Scope
  BY <1>2, <1>3, QualifyTyped DEF UseTarget, SessionScope, SessionOf
<1>5. s \in Scope /\ s.catalog = target.catalog /\ s.schema = scope[c].schema
  BY <1>2, <1>4 DEF Scope
<1>6. scope' = [scope EXCEPT ![c] = s] /\ schemas' = schemas /\ registered' = registered
  BY Before DEF UseCatalog, SessionOf
<1>7. CASE Current(c).schema = None
  <2>1. target.schema = scope[c].schema
    BY <1>7 DEF UseTarget, Qualify, SessionScope, SessionOf
  <2>2. target = s
    BY <1>4, <1>5, <2>1 DEF Scope
  <2>3. ~At(c, "idle") /\ Succeed(c) /\ believed' = [believed EXCEPT ![c] = target]
    BY <1>1, <1>7 DEF UseCatalog, At
  <2> HIDE DEF s, target
  <2> QED
    BY <1>4, <1>5, <1>6, <2>2, <2>3, SucceedGood
<1>8. CASE Current(c).schema # None
  <2> DEFINE t == [task[c] EXCEPT !.phase = "check", !.full = target]
  <2>1. t \in Task /\ t.phase = "check" /\ t.full = target /\ t.rest = task[c].rest
    BY <1>2, <1>4 DEF Task, Phase
  <2>2. Good(t, s, registered[c], believed[c], c)
    BY <1>1, <1>4, <1>5, <2>1 DEF Good, Typed, Sound, OneStatement
  <2>3. task' = [task EXCEPT ![c] = t] /\ believed' = believed
    BY <1>8, Before DEF UseCatalog
  <2> HIDE DEF s, t, target
  <2> QED
    BY <1>6, <2>2, <2>3, Before, OneClient
<1> QED
  BY <1>7, <1>8

(* The schema answers: the client is told the scope it now has.            *)
LEMMA UseSchemaGood ==
  ASSUME IInv, NEW c \in Clients, UseSchema(c)
  PROVE  IInv'
<1> DEFINE s == [scope[c] EXCEPT !.schema = task[c].full.schema]
<1>1. /\ scope[c] \in Scope /\ task[c].full \in Scope
      /\ scope[c].catalog = task[c].full.catalog
  BY Before DEF UseSchema, At, Good, Typed, Sound
<1>2. s = task[c].full
  BY <1>1 DEF Scope
<1>3. /\ scope' = [scope EXCEPT ![c] = s]
      /\ believed' = [believed EXCEPT ![c] = task[c].full]
      /\ Succeed(c) /\ ~At(c, "idle") /\ UNCHANGED <<schemas, registered>>
  BY Before DEF UseSchema, SessionOf, At
<1> HIDE DEF s
<1> QED
  BY <1>1, <1>2, <1>3, SucceedGood

(* A query resolves and plans in the scope it started in.                  *)
LEMMA QueryGood ==
  ASSUME IInv, NEW c \in Clients, StartResolve(c) \/ Register(c) \/ Plan(c)
  PROVE  IInv'
<1>1. Good(task[c], scope[c], registered[c], believed[c], c)
  BY Before
<1>2. /\ task[c] \in Task /\ scope[c] \in Scope
      /\ task[c].phase \in {"next", "resolve", "plan"} /\ task[c].rest # <<>>
      /\ task[c].rest \in Seq(Statement)
  BY <1>1 DEF StartResolve, Register, Plan, At, Good, Typed, Sound, Task
<1>3. Qualify(Current(c), scope[c]) \in Scope
  BY <1>2, RestTyped, QualifyTyped DEF Current
<1>4. scope' = [scope EXCEPT ![c] = scope[c]] /\ schemas' = schemas
      /\ believed' = [believed EXCEPT ![c] = believed[c]]
  BY Before DEF StartResolve, Register, Plan
<1>5. CASE StartResolve(c)
  <2> DEFINE t == [task[c] EXCEPT !.phase = "resolve", !.full = Qualify(Current(c), scope[c])]
  <2>1. /\ t \in Task /\ t.phase = "resolve" /\ t.rest = task[c].rest
        /\ t.full = Qualify(Current(c), scope[c])
    BY <1>2, <1>3 DEF Task, Phase
  <2>2. Good(t, scope[c], registered[c], believed[c], c)
    BY <1>1, <1>2, <1>5, <2>1 DEF Good, Typed, Sound, OneStatement, Current, StartResolve, At
  <2>3. task' = [task EXCEPT ![c] = t] /\ registered' = registered
    BY <1>5, Before DEF StartResolve, SessionScope, SessionOf
  <2> HIDE DEF t
  <2> QED
    BY <1>4, <2>2, <2>3, Before, OneClient
<1>6. CASE Register(c)
  <2> DEFINE t == [task[c] EXCEPT !.phase = "plan"]
             r == [by |-> c, tables |-> {f \in {task[c].full} : Exists(f)}]
  <2>1. /\ t \in Task /\ t.phase = "plan" /\ t.rest = task[c].rest /\ t.full = task[c].full
        /\ task[c].phase = "resolve"
    BY <1>2, <1>6 DEF Task, Phase, Register, At
  <2>2. task[c].full = Qualify(Current(c), scope[c])
    BY <1>1, <2>1 DEF Good, Sound, Current
  <2>3. r \in CatalogList /\ r.by = c
    BY <1>3, <2>2 DEF CatalogList
  <2>4. task' = [task EXCEPT ![c] = t] /\ registered' = [registered EXCEPT ![c] = r]
    BY <1>6 DEF Register, SessionOf
  <2> HIDE DEF r, t
  <2>5. Good(t, scope[c], r, believed[c], c)
    BY <1>1, <1>2, <2>1, <2>2, <2>3 DEF Good, Typed, Sound, OneStatement, Current
  <2> QED
    BY <1>4, <2>4, <2>5, OneClient
<1>7. CASE Plan(c)
  <2> DEFINE full == Qualify(Current(c), scope[c])
             t == [task[c] EXCEPT !.phase = "planned", !.full = full]
  <2>1. t \in Task /\ t.phase = "planned" /\ t.rest = task[c].rest /\ t.full = full
        /\ task[c].phase = "plan"
    BY <1>2, <1>3, <1>7 DEF Task, Phase, Plan, At
  <2>2. task' = [task EXCEPT ![c] = t] /\ registered' = registered
    BY <1>7 DEF Plan, SessionScope, SessionOf
  <2>3. Good(t, scope[c], registered[c], believed[c], c)
    BY <1>1, <1>2, <2>1 DEF Good, Typed, Sound, OneStatement, Current
  <2> HIDE DEF t
  <2> QED
    BY <1>4, <2>2, <2>3, Before, OneClient
<1> QED
  BY <1>5, <1>6, <1>7

-----------------------------------------------------------------------------

(* IInv is inductive.                                                      *)
LEMMA StepGood == IInv /\ [Next]_vars => IInv'
<1> SUFFICES ASSUME IInv, [Next]_vars PROVE IInv'
  OBVIOUS
<1>1. ASSUME NEW k \in Catalogs, NEW s \in SchemaNames, CatalogChanges(k, s) PROVE IInv'
  <2>1. Functions'
    BY <1>1 DEF IInv, Functions, CatalogChanges
  <2>2. UNCHANGED <<scope, registered, task, believed>>
    BY <1>1 DEF CatalogChanges
  <2> QED
    BY <2>1, <2>2 DEF IInv, Good, Typed, Sound, OneStatement
<1>2. ASSUME NEW c \in Clients, NEW sent \in Inputs, sent # <<>>, Submit(c, sent) PROVE IInv'
  BY <1>2, SubmitGood
<1>3. ASSUME NEW c \in Clients, Step(c) PROVE IInv'
  <2>1. CASE UseUnknownCatalog(c) \/ QueryFails(c)
    <3>1. ~At(c, "check") /\ Fail(c) /\ UNCHANGED <<schemas, scope, registered, believed>>
      BY <2>1 DEF UseUnknownCatalog, QueryFails, IsUse, At
    <3> QED
      BY <3>1, Before, FailGood
  <2>2. CASE UseCatalog(c)
    BY <2>2, UseCatalogGood
  <2>3. CASE UseSchema(c)
    BY <2>3, UseSchemaGood
  <2>4. CASE UseFails(c)
    BY <2>4, FailGood DEF UseFails
  <2>5. CASE StartResolve(c) \/ Register(c) \/ Plan(c)
    BY <2>5, QueryGood
  <2>6. CASE Execute(c)
    <3>1. /\ ~At(c, "idle") /\ Succeed(c) /\ UNCHANGED <<schemas, scope, registered, believed>>
          /\ task[c].phase = "planned"
      BY <2>6 DEF Execute, At
    <3>2. scope[c] \in Scope /\ believed[c] \in Scope \cup {None}
          /\ (believed[c] # None => believed[c] = scope[c])
      BY <3>1, Before DEF Good, Typed, Sound
    <3> QED
      BY <3>1, <3>2, Before, SucceedGood
  <2> QED
    BY <1>3, <2>1, <2>2, <2>3, <2>4, <2>5, <2>6 DEF Step
<1>4. CASE UNCHANGED vars
  BY <1>4 DEF vars, IInv, Functions, Good, Typed, Sound, OneStatement
<1> QED
  BY <1>1, <1>2, <1>3, <1>4 DEF Next

(* What the invariant gives: the types, and the properties checked.        *)
LEMMA GoodImplies ==
  ASSUME IInv
  PROVE  TypeOK /\ PlanUsesOwnResolution /\ ClientKnowsScope /\ RequestUsesHeaders
<1>1. \A c \in Clients : Good(task[c], scope[c], registered[c], believed[c], c)
  BY DEF IInv
<1>2. TypeOK
  BY <1>1 DEF IInv, Functions, Good, Typed, TypeOK
<1>3. PlanUsesOwnResolution
  BY <1>1 DEF PlanUsesOwnResolution, Good, Sound, At, Current, SessionScope, SessionOf
<1>4. ClientKnowsScope
  BY <1>1 DEF ClientKnowsScope, Good, Sound, At, SessionScope, SessionOf
<1>5. RequestUsesHeaders
  BY <1>1 DEF RequestUsesHeaders, Good, Sound, OneStatement, At, Current
<1> QED
  BY <1>2, <1>3, <1>4, <1>5

(* The schema of a REPL moves by a USE that ends well, and by nothing else.*)
LEMMA SchemaMoves ==
  ASSUME IInv, Next, NEW c \in Repl, scope'[c].schema # scope[c].schema
  PROVE  believed'[c] = scope'[c]
<1>1. c \in Clients /\ scope = [d \in Clients |-> scope[d]] /\ scope[c] \in Scope
  BY ReplAssumption, Before DEF IInv, Functions, Good, Typed
<1>2. UNCHANGED scope => FALSE
  OBVIOUS
<1>3. ASSUME NEW d \in Clients, NEW sent \in Inputs, Submit(d, sent) PROVE FALSE
  <2>1. scope' = [scope EXCEPT ![d] = NewScope(d)]
    BY <1>3 DEF Submit, SessionOf
  <2>2. d = c => NewScope(d) = scope[c]
    BY DEF NewScope, SessionOf
  <2> QED
    BY <1>1, <2>1, <2>2
<1>4. ASSUME NEW d \in Clients, UseCatalog(d) PROVE FALSE
  <2>1. scope' = [scope EXCEPT ![d].catalog = UseTarget(d).catalog]
    BY <1>4 DEF UseCatalog, SessionOf
  <2>2. scope'[c].schema = scope[c].schema
    BY <1>1, <2>1 DEF Scope
  <2> QED
    BY <2>2
<1>5. ASSUME NEW d \in Clients, UseSchema(d) PROVE believed'[c] = scope'[c]
  <2>1. scope' = [scope EXCEPT ![d].schema = task[d].full.schema] /\ At(d, "check")
        /\ believed' = [believed EXCEPT ![d] = task[d].full]
    BY <1>5 DEF UseSchema, SessionOf
  <2>2. d = c
    BY <1>1, <2>1
  <2>3. task[c].full \in Scope /\ scope[c].catalog = task[c].full.catalog
        /\ believed = [e \in Clients |-> believed[e]]
    BY <1>1, <2>1, <2>2, Before DEF Good, Sound, At, IInv, Functions
  <2> QED
    BY <1>1, <2>1, <2>2, <2>3 DEF Scope
<1> QED
  BY <1>2, <1>3, <1>4, <1>5 DEF Next, Step, CatalogChanges, UseUnknownCatalog, UseFails,
     StartResolve, Register, Plan, Execute, QueryFails

(* Scopes, catalog lists and tasks keep their types.                       *)
THEOREM SessionsTyped == Spec => []TypeOK
BY InitGood, StepGood, GoodImplies, PTL DEF Spec

(* Each statement plans against its own resolution (session.rs 151-165).   *)
THEOREM PlansUseOwnResolution == Spec => []PlanUsesOwnResolution
BY InitGood, StepGood, GoodImplies, PTL DEF Spec

(* Clients know the scope of their session, but for a USE that failed half *)
(* way (use.rs 63-84).                                                     *)
THEOREM ClientsKnowScope == Spec => []ClientKnowsScope
BY InitGood, StepGood, GoodImplies, PTL DEF Spec

(* Flight SQL queries run in the scope of their headers (flight/mod.rs     *)
(* 57-72).                                                                 *)
THEOREM RequestsUseHeaders == Spec => []RequestUsesHeaders
BY InitGood, StepGood, GoodImplies, PTL DEF Spec

(* The default schema of the REPL moves with a USE that succeeds, to the   *)
(* schema it asked for, and never otherwise (use.rs 63-84).                *)
THEOREM SchemaMovesWithUse == Spec => SchemaMovesOnSuccess
<1>1. IInv /\ [Next]_vars => [\A c \in Repl : scope'[SessionOf(c)].schema # scope[SessionOf(c)].schema =>
        believed'[c] = scope'[SessionOf(c)]]_vars
  BY SchemaMoves DEF SessionOf
<1> QED
  BY <1>1, InitGood, StepGood, PTL DEF Spec, SchemaMovesOnSuccess

-----------------------------------------------------------------------------

(* Texts of several statements.  Positions that are read one by one give   *)
(* the sequence of what there is at those of a set, in order.              *)
Seen(S, at) == {i \in S : i < at}
InOrder(S, at, f) == [n \in 1..Cardinality(Seen(S, at)) |-> f[Nth(S, n)]]

Naturals(S) == \A i \in S : i \in Nat

LEMMA SeenFinite ==
  ASSUME NEW S, Naturals(S), NEW at \in Nat
  PROVE  IsFiniteSet(Seen(S, at)) /\ Cardinality(Seen(S, at)) \in Nat
<1>1. IsFiniteSet(0..at)
  BY FS_Interval
<1>2. Seen(S, at) \in SUBSET (0..at)
  BY DEF Seen, Naturals
<1>3. IsFiniteSet(Seen(S, at))
  BY <1>1, <1>2, FS_Subset
<1> QED
  BY <1>3, FS_CardinalityType

LEMMA SeenNext ==
  ASSUME NEW S, Naturals(S), NEW at \in S
  PROVE  Cardinality(Seen(S, at + 1)) = Cardinality(Seen(S, at)) + 1
<1>1. Seen(S, at + 1) = Seen(S, at) \cup {at} /\ at \notin Seen(S, at)
  BY DEF Seen, Naturals
<1>2. at \in Nat
  BY DEF Naturals
<1> QED
  BY <1>1, <1>2, SeenFinite, FS_AddElement

LEMMA SeenPassed ==
  ASSUME NEW S, Naturals(S), NEW at \in Nat, at \notin S
  PROVE  Seen(S, at + 1) = Seen(S, at)
BY DEF Seen, Naturals

LEMMA NthIs ==
  ASSUME NEW S, Naturals(S), NEW at \in S
  PROVE  Nth(S, Cardinality(Seen(S, at)) + 1) = at
<1> DEFINE upto(i) == {j \in S : j <= i}
           n == Cardinality(Seen(S, at)) + 1
<1>1. \A i \in S : upto(i) = Seen(S, i + 1)
  BY DEF Seen, Naturals
<1>2. Cardinality(upto(at)) = n
  BY <1>1, SeenNext
<1>3. ASSUME NEW i \in S, NEW k \in S, i < k PROVE Cardinality(upto(i)) # Cardinality(upto(k))
  <2>1. IsFiniteSet(upto(k))
    <3>1. k + 1 \in Nat
      BY DEF Naturals
    <3>2. IsFiniteSet(Seen(S, k + 1))
      BY <3>1, SeenFinite
    <3> QED
      BY <1>1, <3>2
  <2>2. upto(i) \in SUBSET upto(k) /\ k \in upto(k) /\ k \notin upto(i)
    BY <1>3 DEF Naturals
  <2> HIDE DEF upto
  <2>3. upto(i) # upto(k)
    BY <2>2
  <2> QED
    BY <2>1, <2>2, <2>3, FS_Subset
<1>4. \A i \in S : Cardinality(upto(i)) = n => i = at
  <2> SUFFICES ASSUME NEW i \in S, Cardinality(upto(i)) = n PROVE i = at
    OBVIOUS
  <2> HIDE DEF upto, n
  <2>1. ~(i < at) /\ ~(at < i)
    BY <1>2, <1>3
  <2> QED
    BY <2>1 DEF Naturals
<1>5. Nth(S, n) = CHOOSE i \in S : Cardinality(upto(i)) = n
  BY DEF Nth
<1> HIDE DEF upto, n
<1>6. Nth(S, n) = at
  BY <1>2, <1>4, <1>5
<1> QED
  BY <1>6 DEF n

LEMMA InOrderNext ==
  ASSUME NEW S, Naturals(S), NEW at \in S, NEW f
  PROVE  InOrder(S, at + 1, f) = Append(InOrder(S, at, f), f[at])
<1> DEFINE n == Cardinality(Seen(S, at))
           s == [k \in 1..n |-> f[Nth(S, k)]]
           V == {f[Nth(S, k)] : k \in 1..n} \cup {f[at]}
<1>1. n \in Nat
  <2>1. at \in Nat
    BY DEF Naturals
  <2> QED
    BY <2>1, SeenFinite
<1>2. InOrder(S, at, f) = s
  BY DEF InOrder
<1>3. InOrder(S, at + 1, f) = [k \in 1..(n + 1) |-> f[Nth(S, k)]]
  BY SeenNext DEF InOrder
<1>4. Nth(S, n + 1) = at
  BY NthIs
<1> HIDE DEF n
<1>5. s \in Seq(V) /\ f[at] \in V /\ Len(s) = n /\ \A k \in 1..n : s[k] = f[Nth(S, k)]
  BY <1>1
<1> HIDE DEF s, V
<1>6. /\ Append(s, f[at]) \in Seq(V) /\ Len(Append(s, f[at])) = n + 1
      /\ \A k \in 1..n : Append(s, f[at])[k] = s[k]
      /\ Append(s, f[at])[n + 1] = f[at]
  BY <1>1, <1>5, AppendProperties
<1>7. \A k \in 1..(n + 1) : Append(s, f[at])[k] = f[Nth(S, k)]
  <2> SUFFICES ASSUME NEW k \in 1..(n + 1) PROVE Append(s, f[at])[k] = f[Nth(S, k)]
    OBVIOUS
  <2>1. k \in 1..n \/ k = n + 1
    BY <1>1
  <2> QED
    BY <1>4, <1>5, <1>6, <2>1
<1>8. Append(s, f[at]) = [k \in 1..(n + 1) |-> Append(s, f[at])[k]]
  BY <1>1, <1>6
<1> QED
  BY <1>2, <1>3, <1>7, <1>8

LEMMA InOrderPassed ==
  ASSUME NEW S, Naturals(S), NEW at \in Nat, at \notin S, NEW f
  PROVE  InOrder(S, at + 1, f) = InOrder(S, at, f)
BY SeenPassed DEF InOrder

LEMMA InOrderFirst ==
  ASSUME NEW S, \A i \in S : i \in Nat /\ i >= 1, NEW f
  PROVE  InOrder(S, 1, f) = <<>>
<1>1. Seen(S, 1) = {}
  BY DEF Seen, Naturals
<1> QED
  BY <1>1, FS_EmptySet DEF InOrder

LEMMA InOrderWhole ==
  ASSUME NEW S, NEW n \in Nat, \A i \in S : i \in 1..n, NEW f
  PROVE  InOrder(S, n + 1, f) = [k \in 1..Cardinality(S) |-> f[Nth(S, k)]]
<1>1. Seen(S, n + 1) = S
  BY DEF Seen, Naturals
<1> QED
  BY <1>1 DEF InOrder

(* The tokenizer.                                                          *)
ReadSound(t, r) ==
  /\ r.at \in 1..(Len(t) + 1) /\ r.tokens \in Seq(STRING)
  /\ r.comment \in BOOLEAN /\ (r.comment <=> Commented(t, r.at - 1))
  /\ r.tokens = InOrder(WordsOf(t), r.at, t)

LEMMA CommentGoesOn ==
  ASSUME NEW t, NEW i \in Nat \ {0}
  PROVE  Commented(t, i) <=> t[i] # NewLine /\ (t[i] = LineComment \/ Commented(t, i - 1))
<1>1. i \in 1..i /\ i..i = {i}
  OBVIOUS
<1>2. ASSUME Commented(t, i) PROVE t[i] # NewLine /\ (t[i] = LineComment \/ Commented(t, i - 1))
  <2>1. PICK j \in 1..i : t[j] = LineComment /\ \A k \in j..i : t[k] # NewLine
    BY <1>2 DEF Commented
  <2>2. t[i] # NewLine
    BY <2>1
  <2>3. j # i => j \in 1..(i - 1) /\ \A k \in j..(i - 1) : t[k] # NewLine
    BY <2>1
  <2> QED
    BY <2>1, <2>2, <2>3 DEF Commented
<1>3. ASSUME t[i] # NewLine, t[i] = LineComment PROVE Commented(t, i)
  BY <1>1, <1>3 DEF Commented
<1>4. ASSUME t[i] # NewLine, Commented(t, i - 1) PROVE Commented(t, i)
  <2>1. PICK j \in 1..(i - 1) : t[j] = LineComment /\ \A k \in j..(i - 1) : t[k] # NewLine
    BY <1>4 DEF Commented
  <2>2. j \in 1..i /\ \A k \in j..i : t[k] # NewLine
    BY <1>4, <2>1
  <2> QED
    BY <2>1, <2>2 DEF Commented
<1> QED
  BY <1>2, <1>3, <1>4

LEMMA WordsTyped == ASSUME NEW t \in Seq(STRING) PROVE Naturals(WordsOf(t)) /\ \A i \in WordsOf(t) : i \in 1..Len(t)
BY DEF WordsOf, Naturals

LEMMA ReadFirst == ASSUME NEW t \in Seq(STRING) PROVE ReadSound(t, AtFirst.reader)
<1>1. ~Commented(t, 0)
  BY DEF Commented
<1>2. \A i \in WordsOf(t) : i \in Nat /\ i >= 1
  BY WordsTyped
<1>3. InOrder(WordsOf(t), 1, t) = <<>>
  BY <1>2, InOrderFirst
<1>4. AtFirst.reader.at = 1 /\ AtFirst.reader.comment = FALSE /\ AtFirst.reader.tokens = <<>>
  BY DEF AtFirst
<1>5. 1 \in 1..(Len(t) + 1) /\ 1 - 1 = 0
  OBVIOUS
<1>6. AtFirst.reader.comment \in BOOLEAN /\ (AtFirst.reader.comment <=> Commented(t, AtFirst.reader.at - 1))
  <2>1. ~Commented(t, AtFirst.reader.at - 1) /\ ~AtFirst.reader.comment
    BY <1>1, <1>4, <1>5
  <2> QED
    BY <1>4, <2>1
<1>7. AtFirst.reader.at \in 1..(Len(t) + 1) /\ AtFirst.reader.tokens \in Seq(STRING)
  BY <1>4, <1>5, EmptySeq
<1> QED
  BY <1>3, <1>4, <1>6, <1>7 DEF ReadSound

LEMMA ReadMore ==
  ASSUME NEW t \in Seq(STRING), NEW r, ReadSound(t, r), r.at <= Len(t),
         NEW word, word = t[r.at],
         NEW comment, comment = (word # NewLine /\ (word = LineComment \/ r.comment))
  PROVE  ReadSound(t, [at |-> r.at + 1, comment |-> comment,
                       tokens |-> IF comment \/ word = NewLine THEN r.tokens ELSE Append(r.tokens, word)])
<1> DEFINE at == r.at
           new == [at |-> at + 1, comment |-> comment,
                   tokens |-> IF comment \/ word = NewLine THEN r.tokens ELSE Append(r.tokens, word)]
<1>1. at \in 1..Len(t) /\ Len(t) \in Nat /\ word \in STRING /\ r.tokens \in Seq(STRING)
  BY DEF ReadSound
<1>2. comment \in BOOLEAN /\ (comment <=> Commented(t, at))
  <2>1. r.comment <=> Commented(t, at - 1)
    BY DEF ReadSound
  <2>2. Commented(t, at) <=> t[at] # NewLine /\ (t[at] = LineComment \/ Commented(t, at - 1))
    BY <1>1, CommentGoesOn
  <2> QED
    BY <2>1, <2>2
<1>3. at \in WordsOf(t) <=> ~comment /\ word # NewLine
  BY <1>1, <1>2 DEF WordsOf
<1>4. Naturals(WordsOf(t))
  BY WordsTyped
<1>5. new.tokens = InOrder(WordsOf(t), at + 1, t)
  <2>1. CASE at \in WordsOf(t)
    <3>1. InOrder(WordsOf(t), at + 1, t) = Append(InOrder(WordsOf(t), at, t), t[at])
      BY <1>4, <2>1, InOrderNext
    <3> QED
      BY <1>3, <2>1, <3>1 DEF ReadSound
  <2>2. CASE at \notin WordsOf(t)
    <3>1. InOrder(WordsOf(t), at + 1, t) = InOrder(WordsOf(t), at, t)
      BY <1>1, <1>4, <2>2, InOrderPassed
    <3> QED
      BY <1>3, <2>2, <3>1 DEF ReadSound
  <2> QED
    BY <2>1, <2>2
<1>6. new.tokens \in Seq(STRING)
  <2>1. Append(r.tokens, word) \in Seq(STRING)
    BY <1>1, AppendProperties
  <2> QED
    BY <1>1, <2>1
<1>7. new.at = at + 1 /\ at + 1 \in 1..(Len(t) + 1) /\ (at + 1) - 1 = at /\ new.comment = comment
  BY <1>1
<1> HIDE DEF new
<1>8. ReadSound(t, new)
  BY <1>2, <1>5, <1>6, <1>7 DEF ReadSound
<1> QED
  BY <1>8 DEF new

LEMMA ReadWhole ==
  ASSUME NEW t \in Seq(STRING), NEW r, ReadSound(t, r), r.at > Len(t)
  PROVE  r.tokens = Given(t)
<1>1. r.at = Len(t) + 1 /\ Len(t) \in Nat
  BY DEF ReadSound
<1> QED
  BY <1>1, WordsTyped, InOrderWhole DEF ReadSound, Given


(* What the parser takes is a statement, and where a piece of the text is  *)
(* a statement it takes all of it.                                         *)
Undelimited(words, i, n) == \A j \in i..n : words[j] # SemiColon

LEMMA ShowTokens ==
  /\ ShowVariables \in Seq({"show", "variables"}) /\ Len(ShowVariables) = 2
  /\ ShowVariables[1] = "show" /\ ShowVariables[2] = "variables"
BY DEF ShowVariables

LEMMA NoDelimiter == "show" # SemiColon /\ "variables" # SemiColon /\ "like" # SemiColon
BY DEF SemiColon

LEMMA TakenGood ==
  ASSUME ScriptAssumption, NEW words \in Seq(STRING), NEW at \in 1..Len(words), NEW k \in Taken(words, at)
  PROVE  /\ k \in Nat /\ k >= 1 /\ at + k - 1 <= Len(words)
         /\ IsStatement(SubSeq(words, at, at + k - 1)) /\ Undelimited(words, at, at + k - 1)
<1> DEFINE n == Len(words)
           taken(j) == SubSeq(words, at, at + j - 1)
<1>0. n \in Nat
  OBVIOUS
<1>1. ASSUME NEW j \in Nat, j >= 1, at + j - 1 <= n
      PROVE  /\ taken(j) \in Seq(STRING) /\ Len(taken(j)) = j
             /\ \A i \in 1..j : taken(j)[i] = words[at + i - 1]
  BY <1>1, SubSeqProperties
<1>2. CASE at < n /\ taken(2) = ShowVariables
  <2>1. words[at] = "show" /\ words[at + 1] = "variables"
    <3>1. taken(2)[1] = words[at + 1 - 1] /\ taken(2)[2] = words[at + 2 - 1]
      BY <1>0, <1>1, <1>2
    <3> HIDE DEF taken
    <3> QED
      BY <1>0, <1>2, <3>1, ShowTokens
  <2>2. \/ k = 2
        \/ k = 4 /\ words[at + 2] = "like" /\ at + 3 <= n /\ words[at + 3] \in DOMAIN Patterns
    BY <1>2 DEF Taken
  <2>3. CASE k = 2
    <3>1. IsStatement(taken(2))
      BY <1>2 DEF IsStatement
    <3>2. Undelimited(words, at, at + 1)
      BY <1>0, <2>1, NoDelimiter DEF Undelimited
    <3> QED
      BY <1>0, <1>2, <2>3, <3>1, <3>2
  <2>4. CASE k = 4 /\ words[at + 2] = "like" /\ at + 3 <= n /\ words[at + 3] \in DOMAIN Patterns
    <3> DEFINE p == words[at + 3]
               like == <<"show", "variables", "like", p>>
    <3>1. p \in STRING /\ p # SemiColon
      BY <2>4 DEF ScriptAssumption
    <3>3. taken(4) = like
      <4>1. /\ taken(4) \in Seq(STRING) /\ Len(taken(4)) = 4
            /\ \A i \in 1..4 : taken(4)[i] = words[at + i - 1]
        BY <1>0, <1>1, <2>4
      <4>2. taken(4)[1] = "show" /\ taken(4)[2] = "variables" /\ taken(4)[3] = "like" /\ taken(4)[4] = p
        BY <1>0, <2>1, <2>4, <4>1
      <4> HIDE DEF taken, p
      <4> QED
        BY <4>1, <4>2
    <3>4. IsStatement(like)
      BY <2>4 DEF IsStatement
    <3>5. Undelimited(words, at, at + 3)
      BY <1>0, <2>1, <2>4, <3>1, NoDelimiter DEF Undelimited
    <3>6. at + 4 - 1 = at + 3
      BY <1>0
    <3>7. IsStatement(taken(4))
      BY <3>3, <3>4
    <3> HIDE DEF like, p
    <3> QED
      BY <1>0, <2>4, <3>5, <3>6, <3>7
  <2> QED
    BY <2>2, <2>3, <2>4
<1>3. CASE ~(at < n /\ taken(2) = ShowVariables)
  <2>1. k \in 1..(n - at + 1) /\ taken(k) \in Native
    BY <1>3 DEF Taken
  <2>2. k \in Nat /\ k >= 1 /\ at + k - 1 <= n
    BY <1>0, <2>1
  <2>3. Len(taken(k)) = k /\ \A i \in 1..k : taken(k)[i] = words[at + i - 1]
    BY <1>1, <2>2
  <2>4. IsStatement(taken(k))
    BY <2>1 DEF IsStatement
  <2>5. \A i \in 1..k : words[at + i - 1] # SemiColon
    <3>1. DOMAIN taken(k) = 1..k
      <4>1. taken(k) \in Seq(STRING)
        BY <1>1, <2>2
      <4> HIDE DEF taken
      <4> QED
        BY <2>3, <4>1
    <3>2. \A i \in DOMAIN taken(k) : taken(k)[i] # SemiColon
      BY <2>1 DEF ScriptAssumption
    <3> HIDE DEF taken
    <3> QED
      BY <2>3, <3>1, <3>2
  <2>6. Undelimited(words, at, at + k - 1)
    <3> SUFFICES ASSUME NEW j \in at..(at + k - 1) PROVE words[j] # SemiColon
      BY DEF Undelimited
    <3>1. j - at + 1 \in 1..k /\ at + (j - at + 1) - 1 = j
      BY <2>2
    <3> QED
      BY <2>5, <3>1
  <2> QED
    BY <2>2, <2>4, <2>6
<1> QED
  BY <1>2, <1>3

LEMMA TakenWhole ==
  ASSUME ScriptAssumption, NEW words \in Seq(STRING), NEW i \in 1..Len(words), NEW n \in i..Len(words),
         IsEnd(words, i, n), IsStatement(SubSeq(words, i, n))
  PROVE  Taken(words, i) = {n - i + 1}
<1> DEFINE m == Len(words)
           taken(j) == SubSeq(words, i, i + j - 1)
           k == n - i + 1
<1>0. m \in Nat /\ i \in Nat /\ n \in Nat /\ k \in Nat /\ k >= 1 /\ i + k - 1 = n /\ n <= m /\ 1 <= i
  OBVIOUS
<1>1. ASSUME NEW j \in Nat, j >= 1, i + j - 1 <= m
      PROVE  /\ taken(j) \in Seq(STRING) /\ Len(taken(j)) = j
             /\ \A l \in 1..j : taken(j)[l] = words[i + l - 1]
  BY <1>0, <1>1, SubSeqProperties
<1>2. n = m \/ words[n + 1] = SemiColon
  BY DEF IsEnd
<1>3. taken(k) \in Native \/ taken(k) = ShowVariables \/ \E p \in DOMAIN Patterns : taken(k) = <<"show", "variables", "like", p>>
  BY <1>0 DEF IsStatement
<1> HIDE DEF k
<1>4. /\ taken(k) \in Seq(STRING) /\ Len(taken(k)) = k
      /\ \A l \in 1..k : taken(k)[l] = words[i + l - 1]
  BY <1>0, <1>1
<1>5. words[i] = "show" /\ words[i + 1] = "variables" /\ i < m => taken(2) = ShowVariables
  <2> SUFFICES ASSUME words[i] = "show", words[i + 1] = "variables", i < m PROVE taken(2) = ShowVariables
    OBVIOUS
  <2>1. /\ taken(2) \in Seq(STRING) /\ Len(taken(2)) = 2
        /\ taken(2)[1] = words[i + 1 - 1] /\ taken(2)[2] = words[i + 2 - 1]
    BY <1>0, <1>1
  <2>2. i + 1 - 1 = i /\ i + 2 - 1 = i + 1
    BY <1>0
  <2> HIDE DEF taken
  <2> QED
    BY <2>1, <2>2, ShowTokens
<1>6. CASE taken(k) \in Native
  <2>1. ~(i < m /\ taken(2) = ShowVariables)
    <3> SUFFICES ASSUME i < m, taken(2) = ShowVariables PROVE FALSE
      OBVIOUS
    <3>1. words[i + 1] = "variables"
      <4>1. taken(2)[2] = words[i + 2 - 1] /\ i + 2 - 1 = i + 1
        BY <1>0, <1>1
      <4> HIDE DEF taken
      <4> QED
        BY <4>1, ShowTokens
    <3>2. k >= 2
      <4>1. n # i
        BY <1>0, <1>2, <3>1, NoDelimiter
      <4> QED
        BY <1>0, <4>1
    <3>3. SubSeq(taken(k), 1, 2) = taken(2)
      <4> DEFINE s == taken(k)
      <4>1. SubSeq(s, 1, 2) \in Seq(STRING) /\ Len(SubSeq(s, 1, 2)) = 2 /\ \A l \in 1..2 : SubSeq(s, 1, 2)[l] = s[l]
        <5>1. s \in Seq(STRING) /\ Len(s) >= 2
          BY <1>4, <3>2
        <5> HIDE DEF s
        <5> QED
          BY <5>1, SubSeqProperties
      <4>2. taken(2) \in Seq(STRING) /\ Len(taken(2)) = 2 /\ \A l \in 1..2 : taken(2)[l] = words[i + l - 1]
        BY <1>0, <1>1
      <4>3. \A l \in 1..2 : s[l] = words[i + l - 1]
        BY <1>0, <1>4, <3>2
      <4> HIDE DEF s, taken
      <4>4. SubSeq(s, 1, 2) = taken(2)
        BY <4>1, <4>2, <4>3
      <4> QED
        BY <4>4 DEF s
    <3>4. IsPrefix(ShowVariables, taken(k))
      <4> HIDE DEF taken
      <4>1. SubSeq(ShowVariables, 1, 2) = ShowVariables
        BY ShowTokens, SubSeqFull
      <4> QED
        BY <1>4, <3>2, <3>3, <4>1, ShowTokens DEF IsPrefix
    <3> QED
      BY <1>6, <3>4 DEF ScriptAssumption
  <2> DEFINE native == {j \in 1..(m - i + 1) : taken(j) \in Native}
  <2>2. Taken(words, i) = {j \in native : \A l \in native : l <= j}
    BY <2>1 DEF Taken
  <2>3. k \in native
    BY <1>0, <1>6
  <2>4. ASSUME NEW j \in native PROVE j <= k
    <3> SUFFICES ASSUME j > k PROVE FALSE
      BY <1>0
    <3>1. j \in Nat /\ j >= 1 /\ i + j - 1 <= m /\ k + 1 \in 1..j
      BY <1>0
    <3>2. words[n + 1] = SemiColon
      BY <1>0, <1>2, <3>1
    <3>3. taken(j)[k + 1] = words[i + (k + 1) - 1] /\ i + (k + 1) - 1 = n + 1
      BY <1>0, <1>1, <3>1
    <3>4. taken(j)[k + 1] = SemiColon /\ k + 1 \in DOMAIN taken(j)
      BY <1>1, <3>1, <3>2, <3>3
    <3>5. taken(j) \in Native
      OBVIOUS
    <3> HIDE DEF taken, native
    <3> QED
      BY <3>4, <3>5 DEF ScriptAssumption
  <2> HIDE DEF native
  <2>5. \A j \in native : j \in Nat
    BY DEF native
  <2>6. Taken(words, i) = {k}
    <3>1. k \in Taken(words, i)
      BY <2>2, <2>3, <2>4
    <3>2. ASSUME NEW j \in Taken(words, i) PROVE j = k
      <4>1. j \in native /\ k <= j
        BY <2>2, <2>3
      <4>2. j <= k
        BY <2>4, <4>1
      <4> QED
        BY <1>0, <2>5, <4>1, <4>2
    <3> QED
      BY <3>1, <3>2
  <2> QED
    BY <2>6 DEF k
<1>7. CASE taken(k) = ShowVariables
  <2>1. k = 2 /\ n = i + 1 /\ i < m
    <3>1. k = 2
      BY <1>4, <1>7, ShowTokens
    <3> QED
      BY <1>0, <3>1
  <2>2. ~(i + 2 <= m /\ words[i + 2] = "like")
    <3> SUFFICES ASSUME i + 2 <= m PROVE words[i + 2] = SemiColon
      BY NoDelimiter
    <3>1. n # m /\ n + 1 = i + 2
      BY <1>0, <2>1
    <3> QED
      BY <1>2, <3>1
  <2>3. taken(2) = ShowVariables
    BY <1>7, <2>1
  <2>4. Taken(words, i) = {2}
    BY <2>1, <2>2, <2>3 DEF Taken
  <2> QED
    BY <2>1, <2>4 DEF k
<1>8. CASE \E p \in DOMAIN Patterns : taken(k) = <<"show", "variables", "like", p>>
  <2>1. PICK p \in DOMAIN Patterns : taken(k) = <<"show", "variables", "like", p>>
    BY <1>8
  <2>2. p \in STRING
    BY DEF ScriptAssumption
  <2>3. taken(k) = <<"show", "variables", "like", p>>
    BY <2>1
  <2>4. k = 4
    BY <1>4, <2>3
  <2>5. words[i] = "show" /\ words[i + 1] = "variables" /\ words[i + 2] = "like" /\ words[i + 3] = p
    <3>1. \A l \in 1..4 : words[i + l - 1] = <<"show", "variables", "like", p>>[l]
      BY <1>4, <2>3, <2>4
    <3> QED
      BY <1>0, <3>1
  <2>6. i < m /\ i + 2 <= m /\ i + 3 <= m /\ taken(2) = ShowVariables
    BY <1>0, <1>5, <2>4, <2>5
  <2>7. Taken(words, i) = {4}
    BY <2>5, <2>6 DEF Taken
  <2> QED
    BY <2>4, <2>7 DEF k
<1> QED
  BY <1>3, <1>6, <1>7, <1>8


(* Any natural numbers have a smallest one.                                *)
LEMMA SmallestOf ==
  ASSUME NEW T \in SUBSET Nat, T # {}
  PROVE  \E n \in T : \A m \in T : n <= m
<1> DEFINE upto == {0..n : n \in T}
<1>1. upto \subseteq FiniteSubsetsOf(Nat)
  <2> SUFFICES ASSUME NEW n \in T PROVE 0..n \in FiniteSubsetsOf(Nat)
    OBVIOUS
  <2>1. IsFiniteSet(0..n)
    BY FS_Interval
  <2> QED
    BY <2>1 DEF FiniteSubsetsOf
<1>2. PICK x \in upto : \A y \in upto : <<y, x>> \notin StrictSubsetOrdering(Nat)
  <2>1. upto # {}
    OBVIOUS
  <2> HIDE DEF upto
  <2> QED
    BY <1>1, <2>1, WFMin, FS_StrictSubsetOrderingWellFounded
<1>3. PICK n \in T : x = 0..n
  OBVIOUS
<1>4. ASSUME NEW m \in T, m < n PROVE FALSE
  <2>1. <<0..m, 0..n>> \in StrictSubsetOrdering(Nat)
    <3>1. /\ 0..m \in SUBSET Nat /\ 0..n \in SUBSET Nat /\ 0..m \subseteq 0..n
          /\ n \in 0..n /\ n \notin 0..m
      BY <1>4
    <3>2. 0..m # 0..n
      BY <3>1
    <3> QED
      BY <3>1, <3>2, Zenon DEF StrictSubsetOrdering
  <2> QED
    BY <1>2, <1>3, <2>1
<1> QED
  BY <1>4

(* Of a finite set, each position has its place.                           *)
LEMMA PlaceIs ==
  ASSUME NEW S, Naturals(S), IsFiniteSet(S), NEW i \in S
  PROVE  Cardinality(Seen(S, i)) + 1 \in 1..Cardinality(S)
<1>1. i \in Nat
  BY DEF Naturals
<1>2. Cardinality(Seen(S, i)) \in Nat /\ Cardinality(Seen(S, i + 1)) = Cardinality(Seen(S, i)) + 1
  BY <1>1, SeenFinite, SeenNext
<1>3. Seen(S, i + 1) \in SUBSET S
  BY DEF Seen
<1>4. Cardinality(Seen(S, i + 1)) <= Cardinality(S) /\ Cardinality(S) \in Nat
  BY <1>3, FS_Subset, FS_CardinalityType
<1> QED
  BY <1>2, <1>4

LEMMA NthThere ==
  ASSUME NEW S, Naturals(S), IsFiniteSet(S), NEW k \in 1..Cardinality(S)
  PROVE  Nth(S, k) \in S
<1> DEFINE place == [i \in S |-> Cardinality(Seen(S, i)) + 1]
           n == Cardinality(S)
<1>1. n \in Nat
  BY FS_CardinalityType
<1>2. \A i \in S : place[i] \in 1..n /\ Nth(S, place[i]) = i
  BY PlaceIs, NthIs
<1>3. place \in [S -> 1..n] /\ DOMAIN place = S
  BY <1>2
<1> HIDE DEF place
<1>4. place \in Injection(S, 1..n)
  BY <1>2, <1>3 DEF Injection, IsInjective
<1>5. IsFiniteSet(1..n) /\ Cardinality(1..n) = n
  BY <1>1, FS_Interval
<1>6. place \in Surjection(S, 1..n)
  BY <1>4, <1>5, FS_Injection
<1>7. PICK i \in S : place[i] = k
  BY <1>6 DEF Surjection
<1> QED
  BY <1>2, <1>7

(* The pieces of a text, and the loop that parses them.                    *)
PiecesBy(words) == [i \in DOMAIN words |-> PieceAt(words, i)]
Proper(words) == \A n \in DOMAIN Pieces(words) : IsStatement(Pieces(words)[n])

ParserSound(words, p) ==
  /\ p.at \in 1..(Len(words) + 1) /\ p.expecting \in BOOLEAN /\ p.stmts \in Seq(Seq(STRING))
  /\ \A k \in DOMAIN p.stmts : IsStatement(p.stmts[k])
  /\ ~p.expecting =>
       /\ p.at = 1 \/ words[p.at - 1] = SemiColon
       /\ p.stmts = InOrder(Starts(words), p.at, PiecesBy(words))
  /\ p.expecting => \E i \in Starts(words) : \E k \in Taken(words, i) :
       /\ p.at = i + k
       /\ p.stmts = Append(InOrder(Starts(words), i, PiecesBy(words)), SubSeq(words, i, i + k - 1))

LEMMA StartsTyped ==
  ASSUME NEW words \in Seq(STRING)
  PROVE  /\ Naturals(Starts(words)) /\ \A i \in Starts(words) : i \in 1..Len(words) /\ i \in Nat /\ i >= 1
         /\ DOMAIN words = 1..Len(words) /\ Len(words) \in Nat
BY DEF Starts, Naturals

LEMMA StartsFinite == ASSUME NEW words \in Seq(STRING) PROVE IsFiniteSet(Starts(words))
<1>1. Starts(words) \in SUBSET (1..Len(words)) /\ Len(words) \in Nat
  BY StartsTyped
<1>2. IsFiniteSet(1..Len(words))
  BY <1>1, FS_Interval
<1> QED
  BY <1>1, <1>2, FS_Subset

LEMMA PieceEnds ==
  ASSUME NEW words \in Seq(STRING), NEW i \in Starts(words)
  PROVE  \E n \in i..Len(words) : IsEnd(words, i, n)
<1> DEFINE m == Len(words)
           T == {j \in Nat : j >= i /\ (j = m + 1 \/ words[j] = SemiColon)}
<1>1. i \in Nat /\ m \in Nat /\ i >= 1 /\ i <= m /\ words[i] # SemiColon
  BY StartsTyped DEF Starts
<1>2. T \in SUBSET Nat /\ m + 1 \in T
  BY <1>1
<1> HIDE DEF T
<1>3. PICK n \in T : \A j \in T : n <= j
  BY <1>2, SmallestOf
<1>4. n \in Nat /\ n >= i /\ (n = m + 1 \/ words[n] = SemiColon) /\ n <= m + 1
  BY <1>2, <1>3 DEF T
<1>5. n - 1 \in i..m
  BY <1>1, <1>4
<1>6. \A j \in i..(n - 1) : words[j] # SemiColon
  <2> SUFFICES ASSUME NEW j \in i..(n - 1), words[j] = SemiColon PROVE FALSE
    OBVIOUS
  <2>1. j \in Nat /\ j >= i /\ j < n
    BY <1>1, <1>4
  <2>2. j \in T
    BY <2>1 DEF T
  <2> QED
    BY <1>3, <1>4, <2>1, <2>2
<1>7. n - 1 = m \/ words[(n - 1) + 1] = SemiColon
  BY <1>1, <1>4
<1>8. IsEnd(words, i, n - 1)
  BY <1>6, <1>7 DEF IsEnd
<1> QED
  BY <1>5, <1>8

LEMMA PieceIs ==
  ASSUME NEW words \in Seq(STRING), NEW i \in 1..Len(words), NEW n \in i..Len(words), IsEnd(words, i, n)
  PROVE  PieceAt(words, i) = SubSeq(words, i, n)
<1>1. \A k \in i..Len(words) : IsEnd(words, i, k) => k = n
  <2> SUFFICES ASSUME NEW k \in i..Len(words), IsEnd(words, i, k) PROVE ~(k < n) /\ ~(n < k)
    OBVIOUS
  <2>1. k < n => k + 1 \in i..n /\ k # Len(words)
    OBVIOUS
  <2>2. n < k => n + 1 \in i..k /\ n # Len(words)
    OBVIOUS
  <2> QED
    BY <2>1, <2>2 DEF IsEnd
<1>2. (CHOOSE k \in i..Len(words) : IsEnd(words, i, k)) = n
  BY <1>1
<1> QED
  BY <1>2 DEF PieceAt

LEMMA PieceTaken ==
  ASSUME ScriptAssumption, NEW words \in Seq(STRING), NEW i \in Starts(words), NEW k \in Taken(words, i),
         i + k = Len(words) + 1 \/ words[i + k] = SemiColon
  PROVE  /\ PieceAt(words, i) = SubSeq(words, i, i + k - 1)
         /\ Seen(Starts(words), i + k) = Seen(Starts(words), i + 1)
<1>1. i \in 1..Len(words) /\ i \in Nat /\ Len(words) \in Nat /\ i >= 1
  BY StartsTyped
<1>2. k \in Nat /\ k >= 1 /\ i + k - 1 <= Len(words) /\ Undelimited(words, i, i + k - 1)
  BY <1>1, TakenGood
<1>3. i + k - 1 \in i..Len(words)
  BY <1>1, <1>2
<1>4. IsEnd(words, i, i + k - 1)
  BY <1>1, <1>2 DEF IsEnd, Undelimited
<1>5. ASSUME NEW j \in Starts(words), j < i + k PROVE j < i + 1
  <2> SUFFICES ASSUME j >= i + 1 PROVE FALSE
    BY <1>1, StartsTyped
  <2>1. j \in Nat /\ j # 1 /\ j - 1 \in i..(i + k - 1)
    BY <1>1, <1>2, <1>5, StartsTyped
  <2>2. words[j - 1] = SemiColon
    BY <2>1 DEF Starts
  <2> QED
    BY <1>2, <2>1, <2>2 DEF Undelimited
<1>6. \A j \in Starts(words) : j < i + 1 => j < i + k
  BY <1>1, <1>2, StartsTyped
<1>7. Seen(Starts(words), i + k) = Seen(Starts(words), i + 1)
  BY <1>5, <1>6 DEF Seen
<1> QED
  BY <1>1, <1>3, <1>4, <1>7, PieceIs

LEMMA ParseFirst ==
  ASSUME NEW words \in Seq(STRING) PROVE ParserSound(words, AtFirst.parser)
<1>1. AtFirst.parser.at = 1 /\ AtFirst.parser.expecting = FALSE /\ AtFirst.parser.stmts = <<>>
  BY DEF AtFirst
<1>2. InOrder(Starts(words), 1, PiecesBy(words)) = <<>>
  BY StartsTyped, InOrderFirst
<1>3. 1 \in 1..(Len(words) + 1)
  BY StartsTyped
<1>4. AtFirst.parser.stmts \in Seq(Seq(STRING)) /\ \A k \in DOMAIN AtFirst.parser.stmts : IsStatement(AtFirst.parser.stmts[k])
  BY <1>1
<1> QED
  BY <1>1, <1>2, <1>3, <1>4 DEF ParserSound

LEMMA ParseEnds ==
  ASSUME ScriptAssumption, NEW words \in Seq(STRING), NEW p, ParserSound(words, p),
         p.at = Len(words) + 1 \/ words[p.at] = SemiColon
  PROVE  p.stmts = InOrder(Starts(words), p.at, PiecesBy(words))
<1>1. CASE ~p.expecting
  BY <1>1 DEF ParserSound
<1>2. CASE p.expecting
  <2>1. PICK i \in Starts(words) : \E k \in Taken(words, i) :
          /\ p.at = i + k
          /\ p.stmts = Append(InOrder(Starts(words), i, PiecesBy(words)), SubSeq(words, i, i + k - 1))
    BY <1>2 DEF ParserSound
  <2>2. PICK k \in Taken(words, i) :
          /\ p.at = i + k
          /\ p.stmts = Append(InOrder(Starts(words), i, PiecesBy(words)), SubSeq(words, i, i + k - 1))
    BY <2>1
  <2>3. /\ PieceAt(words, i) = SubSeq(words, i, i + k - 1)
        /\ Seen(Starts(words), i + k) = Seen(Starts(words), i + 1)
    BY <2>2, PieceTaken
  <2>4. PiecesBy(words)[i] = PieceAt(words, i)
    BY StartsTyped DEF PiecesBy
  <2>5. p.stmts = InOrder(Starts(words), i + 1, PiecesBy(words))
    BY <2>2, <2>3, <2>4, StartsTyped, InOrderNext
  <2> QED
    BY <2>2, <2>3, <2>5 DEF InOrder
<1> QED
  BY <1>1, <1>2 DEF ParserSound

LEMMA ParseDelimiter ==
  ASSUME ScriptAssumption, NEW words \in Seq(STRING), NEW p, ParserSound(words, p),
         p.at <= Len(words), words[p.at] = SemiColon,
         NEW q, q.at = p.at + 1, q.expecting = FALSE, q.stmts = p.stmts
  PROVE  ParserSound(words, q)
<1>1. p.at \in Nat /\ p.at >= 1 /\ Len(words) \in Nat
  BY StartsTyped DEF ParserSound
<1>2. p.at \notin Starts(words)
  BY DEF Starts
<1>3. p.stmts = InOrder(Starts(words), p.at, PiecesBy(words))
  BY ParseEnds
<1>4. p.stmts = InOrder(Starts(words), p.at + 1, PiecesBy(words))
  BY <1>1, <1>2, <1>3, StartsTyped, InOrderPassed
<1>5. q.at \in 1..(Len(words) + 1) /\ q.at - 1 = p.at
  BY <1>1
<1>6. q.stmts \in Seq(Seq(STRING)) /\ \A k \in DOMAIN q.stmts : IsStatement(q.stmts[k])
  BY DEF ParserSound
<1> QED
  BY <1>4, <1>5, <1>6 DEF ParserSound

LEMMA Appended ==
  ASSUME NEW S, NEW s \in Seq(S), NEW e \in S
  PROVE  /\ Append(s, e) \in Seq(S) /\ Len(Append(s, e)) = Len(s) + 1
         /\ \A i \in 1..Len(s) : Append(s, e)[i] = s[i]
         /\ Append(s, e)[Len(s) + 1] = e
         /\ Len(s) \in Nat /\ DOMAIN s = 1..Len(s) /\ DOMAIN Append(s, e) = 1..(Len(s) + 1)
BY AppendProperties

LEMMA TextAppended ==
  ASSUME NEW s \in Seq(Seq(STRING)), NEW e \in Seq(STRING)
  PROVE  /\ Append(s, e) \in Seq(Seq(STRING)) /\ Len(Append(s, e)) = Len(s) + 1
         /\ \A i \in 1..Len(s) : Append(s, e)[i] = s[i]
         /\ Append(s, e)[Len(s) + 1] = e
         /\ Len(s) \in Nat /\ DOMAIN s = 1..Len(s) /\ DOMAIN Append(s, e) = 1..(Len(s) + 1)
<1> DEFINE Statements == Seq(STRING)
<1>1. s \in Seq(Statements) /\ e \in Statements
  OBVIOUS
<1> HIDE DEF Statements
<1>2. /\ Append(s, e) \in Seq(Statements) /\ Len(Append(s, e)) = Len(s) + 1
      /\ \A i \in 1..Len(s) : Append(s, e)[i] = s[i]
      /\ Append(s, e)[Len(s) + 1] = e
      /\ Len(s) \in Nat /\ DOMAIN s = 1..Len(s) /\ DOMAIN Append(s, e) = 1..(Len(s) + 1)
  BY <1>1, Appended, Zenon
<1> QED
  BY <1>2 DEF Statements

LEMMA ParseTake ==
  ASSUME ScriptAssumption, NEW words \in Seq(STRING), NEW p, ParserSound(words, p),
         p.at <= Len(words), words[p.at] # SemiColon, ~p.expecting, NEW k \in Taken(words, p.at),
         NEW q, q.at = p.at + k, q.expecting = TRUE,
         q.stmts = Append(p.stmts, SubSeq(words, p.at, p.at + k - 1))
  PROVE  ParserSound(words, q)
<1> DEFINE taken == SubSeq(words, p.at, p.at + k - 1)
<1>1. p.at \in 1..Len(words) /\ p.at \in Nat /\ Len(words) \in Nat
  BY StartsTyped DEF ParserSound
<1>2. p.at \in Starts(words)
  BY <1>1, StartsTyped DEF ParserSound, Starts
<1>3. k \in Nat /\ k >= 1 /\ p.at + k - 1 <= Len(words) /\ IsStatement(taken)
  BY <1>1, TakenGood
<1>4. q.at \in 1..(Len(words) + 1)
  BY <1>1, <1>3
<1>5. taken \in Seq(STRING)
  BY <1>1, <1>3, SubSeqProperties
<1> HIDE DEF taken
<1>6. q.stmts \in Seq(Seq(STRING)) /\ \A j \in DOMAIN q.stmts : IsStatement(q.stmts[j])
  <2>1. p.stmts \in Seq(Seq(STRING)) /\ \A j \in DOMAIN p.stmts : IsStatement(p.stmts[j])
    BY DEF ParserSound
  <2>2. q.stmts = Append(p.stmts, taken)
    BY DEF taken
  <2>3. /\ q.stmts \in Seq(Seq(STRING)) /\ Len(q.stmts) = Len(p.stmts) + 1
        /\ \A j \in 1..Len(p.stmts) : q.stmts[j] = p.stmts[j]
        /\ q.stmts[Len(p.stmts) + 1] = taken
    <3>1. p.stmts \in Seq(Seq(STRING))
      BY <2>1
    <3>2. /\ Append(p.stmts, taken) \in Seq(Seq(STRING)) /\ Len(Append(p.stmts, taken)) = Len(p.stmts) + 1
          /\ \A j \in 1..Len(p.stmts) : Append(p.stmts, taken)[j] = p.stmts[j]
          /\ Append(p.stmts, taken)[Len(p.stmts) + 1] = taken
      BY <1>5, <3>1, TextAppended, Zenon
    <3> QED
      BY <2>2, <3>2, Zenon
  <2>4. DOMAIN q.stmts = 1..(Len(p.stmts) + 1) /\ DOMAIN p.stmts = 1..Len(p.stmts) /\ Len(p.stmts) \in Nat
    BY <2>1, <2>3
  <2>5. ASSUME NEW j \in DOMAIN q.stmts PROVE IsStatement(q.stmts[j])
    <3>1. j \in 1..Len(p.stmts) \/ j = Len(p.stmts) + 1
      BY <2>4
    <3> QED
      BY <1>3, <2>1, <2>3, <2>4, <3>1
  <2> QED
    BY <2>3, <2>5
<1>7. p.stmts = InOrder(Starts(words), p.at, PiecesBy(words))
  BY DEF ParserSound
<1> QED
  BY <1>2, <1>4, <1>6, <1>7 DEF ParserSound

LEMMA ParseWhole ==
  ASSUME ScriptAssumption, NEW words \in Seq(STRING), NEW p, ParserSound(words, p), p.at > Len(words)
  PROVE  p.stmts = Pieces(words) /\ Proper(words)
<1> DEFINE S == Starts(words)
           n == Len(words)
           f == PiecesBy(words)
<1>1. p.at = n + 1 /\ n \in Nat
  BY StartsTyped DEF ParserSound
<1>2. p.stmts = InOrder(S, n + 1, f)
  BY <1>1, ParseEnds
<1>3. InOrder(S, n + 1, f) = [k \in 1..Cardinality(S) |-> f[Nth(S, k)]]
  BY <1>1, StartsTyped, InOrderWhole
<1>4. \A k \in 1..Cardinality(S) : Nth(S, k) \in DOMAIN words => f[Nth(S, k)] = PieceAt(words, Nth(S, k))
  BY DEF PiecesBy
<1>5. \A k \in 1..Cardinality(S) : Nth(S, k) \in S
  <2>1. IsFiniteSet(S)
    BY StartsFinite
  <2> QED
    BY <2>1, StartsTyped, NthThere
<1>6. p.stmts = Pieces(words)
  BY <1>2, <1>3, <1>4, <1>5, StartsTyped DEF Pieces
<1> QED
  BY <1>6 DEF Proper, ParserSound

LEMMA StartIsPiece ==
  ASSUME NEW words \in Seq(STRING), NEW i \in Starts(words), Proper(words)
  PROVE  IsStatement(PieceAt(words, i))
<1> DEFINE S == Starts(words)
           k == Cardinality(Seen(S, i)) + 1
<1>1. k \in 1..Cardinality(S) /\ Nth(S, k) = i
  BY StartsTyped, StartsFinite, PlaceIs, NthIs
<1> HIDE DEF k
<1>2. k \in DOMAIN Pieces(words) /\ Pieces(words)[k] = PieceAt(words, i)
  BY <1>1 DEF Pieces
<1> QED
  BY <1>2 DEF Proper

LEMMA PieceTakes ==
  ASSUME ScriptAssumption, NEW words \in Seq(STRING), NEW i \in Starts(words), Proper(words)
  PROVE  \E n \in i..Len(words) : IsEnd(words, i, n) /\ Taken(words, i) = {n - i + 1}
<1>1. PICK n \in i..Len(words) : IsEnd(words, i, n)
  BY PieceEnds
<1>2. i \in 1..Len(words)
  BY StartsTyped
<1>3. IsStatement(SubSeq(words, i, n))
  BY <1>1, <1>2, PieceIs, StartIsPiece
<1> QED
  BY <1>1, <1>2, <1>3, TakenWhole

LEMMA ParseFails ==
  ASSUME ScriptAssumption, NEW words \in Seq(STRING), NEW p, ParserSound(words, p),
         p.at <= Len(words), words[p.at] # SemiColon, p.expecting \/ Taken(words, p.at) = {}
  PROVE  ~Proper(words)
<1> SUFFICES ASSUME Proper(words) PROVE FALSE
  OBVIOUS
<1>1. p.at \in 1..Len(words) /\ p.at \in Nat /\ Len(words) \in Nat
  BY StartsTyped DEF ParserSound
<1>2. CASE p.expecting
  <2>1. PICK i \in Starts(words) : \E k \in Taken(words, i) : p.at = i + k
    BY <1>2 DEF ParserSound
  <2>2. PICK k \in Taken(words, i) : p.at = i + k
    BY <2>1
  <2>3. PICK n \in i..Len(words) : IsEnd(words, i, n) /\ Taken(words, i) = {n - i + 1}
    BY PieceTakes
  <2>4. i \in Nat /\ n \in Nat /\ k = n - i + 1
    BY <1>1, <2>2, <2>3, StartsTyped
  <2>5. p.at = n + 1 /\ n # Len(words)
    BY <1>1, <2>2, <2>4
  <2> QED
    BY <2>3, <2>5 DEF IsEnd
<1>3. CASE ~p.expecting /\ Taken(words, p.at) = {}
  <2>1. p.at \in Starts(words)
    BY <1>1, <1>3, StartsTyped DEF ParserSound, Starts
  <2> QED
    BY <1>3, <2>1, PieceTakes
<1> QED
  BY <1>2, <1>3 DEF ParserSound


(* Sequences of statements: what began, and what is to begin.              *)
LEMMA Joined ==
  ASSUME NEW S, NEW s \in Seq(S), NEW t \in Seq(S)
  PROVE  /\ s \o t \in Seq(S) /\ Len(s \o t) = Len(s) + Len(t)
         /\ \A i \in 1..Len(s) : (s \o t)[i] = s[i]
         /\ \A i \in 1..Len(t) : (s \o t)[Len(s) + i] = t[i]
         /\ Len(s) \in Nat /\ Len(t) \in Nat /\ DOMAIN (s \o t) = 1..(Len(s) + Len(t))
<1>1. /\ s \o t \in Seq(S) /\ Len(s \o t) = Len(s) + Len(t)
      /\ \A i \in 1..(Len(s) + Len(t)) : (s \o t)[i] = IF i <= Len(s) THEN s[i] ELSE t[i - Len(s)]
  BY ConcatProperties
<1>2. Len(s) \in Nat /\ Len(t) \in Nat
  OBVIOUS
<1>3. \A i \in 1..Len(s) : (s \o t)[i] = s[i]
  BY <1>1, <1>2
<1>4. ASSUME NEW i \in 1..Len(t) PROVE (s \o t)[Len(s) + i] = t[i]
  <2>1. Len(s) + i \in 1..(Len(s) + Len(t)) /\ ~(Len(s) + i <= Len(s)) /\ (Len(s) + i) - Len(s) = i
    BY <1>2
  <2> QED
    BY <1>1, <2>1
<1> QED
  BY <1>1, <1>2, <1>3, <1>4

LEMMA JoinedNext ==
  ASSUME NEW S, NEW s \in Seq(S), NEW t \in Seq(S), NEW e \in S
  PROVE  s \o Append(t, e) = Append(s \o t, e)
<1> DEFINE u == Append(t, e)
           v == s \o t
<1>1. /\ u \in Seq(S) /\ Len(u) = Len(t) + 1 /\ u[Len(t) + 1] = e
      /\ \A i \in 1..Len(t) : u[i] = t[i]
  BY Appended
<1>2. /\ v \in Seq(S) /\ Len(v) = Len(s) + Len(t) /\ Len(s) \in Nat /\ Len(t) \in Nat
      /\ \A i \in 1..(Len(s) + Len(t)) : v[i] = IF i <= Len(s) THEN s[i] ELSE t[i - Len(s)]
  BY ConcatProperties
<1> HIDE DEF u, v
<1>3. /\ s \o u \in Seq(S) /\ Len(s \o u) = Len(s) + Len(t) + 1
      /\ \A i \in 1..(Len(s) + Len(t) + 1) : (s \o u)[i] = IF i <= Len(s) THEN s[i] ELSE u[i - Len(s)]
  BY <1>1, <1>2, ConcatProperties
<1>4. /\ Append(v, e) \in Seq(S) /\ Len(Append(v, e)) = Len(s) + Len(t) + 1
      /\ \A i \in 1..(Len(s) + Len(t)) : Append(v, e)[i] = v[i]
      /\ Append(v, e)[Len(s) + Len(t) + 1] = e
  BY <1>2, Appended
<1>5. ASSUME NEW i \in 1..(Len(s) + Len(t) + 1) PROVE (s \o u)[i] = Append(v, e)[i]
  <2>1. CASE i <= Len(s)
    BY <1>2, <1>3, <1>4, <2>1
  <2>2. CASE i > Len(s) /\ i <= Len(s) + Len(t)
    <3>1. i - Len(s) \in 1..Len(t) /\ i \in 1..(Len(s) + Len(t)) /\ ~(i <= Len(s))
      BY <1>2, <2>2
    <3> QED
      BY <1>1, <1>2, <1>3, <1>4, <3>1
  <2>3. CASE i = Len(s) + Len(t) + 1
    <3>1. i - Len(s) = Len(t) + 1 /\ ~(i <= Len(s))
      BY <1>2, <2>3
    <3> QED
      BY <1>1, <1>3, <1>4, <2>3, <3>1
  <2>4. i <= Len(s) \/ (i > Len(s) /\ i <= Len(s) + Len(t)) \/ i = Len(s) + Len(t) + 1
    BY <1>2
  <2> QED
    BY <2>1, <2>2, <2>3, <2>4, Zenon
<1>6. s \o u = Append(v, e)
  BY <1>3, <1>4, <1>5, SeqEqual
<1> QED
  BY <1>6 DEF u, v

LEMMA OneMore ==
  ASSUME NEW S, NEW s \in Seq(S), NEW t \in Seq(S), t # <<>>
  PROVE  /\ Head(t) \in S /\ Tail(t) \in Seq(S)
         /\ Append(s, Head(t)) \o Tail(t) = s \o t
<1> DEFINE h == Head(t)
           l == Tail(t)
           u == Append(s, h)
<1>1. Len(t) \in Nat /\ Len(t) # 0 /\ Len(s) \in Nat
  OBVIOUS
<1>2. /\ h \in S /\ l \in Seq(S) /\ Len(l) = Len(t) - 1 /\ h = t[1]
      /\ \A i \in 1..(Len(t) - 1) : l[i] = t[i + 1]
  BY HeadTailProperties
<1>3. /\ u \in Seq(S) /\ Len(u) = Len(s) + 1 /\ u[Len(s) + 1] = h
      /\ \A i \in 1..Len(s) : u[i] = s[i]
  BY <1>2, Appended
<1> HIDE DEF h, l, u
<1>4. /\ s \o t \in Seq(S) /\ Len(s \o t) = Len(s) + Len(t)
      /\ \A i \in 1..(Len(s) + Len(t)) : (s \o t)[i] = IF i <= Len(s) THEN s[i] ELSE t[i - Len(s)]
  BY ConcatProperties
<1>5. /\ u \o l \in Seq(S) /\ Len(u \o l) = Len(s) + Len(t)
      /\ \A i \in 1..(Len(s) + Len(t)) : (u \o l)[i] = IF i <= Len(s) + 1 THEN u[i] ELSE l[i - (Len(s) + 1)]
  <2>1. Len(u) + Len(l) = Len(s) + Len(t)
    BY <1>1, <1>2, <1>3
  <2>2. /\ u \o l \in Seq(S) /\ Len(u \o l) = Len(u) + Len(l)
        /\ \A i \in 1..(Len(u) + Len(l)) : (u \o l)[i] = IF i <= Len(u) THEN u[i] ELSE l[i - Len(u)]
    BY <1>2, <1>3, ConcatProperties, Zenon
  <2> QED
    BY <1>3, <2>1, <2>2
<1>6. ASSUME NEW i \in 1..(Len(s) + Len(t)) PROVE (u \o l)[i] = (s \o t)[i]
  <2>1. CASE i <= Len(s)
    BY <1>1, <1>3, <1>4, <1>5, <2>1
  <2>2. CASE i = Len(s) + 1
    <3>1. i - Len(s) = 1 /\ ~(i <= Len(s)) /\ i <= Len(s) + 1
      BY <1>1, <2>2
    <3> QED
      BY <1>2, <1>3, <1>4, <1>5, <2>2, <3>1
  <2>3. CASE i > Len(s) + 1
    <3>1. /\ i - (Len(s) + 1) \in 1..(Len(t) - 1) /\ (i - (Len(s) + 1)) + 1 = i - Len(s)
          /\ ~(i <= Len(s)) /\ ~(i <= Len(s) + 1)
      BY <1>1, <2>3
    <3> QED
      BY <1>2, <1>4, <1>5, <3>1
  <2>4. i <= Len(s) \/ i = Len(s) + 1 \/ i > Len(s) + 1
    BY <1>1
  <2> QED
    BY <2>1, <2>2, <2>3, <2>4, Zenon
<1>7. u \o l = s \o t
  BY <1>4, <1>5, <1>6, SeqEqual
<1> QED
  BY <1>2, <1>7 DEF h, l, u

LEMMA JoinedPrefix ==
  ASSUME NEW S, NEW s \in Seq(S), NEW t \in Seq(S)
  PROVE  IsPrefix(s, s \o t)
<1> DEFINE v == s \o t
           n == Len(s)
<1>1. /\ v \in Seq(S) /\ Len(v) = n + Len(t) /\ n \in Nat /\ Len(t) \in Nat
      /\ \A i \in 1..n : v[i] = s[i]
  BY Joined
<1> HIDE DEF v
<1>2. \A i \in 1..n : s[i] \in S /\ v[i] \in S
  BY <1>1
<1>3. /\ SubSeq(s, 1, n) \in Seq(S) /\ Len(SubSeq(s, 1, n)) = n
      /\ \A i \in 1..n : SubSeq(s, 1, n)[i] = s[i]
  BY <1>1, <1>2, SubSeqProperties
<1>4. /\ SubSeq(v, 1, n) \in Seq(S) /\ Len(SubSeq(v, 1, n)) = n
      /\ \A i \in 1..n : SubSeq(v, 1, n)[i] = v[i]
  BY <1>1, <1>2, SubSeqProperties
<1>5. SubSeq(s, 1, n) = SubSeq(v, 1, n)
  BY <1>1, <1>3, <1>4, SeqEqual
<1> QED
  BY <1>1, <1>5 DEF IsPrefix, v

LEMMA FirstOnes ==
  ASSUME NEW S, NEW s \in Seq(S), NEW e \in S, NEW i \in 1..(Len(s) + 1)
  PROVE  /\ SubSeq(Append(s, e), 1, i - 1) = SubSeq(s, 1, i - 1)
         /\ i = Len(s) + 1 => SubSeq(s, 1, i - 1) = s
<1> DEFINE u == Append(s, e)
           n == i - 1
<1>1. /\ u \in Seq(S) /\ Len(u) = Len(s) + 1 /\ Len(s) \in Nat
      /\ \A j \in 1..Len(s) : u[j] = s[j]
  BY Appended
<1> HIDE DEF u
<1>2. n \in Nat /\ n <= Len(s)
  BY <1>1
<1> HIDE DEF n
<1>3. \A j \in 1..n : s[j] \in S /\ u[j] \in S
  BY <1>1, <1>2
<1>4. /\ SubSeq(s, 1, n) \in Seq(S) /\ Len(SubSeq(s, 1, n)) = n
      /\ \A j \in 1..n : SubSeq(s, 1, n)[j] = s[j]
  BY <1>2, <1>3, SubSeqProperties
<1>5. /\ SubSeq(u, 1, n) \in Seq(S) /\ Len(SubSeq(u, 1, n)) = n
      /\ \A j \in 1..n : SubSeq(u, 1, n)[j] = u[j]
  BY <1>2, <1>3, SubSeqProperties
<1>6. SubSeq(u, 1, n) = SubSeq(s, 1, n)
  BY <1>1, <1>2, <1>4, <1>5, SeqEqual
<1>7. ASSUME n = Len(s) PROVE SubSeq(s, 1, n) = s
  BY <1>4, <1>7, SeqEqual
<1>8. i = Len(s) + 1 => n = Len(s)
  BY <1>1 DEF n
<1> QED
  BY <1>6, <1>7, <1>8 DEF u, n


(* The setting after one more statement.                                   *)
LEMMA SetNext ==
  ASSUME NEW history \in Seq(Seq(STRING)), NEW value, IsSetBy(history, value), NEW s \in Seq(STRING)
  PROVE  IsSetBy(Append(history, s), IF s[1] = "set" THEN s[2] ELSE value)
<1> DEFINE now == Append(history, s)
           n == Len(history)
<1>1. /\ n \in Nat /\ DOMAIN history = 1..n /\ DOMAIN now = 1..(n + 1) /\ now[n + 1] = s
      /\ \A i \in 1..n : now[i] = history[i]
  BY TextAppended
<1> HIDE DEF now, n
<1>2. CASE s[1] = "set"
  <2>1. n + 1 \in DOMAIN now /\ now[n + 1][1] = "set" /\ s[2] = now[n + 1][2]
    BY <1>1, <1>2
  <2>2. \A j \in DOMAIN now : j > n + 1 => now[j][1] # "set"
    BY <1>1
  <2>3. IsSetBy(now, s[2])
    BY <2>1, <2>2 DEF IsSetBy
  <2> QED
    BY <1>2, <2>3 DEF now
<1>3. CASE s[1] # "set"
  <2>1. CASE value = Default /\ \A i \in DOMAIN history : history[i][1] # "set"
    <3>1. ASSUME NEW i \in DOMAIN now PROVE now[i][1] # "set"
      <4>1. i \in 1..n \/ i = n + 1
        BY <1>1
      <4> QED
        BY <1>1, <1>3, <2>1, <4>1
    <3> QED
      BY <1>3, <2>1, <3>1 DEF IsSetBy, now
  <2>2. CASE \E i \in DOMAIN history :
               /\ history[i][1] = "set" /\ value = history[i][2]
               /\ \A j \in DOMAIN history : j > i => history[j][1] # "set"
    <3>1. PICK i \in DOMAIN history :
               /\ history[i][1] = "set" /\ value = history[i][2]
               /\ \A j \in DOMAIN history : j > i => history[j][1] # "set"
      BY <2>2
    <3>2. i \in DOMAIN now /\ now[i][1] = "set" /\ value = now[i][2]
      BY <1>1, <3>1
    <3>3. ASSUME NEW j \in DOMAIN now, j > i PROVE now[j][1] # "set"
      <4>1. j \in 1..n \/ j = n + 1
        BY <1>1
      <4> QED
        BY <1>1, <1>3, <3>1, <3>3, <4>1
    <3>4. IsSetBy(now, value)
      BY <3>2, <3>3 DEF IsSetBy
    <3> QED
      BY <1>3, <3>4 DEF now
  <2> QED
    BY <2>1, <2>2 DEF IsSetBy
<1> QED
  BY <1>2, <1>3

(* The rows of an answer, batch by batch, and those that are kept.         *)
LEMMA RowsFirst ==
  ASSUME NEW answer PROVE IsFiniteSet(RowsIn(answer, 0)) /\ Cardinality(RowsIn(answer, 0)) = 0
<1>1. 1..0 = {}
  OBVIOUS
<1>2. RowsIn(answer, 0) = {}
  BY <1>1, Zenon DEF RowsIn
<1> QED
  BY <1>2, FS_EmptySet

LEMMA RowsNext ==
  ASSUME NEW answer \in Seq(Nat), NEW b \in 1..Len(answer), IsFiniteSet(RowsIn(answer, b - 1))
  PROVE  /\ IsFiniteSet(RowsIn(answer, b))
         /\ Cardinality(RowsIn(answer, b)) = Cardinality(RowsIn(answer, b - 1)) + answer[b]
<1> DEFINE before == RowsIn(answer, b - 1)
           n == answer[b]
           new == {b} \X (1..n)
<1>1. b \in Nat /\ b >= 1 /\ n \in Nat
  OBVIOUS
<1>2. RowsIn(answer, b) = before \cup new
  <2>1. 1..b = (1..(b - 1)) \cup {b}
    BY <1>1
  <2>2. \A x : x \in RowsIn(answer, b) <=> \E c \in 1..b : x \in {c} \X (1..answer[c])
    BY DEF RowsIn
  <2>3. \A x : x \in before <=> \E c \in 1..(b - 1) : x \in {c} \X (1..answer[c])
    BY DEF RowsIn
  <2> HIDE DEF before, new
  <2>4. \A x : x \in RowsIn(answer, b) <=> x \in before \/ x \in new
    <3>1. \A x : x \in new <=> x \in {b} \X (1..answer[b])
      BY DEF new
    <3> QED
      BY <2>1, <2>2, <2>3, <3>1, Zenon
  <2> QED
    BY <2>4, Zenon
<1>3. IsFiniteSet(new) /\ Cardinality(new) = n
  <2>1. IsFiniteSet({b}) /\ Cardinality({b}) = 1
    BY FS_Singleton
  <2>2. IsFiniteSet(1..n) /\ Cardinality(1..n) = n
    <3>1. ASSUME NEW m \in Nat PROVE IsFiniteSet(1..m) /\ Cardinality(1..m) = m
      <4>1. 1 \in Int /\ m \in Int /\ (1 > m => m = 0)
        OBVIOUS
      <4>2. IsFiniteSet(1..m) /\ Cardinality(1..m) = IF 1 > m THEN 0 ELSE m - 1 + 1
        BY <4>1, FS_Interval
      <4> QED
        BY <4>1, <4>2
    <3> QED
      BY <1>1, <3>1
  <2>3. IsFiniteSet(new) /\ Cardinality(new) = Cardinality({b}) * Cardinality(1..n)
    BY <2>1, <2>2, FS_Product, Zenon
  <2> HIDE DEF new
  <2> QED
    BY <1>1, <2>1, <2>2, <2>3
<1>4. before \cap new = {}
  <2> SUFFICES ASSUME NEW x \in before, x \in new PROVE FALSE
    OBVIOUS
  <2>1. PICK c \in 1..(b - 1) : x \in {c} \X (1..answer[c])
    BY DEF RowsIn
  <2>2. x[1] = c /\ x[1] = b
    BY <2>1
  <2> QED
    BY <1>1, <2>2
<1> HIDE DEF before, new, n
<1>5. IsFiniteSet(before)
  BY DEF before
<1>6. /\ IsFiniteSet(before \cup new)
      /\ Cardinality(before \cup new) = Cardinality(before) + Cardinality(new) - Cardinality({})
  BY <1>3, <1>4, <1>5, FS_Union
<1>7. Cardinality({}) = 0 /\ Cardinality(before) \in Nat
  BY <1>5, FS_EmptySet, FS_CardinalityType
<1>8. IsFiniteSet(RowsIn(answer, b)) /\ Cardinality(RowsIn(answer, b)) = Cardinality(before) + n
  BY <1>1, <1>2, <1>3, <1>6, <1>7
<1> QED
  BY <1>8 DEF before, n

UpTo(n) == [k \in 1..n |-> k]

LEMMA CountedOn ==
  ASSUME NEW a \in Nat, NEW n \in Nat, NEW c \in Nat, n > 0 => a = c
  PROVE  UpTo(a) \o [i \in 1..n |-> c + i] = UpTo(a + n)
<1> DEFINE s == UpTo(a)
           t == [i \in 1..n |-> c + i]
           u == UpTo(a + n)
<1>1. s \in Seq(Nat) /\ Len(s) = a /\ \A i \in 1..a : s[i] = i
  BY DEF UpTo
<1>2. t \in Seq(Nat) /\ Len(t) = n /\ \A i \in 1..n : t[i] = c + i
  OBVIOUS
<1>3. u \in Seq(Nat) /\ Len(u) = a + n /\ \A i \in 1..(a + n) : u[i] = i
  BY DEF UpTo
<1> HIDE DEF s, t, u
<1>4. /\ s \o t \in Seq(Nat) /\ Len(s \o t) = a + n
      /\ \A i \in 1..(a + n) : (s \o t)[i] = IF i <= a THEN s[i] ELSE t[i - a]
  <2>1. /\ s \o t \in Seq(Nat) /\ Len(s \o t) = Len(s) + Len(t)
        /\ \A i \in 1..(Len(s) + Len(t)) : (s \o t)[i] = IF i <= Len(s) THEN s[i] ELSE t[i - Len(s)]
    BY <1>1, <1>2, ConcatProperties, Zenon
  <2> QED
    BY <1>1, <1>2, <2>1
<1>5. ASSUME NEW i \in 1..(a + n) PROVE (s \o t)[i] = u[i]
  <2>1. CASE i <= a
    BY <1>1, <1>3, <1>4, <2>1
  <2>2. CASE i > a
    <3>1. i - a \in 1..n /\ n > 0 /\ c + (i - a) = i /\ ~(i <= a)
      BY <2>2
    <3> QED
      BY <1>2, <1>3, <1>4, <3>1
  <2>3. i <= a \/ i > a
    OBVIOUS
  <2> QED
    BY <2>1, <2>2, <2>3, Zenon
<1>6. s \o t = u
  BY <1>3, <1>4, <1>5, SeqEqual
<1> QED
  BY <1>6 DEF s, t, u


-----------------------------------------------------------------------------

(* The invariant of a session of statements: what the tokenizer and the    *)
(* parser have done of the text, where the session is in it, and what was  *)
(* printed, or is being fetched, of the statements that began.             *)
Texts == Seq(STRING)
Ends == {"more", "read", "parsed", "running", "ok", "refused", "failed", "dropped", "left"}
Answered == [statement : Texts, entries : SUBSET STRING, answer : Seq(Nat), rows : Seq(Nat),
             count : Nat, notice : BOOLEAN]

ScriptTyped ==
  /\ mode \in {"repl", "script"}
  /\ input \in [text : Texts, end : Ends, typed : Nat]
  /\ parser \in [at : Nat, expecting : BOOLEAN, stmts : Seq(Texts)]
  /\ log \in [begun : Seq(Texts), past : Seq(Texts)]
  /\ todo \in Seq(Texts) /\ setting \in STRING
  /\ running \in Fetching \cup {Nothing} /\ printed \in Seq(Answered)

ReadState ==
  /\ input.end = "read" => ReadSound(input.text, reader) /\ parser = AtFirst.parser
  /\ input.end = "parsed" =>
       /\ reader.tokens = Given(input.text) /\ Given(input.text) \in Texts
       /\ ParserSound(Given(input.text), parser)
  /\ input.end = "refused" => ~Proper(Given(input.text))
  /\ input.typed = 0 => input.end \in {"ok", "left"}

RunState ==
  /\ input.end \in {"more", "read", "parsed"} => log.begun = <<>> /\ printed = <<>>
  /\ input.end = "running" =>
       /\ Proper(Given(input.text)) /\ log.begun \o todo = Pieces(Given(input.text))
       /\ running = Nothing => todo # <<>> /\ Len(printed) = Len(log.begun)
  /\ input.end # "running" => running = Nothing /\ todo = <<>>
  /\ input.end = "ok" =>
       /\ Proper(Given(input.text)) /\ log.begun = Pieces(Given(input.text))
       /\ Len(printed) = Len(log.begun)
  /\ log.begun # <<>> => Proper(Given(input.text)) /\ IsPrefix(log.begun, Pieces(Given(input.text)))
  /\ Len(printed) <= Len(log.begun)

Preview(m, n) == IF m = "repl" THEN Least(n, MaxPreview) ELSE n

AnswerSound(m, answer, begun, past, i) ==
  LET total == Cardinality(RowsIn(answer.answer, Len(answer.answer))) IN
  /\ answer.statement = begun[i]
  /\ answer.count = total /\ answer.rows = UpTo(Preview(m, total))
  /\ answer.notice <=> Preview(m, total) < total
  /\ \A e \in answer.entries : IsSetBy(past \o SubSeq(begun, 1, i - 1), e)
  /\ begun[i] = ShowVariables => answer.entries # {}

RunSound(m, r, begun, past) ==
  /\ r.statement = begun[Len(begun)] /\ r.batch \in 1..(Len(r.answer) + 1)
  /\ IsFiniteSet(RowsIn(r.answer, r.batch - 1))
  /\ r.count = Cardinality(RowsIn(r.answer, r.batch - 1))
  /\ r.kept = UpTo(Preview(m, r.count))
  /\ \A e \in r.entries : IsSetBy(past \o SubSeq(begun, 1, Len(begun) - 1), e)
  /\ begun[Len(begun)] = ShowVariables => r.entries # {}

AnswerState ==
  /\ IsSetBy(log.past \o log.begun, setting)
  /\ \A i \in DOMAIN printed : AnswerSound(mode, printed[i], log.begun, log.past, i)
  /\ running # Nothing => Len(printed) + 1 = Len(log.begun) /\ RunSound(mode, running, log.begun, log.past)

ScriptInv == ScriptTyped /\ ReadState /\ RunState /\ AnswerState


LEMMA GivenNothing == Given(<<>>) = <<>> /\ Proper(<<>>) /\ Pieces(<<>>) = <<>>
<1>1. WordsOf(<<>>) = {} /\ Starts(<<>>) = {}
  BY DEF WordsOf, Starts
<1>2. Cardinality(WordsOf(<<>>)) = 0 /\ Cardinality(Starts(<<>>)) = 0
  BY <1>1, FS_EmptySet
<1>3. Given(<<>>) = <<>>
  BY <1>2 DEF Given
<1>4. Pieces(<<>>) = <<>>
  BY <1>2 DEF Pieces
<1> QED
  BY <1>3, <1>4 DEF Proper

(* What the invariant says of the answers, and where a session starts.     *)
LEMMA InvImplies == ASSUME ScriptAssumption, ScriptInv PROVE RunAsWritten
<1> DEFINE words == Given(input.text)
           pieces == Pieces(words)
           begun == log.begun
<1>1. ScriptTyped /\ ReadState /\ RunState /\ AnswerState
  BY DEF ScriptInv
<1>2. begun # <<>> => Proper(words) /\ IsPrefix(begun, pieces)
  BY <1>1 DEF RunState
<1>3. input.end = "refused" => ~Proper(words)
  BY <1>1 DEF ReadState
<1>4. ASSUME input.end = "ok"
      PROVE  Proper(words) /\ [i \in DOMAIN printed |-> printed[i].statement] = pieces
  <2>1. Proper(words) /\ begun = pieces /\ Len(printed) = Len(begun)
    BY <1>1, <1>4 DEF RunState
  <2>2. begun \in Seq(Texts) /\ printed \in Seq(Answered)
    BY <1>1 DEF ScriptTyped
  <2>3. DOMAIN printed = 1..Len(begun) /\ DOMAIN begun = 1..Len(begun)
    BY <2>1, <2>2
  <2>4. \A i \in DOMAIN printed : printed[i].statement = begun[i]
    BY <1>1 DEF AnswerState, AnswerSound
  <2> HIDE DEF begun, pieces, words
  <2>5. [i \in DOMAIN printed |-> printed[i].statement] = begun
    <3>1. begun = [i \in 1..Len(begun) |-> begun[i]]
      BY <2>2
    <3> QED
      BY <2>3, <2>4, <3>1
  <2> QED
    BY <2>1, <2>5
<1>5. ASSUME NEW i \in DOMAIN printed
      PROVE  LET answer == printed[i]
                 total == Cardinality(RowsIn(answer.answer, Len(answer.answer)))
                 shown == IF mode = "repl" THEN Least(total, MaxPreview) ELSE total IN
             /\ answer.statement = begun[i]
             /\ answer.count = total /\ answer.rows = [k \in 1..shown |-> k]
             /\ answer.notice <=> shown < total
             /\ \A e \in answer.entries : IsSetBy(log.past \o SubSeq(begun, 1, i - 1), e)
             /\ begun[i] = ShowVariables => answer.entries # {}
  <2>1. AnswerSound(mode, printed[i], log.begun, log.past, i)
    BY <1>1 DEF AnswerState
  <2> QED
    BY <2>1 DEF AnswerSound, UpTo, Preview
<1> QED
  BY <1>2, <1>3, <1>4, <1>5, Zenon DEF RunAsWritten, Proper

LEMMA InvFirst == ASSUME ScriptAssumption, ScriptInit PROVE ScriptInv
<1>1. /\ input.text = <<>> /\ input.end = "ok" /\ input.typed = 0
      /\ parser.at = 1 /\ parser.expecting = FALSE /\ parser.stmts = <<>>
      /\ log.begun = <<>> /\ log.past = <<>>
  BY DEF ScriptInit, AtFirst
<1>2. ScriptTyped
  <2>1. <<>> \in Texts /\ <<>> \in Seq(Texts) /\ <<>> \in Seq(Answered)
    BY EmptySeq DEF Texts
  <2>2. input \in [text : Texts, end : Ends, typed : Nat]
    BY <2>1 DEF ScriptInit, Ends
  <2>3. parser \in [at : Nat, expecting : BOOLEAN, stmts : Seq(Texts)]
    BY <2>1 DEF ScriptInit, AtFirst
  <2>4. log \in [begun : Seq(Texts), past : Seq(Texts)]
    BY <2>1 DEF ScriptInit
  <2> QED
    BY <2>1, <2>2, <2>3, <2>4 DEF ScriptTyped, ScriptInit, ScriptAssumption
<1>3. ReadState
  BY <1>1 DEF ReadState
<1>4. RunState
  BY <1>1, GivenNothing DEF RunState, ScriptInit
<1>5. AnswerState
  <2>1. <<>> \o <<>> = <<>>
    BY ConcatEmptySeq, EmptySeq
  <2>2. IsSetBy(<<>>, Default)
    BY DEF IsSetBy
  <2>3. IsSetBy(log.past \o log.begun, setting)
    BY <1>1, <2>1, <2>2 DEF ScriptInit
  <2>4. DOMAIN printed = {} /\ running = Nothing
    BY DEF ScriptInit
  <2> QED
    BY <2>3, <2>4 DEF AnswerState
<1> QED
  BY <1>2, <1>3, <1>4, <1>5 DEF ScriptInv


(* A text is taken: nothing of it has begun, and what began is past.       *)
LEMMA TakeKeeps ==
  ASSUME ScriptAssumption, ScriptInv, input.end # "running",
         NEW text \in Texts, NEW end \in {"read", "more"}, Take(text, end)
  PROVE  ScriptInv'
<1> USE DEF ScriptInv
<1>1. /\ input' = [text |-> text, end |-> end, typed |-> input.typed + 1] /\ input.typed \in Nat
      /\ log' = [begun |-> <<>>, past |-> log.past \o log.begun] /\ printed' = <<>>
      /\ parser' = AtFirst.parser /\ reader' = AtFirst.reader
      /\ running' = Nothing /\ todo' = <<>> /\ mode' = mode /\ setting' = setting
  BY DEF Take, RunState, ScriptTyped
<1>2. /\ input'.text = text /\ input'.end = end /\ input'.typed = input.typed + 1
      /\ log'.begun = <<>> /\ log'.past = log.past \o log.begun
  BY <1>1
<1>3. log.past \in Seq(Texts) /\ log.begun \in Seq(Texts) /\ log.past \o log.begun \in Seq(Texts)
  <2>1. log.past \in Seq(Texts) /\ log.begun \in Seq(Texts)
    BY DEF ScriptTyped
  <2> QED
    BY <2>1, Joined
<1>4. ScriptTyped'
  <2>1. <<>> \in Texts /\ <<>> \in Seq(Texts) /\ <<>> \in Seq(Answered)
    BY EmptySeq DEF Texts
  <2>2. input' \in [text : Texts, end : Ends, typed : Nat]
    BY <1>1 DEF Ends
  <2>3. parser' \in [at : Nat, expecting : BOOLEAN, stmts : Seq(Texts)]
    BY <1>1, <2>1 DEF AtFirst
  <2>4. log' \in [begun : Seq(Texts), past : Seq(Texts)]
    BY <1>1, <1>3, <2>1
  <2>5. mode' \in {"repl", "script"} /\ setting' \in STRING
    BY <1>1 DEF ScriptTyped
  <2> QED
    BY <1>1, <2>1, <2>2, <2>3, <2>4, <2>5 DEF ScriptTyped
<1>5. ReadState'
  <2>1. ReadSound(text, AtFirst.reader)
    BY ReadFirst DEF Texts
  <2>2. input'.typed # 0
    BY <1>1, <1>2
  <2> QED
    BY <1>1, <1>2, <2>1, <2>2 DEF ReadState
<1>6. RunState'
  BY <1>1, <1>2, EmptySeq DEF RunState
<1>7. AnswerState'
  <2>1. log'.past \o log'.begun = log.past \o log.begun
    BY <1>2, <1>3, ConcatEmptySeq
  <2>2. IsSetBy(log.past \o log.begun, setting)
    BY DEF AnswerState
  <2>3. IsSetBy(log'.past \o log'.begun, setting')
    BY <1>1, <2>1, <2>2
  <2>4. DOMAIN printed' = {} /\ running' = Nothing
    BY <1>1
  <2> QED
    BY <2>3, <2>4 DEF AnswerState
<1> QED
  BY <1>4, <1>5, <1>6, <1>7

(* The input ends, or gets to what follows, and nothing else changes.      *)
LEMMA EndKeeps ==
  ASSUME ScriptAssumption, ScriptInv, input.end # "running",
         NEW end \in {"dropped", "left"}, end = "dropped" => input.end = "more",
         input' = [input EXCEPT !.end = end],
         UNCHANGED <<mode, reader, parser, todo, setting, running, printed, log>>
  PROVE  ScriptInv'
<1> USE DEF ScriptInv
<1>1. input'.text = input.text /\ input'.end = end /\ input'.typed = input.typed
  BY DEF ScriptTyped
<1>2. ScriptTyped'
  <2>1. input' \in [text : Texts, end : Ends, typed : Nat]
    BY DEF ScriptTyped, Ends
  <2> QED
    BY <2>1 DEF ScriptTyped
<1>3. ReadState'
  BY <1>1 DEF ReadState
<1>4. RunState'
  BY <1>1 DEF RunState
<1>5. AnswerState'
  BY DEF AnswerState
<1> QED
  BY <1>2, <1>3, <1>4, <1>5

LEMMA TypeKeeps ==
  ASSUME ScriptAssumption, ScriptInv, NEW line \in Lines, TypeLine(line) PROVE ScriptInv'
<1> DEFINE text == IF Waits THEN input.text \o line ELSE line
           delimited == text # <<>> /\ text[Len(text)] = SemiColon
<1>1. input.end # "running"
  BY DEF TypeLine, AtPrompt
<1>2. text \in Texts
  <2>1. line \in Seq(STRING) /\ input.text \in Seq(STRING)
    BY DEF ScriptAssumption, ScriptInv, ScriptTyped, Texts
  <2>2. input.text \o line \in Seq(STRING)
    BY <2>1, Joined
  <2> QED
    BY <2>1, <2>2 DEF Texts
<1>3. \/ /\ input' = [input EXCEPT !.end = "left"]
         /\ UNCHANGED <<mode, reader, parser, todo, setting, running, printed, log>>
      \/ \E end \in {"read", "more"} : Take(text, end)
  <2> HIDE DEF text
  <2>1. CASE delimited /\ text = <<"quit", SemiColon>>
    BY <2>1 DEF TypeLine, text
  <2>2. CASE ~(delimited /\ text = <<"quit", SemiColon>>)
    <3>1. Take(text, IF delimited THEN "read" ELSE "more")
      BY <2>2 DEF TypeLine, text
    <3> QED
      BY <3>1
  <2> QED
    BY <2>1, <2>2
<1> HIDE DEF text
<1>4. CASE \E end \in {"read", "more"} : Take(text, end)
  BY <1>1, <1>2, <1>4, TakeKeeps
<1>5. CASE /\ input' = [input EXCEPT !.end = "left"]
           /\ UNCHANGED <<mode, reader, parser, todo, setting, running, printed, log>>
  <2>1. "left" \in {"dropped", "left"} /\ "left" # "dropped"
    OBVIOUS
  <2> QED
    BY <1>1, <1>5, <2>1, EndKeeps
<1> QED
  BY <1>3, <1>4, <1>5

LEMMA PromptKeeps ==
  ASSUME ScriptAssumption, ScriptInv,
         \/ \E text \in Scripts : RunScript(text)
         \/ \E line \in Lines : TypeLine(line)
         \/ Leave("dropped") \/ Leave("left")
  PROVE  ScriptInv'
<1>1. CASE \E text \in Scripts : RunScript(text)
  <2>1. PICK text \in Scripts : RunScript(text)
    BY <1>1
  <2>2. text \in Texts
    BY DEF ScriptAssumption, Texts
  <2>3. input.end # "running" /\ Take(text, "read")
    BY <2>1 DEF RunScript, ScriptInv, ReadState
  <2> QED
    BY <2>2, <2>3, TakeKeeps
<1>2. CASE \E line \in Lines : TypeLine(line)
  BY <1>2, TypeKeeps
<1>3. ASSUME NEW end \in {"dropped", "left"}, Leave(end) PROVE ScriptInv'
  <2>1. /\ input.end # "running" /\ (end = "dropped" => input.end = "more")
        /\ input' = [input EXCEPT !.end = end]
        /\ UNCHANGED <<mode, reader, parser, todo, setting, running, printed, log>>
    BY <1>3 DEF Leave, AtPrompt, Waits
  <2> QED
    BY <2>1, EndKeeps
<1> QED
  BY <1>1, <1>2, <1>3


(* The tokenizer, and the parser.                                          *)
LEMMA ReadKeeps ==
  ASSUME ScriptAssumption, ScriptInv, ReadWord \/ AllRead PROVE ScriptInv'
<1> USE DEF ScriptInv
<1>1. CASE ReadWord
  <2> DEFINE word == input.text[reader.at]
             comment == word # NewLine /\ (word = LineComment \/ reader.comment)
             next == [at |-> reader.at + 1, comment |-> comment,
                      tokens |-> IF comment \/ word = NewLine THEN reader.tokens ELSE Append(reader.tokens, word)]
  <2>1. /\ input.end = "read" /\ reader.at <= Len(input.text) /\ reader' = next
        /\ UNCHANGED <<mode, input, parser, todo, setting, running, printed, log>>
    BY <1>1 DEF ReadWord
  <2>2. input.text \in Seq(STRING) /\ ReadSound(input.text, reader) /\ parser = AtFirst.parser
    BY <2>1 DEF ReadState, ScriptTyped, Texts
  <2>3. ReadSound(input.text, next)
    BY <2>1, <2>2, ReadMore
  <2> HIDE DEF next
  <2>4. ScriptTyped'
    BY <2>1 DEF ScriptTyped
  <2>5. ReadState'
    BY <2>1, <2>2, <2>3 DEF ReadState
  <2>6. RunState' /\ AnswerState'
    BY <2>1 DEF RunState, AnswerState
  <2> QED
    BY <2>4, <2>5, <2>6
<1>2. CASE AllRead
  <2>1. /\ input.end = "read" /\ reader.at > Len(input.text) /\ input' = [input EXCEPT !.end = "parsed"]
        /\ UNCHANGED <<mode, reader, parser, todo, setting, running, printed, log>>
    BY <1>2 DEF AllRead
  <2>2. /\ input.text \in Seq(STRING) /\ ReadSound(input.text, reader) /\ parser = AtFirst.parser
        /\ input.typed # 0
    BY <2>1 DEF ReadState, ScriptTyped, Texts
  <2>3. input'.text = input.text /\ input'.end = "parsed" /\ input'.typed = input.typed
    BY <2>1 DEF ScriptTyped
  <2>4. reader.tokens = Given(input.text) /\ reader.tokens \in Seq(STRING)
    BY <2>1, <2>2, ReadWhole DEF ReadSound
  <2>5. ParserSound(Given(input.text), AtFirst.parser)
    BY <2>4, ParseFirst
  <2>6. ScriptTyped'
    <3>1. input' \in [text : Texts, end : Ends, typed : Nat]
      BY <2>1 DEF ScriptTyped, Ends
    <3> QED
      BY <2>1, <3>1 DEF ScriptTyped
  <2>7. ReadState'
    BY <2>1, <2>2, <2>3, <2>4, <2>5 DEF ReadState, Texts
  <2>8. RunState'
    BY <2>1, <2>3 DEF RunState
  <2>9. AnswerState'
    BY <2>1 DEF AnswerState
  <2> QED
    BY <2>6, <2>7, <2>8, <2>9
<1> QED
  BY <1>1, <1>2

LEMMA ParseKeeps ==
  ASSUME ScriptAssumption, ScriptInv, Delimiter \/ ParseStatement \/ Expected \/ Parsed PROVE ScriptInv'
<1> USE DEF ScriptInv
<1> DEFINE words == Given(input.text)
<1>1. /\ input.end = "parsed" /\ words \in Seq(STRING) /\ reader.tokens = words
      /\ ParserSound(words, parser) /\ input.typed # 0
  BY DEF Delimiter, ParseStatement, Expected, Parsed, More, ReadState, Texts
<1>2. parser.at \in Nat /\ parser.expecting \in BOOLEAN /\ parser.stmts \in Seq(Seq(STRING))
  BY DEF ScriptTyped, Texts
<1>3. input.text \in Texts /\ input.end \in Ends /\ input.typed \in Nat /\ log.begun = <<>> /\ printed = <<>>
  BY <1>1 DEF ScriptTyped, RunState
<1> HIDE DEF words
<1>4. ASSUME NEW p \in [at : Nat, expecting : BOOLEAN, stmts : Seq(Texts)], parser' = p, ParserSound(words, p),
             UNCHANGED <<mode, input, reader, todo, setting, running, printed, log>>
      PROVE  ScriptInv'
  <2>1. ScriptTyped'
    BY <1>4 DEF ScriptTyped
  <2>2. ReadState'
    BY <1>1, <1>4 DEF ReadState, words, Texts
  <2>3. RunState' /\ AnswerState'
    BY <1>4 DEF RunState, AnswerState
  <2> QED
    BY <2>1, <2>2, <2>3
<1>5. CASE Delimiter
  <2> DEFINE q == [parser EXCEPT !.at = @ + 1, !.expecting = FALSE]
  <2>1. /\ parser.at <= Len(words) /\ words[parser.at] = SemiColon /\ parser' = q
        /\ UNCHANGED <<mode, input, reader, todo, setting, running, printed, log>>
    BY <1>1, <1>5 DEF Delimiter, More
  <2>2. /\ q.at = parser.at + 1 /\ q.expecting = FALSE /\ q.stmts = parser.stmts
        /\ q \in [at : Nat, expecting : BOOLEAN, stmts : Seq(Texts)]
    <3>1. parser \in [at : Nat, expecting : BOOLEAN, stmts : Seq(Texts)]
      BY DEF ScriptTyped
    <3>2. [parser EXCEPT !.at = @ + 1] \in [at : Nat, expecting : BOOLEAN, stmts : Seq(Texts)]
      BY <3>1
    <3> QED
      BY <3>1, <3>2
  <2> HIDE DEF q
  <2>3. ParserSound(words, q)
    BY <1>1, <2>1, <2>2, ParseDelimiter
  <2> QED
    BY <1>4, <2>1, <2>2, <2>3
<1>6. CASE ParseStatement
  <2>1. PICK n \in Taken(words, parser.at) :
          parser' = [at |-> parser.at + n, expecting |-> TRUE,
                     stmts |-> Append(parser.stmts, SubSeq(words, parser.at, parser.at + n - 1))]
    BY <1>1, <1>6 DEF ParseStatement
  <2>2. /\ parser.at <= Len(words) /\ words[parser.at] # SemiColon /\ ~parser.expecting
        /\ UNCHANGED <<mode, input, reader, todo, setting, running, printed, log>>
    BY <1>1, <1>6 DEF ParseStatement, More, Expecting
  <2> DEFINE q == [at |-> parser.at + n, expecting |-> TRUE,
                   stmts |-> Append(parser.stmts, SubSeq(words, parser.at, parser.at + n - 1))]
  <2>3. /\ q.at = parser.at + n /\ q.expecting = TRUE
        /\ q.stmts = Append(parser.stmts, SubSeq(words, parser.at, parser.at + n - 1))
        /\ q = [at |-> q.at, expecting |-> q.expecting, stmts |-> q.stmts]
    OBVIOUS
  <2>4. parser' = q
    BY <2>1
  <2> HIDE DEF q
  <2>5. ParserSound(words, q)
    BY <1>1, <2>2, <2>3, ParseTake
  <2>6. q.at \in Nat /\ q.expecting \in BOOLEAN /\ q.stmts \in Seq(Texts)
    BY <1>1, <2>5 DEF ParserSound, Texts
  <2>7. q \in [at : Nat, expecting : BOOLEAN, stmts : Seq(Texts)]
    BY <2>3, <2>6
  <2> QED
    BY <1>4, <2>2, <2>4, <2>5, <2>7
<1>7. CASE Expected
  <2>1. /\ parser.at <= Len(words) /\ words[parser.at] # SemiColon
        /\ parser.expecting \/ Taken(words, parser.at) = {}
        /\ input' = [input EXCEPT !.end = "refused"]
        /\ UNCHANGED <<mode, reader, parser, todo, setting, running, printed, log>>
    BY <1>1, <1>7 DEF Expected, More, Expecting
  <2>2. ~Proper(words)
    BY <1>1, <2>1, ParseFails
  <2>3. input'.text = input.text /\ input'.end = "refused" /\ input'.typed = input.typed
    BY <2>1 DEF ScriptTyped
  <2>4. ScriptTyped'
    <3>1. input' \in [text : Texts, end : Ends, typed : Nat]
      BY <2>1 DEF ScriptTyped, Ends
    <3> QED
      BY <2>1, <3>1 DEF ScriptTyped
  <2>5. ReadState'
    BY <1>1, <2>2, <2>3 DEF ReadState, words
  <2>6. RunState'
    BY <1>1, <1>3, <2>1, <2>3 DEF RunState
  <2>7. AnswerState'
    BY <2>1 DEF AnswerState
  <2> QED
    BY <2>4, <2>5, <2>6, <2>7
<1>8. CASE Parsed
  <2>1. /\ parser.at > Len(words)
        /\ input' = [input EXCEPT !.end = IF parser.stmts = <<>> THEN "ok" ELSE "running"]
        /\ todo' = parser.stmts
        /\ UNCHANGED <<mode, reader, parser, setting, running, printed, log>>
    BY <1>1, <1>8 DEF Parsed
  <2>2. parser.stmts = Pieces(words) /\ Proper(words)
    BY <1>1, <2>1, ParseWhole
  <2>3. /\ input'.text = input.text /\ input'.typed = input.typed
        /\ input'.end = IF parser.stmts = <<>> THEN "ok" ELSE "running"
    BY <2>1 DEF ScriptTyped
  <2>4. ScriptTyped'
    <3>1. input' \in [text : Texts, end : Ends, typed : Nat]
      BY <2>1 DEF ScriptTyped, Ends
    <3>2. todo' \in Seq(Texts)
      BY <1>2, <2>1 DEF Texts
    <3> QED
      BY <2>1, <3>1, <3>2 DEF ScriptTyped
  <2>5. ReadState'
    BY <1>1, <2>1, <2>3 DEF ReadState, words
  <2>6. RunState'
    <3>1. running = Nothing /\ log'.begun = <<>> /\ printed' = <<>> /\ running' = Nothing
      BY <1>1, <1>3, <2>1 DEF RunState
    <3>2. log'.begun \o todo' = Pieces(words)
      BY <1>2, <2>1, <2>2, <3>1, ConcatEmptySeq
    <3>3. Len(<<>>) = 0 /\ Len(printed') = Len(log'.begun) /\ Len(printed') <= Len(log'.begun)
      BY <3>1
    <3> QED
      BY <2>1, <2>2, <2>3, <3>1, <3>2, <3>3 DEF RunState, words
  <2>7. AnswerState'
    BY <2>1 DEF AnswerState
  <2> QED
    BY <2>4, <2>5, <2>6, <2>7
<1> QED
  BY <1>5, <1>6, <1>7, <1>8


(* What begins, and what is set.                                           *)
LEMMA SetHasValue ==
  ASSUME ScriptAssumption, NEW s \in Seq(STRING), IsStatement(s), s[1] = "set" PROVE s[2] \in STRING
<1>1. CASE s \in Native
  <2>1. Len(s) > 1 /\ Len(s) \in Nat
    BY <1>1 DEF ScriptAssumption
  <2> QED
    BY <2>1
<1>2. s # ShowVariables
  BY ShowTokens
<1>3. \A p \in DOMAIN Patterns : s # <<"show", "variables", "like", p>>
  OBVIOUS
<1> QED
  BY <1>1, <1>2, <1>3 DEF IsStatement

LEMMA EntriesSound ==
  ASSUME setting \in STRING, NEW s
  PROVE  /\ Entries(s) \in SUBSET STRING /\ Cardinality(Entries(s)) \in Nat
         /\ \A e \in Entries(s) : e = setting
         /\ s = ShowVariables => Entries(s) # {}
<1>1. Entries(s) = {} \/ Entries(s) = {setting}
  BY DEF Entries
<1>2. Cardinality(Entries(s)) \in Nat
  <2>1. Cardinality({}) = 0 /\ Cardinality({setting}) = 1 /\ 0 \in Nat /\ 1 \in Nat
    BY FS_EmptySet, FS_Singleton
  <2> QED
    BY <1>1, <2>1, Zenon
<1>3. ASSUME s = ShowVariables PROVE Entries(s) = {setting}
  <2>1. Len(s) = 2 /\ IsPrefix(ShowVariables, s)
    BY <1>3, ShowTokens DEF IsPrefix
  <2>2. Len(s) # 4
    BY <2>1
  <2> QED
    BY <2>1, <2>2 DEF Entries, IsShow
<1> QED
  BY <1>1, <1>2, <1>3

LEMMA AnswersTyped ==
  ASSUME ScriptAssumption, setting \in STRING, NEW s, NEW answer \in Answers(s) PROVE answer \in Seq(Nat)
<1>1. Cardinality(Entries(s)) \in Nat
  BY EntriesSound
<1>2. <<Cardinality(Entries(s))>> \in Seq(Nat) /\ <<>> \in Seq(Nat)
  BY <1>1
<1>3. Batches \subseteq Seq(Nat)
  BY DEF ScriptAssumption
<1>4. \/ answer = <<Cardinality(Entries(s))>> \/ answer = <<>> \/ answer \in Batches
  BY DEF Answers
<1> QED
  BY <1>2, <1>3, <1>4

LEMMA AnswerStays ==
  ASSUME NEW begun \in Seq(Texts), NEW s \in Texts, NEW i \in 1..Len(begun), NEW m, NEW past, NEW answer,
         AnswerSound(m, answer, begun, past, i)
  PROVE  AnswerSound(m, answer, Append(begun, s), past, i)
<1>1. Append(begun, s)[i] = begun[i] /\ Len(begun) \in Nat
  BY Appended
<1>2. SubSeq(Append(begun, s), 1, i - 1) = SubSeq(begun, 1, i - 1)
  <2>1. i \in 1..(Len(begun) + 1)
    BY <1>1
  <2> QED
    BY <2>1, FirstOnes
<1> QED
  BY <1>1, <1>2, Zenon DEF AnswerSound

LEMMA BeginKeeps == ASSUME ScriptAssumption, ScriptInv, Begin PROVE ScriptInv'
<1> USE DEF ScriptInv
<1> DEFINE s == Head(todo)
           begun == log.begun
           past == log.past
           words == Given(input.text)
<1>1. input.end = "running" /\ Proper(words) /\ begun \o todo = Pieces(words) /\ running = Nothing /\ todo # <<>>
      /\ Len(printed) = Len(begun)
  BY DEF Begin, RunState
<1>2. /\ begun \in Seq(Texts) /\ past \in Seq(Texts) /\ todo \in Seq(Texts) /\ setting \in STRING
      /\ log \in [begun : Seq(Texts), past : Seq(Texts)] /\ printed \in Seq(Answered)
  BY DEF ScriptTyped
<1>3. /\ s \in Texts /\ Tail(todo) \in Seq(Texts) /\ Append(begun, s) \o Tail(todo) = Pieces(words)
  BY <1>1, <1>2, OneMore
<1>4. /\ Append(begun, s) \in Seq(Texts) /\ Len(Append(begun, s)) = Len(begun) + 1 /\ Len(begun) \in Nat
      /\ Append(begun, s)[Len(begun) + 1] = s
  BY <1>2, <1>3, Appended
<1>5. PICK answer \in Answers(s) :
        running' = [statement |-> s, entries |-> Entries(s), answer |-> answer,
                    batch |-> 1, count |-> 0, kept |-> <<>>]
  BY DEF Begin
<1>6. /\ setting' = IF s[1] = "set" THEN s[2] ELSE setting
      /\ log' = [log EXCEPT !.begun = Append(@, s)] /\ todo' = Tail(todo)
      /\ UNCHANGED <<mode, input, reader, parser, printed>>
  BY DEF Begin
<1>7. log'.begun = Append(begun, s) /\ log'.past = past /\ log' \in [begun : Seq(Texts), past : Seq(Texts)]
  BY <1>2, <1>4, <1>6
<1>8. IsStatement(s)
  <2>1. /\ 1 \in 1..Len(todo) /\ (begun \o todo)[Len(begun) + 1] = todo[1]
        /\ DOMAIN (begun \o todo) = 1..(Len(begun) + Len(todo)) /\ Len(todo) \in Nat /\ todo[1] = s
    <3>1. Len(todo) \in Nat /\ Len(todo) # 0 /\ todo[1] = s
      BY <1>1, <1>2
    <3> QED
      BY <1>2, <3>1, Joined
  <2>2. Len(begun) + 1 \in DOMAIN Pieces(words) /\ Pieces(words)[Len(begun) + 1] = s
    BY <1>1, <1>4, <2>1
  <2> HIDE DEF words, begun, s
  <2> QED
    BY <1>1, <2>2 DEF Proper
<1>9. setting' \in STRING
  <2>1. s[1] = "set" => s[2] \in STRING
    BY <1>3, <1>8, SetHasValue DEF Texts
  <2> QED
    BY <1>2, <1>6, <2>1
<1>10. running' \in Fetching /\ running' # Nothing
  <2>1. Entries(s) \in SUBSET STRING /\ answer \in Seq(Nat) /\ <<>> \in Seq(Nat) /\ s \in Seq(STRING)
    BY <1>2, <1>3, EntriesSound, AnswersTyped DEF Texts
  <2>2. running' \in Fetching
    BY <1>5, <2>1 DEF Fetching
  <2> QED
    BY <2>2 DEF ScriptAssumption
<1> HIDE DEF s, begun, past, words
<1>11. ScriptTyped'
  BY <1>3, <1>6, <1>7, <1>9, <1>10 DEF ScriptTyped
<1>12. ReadState'
  BY <1>6 DEF ReadState
<1>13. RunState'
  <2>1. IsPrefix(Append(begun, s), Pieces(words))
    BY <1>3, <1>4, JoinedPrefix
  <2>2. Len(printed) <= Len(Append(begun, s)) /\ Len(printed) \in Nat
    BY <1>1, <1>4
  <2> QED
    BY <1>1, <1>3, <1>6, <1>7, <1>10, <2>1, <2>2 DEF RunState, words
<1>14. IsSetBy(log'.past \o log'.begun, setting')
  <2>1. past \o begun \in Seq(Texts) /\ IsSetBy(past \o begun, setting)
    BY <1>2, Joined DEF AnswerState, past, begun
  <2>2. past \o Append(begun, s) = Append(past \o begun, s)
    BY <1>2, <1>3, JoinedNext
  <2>3. IsSetBy(Append(past \o begun, s), setting')
    BY <1>3, <1>6, <2>1, SetNext DEF Texts
  <2> QED
    BY <1>7, <2>2, <2>3
<1>15. \A i \in DOMAIN printed' : AnswerSound(mode', printed'[i], log'.begun, log'.past, i)
  <2> SUFFICES ASSUME NEW i \in DOMAIN printed PROVE AnswerSound(mode, printed[i], Append(begun, s), past, i)
    BY <1>6, <1>7
  <2>1. i \in 1..Len(begun)
    BY <1>1, <1>2
  <2>2. AnswerSound(mode, printed[i], begun, past, i)
    BY DEF AnswerState, begun, past
  <2> QED
    BY <1>2, <1>3, <2>1, <2>2, AnswerStays
<1>16. RunSound(mode', running', log'.begun, log'.past)
  <2> DEFINE r == [statement |-> s, entries |-> Entries(s), answer |-> answer,
                   batch |-> 1, count |-> 0, kept |-> <<>>]
             now == Append(begun, s)
  <2>1. /\ r.statement = s /\ r.entries = Entries(s) /\ r.answer = answer /\ r.batch = 1
        /\ r.count = 0 /\ r.kept = <<>>
    OBVIOUS
  <2> HIDE DEF r
  <2>2. now \in Seq(Texts) /\ Len(now) = Len(begun) + 1 /\ now[Len(now)] = s
    BY <1>4
  <2>3. SubSeq(now, 1, Len(now) - 1) = begun
    <3>1. Len(begun) + 1 \in 1..(Len(begun) + 1)
      BY <1>4
    <3>2. SubSeq(now, 1, (Len(begun) + 1) - 1) = begun
      BY <1>2, <1>3, <3>1, FirstOnes
    <3> QED
      BY <2>2, <3>2
  <2> HIDE DEF now
  <2>4. answer \in Seq(Nat)
    BY <1>2, AnswersTyped
  <2>5. r.batch \in 1..(Len(r.answer) + 1) /\ r.batch - 1 = 0
    BY <2>1, <2>4
  <2>6. IsFiniteSet(RowsIn(r.answer, r.batch - 1)) /\ r.count = Cardinality(RowsIn(r.answer, r.batch - 1))
    BY <2>1, <2>5, RowsFirst
  <2>7. r.kept = UpTo(Preview(mode, r.count))
    <3>1. Preview(mode, 0) = 0
      BY DEF Preview, Least, ScriptAssumption
    <3>2. UpTo(0) = <<>>
      BY DEF UpTo
    <3> QED
      BY <2>1, <3>1, <3>2
  <2>8. \A e \in r.entries : IsSetBy(past \o SubSeq(now, 1, Len(now) - 1), e)
    <3>1. IsSetBy(past \o begun, setting)
      BY DEF AnswerState, past, begun
    <3>2. \A e \in Entries(s) : e = setting
      BY <1>2, EntriesSound
    <3> QED
      BY <2>1, <2>3, <3>1, <3>2
  <2>9. now[Len(now)] = ShowVariables => r.entries # {}
    BY <1>2, <2>1, <2>2, EntriesSound
  <2>10. RunSound(mode, r, now, past)
    BY <2>1, <2>2, <2>5, <2>6, <2>7, <2>8, <2>9 DEF RunSound
  <2>11. running' = r
    BY <1>5 DEF r
  <2> QED
    BY <1>6, <1>7, <2>10, <2>11 DEF now
<1>17. AnswerState'
  <2>1. Len(printed') + 1 = Len(log'.begun)
    BY <1>1, <1>4, <1>6, <1>7
  <2> QED
    BY <1>14, <1>15, <1>16, <2>1 DEF AnswerState
<1> QED
  BY <1>11, <1>12, <1>13, <1>17


(* What the preview keeps of the rows, and what it says of the others.     *)
LEMMA PreviewOn ==
  ASSUME ScriptAssumption, mode \in {"repl", "script"}, NEW count \in Nat, NEW n \in Nat
  PROVE  /\ UpTo(Preview(mode, count)) \o [i \in 1..RowsToDisplay(count, n) |-> count + i] =
              UpTo(Preview(mode, count + n))
         /\ Notice(count) <=> Preview(mode, count) < count
<1> DEFINE a == Preview(mode, count)
           k == RowsToDisplay(count, n)
<1>1. MaxPreview \in Nat
  BY DEF ScriptAssumption
<1>2. /\ a \in Nat /\ k \in Nat /\ a + k = Preview(mode, count + n) /\ (k > 0 => a = count)
      /\ Notice(count) <=> a < count
  <2>1. CASE mode = "script"
    <3>1. a = count /\ k = n /\ Preview(mode, count + n) = count + n /\ ~Notice(count)
      BY <2>1 DEF Preview, RowsToDisplay, Notice
    <3> QED
      BY <3>1
  <2>2. CASE mode = "repl"
    <3>1. /\ a = IF count <= MaxPreview THEN count ELSE MaxPreview
          /\ k = IF count < MaxPreview
                 THEN IF MaxPreview - count <= n THEN MaxPreview - count ELSE n ELSE 0
          /\ Preview(mode, count + n) = IF count + n <= MaxPreview THEN count + n ELSE MaxPreview
          /\ Notice(count) <=> count > MaxPreview
      BY <2>2 DEF Preview, RowsToDisplay, Notice, Least
    <3> HIDE DEF a, k
    <3> QED
      BY <1>1, <3>1
  <2> QED
    BY <2>1, <2>2
<1> HIDE DEF a, k
<1>3. UpTo(a) \o [i \in 1..k |-> count + i] = UpTo(a + k)
  BY <1>2, CountedOn
<1> QED
  BY <1>2, <1>3 DEF a, k

LEMMA Fetched ==
  ASSUME NEW r \in Fetching, NEW x, NEW y, NEW z
  PROVE  [r EXCEPT !.batch = x, !.count = y, !.kept = z] =
           [statement |-> r.statement, entries |-> r.entries, answer |-> r.answer,
            batch |-> x, count |-> y, kept |-> z]
<1> DEFINE one == [r EXCEPT !.batch = x]
           two == [one EXCEPT !.count = y]
<1>1. r = [statement |-> r.statement, entries |-> r.entries, answer |-> r.answer,
           batch |-> r.batch, count |-> r.count, kept |-> r.kept]
  BY DEF Fetching
<1>2. one = [statement |-> r.statement, entries |-> r.entries, answer |-> r.answer,
             batch |-> x, count |-> r.count, kept |-> r.kept]
  BY <1>1
<1> HIDE DEF one
<1>3. two = [statement |-> r.statement, entries |-> r.entries, answer |-> r.answer,
             batch |-> x, count |-> y, kept |-> r.kept]
  BY <1>2
<1> HIDE DEF two
<1>4. [two EXCEPT !.kept = z] = [statement |-> r.statement, entries |-> r.entries, answer |-> r.answer,
                                 batch |-> x, count |-> y, kept |-> z]
  BY <1>3
<1> QED
  BY <1>4 DEF one, two

LEMMA FetchKeeps == ASSUME ScriptAssumption, ScriptInv, Fetch PROVE ScriptInv'
<1> USE DEF ScriptInv
<1> DEFINE b == running.batch
           n == running.answer[b]
           more == [i \in 1..RowsToDisplay(running.count, n) |-> running.count + i]
           new == [running EXCEPT !.batch = b + 1, !.count = running.count + n,
                                  !.kept = running.kept \o more]
<1>1. /\ running # Nothing /\ b <= Len(running.answer) /\ running' = new
      /\ UNCHANGED <<mode, input, reader, parser, todo, setting, printed, log>>
  BY DEF Fetch
<1>2. running \in Fetching /\ mode \in {"repl", "script"}
  BY <1>1 DEF ScriptTyped
<1>3. /\ running.answer \in Seq(Nat) /\ running.batch \in Nat /\ running.count \in Nat
      /\ running.kept \in Seq(Nat) /\ running.statement \in Seq(STRING) /\ running.entries \in SUBSET STRING
  BY <1>2 DEF Fetching
<1>4. RunSound(mode, running, log.begun, log.past)
  BY <1>1 DEF AnswerState
<1>5. b \in 1..Len(running.answer) /\ n \in Nat
  BY <1>1, <1>3, <1>4 DEF RunSound
<1>6. /\ new.statement = running.statement /\ new.entries = running.entries /\ new.answer = running.answer
      /\ new.batch = b + 1 /\ new.count = running.count + n /\ new.kept = running.kept \o more
      /\ new = [statement |-> running.statement, entries |-> running.entries, answer |-> running.answer,
                batch |-> b + 1, count |-> running.count + n, kept |-> running.kept \o more]
  <2> DEFINE x == b + 1
             y == running.count + n
             z == running.kept \o more
  <2>1. new = [running EXCEPT !.batch = x, !.count = y, !.kept = z]
    OBVIOUS
  <2> HIDE DEF x, y, z, new
  <2>2. new = [statement |-> running.statement, entries |-> running.entries, answer |-> running.answer,
               batch |-> x, count |-> y, kept |-> z]
    BY <1>2, <2>1, Fetched
  <2>3. /\ new.statement = running.statement /\ new.entries = running.entries /\ new.answer = running.answer
        /\ new.batch = x /\ new.count = y /\ new.kept = z
    BY <2>2
  <2> QED
    BY <2>2, <2>3 DEF x, y, z
<1>7. running.kept \o more = UpTo(Preview(mode, running.count + n))
  BY <1>2, <1>3, <1>4, <1>5, PreviewOn DEF RunSound
<1>8. /\ IsFiniteSet(RowsIn(running.answer, b))
      /\ Cardinality(RowsIn(running.answer, b)) = running.count + n
  <2>1. IsFiniteSet(RowsIn(running.answer, b - 1)) /\ running.count = Cardinality(RowsIn(running.answer, b - 1))
    BY <1>4 DEF RunSound
  <2> QED
    BY <1>3, <1>5, <2>1, RowsNext
<1>9. (b + 1) - 1 = b /\ b + 1 \in 1..(Len(running.answer) + 1) /\ b + 1 \in Nat /\ running.count + n \in Nat
  <2>1. Len(running.answer) \in Nat /\ b \in Nat /\ b <= Len(running.answer)
    BY <1>1, <1>3
  <2>2. running.count + n \in Nat
    <3> HIDE DEF n
    <3> QED
      BY <1>3, <1>5
  <2> QED
    BY <2>1, <2>2
<1>10. running.kept \o more \in Seq(Nat)
  <2>1. Preview(mode, running.count + n) \in Nat
    BY <1>2, <1>9 DEF Preview, Least, ScriptAssumption
  <2>2. \A m \in Nat : UpTo(m) \in Seq(Nat)
    BY DEF UpTo
  <2> QED
    BY <1>7, <2>1, <2>2
<1> HIDE DEF new, more, n
<1>11. new \in Fetching
  BY <1>3, <1>6, <1>9, <1>10 DEF Fetching
<1>12. RunSound(mode, new, log.begun, log.past)
  BY <1>4, <1>6, <1>7, <1>8, <1>9 DEF RunSound
<1>13. new # Nothing
  BY <1>11 DEF ScriptAssumption
<1>14. ScriptTyped'
  BY <1>1, <1>11 DEF ScriptTyped
<1>15. ReadState' /\ RunState'
  BY <1>1, <1>13 DEF ReadState, RunState
<1>16. AnswerState'
  BY <1>1, <1>12, <1>13 DEF AnswerState
<1> QED
  BY <1>14, <1>15, <1>16

LEMMA PrintKeeps == ASSUME ScriptAssumption, ScriptInv, PrintAnswer PROVE ScriptInv'
<1> USE DEF ScriptInv
<1> DEFINE a == [statement |-> running.statement, entries |-> running.entries, answer |-> running.answer,
                 rows |-> running.kept, count |-> running.count, notice |-> Notice(running.count)]
           n == Len(printed)
<1>1. /\ running # Nothing /\ running.batch > Len(running.answer)
      /\ printed' = Append(printed, a) /\ running' = Nothing
      /\ input' = [input EXCEPT !.end = IF todo = <<>> THEN "ok" ELSE "running"]
      /\ UNCHANGED <<mode, reader, parser, todo, setting, log>>
  BY DEF PrintAnswer
<1>2. /\ running \in Fetching /\ mode \in {"repl", "script"} /\ printed \in Seq(Answered)
      /\ log.begun \in Seq(Texts) /\ todo \in Seq(Texts)
  BY <1>1 DEF ScriptTyped
<1>3. /\ running.answer \in Seq(Nat) /\ running.batch \in Nat /\ running.count \in Nat
      /\ running.kept \in Seq(Nat) /\ running.statement \in Texts /\ running.entries \in SUBSET STRING
  BY <1>2 DEF Fetching, Texts
<1>4. RunSound(mode, running, log.begun, log.past) /\ n + 1 = Len(log.begun)
  BY <1>1 DEF AnswerState
<1>5. /\ input.end = "running" /\ Proper(Given(input.text)) /\ input.typed # 0
      /\ log.begun \o todo = Pieces(Given(input.text))
  BY <1>1 DEF RunState, ReadState
<1>6. input'.text = input.text /\ input'.typed = input.typed /\ input'.end = IF todo = <<>> THEN "ok" ELSE "running"
  BY <1>1 DEF ScriptTyped
<1>7. /\ a.statement = running.statement /\ a.entries = running.entries /\ a.answer = running.answer
      /\ a.rows = running.kept /\ a.count = running.count /\ a.notice = Notice(running.count)
  OBVIOUS
<1>8. a \in Answered
  BY <1>3 DEF Answered, Notice
<1> HIDE DEF a
<1>9. /\ printed' \in Seq(Answered) /\ Len(printed') = n + 1 /\ printed'[n + 1] = a /\ n \in Nat
      /\ \A i \in 1..n : printed'[i] = printed[i]
      /\ DOMAIN printed' = 1..(n + 1) /\ DOMAIN printed = 1..n
  BY <1>1, <1>2, <1>8, Appended
<1>10. AnswerSound(mode, a, log.begun, log.past, n + 1)
  <2>1. running.batch - 1 = Len(running.answer)
    BY <1>1, <1>3, <1>4 DEF RunSound
  <2>2. running.count = Cardinality(RowsIn(running.answer, Len(running.answer)))
    BY <1>4, <2>1 DEF RunSound
  <2>3. running.kept = UpTo(Preview(mode, running.count))
    BY <1>4 DEF RunSound
  <2>4. Notice(running.count) <=> Preview(mode, running.count) < running.count
    BY <1>2, <1>3, PreviewOn
  <2>5. /\ running.statement = log.begun[n + 1]
        /\ \A e \in running.entries : IsSetBy(log.past \o SubSeq(log.begun, 1, (n + 1) - 1), e)
        /\ log.begun[n + 1] = ShowVariables => running.entries # {}
    BY <1>4, Zenon DEF RunSound
  <2> QED
    BY <1>7, <2>2, <2>3, <2>4, <2>5 DEF AnswerSound
<1>11. ScriptTyped'
  <2>1. input' \in [text : Texts, end : Ends, typed : Nat]
    BY <1>1 DEF ScriptTyped, Ends
  <2> QED
    BY <1>1, <1>9, <2>1 DEF ScriptTyped
<1>12. ReadState'
  BY <1>5, <1>6 DEF ReadState
<1>13. RunState'
  <2>1. ASSUME todo = <<>> PROVE log.begun = Pieces(Given(input.text))
    BY <1>2, <1>5, <2>1, ConcatEmptySeq
  <2>2. log.begun # <<>> => IsPrefix(log.begun, Pieces(Given(input.text)))
    BY DEF RunState
  <2>3. Len(printed') = Len(log.begun) /\ Len(printed') <= Len(log.begun)
    BY <1>4, <1>9
  <2> QED
    BY <1>1, <1>5, <1>6, <2>1, <2>2, <2>3 DEF RunState
<1>14. AnswerState'
  <2>1. IsSetBy(log'.past \o log'.begun, setting')
    BY <1>1 DEF AnswerState
  <2>2. ASSUME NEW i \in DOMAIN printed' PROVE AnswerSound(mode, printed'[i], log.begun, log.past, i)
    <3>1. i \in 1..n \/ i = n + 1
      BY <1>9
    <3>2. CASE i \in 1..n
      BY <1>9, <3>2 DEF AnswerState
    <3>3. CASE i = n + 1
      BY <1>9, <1>10, <3>3
    <3> QED
      BY <3>1, <3>2, <3>3
  <2> QED
    BY <1>1, <2>1, <2>2 DEF AnswerState
<1> QED
  BY <1>11, <1>12, <1>13, <1>14

LEMMA AbandonKeeps ==
  ASSUME ScriptAssumption, ScriptInv, NEW end \in {"failed", "dropped"}, Abandon(end) PROVE ScriptInv'
<1> USE DEF ScriptInv
<1>1. /\ input.end = "running" /\ input' = [input EXCEPT !.end = end]
      /\ todo' = <<>> /\ running' = Nothing
      /\ UNCHANGED <<mode, reader, parser, setting, printed, log>>
  BY DEF Abandon
<1>2. input'.text = input.text /\ input'.end = end /\ input'.typed = input.typed /\ input.typed # 0
  BY <1>1 DEF ScriptTyped, ReadState
<1>3. ScriptTyped'
  <2>1. input' \in [text : Texts, end : Ends, typed : Nat]
    BY <1>1 DEF ScriptTyped, Ends
  <2>2. <<>> \in Seq(Texts)
    BY EmptySeq
  <2> QED
    BY <1>1, <2>1, <2>2 DEF ScriptTyped
<1>4. ReadState'
  BY <1>2 DEF ReadState
<1>5. RunState'
  BY <1>1, <1>2 DEF RunState
<1>6. AnswerState'
  BY <1>1 DEF AnswerState
<1> QED
  BY <1>3, <1>4, <1>5, <1>6

(* RunAsWritten, for any texts and lines typed, statements, patterns,      *)
(* answers and preview: what runs is what the text has between its         *)
(* delimiters, in order and if all of it parses, and what is printed is    *)
(* each answer, counted whatever the preview drops (exec_sql and           *)
(* exec_statement of server/repl.rs, parse_statements of sql/parser.rs).   *)
THEOREM RunAsWrittenAlways ==
  ASSUME ScriptAssumption
  PROVE  ScriptSpec => []RunAsWritten
<1>1. ScriptInit => ScriptInv
  BY InvFirst
<1>2. ScriptInv /\ [ScriptNext]_scriptVars => ScriptInv'
  <2> SUFFICES ASSUME ScriptInv, [ScriptNext]_scriptVars PROVE ScriptInv'
    OBVIOUS
  <2>1. CASE \/ \E text \in Scripts : RunScript(text)
             \/ \E line \in Lines : TypeLine(line)
             \/ Leave("dropped") \/ Leave("left")
    BY <2>1, PromptKeeps
  <2>2. CASE ReadWord \/ AllRead
    BY <2>2, ReadKeeps
  <2>3. CASE Delimiter \/ ParseStatement \/ Expected \/ Parsed
    BY <2>3, ParseKeeps
  <2>4. CASE Begin
    BY <2>4, BeginKeeps
  <2>5. CASE Fetch
    BY <2>5, FetchKeeps
  <2>6. CASE PrintAnswer
    BY <2>6, PrintKeeps
  <2>7. CASE Abandon("failed") \/ Abandon("dropped")
    BY <2>7, AbandonKeeps
  <2>8. CASE UNCHANGED scriptVars
    BY <2>8 DEF scriptVars, ScriptInv, ScriptTyped, ReadState, RunState, AnswerState
  <2> QED
    BY <2>1, <2>2, <2>3, <2>4, <2>5, <2>6, <2>7, <2>8 DEF ScriptNext
<1>3. ScriptInv => RunAsWritten
  BY InvImplies
<1> QED
  BY <1>1, <1>2, <1>3, PTL DEF ScriptSpec


=============================================================================
