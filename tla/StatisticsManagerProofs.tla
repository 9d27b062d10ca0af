---------------------- MODULE StatisticsManagerProofs ----------------------
(***************************************************************************)
(* Proofs about the statistics cache, for any number of queries, tables,   *)
(* batches and revisions.                                                  *)
(***************************************************************************)
EXTENDS StatisticsManagerProperties, TLAPS

(* What holds of a query's state r while the metastore is m: everything it *)
(* has read is older than m, an answer it loads itself is younger than its *)
(* question, and a cacheable answer lacks only what is still awaited.      *)
GoodQuery(r, m) ==
  \/ r = Idle
  \/ /\ r.table \in Tables
     /\ r \in QueryState(r.table)
     /\ r.asked <= m[r.table].revision
     /\ r.answer.schema = r.schema
     /\ r.answer.rows <= m[r.table].revision
     /\ \A b \in 1..Batches[r.table] :
          /\ r.answer.columns[b] # None => r.answer.columns[b] <= m[r.table].revision
          /\ r.answer.cacheable =>
               r.answer.columns[b] # None \/ (r.phase # "done" /\ b \in r.waiting)
     /\ r.phase # "done" \/ ~r.answer.cacheable =>
          /\ r.answer.rows = r.asked
          /\ \A b \in 1..Batches[r.table] :
               r.answer.columns[b] # None => r.answer.columns[b] >= r.asked

(* What holds of the entry e of table t.                                   *)
GoodEntry(e, t, m) ==
  \/ e = None
  \/ /\ e \in CachedStatistics(t)
     /\ e.statistics.schema = e.table_schema
     /\ e.statistics.cacheable
     /\ e.statistics.rows <= m[t].revision
     /\ \A b \in 1..Batches[t] :
          /\ e.statistics.columns[b] # None
          /\ e.statistics.columns[b] <= m[t].revision

Metastore == [Tables -> [schema : Schemas, revision : Revision]]

IInv ==
  /\ metastore \in Metastore
  /\ cache = [t \in Tables |-> cache[t]]
  /\ query = [q \in Queries |-> query[q]]
  /\ \A q \in Queries : GoodQuery(query[q], metastore)
  /\ \A t \in Tables : GoodEntry(cache[t], t, metastore)

LEMMA InitIInv == Init => IInv
  BY BoundsAssumption
     DEF Init, IInv, Metastore, GoodQuery, GoodEntry, Idle, Revision

(* A newer metastore keeps every answer and every entry good.              *)
LEMMA NewerIsGood ==
  ASSUME NEW m \in Metastore, NEW n \in Metastore,
         \A t \in Tables : m[t].revision <= n[t].revision
  PROVE  /\ \A r : GoodQuery(r, m) => GoodQuery(r, n)
         /\ \A t \in Tables : \A e : GoodEntry(e, t, m) => GoodEntry(e, t, n)
<1>1. ASSUME NEW t \in Tables PROVE m[t].revision \in Nat /\ n[t].revision \in Nat
  BY BoundsAssumption DEF Metastore, Revision
<1> DEFINE Read(s, t) ==
             /\ s.rows \in Nat
             /\ \A b \in 1..Batches[t] : s.columns[b] # None => s.columns[b] \in Nat
<1>2. ASSUME NEW t \in Tables, NEW s \in Statistics(t) PROVE Read(s, t)
  BY <1>2, BoundsAssumption, BatchesAssumption DEF Statistics, Revision
<1>3. ASSUME NEW r, GoodQuery(r, m) PROVE GoodQuery(r, n)
  <2>1. CASE r = Idle
    BY <2>1 DEF GoodQuery
  <2>2. CASE r # Idle
    <3>1. /\ r.table \in Tables /\ r \in QueryState(r.table)
          /\ r.asked \in Nat /\ Read(r.answer, r.table)
      BY <1>2, <1>3, <2>2, BoundsAssumption DEF GoodQuery, QueryState, Revision
    <3>2. /\ r.asked <= n[r.table].revision
          /\ r.answer.rows <= n[r.table].revision
          /\ \A b \in 1..Batches[r.table] :
               r.answer.columns[b] # None => r.answer.columns[b] <= n[r.table].revision
      BY <1>1, <1>3, <2>2, <3>1 DEF GoodQuery
    <3> QED
      BY <1>3, <2>2, <3>1, <3>2 DEF GoodQuery
  <2> QED
    BY <2>1, <2>2
<1>4. ASSUME NEW t \in Tables, NEW e, GoodEntry(e, t, m) PROVE GoodEntry(e, t, n)
  <2>1. CASE e = None
    BY <2>1 DEF GoodEntry
  <2>2. CASE e # None
    <3>1. Read(e.statistics, t)
      BY <1>2, <1>4, <2>2 DEF GoodEntry, CachedStatistics
    <3> QED
      BY <1>1, <1>4, <2>2, <3>1 DEF GoodEntry
  <2> QED
    BY <2>1, <2>2
<1> QED
  BY <1>3, <1>4

(* A step that changes the state of one query only preserves the invariant *)
(* if the new state is good.                                               *)
LEMMA OneQuery ==
  ASSUME IInv, UNCHANGED <<metastore, cache>>,
         NEW q \in Queries, NEW r,
         query' = [query EXCEPT ![q] = r],
         GoodQuery(r, metastore)
  PROVE  IInv'
  BY DEF IInv

LEMMA AlterStep ==
  ASSUME IInv, NEW t \in Tables, NEW s \in Schemas, Alter(t, s)
  PROVE  IInv'
<1>1. /\ metastore' \in Metastore
      /\ \A u \in Tables : metastore[u].revision <= metastore'[u].revision
  BY BoundsAssumption DEF IInv, Alter, Metastore, Revision
<1> QED
  BY <1>1, NewerIsGood DEF IInv, Alter

LEMMA DescribeStep ==
  ASSUME IInv, NEW q \in Queries, NEW t \in Tables, Describe(q, t)
  PROVE  IInv'
<1> DEFINE r == [phase |-> "lookup", table |-> t, schema |-> metastore[t].schema,
                 asked |-> metastore[t].revision, waiting |-> 1..Batches[t],
                 answer |-> [table |-> t, schema |-> metastore[t].schema,
                             rows |-> metastore[t].revision,
                             columns |-> [b \in 1..Batches[t] |-> None],
                             cacheable |-> TRUE]]
<1>1. metastore[t].revision \in Revision /\ metastore[t].schema \in Schemas
  BY DEF IInv, Metastore
<1>2. r \in QueryState(t)
  BY <1>1, BatchesAssumption DEF QueryState, Statistics
<1>3. GoodQuery(r, metastore)
  BY <1>1, <1>2, BatchesAssumption, BoundsAssumption DEF GoodQuery, Revision
<1> QED
  BY <1>3, OneQuery DEF Describe

(* Of a query that is not idle, everything the invariant says is known.    *)
LEMMA Busy ==
  ASSUME IInv, NEW q \in Queries, query[q].phase # "idle"
  PROVE  /\ query[q] # Idle
         /\ GoodQuery(query[q], metastore)
         /\ query[q].table \in Tables
         /\ query[q] \in QueryState(query[q].table)
         /\ metastore[query[q].table].revision \in Revision
  BY DEF IInv, GoodQuery, Idle, Metastore

LEMMA LookupStep ==
  ASSUME IInv, NEW q \in Queries, Lookup(q)
  PROVE  IInv'
<1> DEFINE t == query[q].table
           e == cache[t]
<1>1. /\ query[q].phase = "lookup" /\ t \in Tables
      /\ GoodQuery(query[q], metastore) /\ query[q] # Idle
      /\ query[q] \in QueryState(t)
      /\ GoodEntry(e, t, metastore)
  BY Busy DEF Lookup, LookupIf, At, IInv
<1>2. CASE e = None
  <2> DEFINE r == [query[q] EXCEPT !.phase = "load"]
  <2>1. GoodQuery(r, metastore)
    BY <1>1 DEF GoodQuery, QueryState, Statistics
  <2> QED
    BY <1>2, <2>1, OneQuery DEF Lookup, LookupIf, Entry
<1>3. CASE e # None /\ e.table_schema = query[q].schema
  <2> DEFINE r == [query[q] EXCEPT !.phase = "done", !.answer = e.statistics]
  <2>1. GoodQuery(r, metastore)
    BY <1>1, <1>3 DEF GoodQuery, GoodEntry, QueryState, CachedStatistics
  <2> QED
    BY <1>3, <2>1, OneQuery DEF Lookup, LookupIf, Entry
<1>4. CASE e # None /\ e.table_schema # query[q].schema
  <2> DEFINE r == [query[q] EXCEPT !.phase = "invalidate"]
  <2>1. GoodQuery(r, metastore)
    BY <1>1 DEF GoodQuery, QueryState, Statistics
  <2> QED
    BY <1>4, <2>1, OneQuery DEF Lookup, LookupIf, Entry
<1> QED
  BY <1>2, <1>3, <1>4

LEMMA InvalidateStep ==
  ASSUME IInv, NEW q \in Queries, Invalidate(q)
  PROVE  IInv'
<1> DEFINE r == [query[q] EXCEPT !.phase = "load"]
<1>1. /\ query[q].phase = "invalidate"
      /\ GoodQuery(query[q], metastore) /\ query[q] # Idle
      /\ query[q] \in QueryState(query[q].table)
  BY Busy DEF Invalidate, At
<1>2. GoodQuery(r, metastore)
  BY <1>1 DEF GoodQuery, QueryState, Statistics
<1> QED
  BY <1>2 DEF Invalidate, IInv, GoodEntry

LEMMA RespondStep ==
  ASSUME IInv, NEW q \in Queries, NEW b \in query[q].waiting,
         NEW outcome \in {"ok", "errors", "failed"},
         At(q, "load"), Respond(q, b, outcome)
  PROVE  IInv'
<1> DEFINE n == metastore[query[q].table].revision
           c == IF outcome = "failed" THEN None ELSE n
           r == [query[q] EXCEPT !.waiting = @ \ {b},
                                 !.answer.columns[b] = c,
                                 !.answer.cacheable = @ /\ outcome = "ok"]
<1>1. /\ query[q].phase = "load"
      /\ GoodQuery(query[q], metastore) /\ query[q] # Idle
      /\ query[q].table \in Tables
      /\ query[q] \in QueryState(query[q].table)
      /\ n \in Revision
  BY Busy DEF At
<1>2. r \in QueryState(query[q].table)
  <2> DEFINE a == query[q].answer
  <2>1. /\ a \in Statistics(query[q].table)
        /\ [a.columns EXCEPT ![b] = c] \in
             [1..Batches[query[q].table] -> Revision \cup {None}]
    BY <1>1, BatchesAssumption DEF QueryState, Statistics
  <2>2. (a.cacheable /\ outcome = "ok") \in BOOLEAN
    OBVIOUS
  <2>3. [a EXCEPT !.columns[b] = c, !.cacheable = @ /\ outcome = "ok"]
          \in Statistics(query[q].table)
    BY <2>1, <2>2 DEF Statistics
  <2> QED
    BY <1>1, <2>3 DEF QueryState
<1>3. GoodQuery(r, metastore)
  <2> DEFINE t == query[q].table
             a == query[q].answer
             columns == [a.columns EXCEPT ![b] = c]
  <2>1. /\ r.table = t /\ r.asked = query[q].asked /\ r.schema = query[q].schema
        /\ r.phase = "load" /\ r.waiting = query[q].waiting \ {b}
        /\ r.answer.schema = a.schema /\ r.answer.rows = a.rows
        /\ r.answer.columns = columns
        /\ r.answer.cacheable => a.cacheable /\ outcome = "ok"
    BY <1>1 DEF QueryState, Statistics
  <2>2. ASSUME NEW d \in 1..Batches[t]
        PROVE  /\ columns[d] # None => columns[d] <= n /\ columns[d] >= query[q].asked
               /\ r.answer.cacheable => columns[d] # None \/ d \in r.waiting
    <3>1. columns[d] = IF d = b THEN c ELSE a.columns[d]
      BY <1>1 DEF QueryState, Statistics
    <3>2. n \in Nat /\ n # None /\ n >= query[q].asked /\ n <= n
      BY <1>1, NoneAssumption, BoundsAssumption DEF GoodQuery, QueryState, Revision
    <3> QED
      BY <1>1, <2>1, <3>1, <3>2 DEF GoodQuery
  <2> QED
    BY <1>1, <1>2, <2>1, <2>2 DEF GoodQuery
<1>4. query' = [query EXCEPT ![q] = r]
  BY <1>1 DEF Respond, IInv
<1> QED
  BY <1>3, <1>4, OneQuery DEF Respond

LEMMA InsertStep ==
  ASSUME IInv, NEW q \in Queries, Insert(q)
  PROVE  IInv'
<1> DEFINE t == query[q].table
           r == [query[q] EXCEPT !.phase = "done"]
           e == [table_schema |-> query[q].schema, statistics |-> query[q].answer]
<1>1. /\ query[q].phase = "load" /\ query[q].waiting = {}
      /\ GoodQuery(query[q], metastore) /\ query[q] # Idle
      /\ t \in Tables /\ query[q] \in QueryState(t)
  BY Busy DEF Insert, InsertIf, AllAnswered, At
<1>2. GoodQuery(r, metastore)
  BY <1>1 DEF GoodQuery, QueryState, Statistics
<1>3. query[q].answer.cacheable => GoodEntry(e, t, metastore)
  BY <1>1 DEF GoodQuery, GoodEntry, QueryState, CachedStatistics, Statistics
<1> QED
  BY <1>1, <1>2, <1>3 DEF Insert, InsertIf, IInv

LEMMA FinishStep ==
  ASSUME IInv, NEW q \in Queries, Finish(q)
  PROVE  IInv'
  BY OneQuery DEF Finish, GoodQuery

LEMMA ExpireStep ==
  ASSUME IInv, NEW t \in Tables, Expire(t)
  PROVE  IInv'
  BY DEF Expire, IInv, GoodEntry

LEMMA NextIInv == IInv /\ [Next]_vars => IInv'
<1> SUFFICES ASSUME IInv, [Next]_vars PROVE IInv'
  OBVIOUS
<1>1. CASE UNCHANGED vars
  BY <1>1 DEF vars, IInv
<1>2. CASE \E q \in Queries : query[q] # Idle /\ Load(q)
  <2> PICK q \in Queries : Load(q)
    BY <1>2
  <2> QED
    BY LookupStep, InvalidateStep, RespondStep, InsertStep DEF Load
<1> QED
  BY <1>1, <1>2, AlterStep, DescribeStep, FinishStep, ExpireStep DEF Next

-----------------------------------------------------------------------------

LEMMA Invariance == Spec => []IInv
  BY InitIInv, NextIInv, PTL DEF Spec

(* The state is always typed, for every number of queries and batches.     *)
THEOREM Typed == Spec => []TypeOK
<1>1. IInv => TypeOK
  <2> SUFFICES ASSUME IInv PROVE TypeOK
    OBVIOUS
  <2>1. ASSUME NEW t \in Tables PROVE cache[t] \in CachedStatistics(t) \cup {None}
    BY DEF IInv, GoodEntry
  <2>2. ASSUME NEW q \in Queries
        PROVE  query[q] \in {Idle} \cup UNION {QueryState(t) : t \in Tables}
    BY DEF IInv, GoodQuery
  <2> QED
    BY <2>1, <2>2 DEF IInv, TypeOK, Metastore
<1> QED
  BY <1>1, Invariance, PTL

(* load never returns statistics laid out for another schema or table.     *)
THEOREM AnswersFit == Spec => []AnswerFitsSchema
<1>1. IInv => AnswerFitsSchema
  BY DEF IInv, GoodQuery, AnswerFitsSchema, Answered, At, Idle, QueryState, Statistics
<1> QED
  BY <1>1, Invariance, PTL

(* An answer with gaps is always the query's own, never one handed on.     *)
THEOREM FailuresNotInherited == Spec => []FailureNotInherited
<1>1. IInv => FailureNotInherited
  <2> SUFFICES ASSUME IInv, NEW q \in Queries, Answered(q), ~query[q].answer.cacheable
               PROVE  LET a == query[q].answer IN
                      /\ a.rows = query[q].asked
                      /\ \A b \in DOMAIN a.columns :
                           a.columns[b] # None => a.columns[b] >= query[q].asked
    BY DEF FailureNotInherited
  <2>1. GoodQuery(query[q], metastore) /\ query[q] # Idle
    BY Busy DEF Answered, At
  <2>2. DOMAIN query[q].answer.columns = 1..Batches[query[q].table]
    BY <2>1 DEF GoodQuery, QueryState, Statistics
  <2> QED
    BY <2>1, <2>2 DEF GoodQuery
<1> QED
  BY <1>1, Invariance, PTL

(* Every entry is complete and filed under what it was loaded for.         *)
THEOREM CacheIsSound == Spec => []CacheSound
<1>1. IInv => CacheSound
  BY DEF IInv, CacheSound, GoodEntry
<1> QED
  BY <1>1, Invariance, PTL

-----------------------------------------------------------------------------
(* The manager implements the promise: loading is invisible, a hit and the *)
(* end of a load are the answer.                                           *)

LEMMA OneCall ==
  ASSUME NEW q \in Queries, NEW r, IInv, query' = [query EXCEPT ![q] = r]
  PROVE  Calls' = [Calls EXCEPT ![q] = CallOf(r)]
  BY DEF Calls, IInv

(* A step of a query that is still waiting leaves the question as it is.   *)
LEMMA QuestionKept ==
  ASSUME NEW q \in Queries, NEW r, IInv, UNCHANGED metastore,
         query' = [query EXCEPT ![q] = r],
         query[q].phase \in {"lookup", "invalidate", "load"},
         r.phase \in {"lookup", "invalidate", "load"},
         Question(r) = Question(query[q])
  PROVE  UNCHANGED Promise!vars
  BY OneCall DEF Calls, CallOf, Promise!vars

(* A good query may return what it has loaded or found.                    *)
LEMMA AnswerGiven ==
  ASSUME NEW q \in Queries, NEW r, IInv, UNCHANGED metastore,
         query' = [query EXCEPT ![q] = r],
         query[q].phase \in {"lookup", "load"},
         r.phase = "done", r # Idle, GoodQuery(r, metastore),
         Question(r) = Question(query[q])
  PROVE  Promise!Answer(q)
<1> DEFINE t == r.table
           now == metastore[t].revision
           c == r.answer.cacheable
           oldest == IF c THEN 0 ELSE r.asked
<1>1. /\ t \in Tables /\ now \in Revision /\ r.asked \in Nat
      /\ r \in QueryState(t) /\ r.answer \in Statistics(t)
  BY BoundsAssumption DEF GoodQuery, QueryState, Revision, IInv, Metastore
<1>2. r.answer.rows \in oldest..now
  BY <1>1, BoundsAssumption DEF GoodQuery, Statistics, Revision
<1>3. ASSUME NEW b \in 1..Batches[t]
      PROVE  r.answer.columns[b] \in oldest..now \cup (IF c THEN {} ELSE {None})
  <2>1. r.answer.columns[b] \in Revision \cup {None}
    BY <1>1, BatchesAssumption DEF Statistics
  <2> QED
    BY <1>1, <2>1, BoundsAssumption, BatchesAssumption DEF GoodQuery, Revision
<1>4. r.answer.columns \in [1..Batches[t] -> oldest..now \cup (IF c THEN {} ELSE {None})]
  BY <1>1, <1>3 DEF Statistics
<1>5. r.answer \in [table : {t}, schema : {r.schema}, rows : oldest..now,
                    columns : [1..Batches[t] -> oldest..now \cup (IF c THEN {} ELSE {None})],
                    cacheable : {c}]
  BY <1>1, <1>2, <1>4 DEF GoodQuery, Statistics
<1>6. r.answer \in Promise!Acceptable(Question(r))
  BY <1>1, <1>5 DEF Promise!Acceptable, Question, Statistics
<1>7. Calls[q] = Question(r) /\ Calls[q].phase = "asked"
  BY DEF Calls, CallOf, Question
<1>8. CallOf(r) = [phase |-> "answered", question |-> Calls[q], answer |-> r.answer]
  BY <1>7 DEF CallOf
<1>9. Calls' = [Calls EXCEPT ![q] = CallOf(r)]
  BY OneCall
<1>10. r.answer \in Promise!Acceptable(Calls[q])
  BY <1>6, <1>7
<1> QED
  BY <1>7, <1>8, <1>9, <1>10 DEF Promise!Answer

LEMMA QueryStepRefines ==
  ASSUME IInv, NEW q \in Queries, Load(q), query[q] # Idle
  PROVE  Promise!Answer(q) \/ UNCHANGED Promise!vars
<1>1. /\ query[q] \in QueryState(query[q].table) /\ query[q].table \in Tables
      /\ GoodQuery(query[q], metastore)
  BY DEF IInv, GoodQuery
<1>2. CASE Lookup(q)
  <2> DEFINE e == cache[query[q].table]
  <2>1. CASE e = None
    <3> DEFINE r == [query[q] EXCEPT !.phase = "load"]
    <3>1. r.phase = "load" /\ Question(r) = Question(query[q])
      BY <1>1 DEF Question, QueryState
    <3> QED
      BY <1>1, <1>2, <2>1, <3>1, QuestionKept DEF Lookup, LookupIf, Entry, At
  <2>2. CASE e # None /\ e.table_schema = query[q].schema
    <3> DEFINE r == [query[q] EXCEPT !.phase = "done", !.answer = e.statistics]
    <3>1. GoodEntry(e, query[q].table, metastore)
      BY <1>1 DEF IInv
    <3>2. GoodQuery(r, metastore) /\ r # Idle
      BY <1>1, <2>2, <3>1 DEF GoodQuery, GoodEntry, QueryState, CachedStatistics, Idle
    <3> QED
      BY <1>1, <1>2, <2>2, <3>2, AnswerGiven
         DEF Lookup, LookupIf, Entry, At, Question, QueryState
  <2>3. CASE e # None /\ e.table_schema # query[q].schema
    BY <1>1, <1>2, <2>3, QuestionKept
       DEF Lookup, LookupIf, Entry, At, Question, QueryState
  <2> QED
    BY <2>1, <2>2, <2>3
<1>3. CASE Invalidate(q)
  BY <1>1, <1>3, QuestionKept DEF Invalidate, At, Question, QueryState
<1>4. ASSUME NEW b \in query[q].waiting, NEW outcome, At(q, "load"), Respond(q, b, outcome)
      PROVE  UNCHANGED Promise!vars
  <2> DEFINE c == IF outcome = "failed" THEN None ELSE metastore[query[q].table].revision
             r == [query[q] EXCEPT !.waiting = @ \ {b},
                                   !.answer.columns[b] = c,
                                   !.answer.cacheable = @ /\ outcome = "ok"]
  <2>1. r.phase = "load" /\ Question(r) = Question(query[q])
    BY <1>1, <1>4 DEF At, Question, QueryState
  <2>2. query' = [query EXCEPT ![q] = r] /\ UNCHANGED metastore
    BY <1>4 DEF Respond, IInv
  <2> QED
    BY <1>4, <2>1, <2>2, QuestionKept DEF At
<1>5. CASE Insert(q)
  <2> DEFINE r == [query[q] EXCEPT !.phase = "done"]
  <2>1. GoodQuery(r, metastore) /\ r # Idle
    BY <1>1, <1>5 DEF Insert, InsertIf, AllAnswered, At, GoodQuery, QueryState, Idle
  <2> QED
    BY <1>1, <1>5, <2>1, AnswerGiven
       DEF Insert, InsertIf, AllAnswered, At, Question, QueryState
<1> QED
  BY <1>2, <1>3, <1>4, <1>5 DEF Load

LEMMA StepRefines == IInv /\ [Next]_vars => [Promise!Next]_(Promise!vars)
<1> SUFFICES ASSUME IInv, [Next]_vars PROVE [Promise!Next]_(Promise!vars)
  OBVIOUS
<1>1. CASE UNCHANGED vars
  BY <1>1 DEF vars, Promise!vars, Calls
<1>2. ASSUME NEW t \in Tables, NEW s \in Schemas, Alter(t, s) PROVE Promise!Alter(t, s)
  BY <1>2 DEF Alter, Promise!Alter, Calls
<1>3. ASSUME NEW t \in Tables, Expire(t) PROVE UNCHANGED Promise!vars
  BY <1>3 DEF Expire, Promise!vars, Calls
<1>4. ASSUME NEW q \in Queries, NEW t \in Tables, Describe(q, t) PROVE Promise!Ask(q, t)
  <2> DEFINE r == [phase |-> "lookup", table |-> t, schema |-> metastore[t].schema,
                   asked |-> metastore[t].revision, waiting |-> 1..Batches[t],
                   answer |-> [table |-> t, schema |-> metastore[t].schema,
                               rows |-> metastore[t].revision,
                               columns |-> [b \in 1..Batches[t] |-> None],
                               cacheable |-> TRUE]]
  <2>1. query' = [query EXCEPT ![q] = r] /\ UNCHANGED metastore
    BY <1>4 DEF Describe
  <2>2. Calls' = [Calls EXCEPT ![q] = CallOf(r)]
    BY <2>1, OneCall
  <2>3. CallOf(r) = [phase |-> "asked", table |-> t, schema |-> metastore[t].schema,
                     asked |-> metastore[t].revision]
    BY DEF CallOf, Question
  <2>4. Calls[q].phase = "idle"
    BY <1>4 DEF Describe, At, Calls, CallOf, Idle
  <2> QED
    BY <2>1, <2>2, <2>3, <2>4 DEF Promise!Ask
<1>5. ASSUME NEW q \in Queries, query[q] # Idle, Load(q)
      PROVE  Promise!Answer(q) \/ UNCHANGED Promise!vars
  BY <1>5, QueryStepRefines
<1>6. ASSUME NEW q \in Queries, Finish(q) PROVE Promise!End(q)
  BY <1>6, OneCall DEF Finish, At, Promise!End, Promise!Idle, Calls, CallOf, Question, Idle
<1> QED
  BY <1>1, <1>2, <1>3, <1>4, <1>5, <1>6 DEF Next, Promise!Next

(* The cache implements the promise: what a query gets from it is always   *)
(* something the metastore has said, complete or as recent as the question.*)
THEOREM ImplementsPromise == Spec => KeepsPromise
<1>1. Init => Promise!Init
  BY DEF Init, Promise!Init, Calls, CallOf, Idle, Promise!Idle
<1> QED
  BY <1>1, StepRefines, Invariance, PTL DEF Spec, KeepsPromise, Promise!Spec

=============================================================================
