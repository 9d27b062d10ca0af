------------------------- MODULE StatisticsPromise -------------------------
(***************************************************************************)
(* What a planning query is promised, whatever is cached and whoever else  *)
(* is loading: an answer laid out for the schema it asked with, each part  *)
(* of it taken from a revision the table has had.  An answer with gaps,    *)
(* left by failed requests, is never handed on to a later query: nothing   *)
(* in it is older than the question.                                       *)
(***************************************************************************)
EXTENDS Naturals

CONSTANTS Queries, Tables, Schemas, None, Batches, MaxRevision

VARIABLES
  metastore,    \* [Tables -> schema and revision of the table now]
  call          \* [Queries -> the question, and the answer once given]

vars == <<metastore, call>>

Idle == [phase |-> "idle"]

Init ==
  /\ metastore \in [Tables -> [schema : Schemas, revision : {0}]]
  /\ call = [q \in Queries |-> Idle]

Alter(t, s) ==
  /\ metastore[t].revision < MaxRevision
  /\ metastore' = [metastore EXCEPT
       ![t] = [schema |-> s, revision |-> metastore[t].revision + 1]]
  /\ UNCHANGED call

Ask(q, t) ==
  /\ call[q].phase = "idle"
  /\ call' = [call EXCEPT ![q] =
       [phase |-> "asked", table |-> t, schema |-> metastore[t].schema,
        asked |-> metastore[t].revision]]
  /\ UNCHANGED metastore

(* The answers a question may get.                                         *)
Acceptable(question) ==
  LET now    == metastore[question.table].revision
      oldest(c) == IF c THEN 0 ELSE question.asked
  IN UNION {[table : {question.table}, schema : {question.schema},
             rows : oldest(c)..now,
             columns : [1..Batches[question.table] ->
                          oldest(c)..now \cup (IF c THEN {} ELSE {None})],
             cacheable : {c}] : c \in BOOLEAN}

Answer(q) ==
  /\ call[q].phase = "asked"
  /\ \E a \in Acceptable(call[q]) :
       call' = [call EXCEPT ![q] =
         [phase |-> "answered", question |-> call[q], answer |-> a]]
  /\ UNCHANGED metastore

(* The query ends, answered or abandoned by its client.                    *)
End(q) ==
  /\ call[q] # Idle
  /\ call' = [call EXCEPT ![q] = Idle]
  /\ UNCHANGED metastore

Next ==
  \/ \E t \in Tables, s \in Schemas : Alter(t, s)
  \/ \E q \in Queries, t \in Tables : Ask(q, t)
  \/ \E q \in Queries : Answer(q) \/ End(q)

Spec == Init /\ [][Next]_vars

=============================================================================
