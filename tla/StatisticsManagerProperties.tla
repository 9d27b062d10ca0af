-------------------- MODULE StatisticsManagerProperties --------------------
(***************************************************************************)
(* What the statistics cache must guarantee, and the abstract promise it   *)
(* implements.                                                             *)
(***************************************************************************)
EXTENDS StatisticsManager

Answered(q) == At(q, "done")

(* load never returns statistics laid out for another schema, or of        *)
(* another table, than the caller planned with, although queries that saw  *)
(* the table before and after an ALTER invalidate and insert the same key  *)
(* in any order: a plan would index the column statistics of one schema    *)
(* with the columns of another.                                            *)
AnswerFitsSchema ==
  \A q \in Queries : Answered(q) =>
    /\ query[q].answer.table = query[q].table
    /\ query[q].answer.schema = query[q].schema

(* Statistics with gaps, left by requests to the metastore that failed,    *)
(* are not served to a later query: whatever an answer that is not         *)
(* cacheable holds was read after its own query described the table.       *)
FailureNotInherited ==
  \A q \in Queries : Answered(q) /\ ~query[q].answer.cacheable =>
    LET a == query[q].answer IN
    /\ a.rows = query[q].asked
    /\ \A b \in DOMAIN a.columns : a.columns[b] # None => a.columns[b] >= query[q].asked

(* Every cached entry is complete, is filed under the table and the schema *)
(* it was loaded for, and holds nothing the metastore never said.          *)
CacheSound ==
  \A t \in Tables : cache[t] # None =>
    LET s == cache[t].statistics IN
    /\ s.schema = cache[t].table_schema
    /\ s.cacheable
    /\ s.rows <= metastore[t].revision
    /\ \A b \in 1..Batches[t] : s.columns[b] # None /\ s.columns[b] <= metastore[t].revision

(* Every call of load returns: failed requests leave statistics unknown,   *)
(* they never block the query, and no query waits for another.             *)
EveryCallReturns ==
  \A q \in Queries :
    query[q].phase \in {"lookup", "invalidate", "load"}
      ~> query[q].phase \in {"done", "idle"}

(* The abstract call: everything between describe and return is "asked".   *)
Question(r) == [phase |-> "asked", table |-> r.table, schema |-> r.schema, asked |-> r.asked]

CallOf(r) ==
  CASE r.phase = "idle" -> Idle
    [] r.phase = "done" -> [phase |-> "answered", question |-> Question(r), answer |-> r.answer]
    [] OTHER -> Question(r)

Calls == [q \in Queries |-> CallOf(query[q])]

Promise == INSTANCE StatisticsPromise WITH metastore <- metastore, call <- Calls

(* The manager keeps its promise to every query, so that the cache cannot  *)
(* be told from asking the metastore except by its age.                    *)
KeepsPromise == Promise!Spec

=============================================================================
