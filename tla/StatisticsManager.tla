------------------------- MODULE StatisticsManager -------------------------
(***************************************************************************)
(* The process-wide cache of table statistics                              *)
(* (catalog/statistics/manager.rs), its Glue loader (statistics/glue.rs)   *)
(* and the planning queries that share them.  Nothing is held between the  *)
(* cache's operations, so each of them, and each remote answer, is a step. *)
(***************************************************************************)
EXTENDS Naturals, FiniteSets

CONSTANTS
  Queries,        \* queries planning concurrently in one server process
  Tables,         \* resolved table references, the keys of the cache
  Schemas,        \* the schemas a table may have
  None,           \* no cache entry, no answer, no statistics of a column
  Batches,        \* [Tables -> Nat] requests a load makes; 0 if partitioned
  MaxConcurrent,  \* MAX_CONCURRENT_REQUESTS
  MaxRevision     \* bound: how often a table is altered or analyzed

ASSUME NoneAssumption     == None \notin Tables \cup Schemas \cup Nat
ASSUME BatchesAssumption  == Batches \in [Tables -> Nat]
ASSUME BoundsAssumption   == MaxConcurrent \in Nat \ {0} /\ MaxRevision \in Nat

VARIABLES
  metastore,      \* [Tables -> schema and revision of the table now]
  cache,          \* [Tables -> CachedStatistics or None]
  query           \* [Queries -> the state of the query's call of load]

vars == <<metastore, cache, query>>

Revision == 0..MaxRevision

(* Statistics of a table: the revision the row count comes from and, for   *)
(* each batch of columns, the revision its statistics come from.           *)
Statistics(t) ==
  [table : {t}, schema : Schemas, rows : Revision,
   columns : [1..Batches[t] -> Revision \cup {None}], cacheable : BOOLEAN]

CachedStatistics(t) == [table_schema : Schemas, statistics : Statistics(t)]

(* "lookup": cache.get is next; "invalidate": the entry found is for       *)
(* another schema; "load": requests are in flight, those in waiting have   *)
(* not been answered; "done": load has returned.                           *)
QueryState(t) ==
  [phase : {"lookup", "invalidate", "load", "done"}, table : {t},
   schema : Schemas, asked : Revision, waiting : SUBSET (1..Batches[t]),
   answer : Statistics(t)]

Idle == [phase |-> "idle"]

TypeOK ==
  /\ metastore \in [Tables -> [schema : Schemas, revision : Revision]]
  /\ cache \in [Tables -> {None} \cup UNION {CachedStatistics(t) : t \in Tables}]
  /\ \A t \in Tables : cache[t] \in CachedStatistics(t) \cup {None}
  /\ query \in [Queries -> {Idle} \cup UNION {QueryState(t) : t \in Tables}]

Init ==
  /\ metastore \in [Tables -> [schema : Schemas, revision : {0}]]
  /\ cache = [t \in Tables |-> None]
  /\ query = [q \in Queries |-> Idle]

At(q, phase) == query[q].phase = phase

(* Others alter, recreate or analyze the table.                            *)
Alter(t, s) ==
  /\ metastore[t].revision < MaxRevision
  /\ metastore' = [metastore EXCEPT
       ![t] = [schema |-> s, revision |-> metastore[t].revision + 1]]
  /\ UNCHANGED <<cache, query>>

(* GlueSchema::table reads the table and calls load with what it read: the *)
(* schema, and the row count among the table's properties.                 *)
Describe(q, t) ==
  /\ At(q, "idle")
  /\ query' = [query EXCEPT ![q] =
       [phase |-> "lookup", table |-> t, schema |-> metastore[t].schema,
        asked |-> metastore[t].revision, waiting |-> 1..Batches[t],
        answer |-> [table |-> t, schema |-> metastore[t].schema,
                    rows |-> metastore[t].revision,
                    columns |-> [b \in 1..Batches[t] |-> None],
                    cacheable |-> TRUE]]]
  /\ UNCHANGED <<metastore, cache>>

-----------------------------------------------------------------------------
(* StatisticsManager::load.                                                *)

Entry(q) == cache[query[q].table]

LookupIf(q, fits) ==
  /\ At(q, "lookup")
  /\ query' = [query EXCEPT ![q] =
       IF Entry(q) = None THEN [@ EXCEPT !.phase = "load"]
       ELSE IF fits
            THEN [@ EXCEPT !.phase = "done", !.answer = Entry(q).statistics]
            ELSE [@ EXCEPT !.phase = "invalidate"]]
  /\ UNCHANGED <<metastore, cache>>

(* Mutant: the entry found is not compared with the schema asked for.      *)
LookupAny(q) == LookupIf(q, TRUE)

(* cache.get: an entry for the schema asked for answers the query, one for *)
(* another schema is to be removed.                                        *)
Lookup(q) == LookupIf(q, Entry(q).table_schema = query[q].schema)

(* cache.invalidate removes whatever the key holds by now.                 *)
Invalidate(q) ==
  /\ At(q, "invalidate")
  /\ cache' = [cache EXCEPT ![query[q].table] = None]
  /\ query' = [query EXCEPT ![q].phase = "load"]
  /\ UNCHANGED metastore

(* The requests in flight: the first MaxConcurrent not answered yet.       *)
InFlight(q) ==
  {b \in query[q].waiting :
     Cardinality({c \in query[q].waiting : c < b}) < MaxConcurrent}

(* The metastore answers the request for batch b, in any order: with the   *)
(* columns' statistics ("ok"), with some of them and errors ("errors"), or *)
(* not at all ("failed").  Only "ok" leaves the load cacheable.            *)
Respond(q, b, outcome) ==
  /\ At(q, "load")
  /\ b \in InFlight(q)
  /\ query' = [query EXCEPT
       ![q].waiting = @ \ {b},
       ![q].answer.columns[b] =
         IF outcome = "failed" THEN None ELSE metastore[query[q].table].revision,
       ![q].answer.cacheable = @ /\ outcome = "ok"]
  /\ UNCHANGED <<metastore, cache>>

InsertIf(q, keep) ==
  /\ At(q, "load")
  /\ cache' = IF keep
              THEN [cache EXCEPT ![query[q].table] =
                     [table_schema |-> query[q].schema,
                      statistics |-> query[q].answer]]
              ELSE cache
  /\ query' = [query EXCEPT ![q].phase = "done"]
  /\ UNCHANGED metastore

AllAnswered(q) == query[q].waiting = {}

(* Mutants: whatever was loaded is kept; the answers that are in first are *)
(* kept; a load with gaps is tried again.                                  *)
InsertAlways(q) == AllAnswered(q) /\ InsertIf(q, TRUE)
InsertEarly(q) == InsertIf(q, query[q].answer.cacheable)
InsertOrRetry(q) ==
  /\ AllAnswered(q)
  /\ \/ query[q].answer.cacheable /\ InsertIf(q, TRUE)
     \/ /\ ~query[q].answer.cacheable
        /\ query' = [query EXCEPT ![q].waiting = 1..Batches[query[q].table],
                                  ![q].answer.cacheable = TRUE]
        /\ UNCHANGED <<metastore, cache>>

(* Every request has been answered: cacheable statistics are filed under   *)
(* the schema asked with, and load returns.                                *)
Insert(q) == AllAnswered(q) /\ InsertIf(q, query[q].answer.cacheable)

-----------------------------------------------------------------------------

(* The planned query ends, or its client goes away while load awaits the   *)
(* metastore and the future is dropped there.                              *)
Finish(q) ==
  /\ At(q, "done") \/ (At(q, "load") /\ query[q].waiting # {})
  /\ query' = [query EXCEPT ![q] = Idle]
  /\ UNCHANGED <<metastore, cache>>

(* The time to live of an entry ends.                                      *)
Expire(t) ==
  /\ cache[t] # None
  /\ cache' = [cache EXCEPT ![t] = None]
  /\ UNCHANGED <<metastore, query>>

Load(q) ==
  \/ Lookup(q)
  \/ Invalidate(q)
  \/ \E b \in query[q].waiting, outcome \in {"ok", "errors", "failed"} :
       At(q, "load") /\ Respond(q, b, outcome)
  \/ Insert(q)

Next ==
  \/ \E t \in Tables, s \in Schemas : Alter(t, s)
  \/ \E t \in Tables : Expire(t)
  \/ \E q \in Queries, t \in Tables : Describe(q, t)
  \/ \E q \in Queries : query[q] # Idle /\ Load(q)
  \/ \E q \in Queries : Finish(q)

Spec == Init /\ [][Next]_vars

(* The runtime polls every task that can run, and a remote call answers or *)
(* fails in the end.  Clients, writers and the cache's clock owe nothing.  *)
FairSpec == Spec /\ \A q \in Queries : WF_vars(query[q] # Idle /\ Load(q))

=============================================================================
