--------------------------- MODULE BenchmarkScans ---------------------------
(***************************************************************************)
(* Queries of generated tables (BenchmarkTableProvider and                 *)
(* BenchmarkPartitionStream, catalog/benchmark/mod.rs).  Every partition   *)
(* of a scan has a worker in the pool of blocking threads, which makes     *)
(* batches and sends them through a channel that holds one; the query's    *)
(* own task receives them (exec_statement, server/repl.rs).  All scans of  *)
(* a query start together; the last one is the probed side of a join and   *)
(* is read when the others have been read to their end.                    *)
(***************************************************************************)
EXTENDS Integers, Sequences, FiniteSets, FiniteSetsExt, Functions

CONSTANTS
  Queries,
  Tables, Rows,   \* [Tables -> Nat]: rows of the source of each
  Whole,          \* tables of TPC-H made whole whatever partition is asked for
  Faulty,         \* tables whose generator may fail, or panic
  Plans,          \* queries that can be asked: [scans, limit, shown]
  Partitions,     \* target_partitions
  BatchSize,
  Threads,        \* of the pool
  None

(* BenchmarkKind::partitions.                                              *)
PartitionCount(t) == IF t \in Whole THEN 1 ELSE Max({Partitions, 1})

ASSUME TablesAssumption ==
  Rows \in [Tables -> Nat] /\ Whole \subseteq Tables /\ Faulty \subseteq Tables
ASSUME SizesAssumption == Partitions \in Nat /\ BatchSize \in Nat \ {0}
ASSUME PlansAssumption ==
  \A p \in Plans :
    /\ p.scans \in Seq(Tables) /\ p.scans # <<>> /\ p.shown \in Nat
    /\ p.limit # None => p.limit \in Nat /\ Len(p.scans) = 1

(* All workers that wait for others to be read find a thread, and so does  *)
(* one more: the pool has 512, and does not know who waits for whom.       *)
Waiting(p) ==
  IF Len(p.scans) = 1 THEN 0 ELSE PartitionCount(p.scans[Len(p.scans)])
ASSUME ThreadsAssumption ==
  /\ Threads \in Nat
  /\ Cardinality(Queries) * Max({Waiting(p) : p \in Plans} \cup {0}) < Threads

VARIABLES
  query,  \* [phase, plan, total, shown]: rows answered and kept for display
  stream  \* of each query, by scan and partition: the worker's phase, rows
          \*   it has not made, the batch it sends, the channel's, all received

scanning == <<query, stream>>

NoStreams == [k \in {} |-> None]

Init ==
  /\ query = [q \in Queries |-> [phase |-> "idle", plan |-> None, total |-> 0, shown |-> 0]]
  /\ stream = [q \in Queries |-> NoStreams]

-----------------------------------------------------------------------------

(* The rows of a partition: the first ones have one more.  Tables of TPC-H *)
(* divide themselves.  Mutant: the remainder is left out.                  *)
EvenRange(t, p) ==
  LET size == Rows[t] \div PartitionCount(t) IN [k \in 1..size |-> p * size + k]
RowRange(t, p) ==
  LET partitions == PartitionCount(t)
      size == Rows[t] \div partitions
      extra == Rows[t] % partitions
      start == 1 + p * size + Min({p, extra})
      count == size + (IF p < extra THEN 1 ELSE 0) IN
  [k \in 1..count |-> start + k - 1]
GeneratedRange(t, p) == IF t \in Whole THEN [k \in 1..Rows[t] |-> k] ELSE RowRange(t, p)

Running(q) == query[q].phase = "running"
Keys(plan) ==
  UNION {{i} \X (0..(PartitionCount(plan.scans[i]) - 1)) : i \in DOMAIN plan.scans}
TableOf(q, k) == query[q].plan.scans[k[1]]

(* scan, and execute of every partition: LIMIT 0 generates nothing.        *)
Execute(q, plan) ==
  /\ query[q].phase = "idle"
  /\ query' = [query EXCEPT ![q] =
       [@ EXCEPT !.phase = IF plan.limit = 0 THEN "ended" ELSE "running", !.plan = plan]]
  /\ stream' = [stream EXCEPT ![q] = IF plan.limit = 0 THEN NoStreams ELSE
       [k \in Keys(plan) |-> [worker |-> "queued", rest |-> GeneratedRange(plan.scans[k[1]], k[2]),
                              sending |-> <<>>, channel |-> <<>>, received |-> <<>>]]]

-----------------------------------------------------------------------------

(* Workers.  tx.is_closed() once the query no longer runs.                 *)
Is(q, k, phase) == stream[q][k].worker = phase
Busy == {w \in UNION {{q} \X DOMAIN stream[q] : q \in Queries} :
           stream[w[1]][w[2]].worker \in {"started", "making", "sending"}}

StartWorker(q, k) ==
  /\ Is(q, k, "queued") /\ Cardinality(Busy) < Threads
  /\ stream' = [stream EXCEPT ![q][k].worker = "started"]
  /\ UNCHANGED query

(* The generator is made unless nobody listens any more.                   *)
Initialize(q, k) ==
  /\ Is(q, k, "started")
  /\ stream' = [stream EXCEPT ![q][k].worker = IF Running(q) THEN "making" ELSE "done"]
  /\ UNCHANGED query

Generate(q, k) ==
  LET rest == stream[q][k].rest
      batch == SubSeq(rest, 1, Min({BatchSize, Len(rest)})) IN
  /\ Is(q, k, "making")
  /\ stream' = [stream EXCEPT ![q][k] =
       IF ~Running(q) \/ rest = <<>> THEN [@ EXCEPT !.worker = "done"]
       ELSE [@ EXCEPT !.worker = "sending", !.sending = batch,
                      !.rest = SubSeq(rest, Len(batch) + 1, Len(rest))]]
  /\ UNCHANGED query

(* catch_generation_panic: an error or a panic of the generator is the     *)
(* worker's result.  Mutant: it ends the worker like the last batch.       *)
Quiet == "done"
Failure == "failed"
GeneratorFails(q, k) ==
  /\ TableOf(q, k) \in Faulty
  /\ Is(q, k, "started") \/ Is(q, k, "making")
  /\ Running(q)
  /\ stream' = [stream EXCEPT ![q][k].worker = Failure]
  /\ UNCHANGED query

(* blocking_send                                                           *)
Send(q, k) ==
  /\ Is(q, k, "sending")
  /\ \/ /\ ~Running(q)
        /\ stream' = [stream EXCEPT ![q][k] = [@ EXCEPT !.worker = "done", !.sending = <<>>]]
     \/ /\ Running(q) /\ stream[q][k].channel = <<>>
        /\ stream' = [stream EXCEPT ![q][k] =
             [@ EXCEPT !.worker = "making", !.channel = stream[q][k].sending, !.sending = <<>>]]
  /\ UNCHANGED query

-----------------------------------------------------------------------------

(* The query's task.  A stream has ended when its worker has and nothing   *)
(* is left in the channel.                                                 *)
Ended(q, k) == Is(q, k, "done") /\ stream[q][k].channel = <<>>
IsLast(q, k) == k[1] = Len(query[q].plan.scans)
Readable(q, k) ==
  Running(q) /\ (IsLast(q, k) => \A j \in DOMAIN stream[q] : IsLast(q, j) \/ Ended(q, j))

(* Streams that are dropped close their channels; workers without a thread *)
(* never get one.  Only what was answered is kept.                         *)
Dropped(streams, phase) ==
  [k \in DOMAIN streams |->
     [worker |-> IF streams[k].worker = "queued" THEN "aborted" ELSE streams[k].worker,
      rest |-> <<>>, sending |-> <<>>, channel |-> <<>>,
      received |-> IF phase = "ended" THEN streams[k].received ELSE <<>>]]

(* Every batch is counted; what is shown are the first rows, not more than *)
(* INTERACTIVE_MAX_ROWS.  With a limit, the query ends with its last row.  *)
RowsToDisplay(q, n) == Min({n, Max({0, query[q].plan.shown - query[q].total})})
Receive(q, k) ==
  /\ k \in DOMAIN stream[q] /\ Readable(q, k) /\ stream[q][k].channel # <<>>
  /\ LET batch == stream[q][k].channel
         limit == query[q].plan.limit
         n == IF ~IsLast(q, k) THEN 0
              ELSE IF limit = None THEN Len(batch) ELSE Min({Len(batch), limit - query[q].total})
         last == limit # None /\ query[q].total + n = limit
         taken == [stream[q] EXCEPT ![k].channel = <<>>, ![k].received = @ \o batch] IN
    /\ query' = [query EXCEPT ![q] = [query[q] EXCEPT
         !.phase = IF last THEN "ended" ELSE @, !.total = @ + n, !.shown = @ + RowsToDisplay(q, n)]]
    /\ stream' = [stream EXCEPT ![q] = IF last THEN Dropped(taken, "ended") ELSE taken]

Leave(q, phase) ==
  /\ query' = [query EXCEPT ![q] = IF phase = "ended" THEN [@ EXCEPT !.phase = phase] ELSE
       [phase |-> phase, plan |-> @.plan, total |-> 0, shown |-> 0]]
  /\ stream' = [stream EXCEPT ![q] = Dropped(@, phase)]

(* An error of a worker is the stream's as soon as it is polled, perhaps   *)
(* before the batch that was sent ahead of it.                             *)
Fail(q) ==
  /\ \E k \in DOMAIN stream[q] : Readable(q, k) /\ Is(q, k, "failed")
  /\ Leave(q, "failed")

Finish(q) ==
  /\ Running(q) /\ \A k \in DOMAIN stream[q] : Ended(q, k)
  /\ Leave(q, "ended")

(* Ctrl-C, or a client that goes away.                                     *)
Cancel(q) == Running(q) /\ Leave(q, "dropped")

WorkerStep(q, k) ==
  /\ k \in DOMAIN stream[q]
  /\ \/ StartWorker(q, k) \/ Initialize(q, k) \/ Generate(q, k) \/ GeneratorFails(q, k) \/ Send(q, k)
Poll(q) == (\E k \in DOMAIN stream[q] : Receive(q, k)) \/ Fail(q) \/ Finish(q)

-----------------------------------------------------------------------------

(* A query that ends has been answered: of each table every row came once, *)
(* although workers divide it, may be dropped or fail at any batch and end *)
(* in any order, and each worker's rows came in order; a limit stops it    *)
(* with just so many rows.  All rows are counted and the first are shown   *)
(* ("Consume every batch for an accurate total").                          *)
AnswersWhole ==
  \A q \in Queries : query[q].phase = "ended" =>
    LET plan == query[q].plan
        rows == Rows[plan.scans[Len(plan.scans)]]
        received(k) == stream[q][k].received
        of(i) == {k \in DOMAIN stream[q] : k[1] = i} IN
    /\ query[q].total = IF plan.limit = None THEN rows ELSE Min({plan.limit, rows})
    /\ query[q].shown = Min({query[q].total, plan.shown})
    /\ \A k \in DOMAIN stream[q] : \A a, b \in DOMAIN received(k) : a < b => received(k)[a] < received(k)[b]
    /\ \A k, l \in DOMAIN stream[q] :
         k[1] = l[1] /\ k # l => Range(received(k)) \cap Range(received(l)) = {}
    /\ plan.limit = None => \A i \in DOMAIN plan.scans :
         UNION {Range(received(k)) : k \in of(i)} = 1..Rows[plan.scans[i]]

=============================================================================
