------------------------------ MODULE HiveScan ------------------------------
(***************************************************************************)
(* Scans of Hive tables and of their $data_files and $partitions tables    *)
(* (catalog/table_format/hive/hive_table_provider.rs,                      *)
(* hive_metadata_table_provider.rs, hive_file_utils.rs) by concurrent      *)
(* queries of one process, which share the registry of object stores       *)
(* (storage/src/storage.rs) and the cache of file listings.                *)
(*                                                                         *)
(* A scan makes sure that the store of its table is registered, chooses    *)
(* the locations to list, lists them concurrently, page by page or from    *)
(* the cache, and gives each file the values of its partition.  Meanwhile  *)
(* other engines add and remove files, and cached listings expire.         *)
(***************************************************************************)
EXTENDS Naturals, FiniteSets

CONSTANTS
  Queries, Tables,
  Units,        \* what is listed: partitions, and tables' own locations
  Partitioned,  \* the tables with partition columns
  RootOf,       \* [Tables -> Units]: the table's own location
  PartitionsOf, \* [Tables -> SUBSET Units]: its partitions in the metastore
  CatalogOf,    \* [Tables -> the catalog of the table]
  Blocks,       \* [catalog -> [scheme -> its storage block, or None]]
  Paths, Stores, \* a store is [scheme, authority]
  UnitLocation,  \* [Units -> Location] as the metastore says
  TableStore,    \* [Tables -> Stores] of the table's own location
  Files,        \* file names below a location
  Hidden,       \* those that are empty, or under a name in _ or .
  Pages,        \* a listing arrives in pages 1..Pages
  PageOf,       \* [Files -> 1..Pages]
  Concurrency,  \* meta_fetch_concurrency
  Start,        \* [Places -> the files there at first]
  Volatile,     \* <<place, file>>: the files others may write and remove
  None

Location == [store : Stores, path : Paths]

(* Where a scan may look: where the metastore says, and where it does.     *)
ListedIn(t, u) == [store |-> TableStore[t], path |-> UnitLocation[u].path]
Places == {UnitLocation[u] : u \in Units}
          \cup UNION {{ListedIn(t, u) : u \in PartitionsOf[t] \cup {RootOf[t]}} : t \in Tables}

ASSUME ShapeAssumption ==
  /\ Partitioned \subseteq Tables
  /\ RootOf \in [Tables -> Units]
  /\ PartitionsOf \in [Tables -> SUBSET Units]
  /\ \A t \in Tables : PartitionsOf[t] # {} => t \in Partitioned
  /\ UnitLocation \in [Units -> Location]
  /\ TableStore \in [Tables -> Stores]
ASSUME StartAssumption == Start \in [Places -> SUBSET Files] /\ Volatile \subseteq Places \X Files
ASSUME PagesAssumption == Pages \in Nat \ {0} /\ PageOf \in [Files -> 1..Pages]
ASSUME ConcurrencyAssumption == Concurrency \in Nat \ {0}
ASSUME HiddenAssumption == Hidden \subseteq Files

VARIABLES
  content,  \* [Places -> the files there now]
  ever,     \* [Places -> the visible files there have ever been]
  always,   \* [Places -> the visible files that were there all along]
  registry, \* the stores registered: [key -> the block it was built with]
  cache,    \* the listings cached: [key -> files]
  scan      \* [Queries -> how far its scan is]

vars == <<content, ever, always, registry, cache, scan>>
outside == <<content, ever, always>>

CatalogBlocks == UNION {{Blocks[c][scheme] : scheme \in DOMAIN Blocks[c]} : c \in DOMAIN Blocks}

(* build_operator: the block of the catalog for the scheme; without one,   *)
(* None, the backend's own credential chain.                               *)
BlockOf(t) == Blocks[CatalogOf[t]][TableStore[t].scheme]

(* The root URL of a store.  Mutant: without its scheme.                   *)
AuthorityOnly(store) == [authority |-> store.authority]
RegistryKey(store) == store

(* The cached listing is found by the path relative to the store's root.   *)
CacheKey(location) == location.path

(* task: [unit -> "waiting", "listing" page by page, "listed", "done" or   *)
(* "failed"]; got: the files listed; out: the scan's files with the        *)
(* partition whose values they were given.                                 *)
TaskState == {"waiting", "listing", "listed", "done", "failed"}
ASSUME NoneAssumption == None \notin TaskState
Scan == [phase : {"idle", "register", "list", "done", "failed"},
         table : Tables \cup {None},
         task : [Units -> TaskState \cup {None}],
         page : [Units -> 1..(Pages + 1)],
         got : [Units -> SUBSET Files],
         out : SUBSET [file : Files, of : Units, values : Units]]

Partial(D, R) == UNION {[d -> R] : d \in SUBSET D}

TypeOK ==
  /\ content \in [Places -> SUBSET Files]
  /\ registry \in Partial({RegistryKey(s) : s \in Stores}, CatalogBlocks)
  /\ cache \in Partial(Paths, SUBSET (Files \ Hidden))
  /\ scan \in [Queries -> Scan]

Idle == [phase |-> "idle", table |-> None, task |-> [u \in Units |-> None],
         page |-> [u \in Units |-> 1], got |-> [u \in Units |-> {}], out |-> {}]

Visible(location) == content[location] \ Hidden

Init ==
  /\ content = Start
  /\ ever = [l \in Places |-> Visible(l)]
  /\ always = [l \in Places |-> Visible(l)]
  /\ registry = <<>>
  /\ cache = <<>>
  /\ scan = [q \in Queries |-> Idle]

At(q, phase) == scan[q].phase = phase
Selected(q) == {u \in Units : scan[q].task[u] # None}
With(f, key, value) == [k \in DOMAIN f \cup {key} |-> IF k = key THEN value ELSE f[k]]

-----------------------------------------------------------------------------

(* Other engines write and remove files.                                   *)
Change(l, f) ==
  /\ content' = [content EXCEPT ![l] = IF f \in @ THEN @ \ {f} ELSE @ \cup {f}]
  /\ ever' = [ever EXCEPT ![l] = @ \cup (content'[l] \ Hidden)]
  /\ always' = [always EXCEPT ![l] = @ \cap content'[l]]
  /\ UNCHANGED <<registry, cache, scan>>

(* An entry is an hour old, or evicted.                                    *)
Forget(key) ==
  /\ cache' = [k \in DOMAIN cache \ {key} |-> cache[k]]
  /\ UNCHANGED <<outside, registry, scan>>

(* What a scan of the table's rows lists, if the metastore named the       *)
(* partitions parts: those on which the partition filters are true, any of *)
(* them here, or the table's own location.                                 *)
RowsFrom(t, parts) == IF t \in Partitioned THEN SUBSET parts ELSE {{RootOf[t]}}

(* $data_files lists every partition, or the table if there are none.  A   *)
(* limit cuts what was listed and is left out.                             *)
DataFilesFrom(t, parts) == {IF parts = {} THEN {RootOf[t]} ELSE parts}

(* $partitions lists the first of them, up to a limit.                     *)
PartitionsFrom(t, parts) == SUBSET parts

Choices(t) ==
  UNION {RowsFrom(t, parts) \cup DataFilesFrom(t, parts) \cup PartitionsFrom(t, parts)
         : parts \in SUBSET PartitionsOf[t]}

(* try_register_storage_info_session: whether the table's store is there.  *)
Begin(q, t, keep) ==
  /\ At(q, "idle")
  /\ scan' = [scan EXCEPT ![q] = [@ EXCEPT
       !.phase = IF RegistryKey(TableStore[t]) \in DOMAIN registry
                 THEN "list" ELSE "register",
       !.table = t,
       !.task = [u \in Units |-> IF u \in keep THEN "waiting" ELSE None]]]
  /\ UNCHANGED <<outside, registry, cache>>

(* It is built from the storage block of the table's catalog, and put over *)
(* what another query has registered since.                                *)
Register(q) ==
  LET t == scan[q].table IN
  /\ At(q, "register")
  /\ registry' = With(registry, RegistryKey(TableStore[t]), BlockOf(t))
  /\ scan' = [scan EXCEPT ![q].phase = "list"]
  /\ UNCHANGED <<outside, cache>>

(* The scheme is not supported, or the block lacks a setting.              *)
RegisterFails(q) ==
  /\ At(q, "register")
  /\ scan' = [scan EXCEPT ![q].phase = "failed"]
  /\ UNCHANGED <<outside, registry, cache>>

Busy(q) == {u \in Units : scan[q].task[u] \in {"listing", "listed"}}

(* list_files: from the cache, or from the store of the table, at the path *)
(* of the partition.                                                       *)
StartTask(q, u) ==
  LET key == CacheKey(UnitLocation[u]) IN
  /\ At(q, "list")
  /\ scan[q].task[u] = "waiting"
  /\ Cardinality(Busy(q)) < Concurrency
  /\ scan' = IF key \in DOMAIN cache
             THEN [scan EXCEPT ![q].task[u] = "done", ![q].got[u] = cache[key]]
             ELSE [scan EXCEPT ![q].task[u] = "listing"]
  /\ UNCHANGED <<outside, registry, cache>>

Listed(q, u) == ListedIn(scan[q].table, u)

(* One page more, without the hidden files.                                *)
ReadPage(q, u) ==
  LET page == scan[q].page[u] IN
  /\ scan[q].task[u] = "listing"
  /\ scan' = [scan EXCEPT
       ![q].got[u] = @ \cup {f \in Visible(Listed(q, u)) : PageOf[f] = page},
       ![q].page[u] = page + 1,
       ![q].task[u] = IF page = Pages THEN "listed" ELSE "listing"]
  /\ UNCHANGED <<outside, registry, cache>>

(* A page fails: the listing is an error and is not cached.                *)
FailTaskWith(q, u, kept) ==
  /\ scan[q].task[u] = "listing"
  /\ scan' = [scan EXCEPT ![q].task[u] = "failed"]
  /\ cache' = kept
  /\ UNCHANGED <<outside, registry>>

(* Mutant: the pages before it are.                                        *)
FailTaskCached(q, u) ==
  FailTaskWith(q, u, With(cache, CacheKey(UnitLocation[u]), scan[q].got[u]))
FailTask(q, u) == FailTaskWith(q, u, cache)

(* The whole listing is cached.                                            *)
PutListing(q, u) ==
  /\ scan[q].task[u] = "listed"
  /\ cache' = With(cache, CacheKey(UnitLocation[u]), scan[q].got[u])
  /\ scan' = [scan EXCEPT ![q].task[u] = "done"]
  /\ UNCHANGED <<outside, registry>>

(* Each task gives its files the values of its own partition, so the order *)
(* in which buffer_unordered hands them over does not matter.  Mutant: the *)
(* files are zipped with the partitions in some order.                     *)
AnyValues(q, u) == CHOOSE v \in Selected(q) : TRUE
ValuesOf(q, u) == u

(* $partitions does zip: its listings are buffered, which keeps them in    *)
(* the order of the partitions, one for each.                              *)
RowsOf(q, u) == {[file |-> f, of |-> u, values |-> ValuesOf(q, u)] : f \in scan[q].got[u]}

FinishWhen(q, ended) ==
  /\ At(q, "list")
  /\ \A u \in Selected(q) : scan[q].task[u] \in ended
  /\ scan' = [scan EXCEPT ![q] =
       IF \E u \in Selected(q) : @.task[u] = "failed"
       THEN [@ EXCEPT !.phase = "failed"]
       ELSE [@ EXCEPT !.phase = "done", !.out = UNION {RowsOf(q, u) : u \in Selected(q)}]]
  /\ UNCHANGED <<outside, registry, cache>>

(* Mutant: a failed listing is waited for.                                 *)
FinishAllDone(q) == FinishWhen(q, {"done"})
Finish(q) == FinishWhen(q, {"done", "failed"})

-----------------------------------------------------------------------------

Step(q) ==
  \/ Register(q) \/ RegisterFails(q)
  \/ \E u \in Units :
       \/ StartTask(q, u)
       \/ ReadPage(q, u)
       \/ FailTask(q, u)
       \/ PutListing(q, u)
  \/ Finish(q)

Next ==
  \/ \E v \in Volatile : Change(v[1], v[2])
  \/ \E key \in DOMAIN cache : Forget(key)
  \/ \E q \in Queries, t \in Tables : \E keep \in Choices(t) : Begin(q, t, keep)
  \/ \E q \in Queries : Step(q)

Spec == Init /\ [][Next]_vars

(* Listings are polled, and the stores answer each page or fail.           *)
FairSpec == Spec /\ \A q \in Queries : WF_vars(Step(q))

=============================================================================
