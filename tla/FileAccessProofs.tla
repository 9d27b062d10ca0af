--------------------------- MODULE FileAccessProofs ---------------------------
(***************************************************************************)
(* Which files scans and calls touch, for any number of them: what a scan  *)
(* of a Hive table returns (HiveScan), and what serves and deletes the     *)
(* files of an Iceberg table (IcebergStorage).                             *)
(***************************************************************************)
EXTENDS HiveScanProperties, IcebergStorage, SequenceTheorems, TLAPS

(***************************************************************************)
(* Hive scans, for any number of queries, tables, partitions, pages and    *)
(* files.  The keys of the registry and of the cache say less than what    *)
(* they stand for, so the theorems are about tables that are Apart: no     *)
(* path is below two stores, and partitions are in their table's store.    *)
(***************************************************************************)

UnitsOf(t) == PartitionsOf[t] \cup {RootOf[t]}

Apart ==
  /\ \A u, v \in Units :
       UnitLocation[u].path = UnitLocation[v].path => UnitLocation[u] = UnitLocation[v]
  /\ \A t \in Tables : \A u \in UnitsOf(t) : UnitLocation[u].store = TableStore[t]

(* What there was all along is there, and what is there was there once.    *)
Contents ==
  /\ content \in [Places -> SUBSET Files]
  /\ ever \in [Places -> SUBSET Files]
  /\ always \in [Places -> SUBSET Files]
  /\ \A l \in Places : always[l] \subseteq Visible(l) /\ Visible(l) \subseteq ever[l]

(* A listing that may be returned for u.                                   *)
Right(listed, u) ==
  always[UnitLocation[u]] \subseteq listed /\ listed \subseteq ever[UnitLocation[u]]

Cached ==
  \A u \in Units : CacheKey(UnitLocation[u]) \in DOMAIN cache =>
    Right(cache[CacheKey(UnitLocation[u])], u)

(* A listing that is under way has all there was on the pages before.      *)
Listing(s, u) ==
  /\ s.got[u] \subseteq ever[UnitLocation[u]]
  /\ s.task[u] \in {None, "waiting"} => s.page[u] = 1 /\ s.got[u] = {}
  /\ s.task[u] = "listing" =>
       /\ s.page[u] \in 1..Pages
       /\ \A f \in always[UnitLocation[u]] : PageOf[f] < s.page[u] => f \in s.got[u]
  /\ s.task[u] \in {"listed", "done"} => always[UnitLocation[u]] \subseteq s.got[u]

Answer(s) ==
  /\ \A o \in s.out : o.of \in Units /\ o.values = o.of /\ o.file \in s.got[o.of]
  /\ \A u \in Units : s.task[u] # None =>
       \A f \in s.got[u] : \E o \in s.out : o.of = u /\ o.file = f

Good(s) ==
  /\ s \in Scan
  /\ s.phase = "idle" => \A u \in Units : s.task[u] = None
  /\ s.phase # "idle" => s.table \in Tables
  /\ s.phase # "idle" => \A u \in Units : s.task[u] # None => u \in UnitsOf(s.table)
  /\ s.phase = "done" => Answer(s) /\ \A u \in Units : s.task[u] \in {None, "done"}
  /\ \A u \in Units : Listing(s, u)

IInv ==
  /\ Contents
  /\ Cached
  /\ scan = [q \in Queries |-> scan[q]]
  /\ \A q \in Queries : Good(scan[q])

-----------------------------------------------------------------------------

(* Where the metastore says a unit is, something may be.                   *)
LEMMA InPlaces == ASSUME NEW u \in Units PROVE UnitLocation[u] \in Places
BY DEF Places

(* A partition of a table that is Apart is listed where it is.             *)
LEMMA ListedInPlace ==
  ASSUME Apart, NEW t \in Tables, NEW u \in UnitsOf(t)
  PROVE  u \in Units /\ ListedIn(t, u) = UnitLocation[u]
<1>1. u \in Units
  BY ShapeAssumption DEF UnitsOf
<1>2. UnitLocation[u] \in Location /\ UnitLocation[u].store = TableStore[t]
  BY <1>1, ShapeAssumption DEF Apart
<1> QED
  BY <1>1, <1>2 DEF ListedIn, Location

(* Whatever is chosen to be listed belongs to the table.                   *)
LEMMA ChoicesOfTable ==
  ASSUME NEW t \in Tables, NEW keep \in Choices(t)
  PROVE  keep \subseteq UnitsOf(t)
<1>1. PICK parts \in SUBSET PartitionsOf[t] :
        keep \in RowsFrom(t, parts) \cup DataFilesFrom(t, parts) \cup PartitionsFrom(t, parts)
  BY DEF Choices
<1>2. CASE keep \in RowsFrom(t, parts)
  BY <1>1, <1>2 DEF RowsFrom, UnitsOf
<1>3. CASE keep \in DataFilesFrom(t, parts)
  BY <1>1, <1>3 DEF DataFilesFrom, UnitsOf
<1>4. CASE keep \in PartitionsFrom(t, parts)
  BY <1>1, <1>4 DEF PartitionsFrom, UnitsOf
<1> QED
  BY <1>1, <1>2, <1>3, <1>4

(* The initial states are good.                                            *)
LEMMA InitGood == Init => IInv
<1> SUFFICES ASSUME Init PROVE IInv
  OBVIOUS
<1>1. Contents
  BY StartAssumption DEF Init, Contents, Visible
<1>2. Cached
  BY DEF Init, Cached
<1>3. Idle \in Scan
  BY PagesAssumption DEF Idle, Scan
<1>4. ASSUME NEW u \in Units PROVE Listing(Idle, u)
  BY NoneAssumption DEF Idle, Listing, TaskState
<1>5. Good(Idle)
  BY <1>3, <1>4 DEF Good, Idle
<1>6. scan = [q \in Queries |-> Idle]
  BY DEF Init
<1>7. \A q \in Queries : scan[q] = Idle
  BY <1>6
<1> QED
  BY <1>1, <1>2, <1>5, <1>6, <1>7 DEF IInv

-----------------------------------------------------------------------------

(* Files that come and go make no listing wrong: what has been there is    *)
(* more than before, what was there all along is less.                     *)
LEMMA ChangeGood ==
  ASSUME IInv, NEW v \in Volatile, Change(v[1], v[2])
  PROVE  IInv'
<1> DEFINE l == v[1]
           f == v[2]
<1>1. l \in Places /\ f \in Files
  BY StartAssumption
<1>2. /\ content' \in [Places -> SUBSET Files]
      /\ content'[l] \in SUBSET Files
      /\ \A k \in Places : k # l => content'[k] = content[k]
  BY <1>1 DEF IInv, Contents, Change
<1>3. /\ ever' = [ever EXCEPT ![l] = ever[l] \cup (content'[l] \ Hidden)]
      /\ always' = [always EXCEPT ![l] = always[l] \cap content'[l]]
      /\ UNCHANGED <<cache, scan>>
  BY <1>1 DEF Change, IInv, Contents
<1>4. /\ ever' \in [Places -> SUBSET Files] /\ always' \in [Places -> SUBSET Files]
      /\ \A k \in Places : ever[k] \subseteq ever'[k] /\ always'[k] \subseteq always[k]
      /\ always'[l] = always[l] \cap content'[l] /\ ever'[l] = ever[l] \cup (content'[l] \ Hidden)
      /\ \A k \in Places : k # l => ever'[k] = ever[k] /\ always'[k] = always[k]
  BY <1>1, <1>2, <1>3 DEF IInv, Contents
<1>5. Contents'
  <2>1. ASSUME NEW k \in Places
        PROVE  always'[k] \subseteq content'[k] \ Hidden /\ content'[k] \ Hidden \subseteq ever'[k]
    <3>1. always[k] \subseteq content[k] \ Hidden /\ content[k] \ Hidden \subseteq ever[k]
      BY DEF IInv, Contents, Visible
    <3>2. CASE k = l
      BY <1>4, <3>1, <3>2
    <3>3. CASE k # l
      BY <1>2, <1>4, <3>1, <3>3
    <3> QED
      BY <3>2, <3>3
  <2> QED
    BY <1>2, <1>4, <2>1 DEF Contents, Visible
<1>6. \A u \in Units : /\ ever[UnitLocation[u]] \subseteq ever'[UnitLocation[u]]
                       /\ always'[UnitLocation[u]] \subseteq always[UnitLocation[u]]
  BY <1>4, InPlaces
<1>7. Cached'
  BY <1>3, <1>6 DEF IInv, Cached, Right, CacheKey
<1>8. ASSUME NEW q \in Queries PROVE Good(scan[q])'
  <2>1. Good(scan[q]) /\ scan'[q] = scan[q]
    BY <1>3 DEF IInv
  <2>2. \A u \in Units : Listing(scan[q], u)'
    BY <1>3, <1>6, <2>1 DEF Good, Listing
  <2> QED
    BY <1>3, <2>1, <2>2 DEF Good, Answer
<1> QED
  BY <1>3, <1>5, <1>7, <1>8 DEF IInv

(* A step that changes one scan and leaves it good, and the cache right.   *)
LEMMA OneScan ==
  ASSUME IInv, NEW q \in Queries, NEW s, scan' = [scan EXCEPT ![q] = s],
         Good(s), UNCHANGED outside, Cached'
  PROVE  IInv'
<1>1. Contents'
  BY DEF IInv, Contents, Visible, outside
<1>2. scan' = [r \in Queries |-> IF r = q THEN s ELSE scan[r]]
  BY DEF IInv
<1>3. ASSUME NEW r \in Queries PROVE Good(scan[r])'
  <2>1. Good(scan'[r])
    BY <1>2 DEF IInv
  <2> QED
    BY <2>1 DEF Good, Listing, Answer, outside
<1> QED
  BY <1>1, <1>2, <1>3 DEF IInv

(* The cache is as it was.                                                 *)
LEMMA SameCache == ASSUME IInv, UNCHANGED outside, cache' = cache PROVE Cached'
BY DEF IInv, Cached, Right, outside, CacheKey

(* A scan begins with parts of its own table.                              *)
LEMMA BeginGood ==
  ASSUME IInv, NEW q \in Queries, NEW t \in Tables, NEW keep \in Choices(t), Begin(q, t, keep)
  PROVE  IInv'
<1> DEFINE phase == IF RegistryKey(TableStore[t]) \in DOMAIN registry THEN "list" ELSE "register"
           task == [u \in Units |-> IF u \in keep THEN "waiting" ELSE None]
           s == [scan[q] EXCEPT !.phase = phase, !.table = t, !.task = task]
<1>1. Good(scan[q]) /\ scan[q].phase = "idle"
  BY DEF Begin, At, IInv
<1>2. scan' = [scan EXCEPT ![q] = s] /\ UNCHANGED <<outside, cache>>
  BY DEF Begin, IInv
<1>3. task \in [Units -> TaskState \cup {None}]
  BY DEF TaskState
<1>4. s \in Scan
  BY <1>1, <1>3 DEF Good, Scan
<1>5. /\ s.phase \in {"list", "register"} /\ s.table = t /\ s.task = task
      /\ s.got = scan[q].got /\ s.page = scan[q].page
  BY <1>1 DEF Good, Scan
<1>6. \A u \in Units : s.task[u] \in {None, "waiting"} /\ (s.task[u] # None => u \in UnitsOf(t))
  BY <1>5, ChoicesOfTable
<1>7. ASSUME NEW u \in Units PROVE Listing(s, u)
  <2>1. s.page[u] = 1 /\ s.got[u] = {}
    BY <1>1, <1>5 DEF Good, Listing
  <2>2. s.task[u] \notin {"listing", "listed", "done"}
    BY <1>6, NoneAssumption DEF TaskState
  <2> QED
    BY <2>1, <2>2 DEF Listing
<1> HIDE DEF s
<1>8. Good(s)
  BY <1>4, <1>5, <1>6, <1>7 DEF Good
<1> QED
  BY <1>2, <1>8, SameCache, OneScan

(* The phase moves on, or the scan fails: no listing is touched.           *)
LEMMA PhaseGood ==
  ASSUME IInv, NEW q \in Queries, NEW phase \in {"list", "failed"},
         scan[q].phase # "idle", scan' = [scan EXCEPT ![q].phase = phase],
         UNCHANGED <<outside, cache>>
  PROVE  IInv'
<1> DEFINE s == [scan[q] EXCEPT !.phase = phase]
<1>1. Good(scan[q])
  BY DEF IInv
<1>2. scan' = [scan EXCEPT ![q] = s]
  BY DEF IInv
<1>3. /\ s \in Scan /\ s.phase = phase /\ s.table = scan[q].table /\ s.task = scan[q].task
      /\ s.got = scan[q].got /\ s.page = scan[q].page
  BY <1>1 DEF Good, Scan
<1> HIDE DEF s
<1>4. Good(s)
  BY <1>1, <1>3 DEF Good, Listing
<1> QED
  BY <1>2, <1>4, SameCache, OneScan

(* A scan with another state of one of its tasks.                          *)
WithTask(s, u, state, page, got) ==
  [s EXCEPT !.task = [s.task EXCEPT ![u] = state],
            !.page = [s.page EXCEPT ![u] = page],
            !.got = [s.got EXCEPT ![u] = got]]

(* A task of a scan that is listing: what is known before its step, and    *)
(* what is enough after it.                                                *)
LEMMA TaskGood ==
  ASSUME IInv, NEW q \in Queries, NEW u \in Units,
         scan[q].task[u] \in {"waiting", "listing", "listed"},
         NEW state \in TaskState, NEW page \in 1..(Pages + 1), NEW got \in SUBSET Files,
         scan' = [scan EXCEPT ![q] = WithTask(scan[q], u, state, page, got)],
         UNCHANGED outside, Cached', state # "waiting",
         got \subseteq ever[UnitLocation[u]],
         state = "listing" =>
           /\ page \in 1..Pages
           /\ \A f \in always[UnitLocation[u]] : PageOf[f] < page => f \in got,
         state \in {"listed", "done"} => always[UnitLocation[u]] \subseteq got
  PROVE  IInv'
<1> DEFINE s == WithTask(scan[q], u, state, page, got)
<1>1. Good(scan[q])
  BY DEF IInv
<1>2. scan[q].task[u] # None /\ scan[q].phase \notin {"idle", "done"}
  BY <1>1, NoneAssumption DEF Good, TaskState
<1>3. /\ scan[q].task \in [Units -> TaskState \cup {None}]
      /\ scan[q].page \in [Units -> 1..(Pages + 1)]
      /\ scan[q].got \in [Units -> SUBSET Files]
  BY <1>1 DEF Good, Scan
<1>4. /\ s \in Scan /\ s.phase = scan[q].phase /\ s.table = scan[q].table
      /\ s.task = [scan[q].task EXCEPT ![u] = state]
      /\ s.page = [scan[q].page EXCEPT ![u] = page]
      /\ s.got = [scan[q].got EXCEPT ![u] = got]
  BY <1>1, <1>3 DEF Good, Scan, WithTask
<1> HIDE DEF s
<1>5. /\ s.task[u] = state /\ s.page[u] = page /\ s.got[u] = got
      /\ \A v \in Units : v # u => /\ s.task[v] = scan[q].task[v]
                                   /\ s.page[v] = scan[q].page[v] /\ s.got[v] = scan[q].got[v]
  BY <1>3, <1>4
<1>6. ASSUME NEW v \in Units PROVE Listing(s, v)
  <2>1. CASE v = u
    BY <1>5, <2>1, NoneAssumption DEF Listing
  <2>2. CASE v # u
    BY <1>1, <1>5, <2>2 DEF Good, Listing
  <2> QED
    BY <2>1, <2>2
<1>7. ASSUME NEW v \in Units, s.task[v] # None PROVE v \in UnitsOf(s.table)
  <2>1. scan[q].task[v] # None
    BY <1>2, <1>5, <1>7
  <2> QED
    BY <1>1, <1>2, <1>4, <2>1 DEF Good
<1>8. Good(s)
  BY <1>1, <1>2, <1>4, <1>6, <1>7 DEF Good
<1>9. scan' = [scan EXCEPT ![q] = s]
  BY DEF s
<1> QED
  BY <1>8, <1>9, OneScan

-----------------------------------------------------------------------------
(* The steps of a listing.                                                 *)

(* What a task has read before a step of it.                               *)
LEMMA Before ==
  ASSUME IInv, NEW q \in Queries, NEW u \in Units
  PROVE  /\ Good(scan[q]) /\ Listing(scan[q], u)
         /\ scan[q].page[u] \in 1..(Pages + 1)
         /\ scan[q].got[u] \in SUBSET Files
         /\ scan[q].task = [scan[q].task EXCEPT ![u] = scan[q].task[u]]
         /\ scan[q].page = [scan[q].page EXCEPT ![u] = scan[q].page[u]]
         /\ scan[q].got = [scan[q].got EXCEPT ![u] = scan[q].got[u]]
         /\ ever[UnitLocation[u]] \in SUBSET Files
         /\ always[UnitLocation[u]] \in SUBSET Files
<1>1. Good(scan[q]) /\ Listing(scan[q], u) /\ scan[q] \in Scan
  BY DEF IInv, Good
<1>2. ever[UnitLocation[u]] \in SUBSET Files /\ always[UnitLocation[u]] \in SUBSET Files
  BY InPlaces DEF IInv, Contents
<1> QED
  BY <1>1, <1>2 DEF Scan

(* A step that changes only the state of the task.                         *)
LEMMA StateOnly ==
  ASSUME IInv, NEW q \in Queries, NEW u \in Units, NEW state,
         scan' = [scan EXCEPT ![q].task[u] = state]
  PROVE  scan' = [scan EXCEPT
           ![q] = WithTask(scan[q], u, state, scan[q].page[u], scan[q].got[u])]
<1> DEFINE task == [scan[q].task EXCEPT ![u] = state]
<1>1. scan' = [scan EXCEPT ![q] = [scan[q] EXCEPT !.task = task]]
  BY DEF IInv
<1> HIDE DEF task
<1>2. ASSUME NEW s \in Scan
      PROVE  [s EXCEPT !.task = task, !.page = s.page, !.got = s.got] = [s EXCEPT !.task = task]
  BY DEF Scan
<1>3. [scan[q] EXCEPT !.task = task] =
        [scan[q] EXCEPT !.task = task, !.page = scan[q].page, !.got = scan[q].got]
  BY <1>2, Before DEF Good
<1>4. /\ scan[q].page = [scan[q].page EXCEPT ![u] = scan[q].page[u]]
      /\ scan[q].got = [scan[q].got EXCEPT ![u] = scan[q].got[u]]
  BY Before
<1> QED
  BY <1>1, <1>3, <1>4, Zenon DEF task, WithTask

(* A listing starts with no page read, or ends with what is cached.        *)
LEMMA StartGood ==
  ASSUME IInv, NEW q \in Queries, NEW u \in Units, StartTask(q, u)
  PROVE  IInv'
<1> DEFINE key == CacheKey(UnitLocation[u])
<1>1. /\ scan[q].task[u] = "waiting" /\ UNCHANGED <<outside, cache>>
      /\ scan[q].page[u] = 1 /\ scan[q].got[u] = {}
  BY Before DEF StartTask, Listing
<1>2. Cached'
  BY <1>1, SameCache
<1>3. CASE key \in DOMAIN cache
  <2>1. Right(cache[key], u)
    BY <1>3 DEF IInv, Cached
  <2>2. scan' = [scan EXCEPT ![q] = WithTask(scan[q], u, "done", scan[q].page[u], cache[key])]
    <3> DEFINE task == [scan[q].task EXCEPT ![u] = "done"]
               got == [scan[q].got EXCEPT ![u] = cache[key]]
    <3>1. scan' = [scan EXCEPT ![q].task[u] = "done", ![q].got[u] = cache[key]]
      BY <1>3 DEF StartTask
    <3>2. scan' = [scan EXCEPT ![q] = [scan[q] EXCEPT !.task = task, !.got = got]]
      BY <3>1 DEF IInv
    <3> HIDE DEF task, got
    <3>3. ASSUME NEW s \in Scan
          PROVE  [s EXCEPT !.task = task, !.page = s.page, !.got = got]
                   = [s EXCEPT !.task = task, !.got = got]
      BY DEF Scan
    <3>4. [scan[q] EXCEPT !.task = task, !.got = got]
            = [scan[q] EXCEPT !.task = task, !.page = scan[q].page, !.got = got]
      BY <3>3, Before DEF Good
    <3>5. scan[q].page = [scan[q].page EXCEPT ![u] = scan[q].page[u]]
      BY Before
    <3> QED
      BY <3>2, <3>4, <3>5, Zenon DEF task, got, WithTask
  <2>3. cache[key] \in SUBSET Files
    BY <2>1, Before DEF Right
  <2> QED
    BY <1>1, <1>2, <2>1, <2>2, <2>3, Before, TaskGood DEF Right, TaskState
<1>4. CASE key \notin DOMAIN cache
  <2>1. scan' = [scan EXCEPT
          ![q] = WithTask(scan[q], u, "listing", scan[q].page[u], scan[q].got[u])]
    BY <1>4, StateOnly DEF StartTask
  <2>2. ASSUME NEW f \in always[UnitLocation[u]] PROVE ~(PageOf[f] < 1)
    <3>1. f \in Files
      BY Before
    <3> QED
      BY <3>1, PagesAssumption
  <2>3. 1 \in 1..Pages
    BY PagesAssumption
  <2>4. /\ \A f \in always[UnitLocation[u]] : PageOf[f] < scan[q].page[u] => f \in scan[q].got[u]
        /\ scan[q].page[u] \in 1..Pages
    BY <1>1, <2>2, <2>3
  <2> QED
    BY <1>1, <1>2, <2>1, <2>4, Before, TaskGood DEF TaskState
<1> QED
  BY <1>3, <1>4

(* A page adds what is visible at the place of the partition.              *)
LEMMA ReadPageGood ==
  ASSUME Apart, IInv, NEW q \in Queries, NEW u \in Units, ReadPage(q, u)
  PROVE  IInv'
<1> DEFINE page == scan[q].page[u]
           new == {f \in Visible(Listed(q, u)) : PageOf[f] = page}
           got == scan[q].got[u] \cup new
           state == IF page = Pages THEN "listed" ELSE "listing"
<1>1. scan[q].task[u] = "listing" /\ UNCHANGED <<outside, cache>>
  BY DEF ReadPage
<1>2. /\ Good(scan[q]) /\ scan[q].got[u] \subseteq ever[UnitLocation[u]]
      /\ page \in 1..Pages
      /\ \A f \in always[UnitLocation[u]] : PageOf[f] < page => f \in scan[q].got[u]
  BY <1>1, Before DEF Listing
<1>3. Listed(q, u) = UnitLocation[u]
  <2>1. scan[q].task[u] # None /\ scan[q].phase # "idle"
    BY <1>1, <1>2, NoneAssumption DEF Good, TaskState
  <2>2. scan[q].table \in Tables /\ u \in UnitsOf(scan[q].table)
    BY <1>2, <2>1 DEF Good
  <2> QED
    BY <2>2, ListedInPlace DEF Listed
<1>4. /\ always[UnitLocation[u]] \subseteq Visible(UnitLocation[u])
      /\ Visible(UnitLocation[u]) \subseteq ever[UnitLocation[u]]
  BY InPlaces DEF IInv, Contents
<1>5. new \subseteq ever[UnitLocation[u]]
      /\ \A f \in always[UnitLocation[u]] : PageOf[f] = page => f \in new
  BY <1>3, <1>4
<1>6. scan' = [scan EXCEPT ![q] = WithTask(scan[q], u, state, page + 1, got)]
  <2>1. scan[q] \in Scan
    BY <1>2 DEF Good
  <2> QED
    BY <2>1 DEF ReadPage, IInv, Scan, WithTask
<1>7. got \subseteq ever[UnitLocation[u]] /\ got \in SUBSET Files
  BY <1>2, <1>5, Before
<1>8. Pages \in Nat /\ \A f \in always[UnitLocation[u]] : PageOf[f] \in 1..Pages
  BY PagesAssumption, Before
<1>9. state = "listing" => page + 1 \in 1..Pages
  BY <1>2, <1>8
<1>10. \A f \in always[UnitLocation[u]] : PageOf[f] < page + 1 => f \in got
  BY <1>2, <1>5, <1>8
<1>11. state = "listed" => always[UnitLocation[u]] \subseteq got
  BY <1>2, <1>8, <1>10
<1>12. page + 1 \in 1..(Pages + 1) /\ state \in {"listed", "listing"}
  BY <1>2, <1>8
<1>13. Cached'
  BY <1>1, SameCache
<1>14. state \in TaskState /\ state # "waiting" /\ (state \in {"listed", "done"} => state = "listed")
  BY <1>12 DEF TaskState
<1>15. scan[q].task[u] \in {"waiting", "listing", "listed"}
  BY <1>1
<1> HIDE DEF page, new, got, state
<1> QED
  BY <1>1, <1>6, <1>7, <1>9, <1>10, <1>11, <1>12, <1>13, <1>14, <1>15, TaskGood

(* A listing that fails is not cached.                                     *)
LEMMA FailTaskGood ==
  ASSUME IInv, NEW q \in Queries, NEW u \in Units, FailTask(q, u)
  PROVE  IInv'
<1>1. /\ scan[q].task[u] = "listing" /\ UNCHANGED <<outside, cache>>
      /\ scan' = [scan EXCEPT
           ![q] = WithTask(scan[q], u, "failed", scan[q].page[u], scan[q].got[u])]
  BY StateOnly DEF FailTask, FailTaskWith
<1>2. Cached'
  BY <1>1, SameCache
<1>3. scan[q].got[u] \subseteq ever[UnitLocation[u]]
  BY Before DEF Listing
<1> QED
  BY <1>1, <1>2, <1>3, Before, TaskGood DEF TaskState

(* A whole listing is cached under the path of its place.                  *)
LEMMA PutListingGood ==
  ASSUME Apart, IInv, NEW q \in Queries, NEW u \in Units, PutListing(q, u)
  PROVE  IInv'
<1> DEFINE key == CacheKey(UnitLocation[u])
<1>1. /\ scan[q].task[u] = "listed" /\ UNCHANGED outside
      /\ cache' = With(cache, key, scan[q].got[u])
      /\ scan' = [scan EXCEPT
           ![q] = WithTask(scan[q], u, "done", scan[q].page[u], scan[q].got[u])]
  BY StateOnly DEF PutListing
<1>2. scan[q] \in Scan /\ Right(scan[q].got[u], u)
  BY <1>1, Before DEF Good, Listing, Right
<1>3. Cached'
  <2> SUFFICES ASSUME NEW v \in Units, CacheKey(UnitLocation[v]) \in DOMAIN cache'
               PROVE  Right(cache[CacheKey(UnitLocation[v])], v)'
    BY DEF Cached, CacheKey
  <2>1. CASE CacheKey(UnitLocation[v]) = key
    <3>1. UnitLocation[v] = UnitLocation[u]
      BY <2>1 DEF Apart, CacheKey
    <3>2. cache'[CacheKey(UnitLocation[v])] = scan[q].got[u]
      BY <1>1, <2>1 DEF With
    <3> QED
      BY <1>1, <1>2, <3>1, <3>2 DEF Right, outside, CacheKey
  <2>2. CASE CacheKey(UnitLocation[v]) # key
    <3>1. /\ CacheKey(UnitLocation[v]) \in DOMAIN cache
          /\ cache'[CacheKey(UnitLocation[v])] = cache[CacheKey(UnitLocation[v])]
      BY <1>1, <2>2 DEF With
    <3> QED
      BY <1>1, <3>1 DEF IInv, Cached, Right, outside, CacheKey
  <2> QED
    BY <2>1, <2>2
<1> QED
  BY <1>1, <1>2, <1>3, Before, TaskGood DEF TaskState, Right

(* The answer has the files of each part, with its values.                 *)
LEMMA FinishGood ==
  ASSUME IInv, NEW q \in Queries, Finish(q)
  PROVE  IInv'
<1> DEFINE out == UNION {RowsOf(q, u) : u \in Selected(q)}
           s == [scan[q] EXCEPT !.phase = "done", !.out = out]
<1>1. /\ scan[q].phase = "list" /\ UNCHANGED <<outside, cache>>
      /\ \A u \in Selected(q) : scan[q].task[u] \in {"done", "failed"}
  BY DEF Finish, FinishWhen, At
<1>2. Good(scan[q]) /\ scan[q] \in Scan
  BY Before DEF IInv, Good
<1>3. CASE \E u \in Selected(q) : scan[q].task[u] = "failed"
  <2>1. scan' = [scan EXCEPT ![q].phase = "failed"]
    BY <1>3 DEF Finish, FinishWhen, IInv
  <2> QED
    BY <1>1, <2>1, PhaseGood
<1>4. CASE ~\E u \in Selected(q) : scan[q].task[u] = "failed"
  <2>1. scan' = [scan EXCEPT ![q] = s]
    BY <1>4 DEF Finish, FinishWhen, IInv
  <2>2. \A u \in Units : scan[q].task[u] \in {None, "done"}
    BY <1>1, <1>4 DEF Selected
  <2>3. ASSUME NEW o \in out
        PROVE  /\ o \in [file : Files, of : Units, values : Units]
               /\ o.of \in Units /\ o.values = o.of /\ o.file \in scan[q].got[o.of]
    <3>1. PICK u \in Selected(q) : o \in RowsOf(q, u)
      OBVIOUS
    <3>2. PICK f \in scan[q].got[u] : o = [file |-> f, of |-> u, values |-> u]
      BY <3>1 DEF RowsOf, ValuesOf
    <3>3. u \in Units /\ f \in Files
      BY <3>2, Before DEF Selected
    <3> QED
      BY <3>2, <3>3
  <2>4. ASSUME NEW u \in Units, scan[q].task[u] # None, NEW f \in scan[q].got[u]
        PROVE  \E o \in out : o.of = u /\ o.file = f
    <3>1. u \in Selected(q)
      BY <2>4 DEF Selected
    <3>2. [file |-> f, of |-> u, values |-> u] \in RowsOf(q, u)
      BY DEF RowsOf, ValuesOf
    <3>3. [file |-> f, of |-> u, values |-> u] \in out
      BY <3>1, <3>2
    <3> QED
      BY <3>3
  <2> HIDE DEF out
  <2>5. /\ s \in Scan /\ s.phase = "done" /\ s.table = scan[q].table /\ s.task = scan[q].task
        /\ s.got = scan[q].got /\ s.page = scan[q].page /\ s.out = out
    BY <1>2, <2>3 DEF Scan
  <2> HIDE DEF s
  <2>6. Answer(s)
    BY <2>3, <2>4, <2>5 DEF Answer
  <2>7. Good(s)
    BY <1>1, <1>2, <2>2, <2>5, <2>6 DEF Good, Listing
  <2> QED
    BY <1>1, <2>1, <2>7, SameCache, OneScan
<1> QED
  BY <1>3, <1>4

-----------------------------------------------------------------------------

(* IInv is inductive where tables are Apart.                               *)
LEMMA StepGood == ASSUME Apart PROVE IInv /\ [Next]_vars => IInv'
<1> SUFFICES ASSUME IInv, [Next]_vars PROVE IInv'
  OBVIOUS
<1>1. ASSUME NEW v \in Volatile, Change(v[1], v[2]) PROVE IInv'
  BY <1>1, ChangeGood
<1>2. ASSUME NEW key \in DOMAIN cache, Forget(key) PROVE IInv'
  <2>1. Cached'
    BY <1>2 DEF Forget, IInv, Cached, Right, outside, CacheKey
  <2>2. UNCHANGED <<outside, scan>>
    BY <1>2 DEF Forget
  <2> QED
    BY <2>1, <2>2 DEF IInv, Contents, Visible, Good, Listing, Answer, outside
<1>3. ASSUME NEW q \in Queries, NEW t \in Tables, NEW keep \in Choices(t), Begin(q, t, keep)
      PROVE  IInv'
  BY <1>3, BeginGood
<1>4. ASSUME NEW q \in Queries, Step(q) PROVE IInv'
  <2>1. CASE Register(q)
    BY <2>1, PhaseGood DEF Register, At
  <2>2. CASE RegisterFails(q)
    BY <2>2, PhaseGood DEF RegisterFails, At
  <2>3. ASSUME NEW u \in Units, StartTask(q, u) PROVE IInv'
    BY <2>3, StartGood
  <2>4. ASSUME NEW u \in Units, ReadPage(q, u) PROVE IInv'
    BY <2>4, ReadPageGood
  <2>5. ASSUME NEW u \in Units, FailTask(q, u) PROVE IInv'
    BY <2>5, FailTaskGood
  <2>6. ASSUME NEW u \in Units, PutListing(q, u) PROVE IInv'
    BY <2>6, PutListingGood
  <2>7. CASE Finish(q)
    BY <2>7, FinishGood
  <2> QED
    BY <1>4, <2>1, <2>2, <2>3, <2>4, <2>5, <2>6, <2>7 DEF Step
<1>5. CASE UNCHANGED vars
  <2>1. UNCHANGED <<outside, cache, scan>>
    BY <1>5 DEF vars, outside
  <2> QED
    BY <2>1, SameCache DEF IInv, Contents, Visible, Good, Listing, Answer, outside
<1> QED
  BY <1>1, <1>2, <1>3, <1>4, <1>5 DEF Next

(* A finished scan has the files of its parts: what was there at some time *)
(* and all that was there all the time.                                    *)
LEMMA GoodImplies == IInv => NoForeignFiles /\ NoLostFiles
<1> SUFFICES ASSUME IInv, NEW q \in Queries, scan[q].phase = "done"
             PROVE  /\ \A o \in scan[q].out : o.file \in ever[UnitLocation[o.of]] /\ o.values = o.of
                    /\ \A u \in Selected(q) : always[UnitLocation[u]]
                         \subseteq {o.file : o \in {x \in scan[q].out : x.of = u}}
  BY DEF NoForeignFiles, NoLostFiles, At
<1>1. Good(scan[q]) /\ Answer(scan[q])
  BY DEF IInv, Good
<1>2. ASSUME NEW o \in scan[q].out
      PROVE  o.file \in ever[UnitLocation[o.of]] /\ o.values = o.of
  BY <1>1, <1>2 DEF Good, Answer, Listing
<1>3. ASSUME NEW u \in Selected(q), NEW f \in always[UnitLocation[u]]
      PROVE  \E o \in scan[q].out : o.of = u /\ o.file = f
  <2>1. u \in Units /\ scan[q].task[u] = "done"
    BY <1>1 DEF Good, Selected
  <2>2. f \in scan[q].got[u]
    BY <1>1, <2>1 DEF Good, Listing
  <2> QED
    BY <1>1, <2>1, <2>2, NoneAssumption DEF Answer, TaskState
<1> QED
  BY <1>2, <1>3

(* No scan returns a file from elsewhere, or with the values of another    *)
(* partition, if no two places share a key (hive_file_utils.rs 68).        *)
THEOREM FilesOfOwnPartitions == ASSUME Apart PROVE Spec => []NoForeignFiles
BY InitGood, StepGood, GoodImplies, PTL DEF Spec

(* And none misses a file that was there all along, however listings are   *)
(* paged, shared, cached and forgotten (hive_file_utils.rs 60-103).        *)
THEOREM FilesAreKept == ASSUME Apart PROVE Spec => []NoLostFiles
BY InitGood, StepGood, GoodImplies, PTL DEF Spec

-----------------------------------------------------------------------------
(* The registry needs no more than the queries' phases.                    *)

(* What a store was built for.                                             *)
BuiltFor(p, key) ==
  /\ ~At(p, "idle")
  /\ TableStore[scan[p].table] = key
  /\ registry[key] = BlockOf(scan[p].table)

Registered == \A key \in DOMAIN registry : \E p \in Queries : BuiltFor(p, key)

IsScan(s) ==
  s \in [phase : {s.phase}, table : {s.table}, task : {s.task},
         page : {s.page}, got : {s.got}, out : {s.out}]

ScanRegistered(s) ==
  /\ IsScan(s)
  /\ s.phase = "idle" => \A u \in Units : s.task[u] = None
  /\ s.phase \in {"register", "list"} => s.table \in Tables
  /\ s.phase = "list" => RegistryKey(TableStore[s.table]) \in DOMAIN registry

BlockInv ==
  /\ Registered
  /\ scan = [q \in Queries |-> scan[q]]
  /\ \A q \in Queries : ScanRegistered(scan[q])

LEMMA BlockInit == Init => BlockInv
<1> SUFFICES ASSUME Init PROVE BlockInv
  OBVIOUS
<1>1. IsScan(Idle) /\ Idle.phase = "idle" /\ \A u \in Units : Idle.task[u] = None
  BY DEF Idle, IsScan
<1>2. ScanRegistered(Idle)
  BY <1>1 DEF ScanRegistered
<1>3. scan = [q \in Queries |-> Idle]
  BY DEF Init
<1>4. Registered
  BY DEF Init, Registered
<1> QED
  BY <1>2, <1>3, <1>4 DEF BlockInv

(* A step that changes one scan, and the registry not at all or by stores  *)
(* that are registered as they should be.                                  *)
LEMMA OneRegistered ==
  ASSUME BlockInv, NEW q \in Queries, NEW s, scan' = [scan EXCEPT ![q] = s],
         DOMAIN registry \subseteq DOMAIN registry', Registered', IsScan(s), s.phase # "idle",
         s.phase \in {"register", "list"} => s.table \in Tables,
         s.phase = "list" => RegistryKey(TableStore[s.table]) \in DOMAIN registry'
  PROVE  BlockInv'
<1>1. scan' = [r \in Queries |-> IF r = q THEN s ELSE scan[r]]
  BY DEF BlockInv
<1>2. ASSUME NEW r \in Queries PROVE ScanRegistered(scan[r])'
  BY <1>1 DEF BlockInv, ScanRegistered, IsScan, RegistryKey
<1> QED
  BY <1>1, <1>2 DEF BlockInv

(* Stores that stay were built for scans that have begun, which they stay. *)
LEMMA BuiltStays ==
  ASSUME BlockInv, NEW q \in Queries, NEW s, scan' = [scan EXCEPT ![q] = s],
         s.phase # "idle", ~At(q, "idle") => s.table = scan[q].table,
         NEW key \in DOMAIN registry, registry'[key] = registry[key]
  PROVE  \E p \in Queries : BuiltFor(p, key)'
<1>1. PICK p \in Queries : BuiltFor(p, key)
  BY DEF BlockInv, Registered
<1>2. scan' = [r \in Queries |-> IF r = q THEN s ELSE scan[r]]
  BY DEF BlockInv
<1>3. BuiltFor(p, key)'
  BY <1>1, <1>2 DEF BuiltFor, At, BlockOf
<1> QED
  BY <1>3

(* A step of a scan that leaves its phase, or ends it.                     *)
LEMMA PhaseKept ==
  ASSUME BlockInv, NEW q \in Queries, NEW s, scan' = [scan EXCEPT ![q] = s],
         registry' = registry, IsScan(s), s.table = scan[q].table, ~At(q, "idle"),
         s.phase \in {scan[q].phase, "done", "failed"}
  PROVE  BlockInv'
<1>1. Registered'
  BY BuiltStays DEF At, Registered
<1>2. ScanRegistered(scan[q])
  BY DEF BlockInv
<1> QED
  BY <1>1, <1>2, OneRegistered DEF ScanRegistered, At

(* A registration puts the block of the scan that makes it.                *)
LEMMA BlockStep == BlockInv /\ [Next]_vars => BlockInv'
<1> SUFFICES ASSUME BlockInv, [Next]_vars PROVE BlockInv'
  OBVIOUS
<1>1. ASSUME UNCHANGED <<registry, scan>> PROVE BlockInv'
  BY <1>1 DEF BlockInv, Registered, BuiltFor, ScanRegistered, IsScan, BlockOf, RegistryKey, At
<1>2. ASSUME NEW q \in Queries, NEW t \in Tables, NEW keep, Begin(q, t, keep) PROVE BlockInv'
  <2> DEFINE task == [u \in Units |-> IF u \in keep THEN "waiting" ELSE None]
             phase == IF RegistryKey(TableStore[t]) \in DOMAIN registry THEN "list" ELSE "register"
             s == [scan[q] EXCEPT !.phase = phase, !.table = t, !.task = task]
  <2>1. scan' = [scan EXCEPT ![q] = s] /\ registry' = registry
    BY <1>2 DEF Begin, BlockInv
  <2>2. phase = "list" => RegistryKey(TableStore[t]) \in DOMAIN registry
    OBVIOUS
  <2> HIDE DEF task, phase
  <2>3. IsScan(s) /\ s.phase = phase /\ s.table = t
    BY DEF BlockInv, ScanRegistered, IsScan
  <2>4. s.phase # "idle" /\ At(q, "idle")
    BY <1>2, <2>3 DEF Begin, phase
  <2> HIDE DEF s
  <2>5. Registered'
    BY <2>1, <2>4, BuiltStays DEF Registered
  <2> QED
    BY <2>1, <2>2, <2>3, <2>4, <2>5, OneRegistered
<1>3. ASSUME NEW q \in Queries, Register(q) PROVE BlockInv'
  <2> DEFINE t == scan[q].table
             s == [scan[q] EXCEPT !.phase = "list"]
  <2>1. /\ scan' = [scan EXCEPT ![q] = s] /\ t \in Tables
        /\ registry' = With(registry, RegistryKey(TableStore[t]), BlockOf(t))
    BY <1>3 DEF Register, At, BlockInv, ScanRegistered
  <2>2. /\ DOMAIN registry' = DOMAIN registry \cup {TableStore[t]}
        /\ registry'[TableStore[t]] = BlockOf(t)
        /\ \A k \in DOMAIN registry : k # TableStore[t] => registry'[k] = registry[k]
    BY <2>1 DEF With, RegistryKey
  <2>3. IsScan(s) /\ s.phase = "list" /\ s.table = t
    BY DEF BlockInv, ScanRegistered, IsScan
  <2> HIDE DEF s
  <2>4. scan'[q] = s
    BY <2>1 DEF BlockInv
  <2>5. ASSUME NEW key \in DOMAIN registry' PROVE \E p \in Queries : BuiltFor(p, key)'
    <3>1. CASE key = TableStore[t]
      <4>1. BuiltFor(q, key)'
        BY <2>2, <2>3, <2>4, <3>1 DEF BuiltFor, At, BlockOf
      <4> QED
        BY <4>1
    <3>2. CASE key # TableStore[t]
      BY <2>1, <2>2, <2>3, <3>2, BuiltStays
    <3> QED
      BY <3>1, <3>2
  <2>6. Registered'
    BY <2>5 DEF Registered
  <2> QED
    BY <2>1, <2>2, <2>3, <2>6, OneRegistered DEF RegistryKey
<1>4. ASSUME NEW q \in Queries, RegisterFails(q) PROVE BlockInv'
  <2> DEFINE s == [scan[q] EXCEPT !.phase = "failed"]
  <2>1. scan' = [scan EXCEPT ![q] = s] /\ registry' = registry /\ ~At(q, "idle")
    BY <1>4 DEF RegisterFails, BlockInv, At
  <2>2. IsScan(s) /\ s.table = scan[q].table /\ s.phase = "failed"
    BY DEF BlockInv, ScanRegistered, IsScan
  <2> QED
    BY <2>1, <2>2, PhaseKept
<1>5. ASSUME NEW q \in Queries, NEW u \in Units, StartTask(q, u) PROVE BlockInv'
  <2> DEFINE found == [scan[q] EXCEPT !.task[u] = "done", !.got[u] = cache[CacheKey(UnitLocation[u])]]
             begun == [scan[q] EXCEPT !.task[u] = "listing"]
  <2>1. /\ scan' = [scan EXCEPT ![q] = found] \/ scan' = [scan EXCEPT ![q] = begun]
        /\ registry' = registry /\ ~At(q, "idle")
    BY <1>5 DEF StartTask, BlockInv, At
  <2>2. IsScan(found) /\ found.table = scan[q].table /\ found.phase = scan[q].phase
    BY DEF BlockInv, ScanRegistered, IsScan
  <2>3. IsScan(begun) /\ begun.table = scan[q].table /\ begun.phase = scan[q].phase
    BY DEF BlockInv, ScanRegistered, IsScan
  <2> HIDE DEF found, begun
  <2> QED
    BY <2>1, <2>2, <2>3, PhaseKept
<1>6. ASSUME NEW q \in Queries, NEW u \in Units, ReadPage(q, u) PROVE BlockInv'
  <2> DEFINE page == scan[q].page[u]
             new == {f \in Visible(Listed(q, u)) : PageOf[f] = page}
             state == IF page = Pages THEN "listed" ELSE "listing"
             s == [scan[q] EXCEPT !.got[u] = @ \cup new, !.page[u] = page + 1, !.task[u] = state]
  <2>1. scan' = [scan EXCEPT ![q] = s] /\ registry' = registry
    BY <1>6 DEF ReadPage, BlockInv
  <2>0. ~At(q, "idle")
    BY <1>6, NoneAssumption DEF ReadPage, BlockInv, ScanRegistered, At, TaskState
  <2> HIDE DEF page, new, state
  <2>2. IsScan(s) /\ s.table = scan[q].table /\ s.phase = scan[q].phase
    BY DEF BlockInv, ScanRegistered, IsScan
  <2> HIDE DEF s
  <2> QED
    BY <2>0, <2>1, <2>2, PhaseKept
<1>7. ASSUME NEW q \in Queries, NEW u \in Units, FailTask(q, u) PROVE BlockInv'
  <2> DEFINE s == [scan[q] EXCEPT !.task[u] = "failed"]
  <2>1. scan' = [scan EXCEPT ![q] = s] /\ registry' = registry
    BY <1>7 DEF FailTask, FailTaskWith, BlockInv
  <2>0. ~At(q, "idle")
    BY <1>7, NoneAssumption DEF FailTask, FailTaskWith, BlockInv, ScanRegistered, At, TaskState
  <2>2. IsScan(s) /\ s.table = scan[q].table /\ s.phase = scan[q].phase
    BY DEF BlockInv, ScanRegistered, IsScan
  <2> HIDE DEF s
  <2> QED
    BY <2>0, <2>1, <2>2, PhaseKept
<1>8. ASSUME NEW q \in Queries, NEW u \in Units, PutListing(q, u) PROVE BlockInv'
  <2> DEFINE s == [scan[q] EXCEPT !.task[u] = "done"]
  <2>1. scan' = [scan EXCEPT ![q] = s] /\ registry' = registry
    BY <1>8 DEF PutListing, BlockInv
  <2>0. ~At(q, "idle")
    BY <1>8, NoneAssumption DEF PutListing, BlockInv, ScanRegistered, At, TaskState
  <2>2. IsScan(s) /\ s.table = scan[q].table /\ s.phase = scan[q].phase
    BY DEF BlockInv, ScanRegistered, IsScan
  <2> HIDE DEF s
  <2> QED
    BY <2>0, <2>1, <2>2, PhaseKept
<1>9. ASSUME NEW q \in Queries, Finish(q) PROVE BlockInv'
  <2> DEFINE out == UNION {RowsOf(q, u) : u \in Selected(q)}
             failed == [scan[q] EXCEPT !.phase = "failed"]
             done == [scan[q] EXCEPT !.phase = "done", !.out = out]
  <2>1. /\ scan' = [scan EXCEPT ![q] = failed] \/ scan' = [scan EXCEPT ![q] = done]
        /\ registry' = registry /\ ~At(q, "idle")
    BY <1>9 DEF Finish, FinishWhen, BlockInv, At
  <2> HIDE DEF out
  <2>2. IsScan(failed) /\ failed.table = scan[q].table /\ failed.phase = "failed"
    BY DEF BlockInv, ScanRegistered, IsScan
  <2>3. IsScan(done) /\ done.table = scan[q].table /\ done.phase = "done"
    BY DEF BlockInv, ScanRegistered, IsScan
  <2> HIDE DEF failed, done
  <2> QED
    BY <2>1, <2>2, <2>3, PhaseKept
<1>10. ASSUME NEW q \in Queries, Step(q) PROVE BlockInv'
  BY <1>3, <1>4, <1>5, <1>6, <1>7, <1>8, <1>9, <1>10 DEF Step
<1>11. ASSUME NEW v \in Volatile, Change(v[1], v[2]) PROVE BlockInv'
  BY <1>1, <1>11 DEF Change
<1>12. ASSUME NEW key \in DOMAIN cache, Forget(key) PROVE BlockInv'
  BY <1>1, <1>12 DEF Forget
<1>13. CASE UNCHANGED vars
  BY <1>1, <1>13 DEF vars
<1> QED
  BY <1>2, <1>10, <1>11, <1>12, <1>13 DEF Next

(* A scan lists a store that was built for a scan of a table of that very  *)
(* store, with the block of its catalog (storage.rs 146-179).  It need not *)
(* be the block of its own: whichever catalog is first decides.            *)
THEOREM BlocksOfScans == Spec => []StoresBuiltForScans
<1>1. BlockInv => StoresBuiltForScans
  BY DEF BlockInv, Registered, BuiltFor, ScanRegistered, StoresBuiltForScans, At, RegistryKey
<1> QED
  BY <1>1, BlockInit, BlockStep, PTL DEF Spec

-----------------------------------------------------------------------------
(***************************************************************************)
(* Files of Iceberg tables.  The invariant says of the cache of operators  *)
(* that each fits its key, which is all a hit is asked for, and of each    *)
(* call what is still to come of its promise: what a delete stream was     *)
(* given is yet to be named, queued or gone, and nothing else is queued.   *)
(***************************************************************************)

(* The credentials of a backend, and an operator, by the response.         *)
DocumentedFor(response, b) ==
  CASE b \notin Keyed -> Absent
    [] b \in Keyed \cap Configured -> "block"
    [] b \in Keyed \ Configured /\ {"id", "secret"} \subseteq response[b] -> "vended"
    [] OTHER -> "chain"
OperatorFor(response, scheme, authority) ==
  [backend |-> Backend(scheme), authority |-> authority,
   credentials |-> DocumentedFor(response, Backend(scheme))]

ChosenAsDocumented ==
  /\ vended \in [Storages -> Responses \cup {Absent}]
  /\ chosen \in [Storages -> [Keyed -> Credentials]]
  /\ \A s \in Storages : vended[s] # Absent =>
       \A b \in Keyed : chosen[s][b] = DocumentedFor(vended[s], b)

OperatorsFit ==
  /\ operators = [s \in Storages |-> operators[s]]
  /\ \A s \in Storages : \A key \in DOMAIN operators[s] :
       operators[s][key] = OperatorFor(vended[s], key[1], key[2])
       /\ vended[s] # Absent

(* What the locations of a call name.                                      *)
Elements(seq) == {seq[i] : i \in DOMAIN seq}
NamedIn(r) == {Named(l) : l \in Elements(r.stream) \ {Absent}}
MayDelete(r) ==
  CASE r.kind \in {"remove", "delete"} -> NamedIn(r)
    [] r.kind = "prefix" ->
         {o \in Objects : \E n \in NamedIn(r) : [o EXCEPT !.path = n.path] = n /\ o.path \in Below[n.path]}
    [] OTHER -> {}
Queued(r) == UNION {r.queue[key] : key \in DOMAIN r.queue}

FieldsOfCall == {"kind", "phase", "storage", "stream", "todo", "queue", "at", "via",
                 "gone", "given", "stored", "reported"}
RecordOfCall(r) == r = [field \in FieldsOfCall |-> r[field]]

Served(r, response) ==
  r.via = OperatorFor(response, r.at.scheme, r.at.authority)

CallGood(r, v) ==
  /\ RecordOfCall(r)
  /\ r.phase \in {"idle", "run", "close", "done", "failed"}
  /\ r.phase # "idle" => r.storage \in Storages /\ v[r.storage] # Absent
  /\ r.via # Absent => r.phase # "idle" /\ Served(r, v[r.storage])
  /\ r.todo \in Seq(Locations \cup {Absent}) /\ Elements(r.todo) \subseteq Elements(r.stream)
  /\ r.kind # "delete" /\ r.phase = "run" => r.todo # <<>>
  /\ r.kind = "write" /\ r.phase = "close" => r.at \in Locations /\ Served(r, v[r.storage])
  /\ r.kind = "delete" =>
       /\ Queued(r) \subseteq NamedIn(r)
       /\ r.phase \in {"run", "close", "done"} =>
            \A l \in Elements(r.stream) : l \in Elements(r.todo) \/ Named(l) \in r.gone \cup Queued(r)
       /\ r.phase \in {"close", "done"} => r.todo = <<>>
       /\ r.phase = "done" => DOMAIN r.queue = {}

StorageInv ==
  /\ ChosenAsDocumented /\ OperatorsFit /\ files \subseteq Objects
  /\ call = [c \in Calls |-> call[c]]
  /\ \A c \in Calls : CallGood(call[c], vended)

-----------------------------------------------------------------------------

LEMMA HeadTail ==
  ASSUME NEW S, NEW seq \in Seq(S), seq # <<>>
  PROVE  /\ Head(seq) \in S /\ Head(seq) \in Elements(seq) /\ Tail(seq) \in Seq(S)
         /\ Elements(seq) = {Head(seq)} \cup Elements(Tail(seq))
<1>1. Len(seq) \in Nat \ {0} /\ DOMAIN seq = 1..Len(seq)
  BY EmptySeq, LenProperties
<1>2. /\ Head(seq) \in S /\ Tail(seq) \in Seq(S) /\ Len(Tail(seq)) = Len(seq) - 1
      /\ \A i \in 1..Len(Tail(seq)) : Tail(seq)[i] = seq[i + 1]
  BY HeadTailProperties
<1>3. Head(seq) = seq[1]
  OBVIOUS
<1>4. DOMAIN Tail(seq) = 1..(Len(seq) - 1)
  BY <1>2, LenProperties
<1>5. \A x : x \in Elements(seq) <=> x = Head(seq) \/ x \in Elements(Tail(seq))
  <2>1. ASSUME NEW i \in 1..Len(seq) PROVE seq[i] = Head(seq) \/ seq[i] \in Elements(Tail(seq))
    <3>1. CASE i = 1
      BY <1>3, <3>1
    <3>2. CASE i # 1
      <4>1. i - 1 \in 1..(Len(seq) - 1) /\ (i - 1) + 1 = i
        BY <1>1, <3>2
      <4>2. Tail(seq)[i - 1] = seq[i]
        BY <1>2, <4>1
      <4> QED
        BY <1>4, <4>1, <4>2 DEF Elements
    <3> QED
      BY <3>1, <3>2
  <2>2. ASSUME NEW i \in 1..(Len(seq) - 1) PROVE Tail(seq)[i] \in Elements(seq)
    <3>1. i + 1 \in 1..Len(seq) /\ Tail(seq)[i] = seq[i + 1]
      BY <1>1, <1>2
    <3> QED
      BY <1>1, <3>1 DEF Elements
  <2>3. 1 \in 1..Len(seq)
    BY <1>1
  <2> QED
    BY <1>1, <1>3, <1>4, <2>1, <2>2, <2>3 DEF Elements
<1>6. Elements(seq) = {Head(seq)} \cup Elements(Tail(seq))
  BY <1>5
<1> QED
  BY <1>2, <1>6

LEMMA NoElements == Elements(<<>>) = {} /\ DOMAIN <<>> = {}
<1>1. DOMAIN <<>> = {}
  OBVIOUS
<1> QED
  BY <1>1 DEF Elements

LEMMA TargetNamed ==
  ASSUME NEW response, NEW l
  PROVE  Target(OperatorFor(response, l.scheme, l.authority), l) = Named(l)
BY DEF Target, OperatorFor, Named

LEMMA NamedObject ==
  ASSUME NEW l \in Locations
  PROVE  Named(l) \in Objects
BY DEF Named, Objects, Authorities

(* The operator that serves a location, cached or new, is the location's.  *)
LEMMA Resolution ==
  ASSUME ChosenAsDocumented, OperatorsFit, NEW s \in Storages, vended[s] # Absent, NEW l
  PROVE  Resolved(s, l) = OperatorFor(vended[s], l.scheme, l.authority)
<1>1. CASE Key(l) \in DOMAIN operators[s]
  <2>1. operators[s][Key(l)] = OperatorFor(vended[s], Key(l)[1], Key(l)[2])
    BY <1>1 DEF OperatorsFit
  <2>2. Key(l)[1] = l.scheme /\ Key(l)[2] = l.authority
    BY DEF Key
  <2> QED
    BY <1>1, <2>1, <2>2 DEF Resolved
<1>2. CASE Key(l) \notin DOMAIN operators[s]
  <2>1. \A b \in Keyed : chosen[s][b] = DocumentedFor(vended[s], b)
    BY DEF ChosenAsDocumented
  <2>2. \A b : b \notin Keyed => DocumentedFor(vended[s], b) = Absent
    BY DEF DocumentedFor
  <2> QED
    BY <1>2, <2>1, <2>2 DEF Resolved, NewOperator, OperatorFor
<1> QED
  BY <1>1, <1>2

LEMMA Remembered ==
  ASSUME ChosenAsDocumented, OperatorsFit, NEW s \in Storages, vended[s] # Absent, NEW l,
         Remember(s, l) \/ UNCHANGED operators, UNCHANGED vended
  PROVE  OperatorsFit'
<1>1. operators = [x \in Storages |-> operators[x]]
  BY DEF OperatorsFit
<1>2. CASE Remember(s, l)
  <2>1. operators' = [operators EXCEPT ![s] = PutAt(operators[s], Key(l), Resolved(s, l))]
    BY <1>2 DEF Remember
  <2>2. /\ operators' = [x \in Storages |-> operators'[x]]
        /\ operators'[s] = PutAt(operators[s], Key(l), Resolved(s, l))
        /\ \A x \in Storages : x # s => operators'[x] = operators[x]
    BY <1>1, <2>1
  <2>3. ASSUME NEW x \in Storages, NEW key \in DOMAIN operators'[x]
        PROVE  operators'[x][key] = OperatorFor(vended[x], key[1], key[2]) /\ vended[x] # Absent
    <3>1. CASE x # s
      BY <2>2, <2>3, <3>1 DEF OperatorsFit
    <3>2. CASE x = s
      <4>1. operators'[s][key] = IF key = Key(l) THEN Resolved(s, l) ELSE operators[s][key]
        BY <2>2, <2>3, <3>2 DEF PutAt
      <4>2. CASE key = Key(l)
        <5>1. key[1] = l.scheme /\ key[2] = l.authority
          BY <4>2 DEF Key
        <5> QED
          BY <3>2, <4>1, <4>2, <5>1, Resolution
      <4>3. CASE key # Key(l)
        <5>1. key \in DOMAIN operators[s]
          BY <2>2, <2>3, <3>2, <4>3 DEF PutAt
        <5> QED
          BY <3>2, <4>1, <4>3, <5>1 DEF OperatorsFit
      <4> QED
        BY <4>2, <4>3
    <3> QED
      BY <3>1, <3>2
  <2> QED
    BY <2>2, <2>3 DEF OperatorsFit
<1>3. CASE UNCHANGED operators
  BY <1>3 DEF OperatorsFit
<1> QED
  BY <1>2, <1>3

LEMMA OneCall ==
  ASSUME StorageInv, NEW c \in Calls, NEW r, CallGood(r, vended), call' = [call EXCEPT ![c] = r],
         UNCHANGED <<vended, chosen>>, OperatorsFit', files' \subseteq Objects
  PROVE  StorageInv'
<1>1. call = [x \in Calls |-> call[x]]
  BY DEF StorageInv
<1>2. call' = [x \in Calls |-> call'[x]] /\ \A x \in Calls : call'[x] = IF x = c THEN r ELSE call[x]
  BY <1>1
<1>3. \A x \in Calls : CallGood(call'[x], vended)
  BY <1>2 DEF StorageInv
<1>4. \A x \in Calls : CallGood(call[x], vended)'
  BY <1>3
<1>5. ChosenAsDocumented'
  BY DEF StorageInv, ChosenAsDocumented
<1> QED
  BY <1>2, <1>4, <1>5 DEF StorageInv

(* The credentials that are chosen are those the docs give.                *)
LEMMA Built ==
  ASSUME StorageInv, NEW s \in Storages, Build(s)
  PROVE  StorageInv'
<1>1. PICK response \in Responses :
        /\ vended' = [vended EXCEPT ![s] = response]
        /\ chosen' = [chosen EXCEPT ![s] = [b \in Keyed |-> Credential(response, b)]]
  BY DEF Build
<1>2. vended[s] = Absent /\ UNCHANGED <<operators, files, call>>
  BY DEF Build
<1>3. /\ vended \in [Storages -> Responses \cup {Absent}]
      /\ chosen \in [Storages -> [Keyed -> Credentials]]
  BY DEF StorageInv, ChosenAsDocumented
<1>4. \A b \in Keyed : Credential(response, b) \in Credentials /\ Credential(response, b) = DocumentedFor(response, b)
  <2>1. \A b \in Keyed : response[b] \in SUBSET {"id", "secret"}
    BY ResponsesAssumption
  <2>2. \A b \in Keyed : response[b] = {"id", "secret"} <=> {"id", "secret"} \subseteq response[b]
    BY <2>1
  <2> QED
    BY <2>2 DEF Credential, Credentials, PairVended, DocumentedFor
<1>5. /\ vended' \in [Storages -> Responses \cup {Absent}]
      /\ \A x \in Storages : vended'[x] = IF x = s THEN response ELSE vended[x]
  BY <1>1, <1>3
<1>6. /\ chosen' \in [Storages -> [Keyed -> Credentials]]
      /\ \A x \in Storages : x # s => chosen'[x] = chosen[x]
      /\ \A b \in Keyed : chosen'[s][b] = Credential(response, b)
  <2> DEFINE new == [b \in Keyed |-> Credential(response, b)]
  <2>1. new \in [Keyed -> Credentials]
    BY <1>4
  <2>2. chosen'[s] = new
    BY <1>1, <1>3
  <2>3. chosen' \in [Storages -> [Keyed -> Credentials]] /\ \A x \in Storages : x # s => chosen'[x] = chosen[x]
    <3> HIDE DEF new
    <3> QED
      BY <1>1, <1>3, <2>1 DEF new
  <2> QED
    BY <2>2, <2>3
<1>7. ChosenAsDocumented'
  BY <1>4, <1>5, <1>6 DEF StorageInv, ChosenAsDocumented
<1>8. \A x \in Storages : vended[x] # Absent => vended'[x] = vended[x]
  BY <1>2, <1>5
<1>9. OperatorsFit'
  BY <1>2, <1>8 DEF StorageInv, OperatorsFit
<1>10. ASSUME NEW c \in Calls PROVE CallGood(call[c], vended')
  <2>1. CallGood(call[c], vended)
    BY DEF StorageInv
  <2>2. call[c].phase # "idle" => call[c].storage \in Storages /\ vended[call[c].storage] # Absent
                                  /\ vended'[call[c].storage] = vended[call[c].storage]
    BY <1>8, <2>1 DEF CallGood
  <2>3. call[c].kind = "write" /\ call[c].phase = "close" => call[c].phase # "idle"
    OBVIOUS
  <2> QED
    BY <2>1, <2>2, <2>3 DEF CallGood
<1>11. \A c \in Calls : CallGood(call[c], vended)'
  BY <1>2, <1>10
<1> QED
  BY <1>2, <1>7, <1>9, <1>11 DEF StorageInv

(* What a step deletes, a running call has named.                          *)
DeletesNamed ==
  \A o \in files \ files' :
    \E c \in Calls : call[c].phase \in {"run", "close"} /\ o \in NamedBy(c)

LEMMA ByCall ==
  ASSUME NEW c \in Calls, call[c].phase \in {"run", "close"}, files \ files' \subseteq MayDelete(call[c])
  PROVE  DeletesNamed
<1>1. NamedBy(c) = MayDelete(call[c])
  BY DEF NamedBy, MayDelete, NamedIn, Elements
<1> QED
  BY <1>1 DEF DeletesNamed

LEMMA DeletesNothing == UNCHANGED files => DeletesNamed
BY DEF DeletesNamed

LEMMA RunningCall ==
  ASSUME StorageInv, NEW c \in Calls, call[c].phase # "idle"
  PROVE  /\ CallGood(call[c], vended) /\ RecordOfCall(call[c])
         /\ call[c].storage \in Storages /\ vended[call[c].storage] # Absent
         /\ ChosenAsDocumented /\ OperatorsFit /\ files \subseteq Objects
BY DEF StorageInv, CallGood

(* The next location of a call is one of its stream.                       *)
LEMMA NextLocation ==
  ASSUME NEW r, NEW v, CallGood(r, v), r.todo # <<>>, Head(r.todo) # Absent
  PROVE  /\ Head(r.todo) \in Locations /\ Head(r.todo) \in Elements(r.stream)
         /\ Named(Head(r.todo)) \in NamedIn(r) /\ Named(Head(r.todo)) \in Objects
         /\ Tail(r.todo) \in Seq(Locations \cup {Absent})
         /\ Elements(Tail(r.todo)) \subseteq Elements(r.stream)
         /\ Elements(r.todo) = {Head(r.todo)} \cup Elements(Tail(r.todo))
<1>1. r.todo \in Seq(Locations \cup {Absent}) /\ Elements(r.todo) \subseteq Elements(r.stream)
  BY DEF CallGood
<1>2. /\ Head(r.todo) \in Locations \cup {Absent} /\ Head(r.todo) \in Elements(r.todo)
      /\ Tail(r.todo) \in Seq(Locations \cup {Absent})
      /\ Elements(r.todo) = {Head(r.todo)} \cup Elements(Tail(r.todo))
  BY <1>1, HeadTail
<1>3. Head(r.todo) \in Locations /\ Head(r.todo) \in Elements(r.stream)
  BY <1>1, <1>2
<1>4. Named(Head(r.todo)) \in NamedIn(r) /\ Named(Head(r.todo)) \in Objects
  BY <1>3, NamedObject DEF NamedIn
<1> QED
  BY <1>1, <1>2, <1>3, <1>4

LEMMA FailedGood ==
  ASSUME NEW r, NEW v, CallGood(r, v), r.phase # "idle"
  PROVE  CallGood([r EXCEPT !.phase = "failed", !.queue = <<>>], v)
<1> DEFINE u == [r EXCEPT !.phase = "failed", !.queue = <<>>]
<1>1. RecordOfCall(r)
  BY DEF CallGood
<1>2. /\ RecordOfCall(u) /\ u.phase = "failed" /\ u.queue = <<>> /\ u.kind = r.kind
      /\ u.storage = r.storage /\ u.stream = r.stream /\ u.todo = r.todo /\ u.at = r.at /\ u.via = r.via
  BY <1>1 DEF RecordOfCall, FieldsOfCall
<1> HIDE DEF u
<1>3. Queued(u) = {}
  BY <1>2, NoElements DEF Queued
<1>4. CallGood(u, v)
  BY <1>2, <1>3 DEF CallGood, Served, NamedIn
<1> QED
  BY <1>4 DEF u

LEMMA FailKeeps ==
  ASSUME StorageInv, NEW c \in Calls, call[c].phase # "idle", Fail(c),
         UNCHANGED <<vended, chosen>>, OperatorsFit', files' \subseteq Objects
  PROVE  StorageInv'
<1> DEFINE u == [call[c] EXCEPT !.phase = "failed", !.queue = <<>>]
<1>1. call' = [call EXCEPT ![c] = u]
  BY DEF Fail
<1>2. CallGood(u, vended)
  BY RunningCall, FailedGood
<1> HIDE DEF u
<1> QED
  BY <1>1, <1>2, OneCall

(* A location that is resolved is served by its own operator.              *)
LEMMA ResolvedHere ==
  ASSUME StorageInv, NEW c \in Calls, call[c].phase # "idle", NEW l, Resolves(c, l), UNCHANGED vended
  PROVE  /\ Resolved(call[c].storage, l) = OperatorFor(vended[call[c].storage], l.scheme, l.authority)
         /\ Target(Resolved(call[c].storage, l), l) = Named(l)
         /\ OperatorsFit' /\ l # Absent
<1>1. /\ call[c].storage \in Storages /\ vended[call[c].storage] # Absent
      /\ ChosenAsDocumented /\ OperatorsFit
  BY RunningCall
<1>2. Remember(call[c].storage, l) /\ l # Absent
  BY DEF Resolves
<1> QED
  BY <1>1, <1>2, Resolution, Remembered, TargetNamed

LEMMA UseGood ==
  ASSUME StorageInv, NEW c \in Calls, call[c].phase = "run", call[c].todo # <<>>,
         Resolves(c, Head(call[c].todo)), UNCHANGED vended
  PROVE  LET r == call[c]
             l == Head(r.todo)
             u == Use(c, l) IN
         /\ RecordOfCall(u) /\ u.kind = r.kind /\ u.phase = r.phase /\ u.storage = r.storage
         /\ u.stream = r.stream /\ u.todo = Tail(r.todo) /\ u.queue = r.queue /\ u.gone = r.gone
         /\ u.at = l /\ u.via = OperatorFor(vended[r.storage], l.scheme, l.authority)
<1>1. RecordOfCall(call[c])
  BY RunningCall
<1>2. Resolved(call[c].storage, Head(call[c].todo))
        = OperatorFor(vended[call[c].storage], Head(call[c].todo).scheme, Head(call[c].todo).authority)
  BY ResolvedHere
<1> QED
  BY <1>1, <1>2 DEF Use, RecordOfCall, FieldsOfCall

LEMMA Effects ==
  ASSUME files \subseteq Objects, NEW r, r.kind \in Requests, NEW n \in NamedIn(r), n \in Objects
  PROVE  /\ Effect(r.kind, n) \subseteq Objects
         /\ files \ Effect(r.kind, n) \subseteq MayDelete(r)
<1>1. CASE r.kind = "read"
  BY <1>1 DEF Effect
<1>2. CASE r.kind = "put"
  BY <1>2 DEF Effect
<1>3. CASE r.kind = "remove"
  BY <1>3 DEF Effect, MayDelete
<1>4. CASE r.kind = "prefix"
  <2>1. ASSUME NEW o \in Objects, NEW p \in Below[n.path], o = [n EXCEPT !.path = p]
        PROVE  o \in MayDelete(r)
    <3>1. [o EXCEPT !.path = n.path] = n /\ o.path = p
      BY <2>1 DEF Objects
    <3> QED
      BY <1>4, <2>1, <3>1 DEF MayDelete
  <2>2. Effect(r.kind, n) = files \ {[n EXCEPT !.path = p] : p \in Below[n.path]}
    BY <1>4 DEF Effect
  <2> QED
    BY <2>1, <2>2
<1> QED
  BY <1>1, <1>2, <1>3, <1>4 DEF Requests

-----------------------------------------------------------------------------

LEMMA StartKeeps ==
  ASSUME StorageInv, NEW c \in Calls, NEW kind \in Requests \cup {"delete", "write"}, StartCall(c, kind)
  PROVE  StorageInv' /\ DeletesNamed
<1>1. PICK s \in Storages, stream \in Streams :
        /\ vended[s] # Absent /\ (kind # "delete" => Len(stream) = 1)
        /\ call' = [call EXCEPT ![c] = [NoCall EXCEPT
             !.kind = kind, !.phase = "run", !.storage = s, !.stream = stream, !.todo = stream]]
  BY DEF StartCall
<1> DEFINE u == [NoCall EXCEPT !.kind = kind, !.phase = "run", !.storage = s, !.stream = stream, !.todo = stream]
<1>2. /\ RecordOfCall(u) /\ u.kind = kind /\ u.phase = "run" /\ u.storage = s /\ u.stream = stream
      /\ u.todo = stream /\ u.queue = <<>> /\ u.via = Absent
  BY DEF NoCall, RecordOfCall, FieldsOfCall
<1> HIDE DEF u
<1>3. stream \in Seq(Locations \cup {Absent}) /\ (kind # "delete" => stream # <<>>)
  BY <1>1, StreamsAssumption, EmptySeq
<1>4. Queued(u) = {}
  BY <1>2, NoElements DEF Queued
<1>5. CallGood(u, vended)
  BY <1>1, <1>2, <1>3, <1>4 DEF CallGood
<1>6. OperatorsFit' /\ files' \subseteq Objects /\ UNCHANGED <<vended, chosen, files>>
  BY DEF StartCall, StorageInv, OperatorsFit
<1> QED
  BY <1>1, <1>5, <1>6, OneCall, DeletesNothing DEF u

LEMMA RefusedKeeps ==
  ASSUME StorageInv, NEW c \in Calls, Refused(c)
  PROVE  StorageInv' /\ DeletesNamed
<1> DEFINE l == Head(call[c].todo)
           s == call[c].storage
<1>1. call[c].phase = "run" /\ ResolveFails(c, l) /\ Fail(c) /\ UNCHANGED <<vended, chosen, files>>
  BY DEF Refused
<1>2. UNCHANGED operators \/ Remember(s, l)
  BY <1>1 DEF ResolveFails
<1>3. s \in Storages /\ vended[s] # Absent /\ ChosenAsDocumented /\ OperatorsFit /\ files \subseteq Objects
  BY <1>1, RunningCall
<1>4. OperatorsFit'
  BY <1>1, <1>2, <1>3, Remembered
<1> QED
  BY <1>1, <1>3, <1>4, FailKeeps, DeletesNothing

LEMMA AccessKeeps ==
  ASSUME StorageInv, NEW c \in Calls, Access(c)
  PROVE  StorageInv' /\ DeletesNamed
<1> DEFINE r == call[c]
           l == Head(r.todo)
           w == Use(c, l)
           u == [w EXCEPT !.phase = "done"]
<1>1. /\ r.kind \in Requests /\ r.phase = "run" /\ Resolves(c, l) /\ call' = [call EXCEPT ![c] = u]
      /\ files' = Effect(r.kind, Target(w.via, l)) /\ UNCHANGED <<vended, chosen>>
  BY DEF Access
<1>2. CallGood(r, vended) /\ r.kind # "delete" /\ r.kind # "write" /\ files \subseteq Objects
      /\ r.storage \in Storages /\ vended[r.storage] # Absent
  BY <1>1, RunningCall DEF Requests
<1>3. r.todo # <<>>
  BY <1>1, <1>2 DEF CallGood
<1>4. OperatorsFit' /\ l # Absent /\ Target(w.via, l) = Named(l)
  <2>1. w.via = Resolved(r.storage, l)
    BY <1>1, <1>3, UseGood, ResolvedHere
  <2> HIDE DEF w
  <2> QED
    BY <1>1, <2>1, ResolvedHere
<1>5. /\ Named(l) \in NamedIn(r) /\ Named(l) \in Objects
      /\ Tail(r.todo) \in Seq(Locations \cup {Absent}) /\ Elements(Tail(r.todo)) \subseteq Elements(r.stream)
  BY <1>2, <1>3, <1>4, NextLocation
<1>6. /\ RecordOfCall(w) /\ w.kind = r.kind /\ w.storage = r.storage /\ w.stream = r.stream
      /\ w.todo = Tail(r.todo) /\ w.at = l /\ w.via = OperatorFor(vended[r.storage], l.scheme, l.authority)
  BY <1>1, <1>3, UseGood
<1> HIDE DEF w
<1>7. /\ RecordOfCall(u) /\ u.kind = r.kind /\ u.phase = "done" /\ u.storage = r.storage
      /\ u.stream = r.stream /\ u.todo = Tail(r.todo) /\ u.at = l
      /\ u.via = OperatorFor(vended[r.storage], l.scheme, l.authority)
  BY <1>6 DEF RecordOfCall, FieldsOfCall
<1> HIDE DEF u
<1>8. CallGood(u, vended)
  BY <1>2, <1>5, <1>7 DEF CallGood, Served
<1>9. files' \subseteq Objects /\ files \ files' \subseteq MayDelete(r)
  BY <1>1, <1>2, <1>4, <1>5, Effects
<1> QED
  BY <1>1, <1>4, <1>8, <1>9, OneCall, ByCall

LEMMA RequestFailsKeeps ==
  ASSUME StorageInv, NEW c \in Calls, RequestFails(c)
  PROVE  StorageInv' /\ DeletesNamed
<1> DEFINE r == call[c]
           l == Head(r.todo)
           w == Use(c, l)
<1>1. /\ r.kind # "delete" /\ r.phase = "run" /\ Resolves(c, l) /\ Fail(c) /\ UNCHANGED <<vended, chosen>>
      /\ UNCHANGED files \/ (r.kind \in Requests /\ files' = Effect(r.kind, Target(w.via, l)))
  BY DEF RequestFails
<1>2. CallGood(r, vended) /\ files \subseteq Objects
  BY <1>1, RunningCall
<1>3. r.todo # <<>>
  BY <1>1, <1>2 DEF CallGood
<1>4. OperatorsFit' /\ l # Absent /\ Target(w.via, l) = Named(l)
  <2>1. w.via = Resolved(r.storage, l)
    BY <1>1, <1>3, UseGood, ResolvedHere
  <2> HIDE DEF w
  <2> QED
    BY <1>1, <2>1, ResolvedHere
<1>5. Named(l) \in NamedIn(r) /\ Named(l) \in Objects
  BY <1>2, <1>3, <1>4, NextLocation
<1>6. files' \subseteq Objects /\ files \ files' \subseteq MayDelete(r)
  <2> HIDE DEF w
  <2> QED
    BY <1>1, <1>2, <1>4, <1>5, Effects
<1>7. StorageInv'
  BY <1>1, <1>4, <1>6, FailKeeps
<1> QED
  BY <1>1, <1>6, <1>7, ByCall

(* What the deleters of a call hold.                                       *)
HeldOf(r, key) == IF key \in DOMAIN r.queue THEN r.queue[key] ELSE {}
Others(r, key) == UNION {r.queue[k] : k \in DOMAIN r.queue \ {key}}

LEMMA QueuedOf ==
  ASSUME NEW r, NEW key
  PROVE  Queued(r) = HeldOf(r, key) \cup Others(r, key)
BY DEF Queued, HeldOf, Others

LEMMA QueuedPut ==
  ASSUME NEW r, NEW u, NEW key, NEW kept, u.queue = PutAt(r.queue, key, kept)
  PROVE  Queued(u) = kept \cup Others(r, key)
<1>1. /\ DOMAIN u.queue = DOMAIN r.queue \cup {key} /\ u.queue[key] = kept
      /\ \A k \in DOMAIN r.queue \ {key} : u.queue[k] = r.queue[k]
  BY DEF PutAt
<1>2. HeldOf(u, key) = kept
  BY <1>1 DEF HeldOf
<1>3. Others(u, key) = Others(r, key)
  <2>1. DOMAIN u.queue \ {key} = DOMAIN r.queue \ {key}
    BY <1>1
  <2> QED
    BY <1>1, <2>1 DEF Others
<1> QED
  BY <1>2, <1>3, QueuedOf

LEMMA QueuedWithout ==
  ASSUME NEW r, NEW u, NEW key, u.queue = Without(r.queue, key)
  PROVE  Queued(u) = Others(r, key)
<1>1. /\ DOMAIN u.queue = DOMAIN r.queue \ {key}
      /\ \A k \in DOMAIN r.queue \ {key} : u.queue[k] = r.queue[k]
  BY DEF Without
<1> QED
  BY <1>1 DEF Queued, Others

LEMMA QueueKeeps ==
  ASSUME StorageInv, NEW c \in Calls, Queue(c)
  PROVE  StorageInv' /\ DeletesNamed
<1> DEFINE r == call[c]
           l == Head(r.todo)
           w == Use(c, l)
           held == Held(c, l) \cup {Target(Resolved(r.storage, l), l)}
           sent == IF Cardinality(held) >= Batch THEN held ELSE {}
           u == [w EXCEPT !.queue = PutAt(w.queue, Key(l), held \ sent), !.gone = w.gone \cup sent]
<1>1. /\ r.kind = "delete" /\ r.phase = "run" /\ r.todo # <<>> /\ Resolves(c, l)
      /\ files' = files \ sent /\ call' = [call EXCEPT ![c] = u] /\ UNCHANGED <<vended, chosen>>
  BY DEF Queue, CallAt
<1>2. CallGood(r, vended) /\ files \subseteq Objects
      /\ r.storage \in Storages /\ vended[r.storage] # Absent
  BY <1>1, RunningCall
<1>3. OperatorsFit' /\ l # Absent /\ Target(Resolved(r.storage, l), l) = Named(l)
  BY <1>1, ResolvedHere
<1>4. /\ Named(l) \in NamedIn(r) /\ Tail(r.todo) \in Seq(Locations \cup {Absent})
      /\ Elements(Tail(r.todo)) \subseteq Elements(r.stream)
      /\ Elements(r.todo) = {l} \cup Elements(Tail(r.todo))
  BY <1>1, <1>2, <1>3, NextLocation
<1>5. /\ RecordOfCall(w) /\ w.kind = r.kind /\ w.storage = r.storage /\ w.stream = r.stream
      /\ w.phase = r.phase /\ w.queue = r.queue /\ w.gone = r.gone
      /\ w.todo = Tail(r.todo) /\ w.at = l /\ w.via = OperatorFor(vended[r.storage], l.scheme, l.authority)
  BY <1>1, UseGood
<1>6. held = HeldOf(r, Key(l)) \cup {Named(l)} /\ sent \subseteq held
  BY <1>3 DEF Held, HeldOf
<1> HIDE DEF w, held, sent
<1>7. /\ RecordOfCall(u) /\ u.kind = "delete" /\ u.phase = "run" /\ u.storage = r.storage
      /\ u.stream = r.stream /\ u.todo = Tail(r.todo) /\ u.at = l
      /\ u.via = OperatorFor(vended[r.storage], l.scheme, l.authority)
      /\ u.queue = PutAt(r.queue, Key(l), held \ sent) /\ u.gone = r.gone \cup sent
  BY <1>1, <1>5 DEF RecordOfCall, FieldsOfCall
<1> HIDE DEF u
<1>8. Queued(u) = (held \ sent) \cup Others(r, Key(l)) /\ Queued(r) = HeldOf(r, Key(l)) \cup Others(r, Key(l))
  BY <1>7, QueuedPut, QueuedOf
<1>9. Queued(r) \subseteq NamedIn(r)
      /\ \A x \in Elements(r.stream) : x \in Elements(r.todo) \/ Named(x) \in r.gone \cup Queued(r)
  BY <1>1, <1>2 DEF CallGood
<1>10. /\ Queued(u) \subseteq NamedIn(r) /\ sent \subseteq NamedIn(r)
       /\ \A x \in Elements(r.stream) : x \in Elements(Tail(r.todo)) \/ Named(x) \in u.gone \cup Queued(u)
  BY <1>4, <1>6, <1>7, <1>8, <1>9
<1>11. NamedIn(u) = NamedIn(r)
  BY <1>7 DEF NamedIn
<1>12. CallGood(u, vended)
  BY <1>2, <1>4, <1>7, <1>10, <1>11 DEF CallGood, Served
<1>13. files' \subseteq Objects /\ files \ files' \subseteq MayDelete(r)
  BY <1>1, <1>2, <1>10 DEF MayDelete
<1> QED
  BY <1>1, <1>3, <1>12, <1>13, OneCall, ByCall

LEMMA QueueFailsKeeps ==
  ASSUME StorageInv, NEW c \in Calls, QueueFails(c)
  PROVE  StorageInv' /\ DeletesNamed
<1> DEFINE r == call[c]
           l == Head(r.todo)
           held == Held(c, l) \cup {Target(Resolved(r.storage, l), l)}
<1>1. /\ r.kind = "delete" /\ r.phase = "run" /\ r.todo # <<>> /\ Resolves(c, l)
      /\ Fail(c) /\ UNCHANGED <<vended, chosen>>
      /\ \E part \in IF Cardinality(held) >= Batch THEN SUBSET held ELSE {{}} : files' = files \ part
  BY DEF QueueFails, CallAt
<1>2. CallGood(r, vended) /\ files \subseteq Objects
  BY <1>1, RunningCall
<1>3. OperatorsFit' /\ l # Absent /\ Target(Resolved(r.storage, l), l) = Named(l)
  BY <1>1, ResolvedHere
<1>4. Named(l) \in NamedIn(r)
  BY <1>1, <1>2, <1>3, NextLocation
<1>5. held = HeldOf(r, Key(l)) \cup {Named(l)}
  BY <1>3 DEF Held, HeldOf
<1>6. HeldOf(r, Key(l)) \subseteq NamedIn(r)
  BY <1>1, <1>2, QueuedOf DEF CallGood
<1> HIDE DEF held
<1>7. files' \subseteq Objects /\ files \ files' \subseteq NamedIn(r)
  BY <1>1, <1>2, <1>4, <1>5, <1>6
<1>8. MayDelete(r) = NamedIn(r)
  BY <1>1 DEF MayDelete
<1>9. StorageInv'
  BY <1>1, <1>3, <1>7, FailKeeps
<1> QED
  BY <1>1, <1>7, <1>8, <1>9, ByCall

LEMMA OperatorsStay ==
  ASSUME StorageInv, UNCHANGED <<vended, chosen, operators>>
  PROVE  OperatorsFit'
BY DEF StorageInv, OperatorsFit

LEMMA EndOfStreamKeeps ==
  ASSUME StorageInv, NEW c \in Calls, EndOfStream(c)
  PROVE  StorageInv' /\ DeletesNamed
<1> DEFINE r == call[c]
           u == [r EXCEPT !.phase = IF r.queue = <<>> THEN "done" ELSE "close"]
<1>1. /\ r.kind = "delete" /\ r.phase = "run" /\ r.todo = <<>> /\ call' = [call EXCEPT ![c] = u]
      /\ UNCHANGED <<vended, chosen, operators, files>>
  BY DEF EndOfStream, CallAt
<1>2. CallGood(r, vended) /\ RecordOfCall(r) /\ files \subseteq Objects
  BY <1>1, RunningCall
<1>3. /\ RecordOfCall(u) /\ u.phase = (IF r.queue = <<>> THEN "done" ELSE "close")
      /\ u.kind = r.kind /\ u.storage = r.storage /\ u.stream = r.stream /\ u.todo = r.todo
      /\ u.queue = r.queue /\ u.at = r.at /\ u.via = r.via /\ u.gone = r.gone
  BY <1>2 DEF RecordOfCall, FieldsOfCall
<1> HIDE DEF u
<1>4. u.phase = "done" => DOMAIN u.queue = {}
  BY <1>3, NoElements
<1>5. CallGood(u, vended)
  BY <1>1, <1>2, <1>3, <1>4 DEF CallGood, Served, Queued, NamedIn
<1> QED
  BY <1>1, <1>2, <1>5, OneCall, OperatorsStay, DeletesNothing

LEMMA CloseKeeps ==
  ASSUME StorageInv, NEW c \in Calls, NEW key \in DOMAIN call[c].queue, Close(c, key)
  PROVE  StorageInv' /\ DeletesNamed
<1> DEFINE r == call[c]
           sent == r.queue[key]
           rest == Without(r.queue, key)
           u == [r EXCEPT !.queue = rest, !.gone = r.gone \cup sent,
                          !.phase = IF rest = <<>> THEN "done" ELSE "close"]
<1>1. /\ r.kind = "delete" /\ r.phase = "close" /\ files' = files \ sent
      /\ call' = [call EXCEPT ![c] = u] /\ UNCHANGED <<vended, chosen, operators>>
  BY DEF Close, CallAt
<1>2. CallGood(r, vended) /\ RecordOfCall(r) /\ files \subseteq Objects
  BY <1>1, RunningCall
<1>3. sent = HeldOf(r, key)
  BY DEF HeldOf
<1> HIDE DEF sent
<1>4. /\ RecordOfCall(u) /\ u.phase = (IF u.queue = <<>> THEN "done" ELSE "close")
      /\ u.kind = r.kind /\ u.storage = r.storage /\ u.stream = r.stream /\ u.todo = r.todo
      /\ u.queue = Without(r.queue, key) /\ u.at = r.at /\ u.via = r.via /\ u.gone = r.gone \cup sent
  <2> HIDE DEF rest
  <2>1. /\ RecordOfCall(u) /\ u.phase = (IF rest = <<>> THEN "done" ELSE "close")
        /\ u.kind = r.kind /\ u.storage = r.storage /\ u.stream = r.stream /\ u.todo = r.todo
        /\ u.queue = rest /\ u.at = r.at /\ u.via = r.via /\ u.gone = r.gone \cup sent
    BY <1>2 DEF RecordOfCall, FieldsOfCall
  <2> HIDE DEF u
  <2>2. rest = Without(r.queue, key)
    BY DEF rest
  <2> QED
    BY <2>1, <2>2
<1> HIDE DEF u
<1>5. u.phase = "done" => DOMAIN u.queue = {}
  BY <1>4, NoElements
<1>6. Queued(u) = Others(r, key) /\ Queued(r) = sent \cup Others(r, key)
  BY <1>3, <1>4, QueuedWithout, QueuedOf
<1>7. /\ Queued(r) \subseteq NamedIn(r) /\ r.todo = <<>>
      /\ \A x \in Elements(r.stream) : x \in Elements(r.todo) \/ Named(x) \in r.gone \cup Queued(r)
  BY <1>1, <1>2 DEF CallGood
<1>8. /\ Queued(u) \subseteq NamedIn(r) /\ sent \subseteq NamedIn(r)
      /\ \A x \in Elements(r.stream) : x \in Elements(r.todo) \/ Named(x) \in u.gone \cup Queued(u)
  BY <1>4, <1>6, <1>7
<1>9. NamedIn(u) = NamedIn(r)
  BY <1>4 DEF NamedIn
<1>10. CallGood(u, vended)
  BY <1>1, <1>2, <1>4, <1>5, <1>7, <1>8, <1>9 DEF CallGood, Served
<1>11. files' \subseteq Objects /\ files \ files' \subseteq MayDelete(r)
  BY <1>1, <1>2, <1>8 DEF MayDelete
<1> QED
  BY <1>1, <1>10, <1>11, OneCall, OperatorsStay, ByCall

LEMMA CloseFailsKeeps ==
  ASSUME StorageInv, NEW c \in Calls, NEW key \in DOMAIN call[c].queue, CloseFails(c, key)
  PROVE  StorageInv' /\ DeletesNamed
<1> DEFINE r == call[c]
<1>1. /\ r.kind = "delete" /\ r.phase = "close" /\ Fail(c) /\ UNCHANGED <<vended, chosen, operators>>
      /\ \E part \in SUBSET r.queue[key] : files' = files \ part
  BY DEF CloseFails, CallAt
<1>2. CallGood(r, vended) /\ files \subseteq Objects
  BY <1>1, RunningCall
<1>3. r.queue[key] \subseteq NamedIn(r)
  <2>1. Queued(r) \subseteq NamedIn(r) /\ r.queue[key] = HeldOf(r, key)
    BY <1>1, <1>2 DEF CallGood, HeldOf
  <2> QED
    BY <2>1, QueuedOf
<1>4. files' \subseteq Objects /\ files \ files' \subseteq MayDelete(r)
  BY <1>1, <1>2, <1>3 DEF MayDelete
<1>5. StorageInv'
  BY <1>1, <1>4, OperatorsStay, FailKeeps
<1> QED
  BY <1>1, <1>4, <1>5, ByCall

-----------------------------------------------------------------------------

LEMMA OpenKeeps ==
  ASSUME StorageInv, NEW c \in Calls, Open(c)
  PROVE  StorageInv' /\ DeletesNamed
<1> DEFINE r == call[c]
           l == Head(r.todo)
           w == Use(c, l)
           u == [w EXCEPT !.phase = "close"]
<1>1. /\ r.kind = "write" /\ r.phase = "run" /\ Resolves(c, l) /\ call' = [call EXCEPT ![c] = u]
      /\ UNCHANGED <<vended, chosen, files>>
  BY DEF Open, CallAt
<1>2. CallGood(r, vended) /\ files \subseteq Objects
      /\ r.storage \in Storages /\ vended[r.storage] # Absent
  BY <1>1, RunningCall
<1>3. r.todo # <<>>
  BY <1>1, <1>2 DEF CallGood
<1>4. OperatorsFit' /\ l # Absent
  BY <1>1, ResolvedHere
<1>5. /\ l \in Locations /\ Tail(r.todo) \in Seq(Locations \cup {Absent})
      /\ Elements(Tail(r.todo)) \subseteq Elements(r.stream)
  BY <1>2, <1>3, <1>4, NextLocation
<1>6. /\ RecordOfCall(w) /\ w.kind = r.kind /\ w.storage = r.storage /\ w.stream = r.stream
      /\ w.todo = Tail(r.todo) /\ w.at = l /\ w.via = OperatorFor(vended[r.storage], l.scheme, l.authority)
  BY <1>1, <1>3, UseGood
<1> HIDE DEF w
<1>7. /\ RecordOfCall(u) /\ u.kind = "write" /\ u.phase = "close" /\ u.storage = r.storage
      /\ u.stream = r.stream /\ u.todo = Tail(r.todo) /\ u.at = l
      /\ u.via = OperatorFor(vended[r.storage], l.scheme, l.authority)
  BY <1>1, <1>6 DEF RecordOfCall, FieldsOfCall
<1> HIDE DEF u
<1>8. CallGood(u, vended)
  BY <1>2, <1>5, <1>7 DEF CallGood, Served
<1> QED
  BY <1>1, <1>2, <1>4, <1>8, OneCall, DeletesNothing

(* What a writer counts is not what the invariant is about.                *)
LEMMA WriterGood ==
  ASSUME NEW r, NEW v, NEW u, CallGood(r, v), r.kind = "write", r.phase = "close",
         RecordOfCall(u), u.phase \in {"close", "done", "failed"},
         u.kind = r.kind, u.storage = r.storage, u.stream = r.stream, u.todo = r.todo,
         u.at = r.at, u.via = r.via
  PROVE  CallGood(u, v)
BY DEF CallGood, Served

LEMMA WriteKeeps ==
  ASSUME StorageInv, NEW c \in Calls, NEW n \in 1..MaxBytes, Write(c, n)
  PROVE  StorageInv' /\ DeletesNamed
<1> DEFINE r == call[c]
           w(given, stored) == [r EXCEPT !.given = given, !.stored = stored]
<1>1. /\ r.kind = "write" /\ r.phase = "close" /\ UNCHANGED <<vended, chosen, operators, files>>
      /\ \/ call' = [call EXCEPT ![c].given = @ + n, ![c].stored = @ + n]
         \/ \E m \in {0, n} : call' = [call EXCEPT ![c].stored = @ + m]
  BY DEF Write, CallAt
<1>2. CallGood(r, vended) /\ RecordOfCall(r) /\ files \subseteq Objects
  BY <1>1, RunningCall
<1>3. \E given, stored : call' = [call EXCEPT ![c] = w(given, stored)]
  <2>1. CASE call' = [call EXCEPT ![c].given = @ + n, ![c].stored = @ + n]
    <3>1. call' = [call EXCEPT ![c] = w(r.given + n, r.stored + n)]
      BY <2>1
    <3> QED
      BY <3>1
  <2>2. ASSUME NEW m \in {0, n}, call' = [call EXCEPT ![c].stored = @ + m]
        PROVE  call' = [call EXCEPT ![c] = w(r.given, r.stored + m)]
    <3>1. [r EXCEPT !.stored = r.stored + m] = w(r.given, r.stored + m)
      BY <1>2 DEF RecordOfCall, FieldsOfCall
    <3> QED
      BY <2>2, <3>1
  <2> QED
    BY <1>1, <2>1, <2>2
<1>4. PICK given, stored : call' = [call EXCEPT ![c] = w(given, stored)]
  BY <1>3
<1> DEFINE u == w(given, stored)
<1>5. /\ RecordOfCall(u) /\ u.kind = r.kind /\ u.phase = r.phase /\ u.storage = r.storage
      /\ u.stream = r.stream /\ u.todo = r.todo /\ u.at = r.at /\ u.via = r.via
  BY <1>2 DEF RecordOfCall, FieldsOfCall
<1>6. call' = [call EXCEPT ![c] = u]
  BY <1>4
<1> HIDE DEF u
<1>7. CallGood(u, vended)
  BY <1>1, <1>2, <1>5, WriterGood
<1> QED
  BY <1>1, <1>2, <1>6, <1>7, OneCall, OperatorsStay, DeletesNothing

LEMMA CloseWriterKeeps ==
  ASSUME StorageInv, NEW c \in Calls, CloseWriter(c)
  PROVE  StorageInv' /\ DeletesNamed
<1> DEFINE r == call[c]
<1>1. PICK reported : call' = [call EXCEPT ![c].reported = reported,
                            ![c].phase = IF SizeAgrees(c, reported) THEN "done" ELSE "failed"]
  BY DEF CloseWriter
<1>2. /\ r.kind = "write" /\ r.phase = "close" /\ files' = files \cup {Target(r.via, r.at)}
      /\ UNCHANGED <<vended, chosen, operators>>
  BY DEF CloseWriter, CallAt
<1>3. CallGood(r, vended) /\ RecordOfCall(r) /\ files \subseteq Objects
  BY <1>2, RunningCall
<1> DEFINE phase == IF SizeAgrees(c, reported) THEN "done" ELSE "failed"
<1>4. phase \in {"done", "failed"}
  OBVIOUS
<1> HIDE DEF phase
<1> DEFINE u == [r EXCEPT !.reported = reported, !.phase = phase]
<1>5. call' = [call EXCEPT ![c] = u]
  BY <1>1 DEF phase
<1>6. /\ RecordOfCall(u) /\ u.kind = r.kind /\ u.phase = phase /\ u.storage = r.storage
      /\ u.stream = r.stream /\ u.todo = r.todo /\ u.at = r.at /\ u.via = r.via
  BY <1>3 DEF RecordOfCall, FieldsOfCall
<1> HIDE DEF u
<1>7. CallGood(u, vended)
  BY <1>2, <1>3, <1>4, <1>6, WriterGood
<1>8. files' \subseteq Objects
  <2>1. r.at \in Locations /\ Served(r, vended[r.storage])
    BY <1>2, <1>3 DEF CallGood
  <2>2. Target(r.via, r.at) = Named(r.at)
    BY <2>1, TargetNamed DEF Served
  <2> QED
    BY <1>2, <1>3, <2>1, <2>2, NamedObject
<1> QED
  BY <1>2, <1>5, <1>7, <1>8, OneCall, OperatorsStay DEF DeletesNamed

LEMMA CloseWriterFailsKeeps ==
  ASSUME StorageInv, NEW c \in Calls, CloseWriterFails(c)
  PROVE  StorageInv' /\ DeletesNamed
<1>1. /\ call[c].phase = "close" /\ Fail(c) /\ UNCHANGED <<vended, chosen, operators, files>>
  BY DEF CloseWriterFails, CallAt
<1>2. files' \subseteq Objects
  BY <1>1 DEF StorageInv
<1> QED
  BY <1>1, <1>2, OperatorsStay, FailKeeps, DeletesNothing

(* StorageInv holds at the start ...                                       *)
LEMMA StorageStarts == StorageInit => StorageInv
<1> SUFFICES ASSUME StorageInit PROVE StorageInv
  OBVIOUS
<1>1. ChosenAsDocumented
  BY DEF StorageInit, ChosenAsDocumented, Credentials
<1>2. OperatorsFit
  BY NoElements DEF StorageInit, OperatorsFit
<1>3. files \subseteq Objects
  BY NamedObject DEF StorageInit
<1>4. /\ RecordOfCall(NoCall) /\ NoCall.kind = "none" /\ NoCall.phase = "idle" /\ NoCall.via = Absent
      /\ NoCall.todo = <<>>
  BY DEF NoCall, RecordOfCall, FieldsOfCall
<1>5. Elements(NoCall.todo) = {} /\ <<>> \in Seq(Locations \cup {Absent})
  BY <1>4, NoElements
<1>6. CallGood(NoCall, vended)
  BY <1>4, <1>5 DEF CallGood
<1> QED
  BY <1>1, <1>2, <1>3, <1>6 DEF StorageInit, StorageInv

(* ... and every step keeps it, and deletes only what was named.           *)
LEMMA StorageSteps ==
  ASSUME StorageInv, [StorageNext]_storageVars
  PROVE  StorageInv' /\ DeletesNamed
<1>1. CASE UNCHANGED storageVars
  <2>1. UNCHANGED <<vended, chosen, operators, files, call>>
    BY <1>1 DEF storageVars
  <2>2. ChosenAsDocumented' /\ OperatorsFit' /\ files' \subseteq Objects
    BY <2>1 DEF StorageInv, ChosenAsDocumented, OperatorsFit
  <2>3. \A c \in Calls : CallGood(call[c], vended)'
    BY <2>1 DEF StorageInv
  <2> QED
    BY <2>1, <2>2, <2>3, DeletesNothing DEF StorageInv
<1>2. ASSUME NEW s \in Storages, Build(s) PROVE StorageInv' /\ DeletesNamed
  BY <1>2, Built, DeletesNothing DEF Build
<1>3. ASSUME NEW c \in Calls, CallStep(c) PROVE StorageInv' /\ DeletesNamed
  BY <1>3, RefusedKeeps, AccessKeeps, QueueKeeps, QueueFailsKeeps, EndOfStreamKeeps, OpenKeeps,
     CloseWriterKeeps, RequestFailsKeeps, CloseWriterFailsKeeps, CloseKeeps, CloseFailsKeeps DEF CallStep
<1> QED
  BY <1>1, <1>2, <1>3, StartKeeps, WriteKeeps DEF StorageNext

LEMMA StorageImplies == StorageInv => ServedAsConfigured /\ StreamDeleted
<1> SUFFICES ASSUME StorageInv PROVE ServedAsConfigured /\ StreamDeleted
  OBVIOUS
<1>1. ASSUME NEW c \in Calls, call[c].via # Absent
      PROVE  call[c].via = [backend |-> Backend(call[c].at.scheme), authority |-> call[c].at.authority,
                   credentials |-> Documented(call[c].storage, Backend(call[c].at.scheme))]
  <2>1. Served(call[c], vended[call[c].storage])
    BY <1>1 DEF StorageInv, CallGood
  <2> QED
    BY <2>1 DEF Served, OperatorFor, DocumentedFor, Documented
<1>2. ASSUME NEW c \in Calls, CallAt(c, "delete", "done"), NEW i \in DOMAIN call[c].stream
      PROVE  Named(call[c].stream[i]) \in call[c].gone
  <2> DEFINE r == call[c]
  <2>1. r.kind = "delete" /\ r.phase = "done" /\ CallGood(r, vended)
    BY <1>2 DEF CallAt, StorageInv
  <2>2. /\ \A l \in Elements(r.stream) : l \in Elements(r.todo) \/ Named(l) \in r.gone \cup Queued(r)
        /\ r.todo = <<>> /\ DOMAIN r.queue = {}
    BY <2>1 DEF CallGood
  <2>3. Queued(r) = {} /\ Elements(r.todo) = {}
    BY <2>2, NoElements DEF Queued
  <2>4. r.stream[i] \in Elements(r.stream)
    BY DEF Elements
  <2> QED
    BY <2>2, <2>3, <2>4
<1> QED
  BY <1>1, <1>2 DEF ServedAsConfigured, StreamDeleted

LEMMA StorageAlways == StorageSpec => []StorageInv
<1>1. StorageInv /\ [StorageNext]_storageVars => StorageInv'
  BY StorageSteps
<1> QED
  BY StorageStarts, <1>1, PTL DEF StorageSpec

(* For any number of storages, calls and locations, whatever was cached    *)
(* before: an operator that serves a location is of its backend and        *)
(* authority, with the credentials that the docs' order gives              *)
(* (resolve, resolve_credentials).                                         *)
THEOREM StoreServedAsConfigured == StorageSpec => []ServedAsConfigured
<1>1. StorageInv => ServedAsConfigured
  BY StorageImplies
<1> QED
  BY StorageAlways, <1>1, PTL

(* No step deletes what no running call has named, and a delete stream     *)
(* that succeeds has deleted all it named, for any streams, sizes of       *)
(* batches and orders in which deleters are closed or fail                 *)
(* (delete_stream, delete_prefix).                                         *)
THEOREM StoreDeletesExactly == StorageSpec => DeletesExactly
<1>1. StorageInv /\ [StorageNext]_storageVars =>
        [DeletesNamed /\ StreamDeleted']_storageVars
  <2> SUFFICES ASSUME StorageInv, [StorageNext]_storageVars PROVE DeletesNamed /\ StreamDeleted'
    OBVIOUS
  <2>1. DeletesNamed /\ StorageInv'
    BY StorageSteps
  <2>2. (StorageInv => StreamDeleted)'
    BY StorageImplies, PTL
  <2> QED
    BY <2>1, <2>2
<1> QED
  BY StorageAlways, <1>1, PTL DEF StorageSpec, DeletesExactly, DeletesNamed

=============================================================================
