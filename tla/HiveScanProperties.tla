------------------------- MODULE HiveScanProperties -------------------------
(* What scans of shared stores through a shared cache must return.         *)
EXTENDS HiveScan

(* A scan returns, for each partition it selected, only files that have    *)
(* been visible at the location of that partition, with its values: never  *)
(* those of another partition, table or store.                             *)
NoForeignFiles ==
  \A q \in Queries : At(q, "done") => \A o \in scan[q].out :
    o.file \in ever[UnitLocation[o.of]] /\ o.values = o.of

(* A scan that succeeds misses no file that was there all along, although  *)
(* listings arrive in pages, fail half way, and are shared.                *)
NoLostFiles ==
  \A q \in Queries : At(q, "done") => \A u \in Selected(q) :
    always[UnitLocation[u]] \subseteq {o.file : o \in {x \in scan[q].out : x.of = u}}

(* A scan lists a store that is registered and was built with the storage  *)
(* block that the catalog of some scanned table of that store has for it:  *)
(* never with the block of another scheme or bucket, and with the one its  *)
(* own catalog configures where the catalogs that share the store agree.   *)
StoresBuiltForScans ==
  \A q \in Queries : At(q, "list") =>
    LET store == TableStore[scan[q].table] IN
    /\ RegistryKey(store) \in DOMAIN registry
    /\ \E p \in Queries :
         /\ ~At(p, "idle")
         /\ TableStore[scan[p].table] = store
         /\ registry[RegistryKey(store)] = BlockOf(scan[p].table)

(* What storage.md says of it: "A configured block always wins over that   *)
(* chain", the backend's own (None).                                       *)
ConfiguredBlockWins ==
  \A q \in Queries : At(q, "list") /\ BlockOf(scan[q].table) # None =>
    registry[RegistryKey(TableStore[scan[q].table])] # None

(* Every scan comes to an end, whatever its listings meet.                 *)
EveryScanEnds ==
  \A q \in Queries : scan[q].phase \in {"register", "list"} ~> scan[q].phase \in {"done", "failed"}

=============================================================================
