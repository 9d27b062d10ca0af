---------------------------- MODULE MC_HiveScan ----------------------------
(* Model checking of Hive scans: a table of two partitions and one without *)
(* share a bucket, for which only the catalog of the first has a storage   *)
(* block, and a third table is in a bucket of the same name elsewhere.     *)
EXTENDS HiveScanProperties, TLC

CONSTANTS parts, plain, far, p1, p2, r, u, v, hms, glue, f, g, hidden, kept, keyless

S3  == [scheme |-> "s3", authority |-> "bucket"]
OSS == [scheme |-> "oss", authority |-> "bucket"]
BothStores == {S3, OSS}

OwnRoots == (parts :> r) @@ (plain :> u) @@ (far :> v)
TwoPartitions == (parts :> {p1, p2}) @@ (plain :> {}) @@ (far :> {})
TwoCatalogs == (parts :> hms) @@ (plain :> glue) @@ (far :> glue)
TwoBlocks == (hms :> [s3 |-> kept, oss |-> None]) @@ (glue :> [s3 |-> None, oss |-> keyless])
TheStores == (parts :> S3) @@ (plain :> S3) @@ (far :> OSS)
OwnPlaces ==
  (p1 :> [store |-> S3, path |-> "p=1"]) @@ (p2 :> [store |-> S3, path |-> "p=2"])
  @@ (r :> [store |-> S3, path |-> "t"]) @@ (u :> [store |-> S3, path |-> "u"])
  @@ (v :> [store |-> OSS, path |-> "v"])
SomeFiles == [l \in Places |-> IF l.path = "p=1" THEN {f, hidden} ELSE {g}]
TwoPages == (f :> 1) @@ (g :> 2) @@ (hidden :> 1)
Changing == {<<OwnPlaces[p1], g>>}

(* The same path below two stores.                                         *)
SamePaths == [OwnPlaces EXCEPT ![v].path = "p=1"]
FilesByStore == [l \in Places |-> IF l.store = S3 THEN {f, hidden} ELSE {g}]

=============================================================================
