------------------------- MODULE MC_IcebergStorage -------------------------
(* Model checking of the file access of Iceberg tables: one name for the   *)
(* buckets of two backends, a path and the prefix it is below.             *)
EXTENDS IcebergStorage, TLC

At3(scheme, path) == [scheme |-> scheme, authority |-> "b", path |-> path]

SomeLocations ==
  {At3("s3", "d"), At3("s3a", "d%2Fx"), At3("oss", "d/x"), At3("s3", "%FF"), At3("gcs", "d")}
SomeDecoded == ("d" :> "d") @@ ("d%2Fx" :> "d/x") @@ ("d/x" :> "d/x") @@ ("%FF" :> "%FF")
SomeBelow == ("d" :> {"d/x"}) @@ ("d/x" :> {}) @@ ("%FF" :> {})

SomeStreams ==
  {<<>>, <<At3("s3a", "d%2Fx")>>, <<At3("gcs", "d")>>, <<At3("s3", "%FF")>>,
   <<At3("s3", "d"), At3("oss", "d/x")>>, <<At3("oss", "d/x"), Absent>>}

SomeResponses ==
  {[s3 |-> {}, oss |-> {"id", "secret"}], [s3 |-> {"id", "secret"}, oss |-> {"id"}]}

=============================================================================
