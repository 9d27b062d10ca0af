SPECIFICATION FairStorageSpec
CONSTANTS
  Storages = {s1, s2}
  Calls = {c1, c2}
  Configured = {"s3"}
  Responses <- SomeResponses
  Locations <- SomeLocations
  Undecodable = {"%FF"}
  Decoded <- SomeDecoded
  Below <- SomeBelow
  Streams <- SomeStreams
  Batch = 2
  MaxBytes = 2
  Absent = Absent
INVARIANTS
  ServedAsConfigured
PROPERTIES
  EveryCallEnds
  DeletesExactly
\* Calls end, and tables are loaded once.
CHECK_DEADLOCK FALSE
