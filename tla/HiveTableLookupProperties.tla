---------------------- MODULE HiveTableLookupProperties ----------------------
(* What looking up a table promises.                                       *)
EXTENDS HiveTableLookup

Found == In("found")

(* A table is read by the engine of the format it was written in; one in a *)
(* format without an engine is never read as a plain Hive table            *)
(* (TableFormatDetector::detect), and a metadata table only where its      *)
(* format has it (the factories).                                          *)
Available ==
  {<<"hive", "data_files">>, <<"hive", "partitions">>, <<"iceberg", "snapshots">>,
   <<"iceberg", "history">>}
  \cup {<<"paimon", m>> : m \in {"data_files", "partitions", "snapshots", "tags"}}
ReadAsWritten ==
  Found => /\ lookup.seen.kind = lookup.format
           /\ lookup.meta # None => <<lookup.format, lookup.meta>> \in Available

(* The provider of a Hive table has the partitions there were all the time *)
(* since its table was read, none twice, and none there was not: those of  *)
(* Glue over any number of pages, those of a metastore only if its one     *)
(* answer holds them (get_partitions).                                     *)
PartitionsKept ==
  Found => /\ lookup.got \subseteq lookup.ever
           /\ \A p, q \in lookup.got : p.id = q.id => p = q
           /\ /\ lookup.format = "hive"
              /\ lookup.source = "hms" => Cardinality(lookup.ever) <= MaxParts
              => lookup.always \subseteq lookup.got

=============================================================================
