------------------------- MODULE MC_HiveTableLookup -------------------------
(* Model checking of table lookups: three partitions, in pages of two.     *)
EXTENDS HiveTableLookupProperties
=============================================================================
