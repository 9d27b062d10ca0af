----------------------- MODULE MC_StatisticsManager ------------------------
(* Model checking of the statistics cache on small instances.              *)
EXTENDS StatisticsManagerProperties

(* One batch of columns more than are requested at a time.                 *)
TwoBatches == [t \in Tables |-> 2]

=============================================================================
