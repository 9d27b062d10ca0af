------------------------- MODULE TableDdlProperties -------------------------
(* What the statements of concurrent sessions may do to each other's       *)
(* tables.                                                                 *)
EXTENDS TableDdl

(* The rows of a CTAS go only into the table it created itself, unless     *)
(* that table has been dropped meanwhile: CREATE TABLE IF NOT EXISTS       *)
(* leaves a table it finds unchanged, however late it finds it.            *)
NoStrayRows ==
  \A t \in Tables : tables[t] # None => \A w \in tables[t].writers :
    Kind(w) \in {"insert", "overwrite"} \/ w = tables[t].by \/ w \in dropped

(* When a CTAS that was not skipped reports success, the table it created  *)
(* is there and holds its rows, unless that table was dropped meanwhile,   *)
(* whatever others have inserted or overwritten between its CREATE and its *)
(* INSERT.                                                                 *)
CreatedMeansFilled ==
  [][\A s \in Statements :
       ~At(s, "done") /\ At(s, "done")' /\ Kind(s) = "ctas" /\ s \notin dropped' =>
         /\ tables'[Target(s)] # None
         /\ tables'[Target(s)].by = s
         /\ s \in tables'[Target(s)].writers]_vars

(* The rows in a table fit its columns, although the source of a CTAS may  *)
(* have been replaced after its columns were read, unless the target was   *)
(* replaced after the INSERT was planned.                                  *)
RowsFitColumns ==
  \A t \in Tables : tables[t] # None => \A w \in tables[t].writers :
    run[w].into = tables[t].by => <<run[w].rows, tables[t].columns>> \in Fits

(* A table goes away, or is replaced, by DROP only: what a failing or      *)
(* abandoned statement has created stays (paimon.md: "an INSERT failure    *)
(* does not undo table creation").  The rows of a commit go with their     *)
(* table, or all at once as those of an INSERT OVERWRITE come: one that    *)
(* fails or is abandoned takes no rows away.                               *)
TablesStayUntilDropped ==
  [][\A t \in Tables : tables[t] # None =>
       \/ tables[t].by \in dropped' /\ tables'[t] = None
       \/ /\ tables'[t] # None
          /\ tables'[t].by = tables[t].by
          /\ tables'[t].columns = tables[t].columns
          /\ \/ tables[t].writers \subseteq tables'[t].writers
             \/ \E s \in tables'[t].writers \ tables[t].writers :
                  Kind(s) = "overwrite" /\ At(s, "done")']_vars

(* Every statement that is started ends, whatever the others do.           *)
EveryStatementEnds ==
  \A s \in Statements : run[s].phase \in Running ~> run[s].phase \notin Running

=============================================================================
