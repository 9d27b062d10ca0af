--------------------------- MODULE TableDdlProofs ---------------------------
(***************************************************************************)
(* The safety of TableDdl for any statements, tables and layouts.  The     *)
(* names a CTAS uses may come to mean other tables while it runs, so the   *)
(* invariant follows the creator of a table: a statement creates at most   *)
(* once (Past), it holds its own table until somebody drops it (Owner),    *)
(* and an INSERT that is planned fits the table it was planned for         *)
(* (Planned).                                                              *)
(*                                                                         *)
(* And what single statements do, each for any input: a CALL asks for the  *)
(* table it names (ProcedureCalls), and a CREATE TABLE builds what it      *)
(* declares (PaimonSchema).                                                *)
(***************************************************************************)
EXTENDS TableDdlProperties, ProcedureCalls, PaimonSchema, FiniteSetTheorems, SequenceTheorems, TLAPS

(* The statement can create no more table.                                 *)
Past(s) == run[s].phase \notin {"new", "plan", "create"}

Holds(s) == /\ tables[Target(s)] # None
            /\ tables[Target(s)].by = s

TextKnown(s) ==
  /\ run[s].phase # "new" => run[s].text \in Text
  /\ At(s, "create") => run[s].columns \in Layouts

Owner(s) ==
  run[s].phase \in {"replan", "execute"} /\ Kind(s) = "ctas" => s \in dropped \/ Holds(s)

Queried(s) == run[s].phase \in {"replan", "execute"} => Kind(s) \in Queries

Into(s) == run[s].into \in Statements => Past(run[s].into)

Planned(s) ==
  At(s, "execute") =>
    /\ run[s].into \in Creator
    /\ tables[Target(s)] # None /\ run[s].into = tables[Target(s)].by
         => <<run[s].rows, tables[Target(s)].columns>> \in Fits

TablePast(t) ==
  tables[t] # None =>
    /\ tables[t].by \in Statements => Past(tables[t].by)
    /\ \A w \in tables[t].writers : At(w, "done")

IInv ==
  /\ TypeOK
  /\ \A s \in Statements : TextKnown(s) /\ Owner(s) /\ Queried(s) /\ Into(s) /\ Planned(s)
  /\ \A t \in Tables : TablePast(t)
  /\ NoStrayRows
  /\ RowsFitColumns

-----------------------------------------------------------------------------

(* At the start there are only the founder's empty tables.                 *)
LEMMA InitGood == Init => IInv
<1> SUFFICES ASSUME Init PROVE IInv
  OBVIOUS
<1>1. \A s \in Statements : run[s] = New /\ run[s].phase = "new" /\ run[s].into = None
  BY DEF Init, New
<1>2. \A t \in Tables : tables[t] = None
        \/ tables[t] \in [by : {Founder}, columns : Layouts, writers : {{}}]
  BY DEF Init
<1>3. TypeOK
  <2>1. New \in Run
    BY DEF New, Run
  <2>2. tables \in [Tables -> Stored \cup {None}]
    BY DEF Init, Stored, Creator
  <2> QED
    BY <2>1, <2>2 DEF Init, TypeOK
<1>4. \A s \in Statements : TextKnown(s) /\ Owner(s) /\ Queried(s) /\ Planned(s)
  BY <1>1 DEF TextKnown, Owner, Queried, Planned, At
<1>5. \A s \in Statements : Into(s)
  BY <1>1, NoneAssumption DEF Into
<1>6. \A t \in Tables : TablePast(t)
  BY <1>2, FounderAssumption DEF TablePast
<1>7. NoStrayRows /\ RowsFitColumns
  BY <1>2 DEF NoStrayRows, RowsFitColumns
<1> QED
  BY <1>3, <1>4, <1>5, <1>6, <1>7 DEF IInv

(* A step of one statement that is not done: what it holds on to of the    *)
(* others, and of the tables whose rows and creators are past their own.   *)
LEMMA Others ==
  ASSUME IInv, NEW s \in Statements, NEW r \in Run,
         run' = [run EXCEPT ![s] = r], ~At(s, "done"),
         Past(s) => r.phase \notin {"new", "plan", "create"}
  PROVE  /\ run' \in [Statements -> Run]
         /\ run'[s] = r
         /\ \A q \in Statements : q # s => run'[q] = run[q]
         /\ \A q \in Statements : Past(q) => Past(q)'
         /\ \A t \in Tables : tables[t] # None =>
              tables[t] \in Stored /\ \A w \in tables[t].writers : w \in Statements /\ w # s
<1>1. run \in [Statements -> Run] /\ tables \in [Tables -> Stored \cup {None}]
  BY DEF IInv, TypeOK
<1>2. run' \in [Statements -> Run] /\ run'[s] = r /\ \A q \in Statements : q # s => run'[q] = run[q]
  BY <1>1
<1>3. \A q \in Statements : Past(q) => Past(q)'
  BY <1>2 DEF Past
<1>4. \A t \in Tables : tables[t] # None =>
        tables[t] \in Stored /\ \A w \in tables[t].writers : w \in Statements /\ At(w, "done")
  BY <1>1 DEF IInv, TablePast, Stored
<1> QED
  BY <1>2, <1>3, <1>4

(* A step that leaves the tables alone keeps the invariant when it keeps   *)
(* what is said of the one statement it moves, unless that was done or     *)
(* starts over.                                                            *)
LEMMA QuietStep ==
  ASSUME IInv, NEW s \in Statements, NEW r \in Run,
         run' = [run EXCEPT ![s] = r], UNCHANGED <<tables, dropped>>, exists' \in BOOLEAN,
         ~At(s, "done"), Past(s) => r.phase \notin {"new", "plan", "create"},
         TextKnown(s)', Owner(s)', Queried(s)', Planned(s)',
         r.into \in Statements => Past(r.into)
  PROVE  IInv'
<1>1. /\ run' \in [Statements -> Run]
      /\ run'[s] = r
      /\ \A q \in Statements : q # s => run'[q] = run[q]
      /\ \A q \in Statements : Past(q) => Past(q)'
      /\ \A t \in Tables : tables[t] # None =>
           tables[t] \in Stored /\ \A w \in tables[t].writers : w \in Statements /\ w # s
  BY Others
<1>2. TypeOK'
  BY <1>1 DEF IInv, TypeOK
<1>3. \A q \in Statements : (TextKnown(q) /\ Owner(q) /\ Queried(q) /\ Planned(q))'
  BY <1>1 DEF IInv, TextKnown, Owner, Queried, Planned, Holds, At, Kind, Target
<1>4. \A q \in Statements : Into(q)'
  BY <1>1 DEF IInv, Into
<1>5. \A t \in Tables : TablePast(t)'
  BY <1>1 DEF IInv, TablePast, At
<1>6. NoStrayRows'
  BY <1>1 DEF IInv, NoStrayRows, Kind
<1>7. RowsFitColumns'
  BY <1>1 DEF IInv, RowsFitColumns
<1> QED
  BY <1>2, <1>3, <1>4, <1>5, <1>6, <1>7 DEF IInv

(* A statement that ends without an effect.                                *)
LEMMA EndGood ==
  ASSUME IInv, NEW s \in Statements, NEW next \in {"skipped", "failed", "done"},
         run[s].phase \in Running, next = "done" => At(s, "call"), Goto(s, next),
         UNCHANGED <<tables, dropped>>, exists' \in BOOLEAN
  PROVE  IInv'
<1> DEFINE r == [run[s] EXCEPT !.phase = next]
<1>1. run[s] \in Run /\ TextKnown(s) /\ Into(s)
  BY DEF IInv, TypeOK
<1>2. /\ r \in Run /\ r.phase = next /\ r.text = run[s].text /\ r.into = run[s].into
      /\ run' = [run EXCEPT ![s] = r]
  BY <1>1 DEF Run, Goto
<1>3. ~At(s, "done") /\ run[s].phase # "new"
  BY DEF At, Running
<1>4. run'[s] = r
  BY <1>2 DEF IInv, TypeOK
<1> HIDE DEF r
<1>5. TextKnown(s)' /\ Owner(s)' /\ Queried(s)' /\ Planned(s)'
  BY <1>1, <1>2, <1>3, <1>4 DEF TextKnown, Owner, Queried, Planned, At
<1> QED
  BY <1>1, <1>2, <1>3, <1>5, QuietStep DEF Into, Kind

(* Statements that start, or plan.                                         *)
LEMMA StartGood ==
  ASSUME IInv, NEW s \in Statements, NEW text \in Texts, NEW layout \in Layouts,
         Start(s, text, layout)
  PROVE  IInv'
<1> DEFINE r == [run[s] EXCEPT !.phase = FirstPhase(text.kind), !.text = text,
                   !.columns = IF text.kind = "create" THEN layout ELSE None]
<1>1. run[s] \in Run /\ Into(s) /\ run[s].phase = "new" /\ text \in Text
  BY TextsAssumption DEF IInv, TypeOK, Start, At
<1>2. text.kind \in Kinds
  BY <1>1 DEF Text
<1>3. /\ FirstPhase(text.kind) \in {"plan", "create", "replan", "call"}
      /\ FirstPhase(text.kind) = "replan" => text.kind \in {"insert", "overwrite"}
      /\ FirstPhase(text.kind) = "create" => text.kind = "create"
  BY <1>2 DEF FirstPhase, Kinds, Queries, Creators
<1>4. /\ r \in Run /\ r.phase = FirstPhase(text.kind) /\ r.text = text
      /\ r.into = run[s].into /\ (text.kind = "create" => r.columns = layout)
  BY <1>1, <1>3 DEF Run, Running
<1>5. run' = [run EXCEPT ![s] = r] /\ UNCHANGED <<exists, tables, dropped>>
  BY DEF Start
<1>6. run'[s] = r /\ ~At(s, "done") /\ ~Past(s)
  BY <1>1, <1>5 DEF IInv, TypeOK, At, Past
<1> HIDE DEF r
<1>7. TextKnown(s)' /\ Owner(s)' /\ Queried(s)' /\ Planned(s)'
  BY <1>1, <1>3, <1>4, <1>6 DEF TextKnown, Owner, Queried, Planned, At, Kind, Queries
<1> QED
  BY <1>1, <1>3, <1>4, <1>5, <1>6, <1>7, QuietStep DEF Into, IInv, TypeOK

LEMMA PlanGood ==
  ASSUME IInv, NEW s \in Statements, PlanSource(s) \/ Replan(s)
  PROVE  IInv'
<1>1. /\ run[s] \in Run /\ Into(s) /\ Owner(s) /\ Queried(s)
      /\ run[s].phase \in {"plan", "replan"} /\ run[s].text \in Text
  BY DEF IInv, TypeOK, PlanSource, Replan, ReplanWith, At, TextKnown
<1>2. Target(s) \in Tables /\ Source(s) \in Tables
  BY <1>1 DEF Target, Source, Text
<1>3. tables[Source(s)] # None => tables[Source(s)].columns \in Layouts
  BY <1>2 DEF IInv, TypeOK, Stored
<1>4. tables[Target(s)] # None => tables[Target(s)].by \in Creator /\ TablePast(Target(s))
  BY <1>2 DEF IInv, TypeOK, Stored
<1>5. UNCHANGED <<exists, tables, dropped>> /\ ~At(s, "done")
  BY <1>1 DEF PlanSource, Replan, ReplanWith, At
<1>6. CASE PlanSource(s)
  <2> DEFINE r == [run[s] EXCEPT !.phase = "create", !.columns = tables[Source(s)].columns]
  <2>1. /\ r \in Run /\ r.phase = "create" /\ r.text = run[s].text /\ r.into = run[s].into
        /\ r.columns \in Layouts
    BY <1>1, <1>3, <1>6 DEF Run, Running, PlanSource
  <2>2. run' = [run EXCEPT ![s] = r] /\ run'[s] = r /\ ~Past(s)
    BY <1>6 DEF PlanSource, IInv, TypeOK, At, Past
  <2> HIDE DEF r
  <2>3. TextKnown(s)' /\ Owner(s)' /\ Queried(s)' /\ Planned(s)'
    BY <1>1, <2>1, <2>2 DEF TextKnown, Owner, Queried, Planned, At
  <2> QED
    BY <1>1, <1>5, <2>1, <2>2, <2>3, QuietStep DEF Into, IInv, TypeOK
<1>7. CASE Replan(s)
  <2> DEFINE r == [run[s] EXCEPT !.phase = "execute", !.rows = tables[Source(s)].columns,
                                 !.into = tables[Target(s)].by]
  <2>1. /\ r \in Run /\ r.phase = "execute" /\ r.text = run[s].text
        /\ r.into = tables[Target(s)].by /\ r.rows = tables[Source(s)].columns
    BY <1>1, <1>3, <1>4, <1>7 DEF Run, Running, Replan, ReplanWith
  <2>2. /\ run' = [run EXCEPT ![s] = r] /\ run'[s] = r
        /\ run[s].phase = "replan" /\ tables[Target(s)] # None
        /\ <<tables[Source(s)].columns, tables[Target(s)].columns>> \in Fits
    BY <1>7 DEF Replan, ReplanWith, IInv, TypeOK, At
  <2> HIDE DEF r
  <2>3. TextKnown(s)' /\ Owner(s)' /\ Queried(s)' /\ Planned(s)'
    BY <1>1, <1>4, <1>5, <2>1, <2>2
    DEF TextKnown, Owner, Queried, Planned, At, Kind, Target, Holds
  <2> QED
    BY <1>4, <1>5, <2>1, <2>2, <2>3, QuietStep DEF TablePast, IInv, TypeOK
<1> QED
  BY <1>1, <1>6, <1>7

-----------------------------------------------------------------------------
(* The steps that change tables.                                           *)

(* A created table is new: its creator has created none before.            *)
LEMMA CreateGood ==
  ASSUME IInv, NEW s \in Statements, CreateTable(s)
  PROVE  IInv'
<1> DEFINE next == IF Kind(s) = "ctas" THEN "replan" ELSE "done"
           r == [run[s] EXCEPT !.phase = next]
           new == [by |-> s, columns |-> run[s].columns, writers |-> {}]
<1>1. /\ run[s] \in Run /\ Into(s) /\ At(s, "create") /\ run[s].text \in Text
      /\ run[s].columns \in Layouts
  BY DEF IInv, TypeOK, CreateTable, At, TextKnown
<1>2. Target(s) \in Tables
  BY <1>1 DEF Target, Text
<1>3. /\ r \in Run /\ r.phase = next /\ r.text = run[s].text /\ r.into = run[s].into
      /\ run' = [run EXCEPT ![s] = r]
  BY <1>1 DEF Run, Running, CreateTable, Goto
<1>4. /\ tables' = [tables EXCEPT ![Target(s)] = new] /\ dropped' = dropped
      /\ exists' = exists /\ tables[Target(s)] = None
  BY DEF CreateTable
<1>5. new \in Stored /\ new.by = s /\ new.columns \in Layouts /\ new.writers = {}
  BY <1>1 DEF Stored, Creator
<1>6. ~Past(s) /\ ~At(s, "done") /\ next \in {"replan", "done"} /\ (next = "done" <=> Kind(s) # "ctas")
  BY <1>1 DEF Past, At
<1> HIDE DEF r, new, next
<1>7. /\ run' \in [Statements -> Run]
      /\ run'[s] = r
      /\ \A q \in Statements : q # s => run'[q] = run[q]
      /\ \A q \in Statements : Past(q) => Past(q)'
      /\ \A t \in Tables : tables[t] # None =>
           tables[t] \in Stored /\ \A w \in tables[t].writers : w \in Statements /\ w # s
  BY <1>3, <1>6, Others
<1>8. /\ tables'[Target(s)] = new /\ new # None
      /\ \A t \in Tables : t # Target(s) => tables'[t] = tables[t]
  BY <1>2, <1>4, <1>5, NothingAssumption DEF IInv, TypeOK
<1>9. TypeOK'
  BY <1>4, <1>5, <1>7 DEF IInv, TypeOK
<1>10. \A q \in Statements : q # s => (TextKnown(q) /\ Queried(q) /\ Into(q))'
  BY <1>7 DEF IInv, TextKnown, Queried, Into, At, Kind
<1>11. (TextKnown(s) /\ Queried(s) /\ Into(s))'
  BY <1>1, <1>3, <1>6, <1>7 DEF TextKnown, Queried, Into, At, Kind, Queries
<1>12. \A q \in Statements : Owner(q)'
  <2>1. Owner(s)'
    BY <1>3, <1>5, <1>7, <1>8 DEF Owner, Holds, Target
  <2>2. ASSUME NEW q \in Statements, q # s PROVE Owner(q)'
    BY <1>4, <1>7, <1>8, <2>2 DEF IInv, Owner, Holds, Kind, Target
  <2> QED
    BY <2>1, <2>2
<1>13. \A q \in Statements : Planned(q)'
  <2>1. Planned(s)'
    BY <1>3, <1>6, <1>7 DEF Planned, At
  <2>2. ASSUME NEW q \in Statements, q # s PROVE Planned(q)'
    <3>1. Planned(q) /\ Into(q) /\ run'[q] = run[q]
      BY <1>7, <2>2 DEF IInv
    <3>2. CASE Target(q) = Target(s)
      <4>1. run[q].into # s
        BY <1>6, <3>1 DEF Into
      <4> QED
        BY <1>5, <1>8, <3>1, <3>2, <4>1 DEF Planned, At, Target
    <3>3. CASE Target(q) # Target(s)
      <4>1. At(q, "execute") => Target(q) \in Tables
        BY DEF IInv, TextKnown, Target, Text, At
      <4> QED
        BY <1>8, <3>1, <3>3, <4>1 DEF Planned, At, Target
    <3> QED
      BY <3>2, <3>3
  <2> QED
    BY <2>1, <2>2
<1>14. \A t \in Tables : TablePast(t)'
  <2>1. Past(s)'
    BY <1>3, <1>6, <1>7 DEF Past
  <2>2. \A t \in Tables : t # Target(s) => TablePast(t)'
    BY <1>7, <1>8 DEF IInv, TablePast, At
  <2> QED
    BY <1>5, <1>8, <2>1, <2>2 DEF TablePast
<1>15. NoStrayRows'
  BY <1>4, <1>5, <1>7, <1>8 DEF IInv, NoStrayRows, Kind
<1>16. RowsFitColumns'
  BY <1>5, <1>7, <1>8 DEF IInv, RowsFitColumns
<1> QED
  BY <1>9, <1>10, <1>11, <1>12, <1>13, <1>14, <1>15, <1>16 DEF IInv

(* A commit adds the rows of one statement to what its target is by now,   *)
(* or to what it keeps of that.                                            *)
LEMMA ExecuteGood ==
  ASSUME IInv, NEW s \in Statements, NEW kept \in SUBSET Statements, Execute(s, kept)
  PROVE  IInv'
<1> DEFINE r == [run[s] EXCEPT !.phase = "done"]
           old == tables[Target(s)]
           new == [old EXCEPT !.writers = (@ \cap kept) \cup {s}]
<1>1. /\ run[s] \in Run /\ Into(s) /\ Owner(s) /\ Queried(s) /\ Planned(s)
      /\ At(s, "execute") /\ run[s].text \in Text
  BY DEF IInv, TypeOK, Execute, ExecuteThen, At, TextKnown
<1>2. Target(s) \in Tables
  BY <1>1 DEF Target, Text
<1>3. /\ r \in Run /\ r.phase = "done" /\ r.text = run[s].text /\ r.into = run[s].into
      /\ r.rows = run[s].rows /\ run' = [run EXCEPT ![s] = r]
  BY <1>1 DEF Run, Running, Execute, ExecuteThen, Goto
<1>4. /\ tables' = [tables EXCEPT ![Target(s)] = new] /\ dropped' = dropped
      /\ exists' = exists /\ old # None
  BY DEF Execute, ExecuteThen
<1>5. /\ old \in Stored /\ new \in Stored /\ new.by = old.by /\ new.columns = old.columns
      /\ new.writers \subseteq old.writers \cup {s}
  BY <1>2, <1>4 DEF IInv, TypeOK, Stored
<1>6. Past(s) /\ ~At(s, "done")
  BY <1>1 DEF Past, At
<1> HIDE DEF r, new
<1>7. /\ run' \in [Statements -> Run]
      /\ run'[s] = r
      /\ \A q \in Statements : q # s => run'[q] = run[q]
      /\ \A q \in Statements : Past(q) => Past(q)'
      /\ \A t \in Tables : tables[t] # None =>
           tables[t] \in Stored /\ \A w \in tables[t].writers : w \in Statements /\ w # s
  BY <1>3, <1>6, Others
<1>8. /\ tables'[Target(s)] = new /\ new # None
      /\ \A t \in Tables : t # Target(s) => tables'[t] = tables[t]
  BY <1>2, <1>4, <1>5, NothingAssumption DEF IInv, TypeOK
<1>9. TypeOK'
  BY <1>4, <1>5, <1>7 DEF IInv, TypeOK
<1>10. \A q \in Statements : q # s => (TextKnown(q) /\ Queried(q) /\ Into(q))'
  BY <1>7 DEF IInv, TextKnown, Queried, Into, At, Kind
<1>11. (TextKnown(s) /\ Queried(s) /\ Into(s) /\ Owner(s) /\ Planned(s))'
  BY <1>1, <1>3, <1>6, <1>7 DEF TextKnown, Queried, Into, At, Kind, Queries, Owner, Planned
<1>12. ASSUME NEW q \in Statements, q # s PROVE (Owner(q) /\ Planned(q))'
  <2>1. Owner(q) /\ Planned(q) /\ run'[q] = run[q]
    BY <1>7, <1>12 DEF IInv
  <2>2. Target(q) \in Tables \/ run[q].phase \notin {"replan", "execute"}
    BY DEF IInv, TextKnown, Target, Text
  <2>3. Owner(q)'
    BY <1>4, <1>5, <1>8, <2>1, <2>2 DEF Owner, Holds, Target, Kind
  <2>4. Planned(q)'
    BY <1>4, <1>5, <1>8, <2>1, <2>2 DEF Planned, At, Target
  <2> QED
    BY <2>3, <2>4
<1>13. \A t \in Tables : TablePast(t)'
  <2>1. \A t \in Tables : t # Target(s) => TablePast(t)'
    BY <1>7, <1>8 DEF IInv, TablePast, At
  <2>2. ASSUME NEW t \in Tables, t = Target(s) PROVE TablePast(t)'
    <3>1. TablePast(t) /\ tables[t] = old /\ tables'[t] = new
      BY <1>8, <2>2 DEF IInv
    <3>2. \A w \in new.writers : run'[w].phase = "done"
      BY <1>3, <1>4, <1>5, <1>7, <3>1 DEF TablePast, At
    <3>3. new.by \in Statements => run'[new.by].phase \notin {"new", "plan", "create"}
      BY <1>4, <1>5, <1>7, <3>1 DEF TablePast, Past
    <3> QED
      BY <3>1, <3>2, <3>3 DEF TablePast, At, Past
  <2> QED
    BY <2>1, <2>2
<1>14. NoStrayRows'
  <2>1. Kind(s) \in {"insert", "overwrite"} \/ s = old.by \/ s \in dropped
    BY <1>1 DEF Queried, Queries, Owner, Holds, At
  <2>2. ASSUME NEW t \in Tables, tables'[t] # None, NEW w \in tables'[t].writers
        PROVE  (Kind(w) \in {"insert", "overwrite"} \/ w = tables[t].by \/ w \in dropped)'
    <3>1. CASE w = s
      <4>1. t = Target(s)
        BY <1>7, <1>8, <2>2, <3>1
      <4> QED
        BY <1>3, <1>4, <1>5, <1>7, <1>8, <2>1, <3>1, <4>1 DEF Kind
    <3>2. CASE w # s
      <4>1. tables[t] # None /\ w \in tables[t].writers /\ tables'[t].by = tables[t].by
        BY <1>4, <1>5, <1>8, <2>2, <3>2
      <4> QED
        BY <1>4, <1>7, <3>2, <4>1 DEF IInv, NoStrayRows, Kind
    <3> QED
      BY <3>1, <3>2
  <2> QED
    BY <2>2 DEF NoStrayRows
<1>15. RowsFitColumns'
  <2>1. ASSUME NEW t \in Tables, tables'[t] # None, NEW w \in tables'[t].writers,
               run'[w].into = tables'[t].by
        PROVE  <<run'[w].rows, tables'[t].columns>> \in Fits
    <3>1. CASE w = s
      <4>1. t = Target(s)
        BY <1>7, <1>8, <2>1, <3>1
      <4> QED
        BY <1>1, <1>3, <1>4, <1>5, <1>7, <1>8, <2>1, <3>1, <4>1 DEF Planned
    <3>2. CASE w # s
      <4>1. /\ tables[t] # None /\ w \in tables[t].writers /\ tables'[t].by = tables[t].by
            /\ tables'[t].columns = tables[t].columns
        BY <1>4, <1>5, <1>8, <2>1, <3>2
      <4> QED
        BY <1>7, <2>1, <3>2, <4>1 DEF IInv, RowsFitColumns
    <3> QED
      BY <3>1, <3>2
  <2> QED
    BY <2>1 DEF RowsFitColumns
<1> QED
  BY <1>9, <1>10, <1>11, <1>12, <1>13, <1>14, <1>15 DEF IInv

(* Tables that go away have their creators among the dropped.              *)
LEMMA DropGood ==
  ASSUME IInv, NEW s \in Statements, At(s, "call"), Goto(s, "done"),
         exists' \in BOOLEAN, tables' \in [Tables -> Stored \cup {None}],
         dropped \subseteq dropped', dropped' \subseteq Creator,
         \A t \in Tables : tables'[t] # tables[t] =>
           tables'[t] = None /\ tables[t].by \in dropped'
  PROVE  IInv'
<1> DEFINE r == [run[s] EXCEPT !.phase = "done"]
<1>1. /\ run[s] \in Run /\ run[s].text \in Text /\ ~At(s, "done") /\ Past(s)
      /\ run[s].phase = "call"
  BY DEF IInv, TypeOK, At, TextKnown, Past
<1>2. /\ r \in Run /\ r.phase = "done" /\ r.text = run[s].text /\ r.into = run[s].into
      /\ run' = [run EXCEPT ![s] = r]
  BY <1>1 DEF Run, Goto
<1> HIDE DEF r
<1>3. /\ run' \in [Statements -> Run]
      /\ run'[s] = r
      /\ \A q \in Statements : q # s => run'[q] = run[q]
      /\ \A q \in Statements : Past(q) => Past(q)'
      /\ \A t \in Tables : tables[t] # None =>
           tables[t] \in Stored /\ \A w \in tables[t].writers : w \in Statements /\ w # s
  BY <1>1, <1>2, Others
<1>4. \A q \in Statements : run'[q].text = run[q].text
  BY <1>2, <1>3
<1>5. \A t \in Tables : tables'[t] # None => tables'[t] = tables[t]
  OBVIOUS
<1>6. TypeOK'
  BY <1>3 DEF TypeOK
<1>7. \A q \in Statements : (TextKnown(q) /\ Queried(q) /\ Into(q))'
  BY <1>1, <1>2, <1>3 DEF IInv, TextKnown, Queried, Into, At, Kind
<1>8. ASSUME NEW q \in Statements PROVE (Owner(q) /\ Planned(q))'
  <2>1. CASE q = s
    BY <1>2, <1>3, <2>1 DEF Owner, Planned, At
  <2>2. CASE q # s
    <3>1. Owner(q) /\ Planned(q) /\ run'[q] = run[q]
      BY <1>3, <2>2 DEF IInv
    <3>2. Target(q) \in Tables \/ run[q].phase \notin {"replan", "execute"}
      BY DEF IInv, TextKnown, Target, Text
    <3>3. Owner(q)'
      BY <3>1, <3>2 DEF Owner, Holds, Target, Kind
    <3>4. Planned(q)'
      BY <1>5, <3>1, <3>2 DEF Planned, At, Target
    <3> QED
      BY <3>3, <3>4
  <2> QED
    BY <2>1, <2>2
<1>9. \A t \in Tables : TablePast(t)'
  BY <1>3, <1>5 DEF IInv, TablePast, At
<1>10. NoStrayRows'
  BY <1>3, <1>5 DEF IInv, NoStrayRows, Kind
<1>11. RowsFitColumns'
  BY <1>3, <1>5 DEF IInv, RowsFitColumns
<1> QED
  BY <1>6, <1>7, <1>8, <1>9, <1>10, <1>11 DEF IInv

-----------------------------------------------------------------------------

(* IInv is inductive.                                                      *)
LEMMA StepGood == IInv /\ [Next]_vars => IInv'
<1> SUFFICES ASSUME IInv, [Next]_vars PROVE IInv'
  OBVIOUS
<1>0. TypeOK
  BY DEF IInv
<1>1. ASSUME NEW s \in Statements, NEW text \in Texts, NEW layout \in Layouts,
             Start(s, text, layout)
      PROVE  IInv'
  BY <1>1, StartGood
<1>2. ASSUME NEW s \in Statements, Step(s) PROVE IInv'
  <2>1. CASE Fail(s)
    BY <1>0, <2>1, EndGood DEF Fail, FailAs, TypeOK
  <2>2. CASE PlanSource(s) \/ Replan(s)
    BY <2>2, PlanGood
  <2>3. CASE CreateTable(s)
    BY <2>3, CreateGood
  <2>4. CASE SkipTable(s) \/ SkipCall(s)
    BY <1>0, <2>4, EndGood DEF SkipTable, SkipThen, SkipCall, At, Running, TypeOK
  <2>5. CASE \E kept \in SUBSET Statements : Execute(s, kept)
    BY <2>5, ExecuteGood
  <2>6. CASE CreateSchema(s)
    BY <2>6, EndGood DEF CreateSchema, At, Running
  <2>7. CASE DropTable(s)
    <3>1. run[s].text \in Text /\ Target(s) \in Tables
      BY <2>7 DEF IInv, TextKnown, DropTable, At, Text, Target
    <3>2. tables[Target(s)] \in Stored
      BY <1>0, <2>7, <3>1 DEF TypeOK, DropTable
    <3>3. tables' \in [Tables -> Stored \cup {None}] /\ dropped' \subseteq Creator
      BY <1>0, <2>7, <3>2 DEF TypeOK, DropTable, Stored
    <3>4. \A t \in Tables : tables'[t] # tables[t] =>
            tables'[t] = None /\ tables[t].by \in dropped'
      BY <1>0, <2>7, <3>1 DEF TypeOK, DropTable
    <3> QED
      BY <1>0, <2>7, <3>3, <3>4, DropGood DEF DropTable, TypeOK
  <2>8. CASE DropSchema(s)
    <3>1. \A t \in Tables : tables[t] # None => tables[t] \in Stored /\ tables[t].by \in Creator
      BY <1>0 DEF TypeOK, Stored
    <3>2. tables' \in [Tables -> Stored \cup {None}] /\ dropped' \subseteq Creator
      BY <1>0, <2>8, <3>1 DEF TypeOK, DropSchema
    <3>3. \A t \in Tables : tables'[t] # tables[t] =>
            tables'[t] = None /\ tables[t].by \in dropped'
      BY <2>8 DEF DropSchema
    <3> QED
      BY <2>8, <3>2, <3>3, DropGood DEF DropSchema
  <2> QED
    BY <1>2, <2>1, <2>2, <2>3, <2>4, <2>5, <2>6, <2>7, <2>8 DEF Step
<1>3. CASE UNCHANGED vars
  BY <1>3 DEF vars, IInv, TypeOK, TextKnown, Owner, Queried, Into, Planned, TablePast, Past, Holds,
     NoStrayRows, RowsFitColumns, At, Kind, Target
<1> QED
  BY <1>1, <1>2, <1>3 DEF Next

(* What a step may do to a table.                                          *)
Kept(t) ==
  \/ tables[t].by \in dropped' /\ tables'[t] = None
  \/ /\ tables'[t] # None
     /\ tables'[t].by = tables[t].by
     /\ tables'[t].columns = tables[t].columns
     /\ \/ tables[t].writers \subseteq tables'[t].writers
        \/ \E s \in tables'[t].writers \ tables[t].writers :
             Kind(s) = "overwrite" /\ At(s, "done")'

LEMMA StepKeepsTables ==
  ASSUME IInv, [Next]_vars, NEW t \in Tables, tables[t] # None
  PROVE  Kept(t)
<1>1. tables \in [Tables -> Stored \cup {None}] /\ tables[t] \in Stored
  BY DEF IInv, TypeOK
<1>2. CASE UNCHANGED tables
  BY <1>2 DEF Kept
<1>3. ASSUME NEW s \in Statements, CreateTable(s) \/ DropTable(s) \/ DropSchema(s)
      PROVE  Kept(t)
  BY <1>1, <1>3 DEF CreateTable, DropTable, DropSchema, Kept
<1>4. ASSUME NEW s \in Statements, NEW kept \in SUBSET Statements, Execute(s, kept)
      PROVE  Kept(t)
  <2>1. CASE Target(s) # t
    BY <1>1, <1>4, <2>1 DEF Execute, ExecuteThen, Kept
  <2>2. CASE Target(s) = t
    <3> DEFINE old == tables[t]
               new == [old EXCEPT !.writers = (@ \cap kept) \cup {s}]
    <3>1. /\ tables'[t] = new /\ new \in Stored /\ new.by = old.by /\ new.columns = old.columns
          /\ new.writers = (old.writers \cap kept) \cup {s}
      BY <1>1, <1>4, <2>2 DEF Execute, ExecuteThen, Stored
    <3>2. s \notin old.writers
      BY <1>4 DEF IInv, TablePast, Execute, ExecuteThen, At
    <3>3. At(s, "done")'
      BY <1>4 DEF IInv, TypeOK, Execute, ExecuteThen, Goto, At
    <3>4. Kind(s) # "overwrite" => old.writers \subseteq new.writers
      BY <1>4, <2>2, <3>1 DEF Execute, ExecuteThen
    <3> HIDE DEF new
    <3> QED
      BY <3>1, <3>2, <3>3, <3>4, NothingAssumption DEF Kept
  <2> QED
    BY <2>1, <2>2
<1> QED
  BY <1>2, <1>3, <1>4 DEF Next, Step, Start, Fail, FailAs, PlanSource, SkipTable, SkipThen,
     Replan, ReplanWith, CreateSchema, SkipCall, vars

(* A CTAS is done only by its INSERT, into the table it holds.             *)
Filled(s) ==
  ~At(s, "done") /\ At(s, "done")' /\ Kind(s) = "ctas" /\ s \notin dropped' =>
    /\ tables'[Target(s)] # None
    /\ tables'[Target(s)].by = s
    /\ s \in tables'[Target(s)].writers

LEMMA StepFills ==
  ASSUME IInv, [Next]_vars, NEW s \in Statements
  PROVE  Filled(s)
<1> SUFFICES ASSUME ~At(s, "done"), At(s, "done")', Kind(s) = "ctas", s \notin dropped'
             PROVE  /\ tables'[Target(s)] # None
                    /\ tables'[Target(s)].by = s
                    /\ s \in tables'[Target(s)].writers
  BY DEF Filled
<1>1. run \in [Statements -> Run] /\ run[s] # run'[s]
  BY DEF IInv, TypeOK, At
<1>2. PICK q \in Statements :
        \/ \E text \in Texts, layout \in Layouts : Start(q, text, layout)
        \/ Step(q)
  BY <1>1 DEF Next, vars
<1>3. q = s
  BY <1>1, <1>2 DEF Step, Start, Fail, FailAs, PlanSource, CreateTable, SkipTable, SkipThen,
     Replan, ReplanWith, Execute, ExecuteThen, DropTable, CreateSchema, DropSchema, SkipCall, Goto
<1>4. ASSUME NEW text \in Texts, NEW layout \in Layouts, Start(s, text, layout) PROVE FALSE
  <2>1. text.kind \in Kinds
    BY TextsAssumption DEF Text
  <2> QED
    BY <1>1, <1>4, <2>1 DEF Start, FirstPhase, At, Run, Kinds, Queries, Creators
<1>5. run'[s].phase = "done" /\ Step(s)
  BY <1>2, <1>3, <1>4 DEF At
<1>6. ASSUME NEW next \in {"failed", "skipped", "replan"}, Goto(s, next) PROVE FALSE
  BY <1>1, <1>5, <1>6 DEF Goto
<1>7. ~(Fail(s) \/ SkipTable(s) \/ CreateTable(s) \/ SkipCall(s))
  BY <1>6 DEF Fail, FailAs, SkipTable, SkipThen, CreateTable, SkipCall
<1>8. ~(PlanSource(s) \/ Replan(s))
  BY <1>1, <1>5 DEF PlanSource, Replan, ReplanWith, Run
<1>9. ~(DropTable(s) \/ CreateSchema(s) \/ DropSchema(s))
  BY DEF DropTable, CreateSchema, DropSchema
<1>10. PICK kept \in SUBSET Statements : Execute(s, kept)
  BY <1>5, <1>7, <1>8, <1>9 DEF Step
<1>11. dropped' = dropped /\ Holds(s) /\ Target(s) \in Tables
  BY <1>10 DEF IInv, Owner, TextKnown, Execute, ExecuteThen, At, Target, Text
<1> DEFINE old == tables[Target(s)]
           new == [old EXCEPT !.writers = (@ \cap kept) \cup {s}]
<1>12. old \in Stored /\ new \in Stored /\ new.by = old.by /\ s \in new.writers
  BY <1>11 DEF IInv, TypeOK, Holds, Stored
<1>13. tables'[Target(s)] = new
  BY <1>10, <1>11, <1>12 DEF IInv, TypeOK, Execute, ExecuteThen
<1> HIDE DEF old, new
<1> QED
  BY <1>11, <1>12, <1>13, NothingAssumption DEF Holds, old

(* Tables and statements keep their types.                                 *)
THEOREM DdlTyped == Spec => []TypeOK
<1>1. IInv => TypeOK
  BY DEF IInv
<1> QED
  BY <1>1, InitGood, StepGood, PTL DEF Spec

(* The INSERT of a CTAS (ddl.rs 118-163) finds its target by name, and     *)
(* still fills only the table its own CREATE made, unless it was dropped.  *)
THEOREM StrayRowsOnlyAfterDrop == Spec => []NoStrayRows
<1>1. IInv => NoStrayRows
  BY DEF IInv
<1> QED
  BY <1>1, InitGood, StepGood, PTL DEF Spec

(* When a CTAS answers after creating a table, that table holds its rows.  *)
THEOREM CtasFills == Spec => CreatedMeansFilled
<1>1. IInv /\ [Next]_vars => [\A s \in Statements : Filled(s)]_vars
  BY StepFills
<1>2. IInv /\ [Next]_vars =>
        [\A s \in Statements :
           ~At(s, "done") /\ At(s, "done")' /\ Kind(s) = "ctas" /\ s \notin dropped' =>
             /\ tables'[Target(s)] # None
             /\ tables'[Target(s)].by = s
             /\ s \in tables'[Target(s)].writers]_vars
  BY <1>1 DEF Filled
<1> QED
  BY <1>2, InitGood, StepGood, PTL DEF Spec, CreatedMeansFilled

(* Planning the INSERT again (ddl.rs 155) keeps rows and columns together  *)
(* when the source of a CTAS changes under it.                             *)
THEOREM RowsFit == Spec => []RowsFitColumns
<1>1. IInv => RowsFitColumns
  BY DEF IInv
<1> QED
  BY <1>1, InitGood, StepGood, PTL DEF Spec

(* Nothing but DROP takes a table or its columns away, and nothing but     *)
(* DROP or the commit of an INSERT OVERWRITE takes its rows.               *)
THEOREM TablesStay == Spec => TablesStayUntilDropped
<1>1. IInv /\ [Next]_vars =>
        [\A t \in Tables : tables[t] # None =>
           \/ tables[t].by \in dropped' /\ tables'[t] = None
           \/ /\ tables'[t] # None
              /\ tables'[t].by = tables[t].by
              /\ tables'[t].columns = tables[t].columns
              /\ \/ tables[t].writers \subseteq tables'[t].writers
                 \/ \E s \in tables'[t].writers \ tables[t].writers :
                      Kind(s) = "overwrite" /\ At(s, "done")']_vars
  BY StepKeepsTables DEF Kept
<1> QED
  BY <1>1, InitGood, StepGood, PTL DEF Spec, TablesStayUntilDropped

-----------------------------------------------------------------------------

(* Of a call: a name of up to three parts, in any scope, and the text that *)
(* is written for it.                                                      *)
Catalog(idents) == IF Len(idents) = 3 THEN Name(idents[1]) ELSE scope.catalog
Schema(idents) == IF Len(idents) > 1 THEN Name(idents[Len(idents) - 1]) ELSE scope.schema
Table(idents) == Name(idents[Len(idents)])
Path(idents) == [catalog |-> Catalog(idents), schema |-> Schema(idents), table |-> Table(idents)]

LEMMA Resolved ==
  ASSUME NEW idents \in Seq(Idents)
  PROVE  Resolve(idents) = IF Len(idents) \in 1..3 THEN {Path(idents)} ELSE {}
<1>1. Len(idents) \in Nat /\ DOMAIN idents = 1..Len(idents)
  OBVIOUS
<1>2. CASE Len(idents) = 1
  BY <1>1, <1>2 DEF Resolve, Path, Catalog, Schema, Table
<1>3. CASE Len(idents) = 2
  BY <1>1, <1>3 DEF Resolve, Path, Catalog, Schema, Table
<1>4. CASE Len(idents) = 3
  BY <1>1, <1>4 DEF Resolve, Path, Catalog, Schema, Table
<1>5. CASE Len(idents) \notin 1..3
  BY <1>1, <1>5 DEF Resolve
<1> QED
  BY <1>2, <1>3, <1>4, <1>5

LEMMA TextsOfNames ==
  ASSUME CallAssumption, scope \in Scopes, NEW idents \in Seq(Idents), Len(idents) \in 1..3
  PROVE  Schema(idents) \in Seq(Segments) /\ Table(idents) \in Seq(Segments)
BY DEF CallAssumption, Schema, Table, Name

(* Two texts without dots, joined by a dot, are read as they were.         *)
LEMMA ReadAsJoined ==
  ASSUME NEW s \in Seq(Segments), NEW t \in Seq(Segments), Len(s) = 1, Len(t) = 1
  PROVE  ReadByPaimon(s \o t) = [schema |-> s, table |-> t]
<1>1. Len(s \o t) = 2 /\ (s \o t)[1] = s[1] /\ (s \o t)[2] = t[1]
  BY ConcatProperties
<1>2. ASSUME NEW u \in Seq(Segments), Len(u) = 1
      PROVE  <<u[1]>> = u
  <2>1. u[1] \in Segments
    BY <1>2
  <2>2. <<u[1]>> \in Seq(Segments) /\ Len(<<u[1]>>) = 1 /\ <<u[1]>>[1] = u[1]
    BY <2>1
  <2>3. \A i \in 1..Len(<<u[1]>>) : <<u[1]>>[i] = u[i]
    <3> DEFINE v == <<u[1]>>
    <3>1. v[1] = u[1] /\ Len(v) = 1
      BY <2>2
    <3> HIDE DEF v
    <3>2. \A i \in 1..Len(v) : v[i] = u[i]
      BY <3>1
    <3> QED
      BY <3>2 DEF v
  <2> QED
    BY <1>2, <2>2, <2>3, SeqEqual
<1> QED
  BY <1>1, <1>2 DEF ReadByPaimon

LEMMA OnlyIsFirst ==
  ASSUME NEW arguments \in Seq([name : STRING, value : Literals \cup Seq(Idents)]),
         NEW i, TableArguments(arguments) = {i}
  PROVE  SelectInSeq(arguments, LAMBDA a : a.name \in TableWords) = i
<1>1. {k \in 1..Len(arguments) : arguments[k].name \in TableWords} = {i}
  BY DEF TableArguments
<1>2. i \in Int
  BY <1>1
<1>3. Min({i}) = i
  BY <1>2 DEF Min
<1> QED
  BY <1>1, <1>3 DEF SelectInSeq

LEMMA ValueReplaced ==
  ASSUME NEW arguments \in Seq([name : STRING, value : Literals \cup Seq(Idents)]),
         NEW i \in 1..Len(arguments), NEW v
  PROVE  LET replaced == [arguments EXCEPT ![i].value = v] IN
         /\ DOMAIN replaced = 1..Len(arguments) /\ Len(replaced) = Len(arguments)
         /\ replaced[i].value = v
         /\ \A k \in 1..Len(arguments) : k # i => replaced[k] = arguments[k]
<1> DEFINE anew == [arguments[i] EXCEPT !.value = v]
           replaced == [arguments EXCEPT ![i] = anew]
<1>1. DOMAIN arguments = 1..Len(arguments) /\ Len(arguments) \in Nat
  OBVIOUS
<1>2. anew.value = v
  <2>1. arguments[i] \in [name : STRING, value : Literals \cup Seq(Idents)]
    BY ElementOfSeq
  <2> QED
    BY <2>1
<1> HIDE DEF anew
<1>3. /\ DOMAIN replaced = 1..Len(arguments) /\ replaced[i] = anew
      /\ \A k \in 1..Len(arguments) : k # i => replaced[k] = arguments[k]
  BY <1>1
<1>4. Len(replaced) = Len(arguments)
  BY <1>1, <1>3
<1> QED
  BY <1>2, <1>3, <1>4 DEF anew

LEMMA CallStep ==
  ASSUME CallAssumption, scope \in Scopes, NEW f, NEW p, NEW arguments \in ArgumentLists,
         Call(f, p, arguments)
  PROVE  CallActsOnNamed'
<1> DEFINE given == {i \in DOMAIN arguments : arguments[i].name \in TableWords}
           idents == arguments[CHOOSE i \in given : TRUE].value
           accepted ==
             /\ f \in DOMAIN Formats /\ Formats[f] = "paimon"
             /\ Catalog(idents) \in DOMAIN Catalogs /\ Catalogs[Catalog(idents)] = "paimon-fs"
             /\ Len(Schema(idents)) = 1 /\ Len(Table(idents)) = 1
           proper == Cardinality(given) = 1 /\ idents \notin Literals /\ Len(idents) \in 1..3 /\ accepted
           faithful(call) ==
             /\ call.catalog = Catalog(idents) /\ call.procedure = p
             /\ Len(call.arguments) = Len(arguments)
             /\ \A i \in DOMAIN call.arguments :
                  IF arguments[i].name \in TableWords
                  THEN ReadByPaimon(call.arguments[i].value) =
                         [schema |-> Schema(idents), table |-> Table(idents)]
                  ELSE call.arguments[i] = arguments[i]
<1>1. arguments \in Seq([name : STRING, value : Literals \cup Seq(Idents)])
  BY DEF CallAssumption
<1>2. /\ asked'.format = f /\ asked'.procedure = p /\ asked'.arguments = arguments /\ scope' = scope
      /\ called' = {[catalog |-> t.catalog, procedure |-> p, arguments |-> Rewritten(arguments, t)] :
                      t \in {t \in TableNamed(arguments) : Accepts(f, t)}}
  BY DEF Call
<1>3. SUFFICES
        /\ Cardinality(called') = IF proper THEN 1 ELSE 0
        /\ \A call \in called' : faithful(call)
  <2>1. SUFFICES ActsOnNamed(scope, called', f, p, arguments)
    BY <1>2 DEF CallActsOnNamed
  <2> QED
    BY <1>2 DEF ActsOnNamed, Catalog, Schema, Table, Name
<1>4. given \subseteq 1..Len(arguments) /\ IsFiniteSet(given) /\ given = TableArguments(arguments)
  BY <1>1, FS_Interval, FS_Subset DEF TableArguments
<1>5. CASE Cardinality(given) # 1
  <2>1. \A i : given # {i}
    BY <1>4, <1>5, FS_Singleton
  <2>2. TableNamed(arguments) = {}
    BY <1>4, <2>1 DEF TableNamed
  <2> QED
    BY <1>2, <1>5, <2>2, FS_EmptySet
<1>6. CASE Cardinality(given) = 1
  <2>1. PICK i : given = {i}
    BY <1>4, <1>6, FS_Singleton
  <2>2. i \in 1..Len(arguments) /\ idents = arguments[i].value /\ arguments[i].name \in TableWords
    BY <1>4, <2>1
  <2> HIDE DEF given, idents, accepted
  <2>3. CASE idents \in Literals
    <3>1. TableNamed(arguments) = {}
      BY <1>4, <2>1, <2>2, <2>3 DEF TableNamed
    <3> QED
      BY <1>2, <2>3, <3>1, FS_EmptySet
  <2>4. CASE idents \notin Literals
    <3>1. idents \in Seq(Idents)
      <4>1. arguments[i] \in [name : STRING, value : Literals \cup Seq(Idents)]
        BY <1>1, <2>2, ElementOfSeq
      <4> QED
        BY <2>2, <2>4, <4>1
    <3>2. TableNamed(arguments) = Resolve(idents)
      <4>1. {k \in TableArguments(arguments) :
               TableArguments(arguments) = {k} /\ arguments[k].value \notin Literals} = {i}
        BY <1>4, <2>1, <2>2, <2>4
      <4> QED
        BY <2>2, <4>1 DEF TableNamed
    <3>3. Accepts(f, Path(idents)) <=> accepted
      BY DEF Accepts, Plain, Path, accepted
    <3>4. CASE ~(Len(idents) \in 1..3 /\ accepted)
      <4>1. {t \in TableNamed(arguments) : Accepts(f, t)} = {}
        BY <3>1, <3>2, <3>3, <3>4, Resolved
      <4>2. ~proper /\ called' = {}
        BY <1>2, <3>4, <4>1
      <4> QED
        BY <4>2, FS_EmptySet
    <3>5. CASE Len(idents) \in 1..3 /\ accepted
      <4> DEFINE call == [catalog |-> Catalog(idents), procedure |-> p,
                          arguments |-> Rewritten(arguments, Path(idents))]
      <4>1. {t \in TableNamed(arguments) : Accepts(f, t)} = {Path(idents)}
        BY <3>1, <3>2, <3>3, <3>5, Resolved
      <4>2. proper /\ called' = {call}
        BY <1>2, <1>6, <2>4, <3>5, <4>1 DEF Path
      <4>3. Rewritten(arguments, Path(idents)) =
              [arguments EXCEPT ![i].value = Schema(idents) \o Table(idents)]
        BY <1>1, <1>4, <2>1, OnlyIsFirst DEF Rewritten, Path
      <4>4. Schema(idents) \in Seq(Segments) /\ Table(idents) \in Seq(Segments)
        BY <3>1, <3>5, TextsOfNames
      <4>5. ReadByPaimon(Schema(idents) \o Table(idents)) = [schema |-> Schema(idents), table |-> Table(idents)]
        <5>1. Len(Schema(idents)) = 1 /\ Len(Table(idents)) = 1
          BY <3>5 DEF accepted
        <5> QED
          BY <4>4, <5>1, ReadAsJoined
      <4>6. \A k \in 1..Len(arguments) : arguments[k].name \in TableWords => k = i
        <5> SUFFICES ASSUME NEW k \in 1..Len(arguments), arguments[k].name \in TableWords
                     PROVE  k \in given
          BY <2>1
        <5> QED
          BY <1>1 DEF given
      <4>7. /\ DOMAIN call.arguments = 1..Len(arguments) /\ Len(call.arguments) = Len(arguments)
            /\ call.arguments[i].value = Schema(idents) \o Table(idents)
            /\ \A k \in 1..Len(arguments) : k # i => call.arguments[k] = arguments[k]
        <5> DEFINE joined == Schema(idents) \o Table(idents)
                   anew == [arguments EXCEPT ![i].value = joined]
        <5>1. /\ DOMAIN anew = 1..Len(arguments) /\ Len(anew) = Len(arguments)
              /\ anew[i].value = joined
              /\ \A k \in 1..Len(arguments) : k # i => anew[k] = arguments[k]
          <6> HIDE DEF joined
          <6> QED
            BY <1>1, <2>2, ValueReplaced
        <5>2. call.arguments = anew
          BY <4>3
        <5> HIDE DEF anew, call
        <5> QED
          BY <5>1, <5>2
      <4>8. faithful(call)
        BY <2>2, <4>5, <4>6, <4>7
      <4> HIDE DEF call
      <4> QED
        BY <4>2, <4>8, FS_Singleton
    <3> QED
      BY <3>4, <3>5
  <2> QED
    BY <2>3, <2>4
<1> QED
  BY <1>5, <1>6

(* A procedure works on the table its statement names, in any scope,       *)
(* however many arguments there are.                                       *)
THEOREM CallsActOnNamed == ASSUME CallAssumption PROVE CallSpec => []CallActsOnNamed
<1> DEFINE Inv == scope \in Scopes /\ CallActsOnNamed
<1>1. CallInit => Inv
  BY DEF CallInit, CallActsOnNamed
<1>2. Inv /\ [CallNext]_callVars => Inv'
  <2>1. CASE CallNext /\ Inv
    BY <2>1, CallStep DEF CallNext, Call
  <2>2. CASE UNCHANGED callVars /\ Inv
    BY <2>2 DEF callVars, CallActsOnNamed
  <2> QED
    BY <2>1, <2>2
<1> QED
  BY <1>1, <1>2, PTL DEF CallSpec

-----------------------------------------------------------------------------

(* Of a CREATE TABLE that is being read: what is there of each column and  *)
(* of the keys is what the clauses before say.                             *)
Has(text, option) == \E k \in DOMAIN text.options : text.options[k] = option
SaysOf(w, option) == {NameOf(w[i].ident) : i \in {j \in DOMAIN w : Has(w[j].text, option)}}
KeysOf(w, c) == {<<n>> : n \in SaysOf(w, "primarykey")} \cup {NamesOf(c[i]) : i \in DOMAIN c}

Clause == [ident : Spellings, text : ColumnTexts]
TypesRead == {Unset} \cup {Convert(text.type) : text \in ColumnTexts}
ColumnsThere == Seq([name : Names, type : TypesRead, nullable : BOOLEAN])
Statement ==
  [derived : {<<>>} \cup Derived, columns : Seq(Clause), constraints : Seq(Seq(Spellings)),
   partition : Seq(Spellings), properties : Seq(Properties)]

ColumnRead(column, d, w, i) ==
  IF d # <<>> THEN column.name = d[i].name
  ELSE /\ column.name = NameOf(w[i].ident)
       /\ Convertible(w[i].text.type) /\ column.type = Convert(w[i].text.type)

NullRead(column, d, w, i) ==
  column.nullable <=> IF d # <<>> THEN d[i].nullable ELSE ~Has(w[i].text, "notnull")

ColumnsRead(cs, d, w) ==
  /\ d = <<>> \/ w = <<>>
  /\ Len(cs) = IF d # <<>> THEN Len(d) ELSE Len(w)
  /\ \A i, j \in DOMAIN cs : cs[i].name = cs[j].name => i = j
  /\ \A i \in DOMAIN cs : ColumnRead(cs[i], d, w, i)

KeysRead ==
  /\ explicit = SaysOf(written.columns, "null")
  /\ \/ primary = Unset /\ KeysOf(written.columns, written.constraints) = {}
     \/ /\ primary \in Seq(Names) \ {<<>>}
        /\ KeysOf(written.columns, written.constraints) = {primary}

Reading == phase \in {"columns", "constraints"}

SchemaInv ==
  /\ Reading \/ phase \in {"built", "refused"}
  /\ phase # "refused" =>
       /\ written \in Statement /\ columns \in ColumnsThere
       /\ ColumnsRead(columns, written.derived, written.columns)
       /\ partition \in Seq(Names)
  /\ Reading =>
       /\ \A i \in DOMAIN columns : NullRead(columns[i], written.derived, written.columns, i)
       /\ KeysRead
  /\ BuiltAsDeclared

LEMMA NameTyped == ASSUME SchemaAssumption, NEW i \in Spellings PROVE NameOf(i) \in Names
BY DEF SchemaAssumption, NameOf

LEMMA NamesTyped ==
  ASSUME SchemaAssumption, NEW idents \in Seq(Spellings)
  PROVE  /\ NamesOf(idents) \in Seq(Names) /\ Len(NamesOf(idents)) = Len(idents)
         /\ NamesOf(idents) = <<>> <=> idents = <<>>
<1>1. \A i \in 1..Len(idents) : NameOf(idents[i]) \in Names
  BY NameTyped, ElementOfSeq
<1>2. NamesOf(idents) = [i \in 1..Len(idents) |-> NameOf(idents[i])]
  BY DEF NamesOf
<1>3. NamesOf(idents) \in Seq(Names) /\ Len(NamesOf(idents)) = Len(idents)
  BY <1>1, <1>2
<1> QED
  BY <1>3, EmptySeq

LEMMA KeysAreNames == ASSUME NEW n \in Nat, NEW k \in Keys(n) PROVE k \in Seq(Spellings)
BY DEF Keys

(* One clause more.                                                        *)
LEMMA SaysMore ==
  ASSUME NEW w \in Seq(Clause), NEW clause \in Clause, NEW option
  PROVE  SaysOf(Append(w, clause), option) =
           SaysOf(w, option) \cup (IF Has(clause.text, option) THEN {NameOf(clause.ident)} ELSE {})
<1> DEFINE v == Append(w, clause)
           n == Len(w)
<1>1. n \in Nat /\ DOMAIN w = 1..n /\ DOMAIN v = 1..(n + 1)
  BY AppendProperties
<1>2. v[n + 1] = clause /\ \A i \in 1..n : v[i] = w[i]
  BY AppendProperties
<1> HIDE DEF v, n
<1>3. {i \in DOMAIN v : Has(v[i].text, option)} =
        {i \in DOMAIN w : Has(w[i].text, option)} \cup (IF Has(clause.text, option) THEN {n + 1} ELSE {})
  BY <1>1, <1>2
<1>4. SaysOf(v, option) = {NameOf(v[i].ident) : i \in {j \in DOMAIN v : Has(v[j].text, option)}}
  BY DEF SaysOf
<1>5. CASE Has(clause.text, option)
  BY <1>1, <1>2, <1>3, <1>4, <1>5 DEF SaysOf
<1>6. CASE ~Has(clause.text, option)
  BY <1>1, <1>2, <1>3, <1>4, <1>6 DEF SaysOf
<1> QED
  BY <1>5, <1>6 DEF v

LEMMA KeyColumn ==
  ASSUME NEW w \in Seq(Clause), NEW c, NEW clause \in Clause
  PROVE  KeysOf(Append(w, clause), c) =
           KeysOf(w, c) \cup (IF Has(clause.text, "primarykey") THEN {<<NameOf(clause.ident)>>} ELSE {})
<1>1. SaysOf(Append(w, clause), "primarykey") =
        SaysOf(w, "primarykey") \cup (IF Has(clause.text, "primarykey") THEN {NameOf(clause.ident)} ELSE {})
  BY SaysMore
<1> QED
  BY <1>1 DEF KeysOf

LEMMA KeyConstraint ==
  ASSUME NEW w, NEW c \in Seq(Seq(Spellings)), NEW idents \in Seq(Spellings)
  PROVE  KeysOf(w, Append(c, idents)) = KeysOf(w, c) \cup {NamesOf(idents)}
<1> DEFINE b == Append(c, idents)
           n == Len(c)
<1>3. n \in Nat /\ DOMAIN c = 1..n /\ DOMAIN b = 1..n \cup {n + 1}
  BY AppendProperties
<1>4. b[n + 1] = idents /\ \A i \in 1..n : b[i] = c[i]
  BY AppendProperties
<1> HIDE DEF b, n
<1>5. {NamesOf(b[i]) : i \in DOMAIN b} = {NamesOf(c[i]) : i \in DOMAIN c} \cup {NamesOf(idents)}
  BY <1>3, <1>4
<1>6. KeysOf(w, b) = KeysOf(w, c) \cup {NamesOf(idents)}
  BY <1>5 DEF KeysOf
<1> QED
  BY <1>6 DEF b


LEMMA RefusedGood ==
  ASSUME phase' = "refused"
  PROVE  SchemaInv'
BY DEF SchemaInv, Reading, BuiltAsDeclared

LEMMA ColumnGood ==
  ASSUME SchemaAssumption, SchemaInv, NEW ident \in Spellings, NEW text \in ColumnTexts, Column(ident, text)
  PROVE  SchemaInv'
<1> DEFINE given(option) == {i \in DOMAIN text.options : text.options[i] = option}
           clause == [ident |-> ident, text |-> text]
           column == [name |-> NameOf(ident), type |-> Convert(text.type), nullable |-> given("notnull") = {}]
           w == written.columns
           n == Len(columns)
<1>1. CASE phase' = "refused"
  BY <1>1, RefusedGood
<1>2. CASE phase' # "refused"
  <2>1. /\ phase = "columns" /\ phase' = phase /\ partition' = partition
        /\ written' = [written EXCEPT !.columns = Append(@, clause)]
        /\ ~IsColumn(NameOf(ident)) /\ (given("primarykey") # {} => primary = Unset)
        /\ written.derived = <<>> /\ Convertible(text.type)
        /\ columns' = Append(columns, column)
        /\ explicit' = IF given("null") # {} THEN explicit \cup {NameOf(ident)} ELSE explicit
        /\ primary' = IF given("primarykey") # {} THEN <<NameOf(ident)>> ELSE primary
    BY <1>2 DEF Column, Refuse, FirstKey
  <2>2. /\ written \in Statement /\ columns \in ColumnsThere /\ ColumnsRead(columns, <<>>, w)
        /\ partition \in Seq(Names)
        /\ \A i \in DOMAIN columns : NullRead(columns[i], <<>>, w, i)
        /\ KeysRead
    BY <2>1 DEF SchemaInv, Reading
  <2>3. /\ \A option : given(option) # {} <=> Has(text, option)
        /\ clause \in Clause /\ NameOf(ident) \in Names
    BY NameTyped DEF Has, Clause
  <2>4. column \in [name : Names, type : TypesRead, nullable : BOOLEAN]
    BY <2>3 DEF TypesRead
  <2>5. w \in Seq(Clause) /\ written.constraints \in Seq(Seq(Spellings))
    BY <2>2 DEF Statement
  <2>6. /\ written' \in Statement /\ written'.derived = <<>> /\ written'.columns = Append(w, clause)
        /\ written'.constraints = written.constraints
    <3>1. Append(w, clause) \in Seq(Clause)
      BY <2>3, <2>5, AppendProperties
    <3> HIDE DEF clause
    <3> QED
      BY <2>1, <2>2, <3>1 DEF Statement
  <2>7. /\ columns' \in ColumnsThere /\ Len(columns') = n + 1 /\ columns'[n + 1] = column
        /\ \A i \in 1..n : columns'[i] = columns[i]
        /\ n \in Nat /\ DOMAIN columns' = 1..(n + 1) /\ DOMAIN columns = 1..n
    <3> HIDE DEF column
    <3> QED
      BY <2>1, <2>2, <2>4, AppendProperties DEF ColumnsThere
  <2>8. /\ Len(w) = n /\ Len(Append(w, clause)) = n + 1 /\ Append(w, clause)[n + 1] = clause
        /\ \A i \in 1..n : Append(w, clause)[i] = w[i]
    <3> HIDE DEF clause
    <3>1. Len(w) = n
      BY <2>2 DEF ColumnsRead
    <3> QED
      BY <2>3, <2>5, <3>1, AppendProperties
  <2>9. ColumnsRead(columns', <<>>, Append(w, clause))
    <3>1. Len(columns') = Len(Append(w, clause))
      BY <2>7, <2>8
    <3>2. ASSUME NEW i \in DOMAIN columns' PROVE ColumnRead(columns'[i], <<>>, Append(w, clause), i)
      <4>1. CASE i \in 1..n
        <5>1. ColumnRead(columns[i], <<>>, w, i)
          BY <2>2, <2>7, <4>1 DEF ColumnsRead
        <5> QED
          BY <2>7, <2>8, <4>1, <5>1 DEF ColumnRead
      <4>2. CASE i = n + 1
        <5>1. columns'[i].name = NameOf(ident) /\ columns'[i].type = Convert(text.type)
          BY <2>7, <4>2
        <5>2. Append(w, clause)[i].ident = ident /\ Append(w, clause)[i].text = text
          BY <2>8, <4>2
        <5> QED
          BY <2>1, <5>1, <5>2 DEF ColumnRead
      <4> QED
        BY <2>7, <4>1, <4>2
    <3>3. ASSUME NEW i \in DOMAIN columns', NEW j \in DOMAIN columns', columns'[i].name = columns'[j].name
          PROVE  i = j
      <4>1. \A k \in 1..n : columns'[k].name = columns[k].name /\ columns[k].name # NameOf(ident)
        BY <2>1, <2>7 DEF IsColumn
      <4>2. columns'[n + 1].name = NameOf(ident)
        BY <2>7
      <4>3. i \in 1..n \cup {n + 1} /\ j \in 1..n \cup {n + 1}
        BY <2>7
      <4>4. i \in 1..n /\ j \in 1..n => i = j
        BY <2>2, <2>7, <3>3, <4>1 DEF ColumnsRead
      <4> QED
        BY <3>3, <4>1, <4>2, <4>3, <4>4
    <3> QED
      BY <3>1, <3>2, <3>3 DEF ColumnsRead
  <2>10. ASSUME NEW i \in DOMAIN columns' PROVE NullRead(columns'[i], <<>>, Append(w, clause), i)
    <3>1. CASE i \in 1..n
      <4>1. NullRead(columns[i], <<>>, w, i)
        BY <2>2, <2>7, <3>1
      <4> QED
        BY <2>7, <2>8, <3>1, <4>1 DEF NullRead
    <3>2. CASE i = n + 1
      <4> DEFINE free == given("notnull") = {}
      <4>1. columns'[i].nullable <=> free
        <5>1. column.nullable = free
          OBVIOUS
        <5>2. columns'[i] = column
          BY <2>7, <3>2
        <5> HIDE DEF column, free
        <5> QED
          BY <5>1, <5>2
      <4>2. Append(w, clause)[i].text = text
        BY <2>8, <3>2
      <4> HIDE DEF given
      <4> QED
        BY <2>3, <4>1, <4>2 DEF NullRead
    <3> QED
      BY <2>7, <3>1, <3>2
  <2>11. KeysRead'
    <3>1. explicit' = SaysOf(Append(w, clause), "null")
      <4>1. SaysOf(Append(w, clause), "null") = SaysOf(w, "null") \cup (IF Has(text, "null") THEN {NameOf(ident)} ELSE {})
        BY <2>3, <2>5, SaysMore
      <4> HIDE DEF given, clause
      <4> QED
        BY <2>1, <2>2, <2>3, <4>1 DEF KeysRead
    <3>2. KeysOf(Append(w, clause), written.constraints) =
            KeysOf(w, written.constraints) \cup (IF Has(text, "primarykey") THEN {<<NameOf(ident)>>} ELSE {})
      BY <2>3, <2>5, KeyColumn
    <3>3. CASE Has(text, "primarykey")
      <4>1. primary = Unset /\ primary' = <<NameOf(ident)>>
        BY <2>1, <2>3, <3>3
      <4>2. KeysOf(w, written.constraints) = {}
        BY <2>2, <4>1 DEF KeysRead, SchemaAssumption
      <4>3. primary' \in Seq(Names) \ {<<>>}
        BY <2>3, <4>1
      <4>4. KeysOf(Append(w, clause), written.constraints) = {primary'}
        BY <3>2, <3>3, <4>1, <4>2
      <4> HIDE DEF clause
      <4> QED
        BY <2>6, <3>1, <4>3, <4>4 DEF KeysRead
    <3>4. CASE ~Has(text, "primarykey")
      <4>1. primary' = primary
        BY <2>1, <2>3, <3>4
      <4> HIDE DEF clause
      <4> QED
        BY <2>2, <2>6, <3>1, <3>2, <3>4, <4>1 DEF KeysRead
    <3> QED
      BY <3>3, <3>4
  <2> HIDE DEF clause, w
  <2>12. (Reading /\ phase # "built" /\ partition \in Seq(Names))'
    BY <2>1, <2>2 DEF Reading
  <2>13. BuiltAsDeclared'
    BY <2>12 DEF BuiltAsDeclared
  <2> QED
    BY <2>6, <2>7, <2>9, <2>10, <2>11, <2>12, <2>13 DEF SchemaInv
<1> QED
  BY <1>1, <1>2

LEMMA ConstraintGood ==
  ASSUME SchemaAssumption, SchemaInv, NEW idents \in Seq(Spellings), Constraint(idents)
  PROVE  SchemaInv'
<1> DEFINE w == written.columns
           c == written.constraints
<1>1. CASE phase' = "refused"
  BY <1>1, RefusedGood
<1>2. CASE phase' # "refused"
  <2>1. /\ Reading /\ phase' = "constraints" /\ UNCHANGED <<columns, explicit, partition>>
        /\ written' = [written EXCEPT !.constraints = Append(@, idents)]
        /\ idents # <<>> /\ primary = Unset /\ primary' = NamesOf(idents)
    BY <1>2 DEF Constraint, Refuse, FirstKey, Reading
  <2>2. /\ written \in Statement /\ columns \in ColumnsThere /\ ColumnsRead(columns, written.derived, w)
        /\ partition \in Seq(Names)
        /\ \A i \in DOMAIN columns : NullRead(columns[i], written.derived, w, i)
        /\ KeysRead
    BY <2>1 DEF SchemaInv, Reading
  <2>3. w \in Seq(Clause) /\ c \in Seq(Seq(Spellings))
    BY <2>2 DEF Statement
  <2>4. /\ written' \in Statement /\ written'.derived = written.derived /\ written'.columns = w
        /\ written'.constraints = Append(c, idents)
    <3>1. Append(c, idents) \in Seq(Seq(Spellings))
      BY <2>3, AppendProperties
    <3> QED
      BY <2>1, <2>2, <3>1 DEF Statement
  <2>5. KeysRead'
    <3>1. KeysOf(w, c) = {}
      BY <2>1, <2>2 DEF KeysRead, SchemaAssumption
    <3>2. KeysOf(w, Append(c, idents)) = {NamesOf(idents)}
      <4>1. KeysOf(w, Append(c, idents)) = KeysOf(w, c) \cup {NamesOf(idents)}
        BY <2>3, KeyConstraint
      <4> QED
        BY <3>1, <4>1
    <3>3. primary' \in Seq(Names) \ {<<>>}
      BY <2>1, NamesTyped
    <3> QED
      BY <2>1, <2>2, <2>4, <3>2, <3>3 DEF KeysRead
  <2>6. (Reading /\ phase # "built" /\ partition \in Seq(Names))'
    BY <2>1, <2>2 DEF Reading
  <2>7. BuiltAsDeclared'
    BY <2>6 DEF BuiltAsDeclared
  <2> QED
    BY <2>1, <2>2, <2>4, <2>5, <2>6, <2>7 DEF SchemaInv
<1> QED
  BY <1>1, <1>2

(* What the whole statement says.                                          *)
Declared(d, w) == {Meant(c.ident) : c \in ToSet(w)} \cup {c.name : c \in ToSet(d)}
NotNullThere(d) == {c.name : c \in {e \in ToSet(d) : ~e.nullable}}
Described == Seq([name : Names, nullable : BOOLEAN])

LEMMA SaysIs ==
  ASSUME NEW w \in Seq(Clause), NEW option
  PROVE  {Meant(c.ident) : c \in {e \in ToSet(w) : option \in ToSet(e.text.options)}} = SaysOf(w, option)
<1>1. \A ident : Meant(ident) = NameOf(ident)
  BY DEF Meant, NameOf
<1>2. \A text : option \in ToSet(text.options) <=> Has(text, option)
  BY DEF ToSet, Has
<1>3. ToSet(w) = {w[i] : i \in DOMAIN w}
  BY DEF ToSet
<1> QED
  BY <1>1, <1>2, <1>3 DEF SaysOf

LEMMA KeysAre ==
  ASSUME NEW w \in Seq(Clause), NEW c
  PROVE  {<<n>> : n \in {Meant(e.ident) : e \in {f \in ToSet(w) : "primarykey" \in ToSet(f.text.options)}}}
           \cup {MeantKey(k) : k \in ToSet(c)} = KeysOf(w, c)
<1>1. \A k : MeantKey(k) = NamesOf(k)
  <2>1. \A ident : Meant(ident) = NameOf(ident)
    BY DEF Meant, NameOf
  <2> QED
    BY <2>1 DEF MeantKey, NamesOf
<1>2. {MeantKey(k) : k \in ToSet(c)} = {NamesOf(c[i]) : i \in DOMAIN c}
  BY <1>1 DEF ToSet
<1> QED
  BY <1>2, SaysIs DEF KeysOf

LEMMA NamesAre ==
  ASSUME NEW cs \in ColumnsThere, NEW d \in Described, NEW w \in Seq(Clause), ColumnsRead(cs, d, w)
  PROVE  {cs[i].name : i \in DOMAIN cs} = Declared(d, w)
<1>1. \A ident : Meant(ident) = NameOf(ident)
  BY DEF Meant, NameOf
<1>2. Declared(d, w) = {NameOf(w[i].ident) : i \in DOMAIN w} \cup {d[i].name : i \in DOMAIN d}
  BY <1>1 DEF Declared, ToSet
<1>3. DOMAIN cs = 1..Len(cs) /\ DOMAIN d = 1..Len(d) /\ DOMAIN w = 1..Len(w)
  BY DEF ColumnsThere, Described
<1>4. CASE d # <<>>
  <2>1. DOMAIN cs = DOMAIN d /\ w = <<>> /\ \A i \in DOMAIN cs : cs[i].name = d[i].name
    BY <1>3, <1>4 DEF ColumnsRead, ColumnRead
  <2>2. DOMAIN w = {}
    BY <2>1
  <2> QED
    BY <1>2, <2>1, <2>2
<1>5. CASE d = <<>>
  <2>1. DOMAIN cs = DOMAIN w /\ \A i \in DOMAIN cs : cs[i].name = NameOf(w[i].ident)
    BY <1>3, <1>5 DEF ColumnsRead, ColumnRead
  <2>2. DOMAIN d = {}
    BY <1>5
  <2> QED
    BY <1>2, <2>1, <2>2
<1> QED
  BY <1>4, <1>5

LEMMA EachCounts ==
  ASSUME NEW cs \in ColumnsThere, \A i, j \in DOMAIN cs : cs[i].name = cs[j].name => i = j
  PROVE  Cardinality({cs[i].name : i \in DOMAIN cs}) = Len(cs)
<1> DEFINE names == {cs[i].name : i \in 1..Len(cs)}
           name == [i \in 1..Len(cs) |-> cs[i].name]
<1>1. Len(cs) \in Nat /\ DOMAIN cs = 1..Len(cs)
  BY DEF ColumnsThere
<1>2. name \in Bijection(1..Len(cs), names)
  BY <1>1 DEF Bijection, Injection, Surjection, IsInjective
<1>3. ExistsBijection(1..Len(cs), names)
  BY <1>2 DEF ExistsBijection
<1>4. Cardinality(names) = Len(cs)
  BY <1>1, <1>3, FS_CountingElements
<1> QED
  BY <1>1, <1>4

LEMMA NullsAre ==
  ASSUME NEW cs \in ColumnsThere, NEW d \in Described, NEW w \in Seq(Clause), ColumnsRead(cs, d, w),
         NEW i \in DOMAIN cs, NullRead(cs[i], d, w, i)
  PROVE  cs[i].nullable <=> cs[i].name \notin SaysOf(w, "notnull") \cup NotNullThere(d)
<1>1. NotNullThere(d) = {d[j].name : j \in {k \in DOMAIN d : ~d[k].nullable}}
  BY DEF NotNullThere, ToSet
<1>2. DOMAIN cs = 1..Len(cs) /\ DOMAIN d = 1..Len(d) /\ DOMAIN w = 1..Len(w)
  BY DEF ColumnsThere, Described
<1>3. \A j, k \in DOMAIN cs : cs[j].name = cs[k].name => j = k
  BY DEF ColumnsRead
<1>4. CASE d # <<>>
  <2>1. DOMAIN cs = DOMAIN d /\ w = <<>> /\ \A j \in DOMAIN cs : cs[j].name = d[j].name
    BY <1>2, <1>4 DEF ColumnsRead, ColumnRead
  <2>2. SaysOf(w, "notnull") = {}
    BY <2>1 DEF SaysOf
  <2>3. cs[i].nullable <=> d[i].nullable
    BY <1>4 DEF NullRead
  <2>4. cs[i].name \in NotNullThere(d) <=> ~d[i].nullable
    BY <1>1, <1>3, <2>1
  <2> QED
    BY <2>2, <2>3, <2>4
<1>5. CASE d = <<>>
  <2>1. DOMAIN cs = DOMAIN w /\ \A j \in DOMAIN cs : cs[j].name = NameOf(w[j].ident)
    BY <1>2, <1>5 DEF ColumnsRead, ColumnRead
  <2>2. NotNullThere(d) = {}
    BY <1>1, <1>5
  <2>3. cs[i].nullable <=> ~Has(w[i].text, "notnull")
    BY <1>5 DEF NullRead
  <2>4. cs[i].name \in SaysOf(w, "notnull") <=> Has(w[i].text, "notnull")
    BY <1>3, <2>1 DEF SaysOf
  <2> QED
    BY <2>2, <2>3, <2>4
<1> QED
  BY <1>4, <1>5

(* The primary key that is built is the one that is declared.              *)
LEMMA KeyBuilt ==
  ASSUME SchemaAssumption, KeysRead, NEW q \in Seq(Properties), PropertiesOnce(q),
         primary = Unset \/ KeyProperties(q) = {}
  PROVE  KeysOf(written.columns, written.constraints) \cup KeyProperties(q)
           = (IF Effective(q) = <<>> THEN {} ELSE {Effective(q)})
<1> DEFINE known == KeysOf(written.columns, written.constraints)
<1>1. primary # Unset => primary # <<>> /\ known = {primary}
  BY DEF KeysRead
<1>2. primary = Unset => known = {}
  <2>1. Unset \notin Seq(Names)
    BY DEF SchemaAssumption
  <2> QED
    BY <2>1 DEF KeysRead
<1> HIDE DEF known
<1>3. CASE KeyProperties(q) # {}
  <2>1. PICK i \in DOMAIN q : q[i].key = "primary-key"
    BY <1>3 DEF KeyProperties, ToSet
  <2>2. \A j \in DOMAIN q : q[j].key = "primary-key" => j = i
    BY <2>1 DEF PropertiesOnce, IsInjective
  <2>3. KeyProperties(q) = {q[i].value}
    BY <2>1, <2>2 DEF KeyProperties, ToSet
  <2>4. q[i].value # <<>>
    <3>1. q[i] \in Properties
      BY <2>1, ElementOfSeq
    <3>2. PICK k \in Keys(MaxKeys) \ {<<>>} : q[i].value = NamesOf(k)
      BY <2>1, <3>1 DEF Properties
    <3>3. k \in Seq(Spellings)
      BY <3>2, KeysAreNames DEF SchemaAssumption
    <3> QED
      BY <3>2, <3>3, NamesTyped
  <2>5. Effective(q) = q[i].value
    BY <1>3, <2>3 DEF Effective
  <2> QED
    BY <1>2, <1>3, <2>3, <2>4, <2>5 DEF known
<1>4. CASE KeyProperties(q) = {}
  <2>1. Effective(q) = IF primary = Unset THEN <<>> ELSE primary
    BY <1>4 DEF Effective
  <2> QED
    BY <1>1, <1>2, <1>4, <2>1 DEF known
<1> QED
  BY <1>3, <1>4


LEMMA QueryDescribed == ASSUME SchemaAssumption, NEW d \in {<<>>} \cup Derived PROVE d \in Described
<1>1. CASE d = <<>>
  BY <1>1, EmptySeq DEF Described
<1>2. CASE d \in Derived
  BY <1>2 DEF SchemaAssumption, Described
<1> QED
  BY <1>1, <1>2

LEMMA BuildGood ==
  ASSUME SchemaAssumption, SchemaInv, NEW keys \in Seq(Spellings), NEW q \in Seq(Properties), Build(keys, q)
  PROVE  SchemaInv'
<1> DEFINE d == written.derived
           w == written.columns
           c == written.constraints
           e == Effective(q)
<1>1. CASE phase' = "refused"
  BY <1>1, RefusedGood
<1>2. CASE phase' # "refused"
  <2>1. /\ Reading /\ phase' = "built"
        /\ written' = [written EXCEPT !.partition = keys, !.properties = q]
        /\ PropertiesOnce(q) /\ (primary = Unset \/ KeyProperties(q) = {}) /\ ~KeyDeclaredNull(q)
        /\ primary' = e /\ partition' = NamesOf(keys)
        /\ columns' = [i \in DOMAIN columns |-> [columns[i] EXCEPT !.nullable = @ /\ columns[i].name \notin ToSet(e)]]
    BY <1>2 DEF Build, Refuse, Reading
  <2>2. /\ written \in Statement /\ columns \in ColumnsThere /\ ColumnsRead(columns, d, w)
        /\ \A i \in DOMAIN columns : NullRead(columns[i], d, w, i)
        /\ KeysRead
    BY <2>1 DEF SchemaInv, Reading
  <2>3. d \in Described /\ w \in Seq(Clause)
    <3>1. d \in {<<>>} \cup Derived /\ w \in Seq(Clause)
      BY <2>2 DEF Statement
    <3> QED
      BY <3>1, QueryDescribed
  <2>4. /\ written' \in Statement /\ written'.derived = d /\ written'.columns = w
        /\ written'.constraints = c /\ written'.properties = q
    BY <2>1, <2>2 DEF Statement
  <2> HIDE DEF d, w, c, e
  <2>5. /\ columns' \in ColumnsThere /\ DOMAIN columns' = DOMAIN columns /\ Len(columns') = Len(columns)
        /\ \A i \in DOMAIN columns : /\ columns'[i].name = columns[i].name /\ columns'[i].type = columns[i].type
                                     /\ columns'[i].nullable <=> columns[i].nullable /\ columns[i].name \notin ToSet(e)
    <3> DEFINE There == [name : Names, type : TypesRead, nullable : BOOLEAN]
               marked(column) == [column EXCEPT !.nullable = @ /\ column.name \notin ToSet(e)]
    <3>1. \A column \in There : /\ marked(column) \in There
                                /\ marked(column).name = column.name /\ marked(column).type = column.type
                                /\ marked(column).nullable = (column.nullable /\ column.name \notin ToSet(e))
      OBVIOUS
    <3>2. Len(columns) \in Nat /\ DOMAIN columns = 1..Len(columns) /\ \A i \in DOMAIN columns : columns[i] \in There
      <4>1. columns \in Seq(There)
        BY <2>2 DEF ColumnsThere
      <4> HIDE DEF There
      <4> QED
        BY <4>1, ElementOfSeq
    <3>3. columns' = [i \in 1..Len(columns) |-> marked(columns[i])]
      BY <2>1, <3>2
    <3> HIDE DEF There, marked
    <3>4. columns' \in Seq(There) /\ Len(columns') = Len(columns) /\ DOMAIN columns' = DOMAIN columns
      BY <3>1, <3>2, <3>3
    <3>5. \A i \in DOMAIN columns : columns'[i] = marked(columns[i])
      BY <3>2, <3>3
    <3> QED
      BY <3>1, <3>2, <3>4, <3>5 DEF ColumnsThere, There
  <2>6. ColumnsRead(columns', d, w)
    BY <2>2, <2>5 DEF ColumnsRead, ColumnRead
  <2>7. partition' \in Seq(Names)
    BY <2>1, NamesTyped
  <2>8. NamesWritten' = Declared(d, w) /\ NotNullInQuery' = NotNullThere(d)
    BY <2>4 DEF NamesWritten, NotNullInQuery, Declared, NotNullThere
  <2>9. \A option : Says(option)' = SaysOf(w, option)
    BY <2>3, <2>4, SaysIs DEF Says
  <2>10. KeyDeclarations' = KeysOf(w, c) \cup KeyProperties(q)
    BY <2>3, <2>4, KeysAre DEF KeyDeclarations, Says
  <2>11. BuiltAsDeclared'
    <3>1. {columns'[i].name : i \in DOMAIN columns'} = NamesWritten'
      BY <2>3, <2>5, <2>6, <2>8, NamesAre
    <3>2. Len(columns') = Cardinality(NamesWritten')
      <4>1. \A i, j \in DOMAIN columns' : columns'[i].name = columns'[j].name => i = j
        BY <2>6 DEF ColumnsRead
      <4> QED
        BY <2>5, <3>1, <4>1, EachCounts
    <3>3. KeyDeclarations' = IF primary' = <<>> THEN {} ELSE {primary'}
      BY <2>1, <2>2, <2>10, KeyBuilt DEF w, c, e
    <3>4. ToSet(primary') \cap Says("null")' = {}
      BY <2>1, <2>2, <2>9 DEF KeysRead, KeyDeclaredNull, w, e
    <3>5. ASSUME NEW i \in DOMAIN columns'
          PROVE  columns'[i].nullable <=>
                   columns'[i].name \notin Says("notnull")' \cup NotNullInQuery' \cup ToSet(primary')
      <4>1. columns[i].nullable <=> columns[i].name \notin SaysOf(w, "notnull") \cup NotNullThere(d)
        BY <2>2, <2>3, <2>5, NullsAre
      <4>2. columns'[i].nullable <=> columns[i].nullable /\ columns[i].name \notin ToSet(e)
        BY <2>5
      <4>3. columns'[i].name = columns[i].name /\ primary' = e
        BY <2>1, <2>5
      <4> QED
        BY <2>8, <2>9, <4>1, <4>2, <4>3
    <3> QED
      BY <3>1, <3>2, <3>3, <3>4, <3>5 DEF BuiltAsDeclared
  <2> QED
    BY <2>1, <2>4, <2>5, <2>6, <2>7, <2>11 DEF SchemaInv, Reading, d, w
<1> QED
  BY <1>1, <1>2

LEMMA SchemaInitGood == ASSUME SchemaAssumption, SchemaInit PROVE SchemaInv
<1>1. CASE phase = "refused"
  BY <1>1 DEF SchemaInv, Reading, BuiltAsDeclared
<1>2. CASE phase # "refused"
  <2>1. PICK d \in Derived \cup {<<>>} :
          /\ phase = (IF IsInjective([i \in DOMAIN d |-> d[i].name]) THEN "columns" ELSE "refused")
          /\ columns = [i \in DOMAIN d |-> [name |-> d[i].name, type |-> Unset, nullable |-> d[i].nullable]]
          /\ written = [derived |-> d, columns |-> <<>>, constraints |-> <<>>, partition |-> <<>>,
                        properties |-> <<>>]
    BY DEF SchemaInit
  <2>2. /\ phase = "columns" /\ explicit = {} /\ primary = Unset /\ partition = <<>>
        /\ \A i, j \in DOMAIN d : d[i].name = d[j].name => i = j
    BY <1>2, <2>1 DEF SchemaInit, IsInjective
  <2>3. d \in Described
    BY QueryDescribed
  <2>4. /\ written \in Statement /\ written.derived = d /\ written.columns = <<>> /\ written.constraints = <<>>
    BY <2>1 DEF Statement
  <2>5. DOMAIN d = 1..Len(d) /\ \A i \in DOMAIN d : d[i].name \in Names /\ d[i].nullable \in BOOLEAN
    <3> DEFINE Output == [name : Names, nullable : BOOLEAN]
    <3>1. d \in Seq(Output)
      BY <2>3 DEF Described
    <3> HIDE DEF Output
    <3>2. DOMAIN d = 1..Len(d) /\ \A i \in DOMAIN d : d[i] \in Output
      BY <3>1, ElementOfSeq
    <3> QED
      BY <3>2 DEF Output
  <2>6. /\ columns \in ColumnsThere /\ Len(columns) = Len(d) /\ DOMAIN columns = DOMAIN d
        /\ \A i \in DOMAIN columns : columns[i].name = d[i].name /\ columns[i].nullable = d[i].nullable
    <3>1. \A i \in 1..Len(d) : [name |-> d[i].name, type |-> Unset, nullable |-> d[i].nullable]
                                 \in [name : Names, type : TypesRead, nullable : BOOLEAN]
      BY <2>5 DEF TypesRead
    <3>2. columns \in ColumnsThere /\ Len(columns) = Len(d) /\ DOMAIN columns = DOMAIN d
      BY <2>1, <2>3, <2>5, <3>1 DEF ColumnsThere, Described
    <3> QED
      BY <2>1, <3>2
  <2>7. ColumnsRead(columns, d, <<>>)
    <3>1. d = <<>> => DOMAIN columns = {} /\ Len(columns) = 0
      BY <2>6
    <3>2. \A i \in DOMAIN columns : ColumnRead(columns[i], d, <<>>, i)
      BY <2>6, <3>1 DEF ColumnRead
    <3> QED
      BY <2>2, <2>6, <3>1, <3>2 DEF ColumnsRead
  <2>8. \A i \in DOMAIN columns : NullRead(columns[i], d, <<>>, i)
    <3>1. d = <<>> => DOMAIN columns = {}
      BY <2>6
    <3> QED
      BY <2>6, <3>1 DEF NullRead
  <2>9. KeysRead
    <3>1. \A option : SaysOf(<<>>, option) = {}
      BY DEF SaysOf
    <3>2. KeysOf(<<>>, <<>>) = {}
      BY <3>1 DEF KeysOf
    <3> QED
      BY <2>2, <2>4, <3>1, <3>2 DEF KeysRead
  <2>10. partition \in Seq(Names)
    BY <2>2
  <2> QED
    BY <2>2, <2>4, <2>6, <2>7, <2>8, <2>9, <2>10 DEF SchemaInv, Reading, BuiltAsDeclared
<1> QED
  BY <1>1, <1>2

LEMMA SchemaStep == ASSUME SchemaAssumption, SchemaInv, [SchemaNext]_schemaVars PROVE SchemaInv'
<1>1. CASE \E i \in Spellings, t \in ColumnTexts : Column(i, t)
  BY <1>1, ColumnGood
<1>2. CASE \E k \in Keys(MaxKeys) : Constraint(k)
  BY <1>2, ConstraintGood, KeysAreNames DEF SchemaAssumption
<1>3. CASE \E p \in Keys(MaxPartition), q \in UNION {[1..n -> Properties] : n \in 0..MaxProperties} : Build(p, q)
  <2>1. PICK p \in Keys(MaxPartition), q \in UNION {[1..n -> Properties] : n \in 0..MaxProperties} : Build(p, q)
    BY <1>3
  <2>2. p \in Seq(Spellings)
    BY KeysAreNames DEF SchemaAssumption
  <2>3. q \in Seq(Properties)
    BY DEF SchemaAssumption
  <2> QED
    BY <2>1, <2>2, <2>3, BuildGood
<1>4. CASE UNCHANGED schemaVars
  <2>1. UNCHANGED <<phase, columns, explicit, primary, partition, written>>
    BY <1>4 DEF schemaVars
  <2> QED
    BY <2>1 DEF SchemaInv, Reading, KeysRead, BuiltAsDeclared, NamesWritten, NotNullInQuery, KeyDeclarations, Says
<1> QED
  BY <1>1, <1>2, <1>3, <1>4 DEF SchemaNext

(* Whatever columns, options, constraints, properties and query a CREATE   *)
(* TABLE has, in any number: the schema that build_schema makes of them    *)
(* has the columns, the primary key and the nullability they declare.      *)
THEOREM BuiltAsDeclaredAlways == ASSUME SchemaAssumption PROVE SchemaSpec => []BuiltAsDeclared
<1>1. SchemaInit => SchemaInv
  BY SchemaInitGood
<1>2. SchemaInv /\ [SchemaNext]_schemaVars => SchemaInv'
  BY SchemaStep
<1>3. SchemaInv => BuiltAsDeclared
  BY DEF SchemaInv
<1> QED
  BY <1>1, <1>2, <1>3, PTL DEF SchemaSpec


(* The parts of a type that is shown are parts that can be declared, and   *)
(* are shown alike again.                                                  *)
LEMMA UnitsStand ==
  ASSUME NEW n \in 0..9
  PROVE  ArrowUnit(n) \in 0..9 /\ ArrowUnit(ArrowUnit(n)) = ArrowUnit(n)
<1>1. \A m \in 0..9 : \E unit \in {0, 3, 6, 9} : unit >= m /\ unit < m + 3
  BY SMT
<1>2. \A m \in 0..9 : ArrowUnit(m) \in {0, 3, 6, 9} /\ ArrowUnit(m) >= m /\ ArrowUnit(m) < m + 3
  BY <1>1 DEF ArrowUnit
<1>3. ArrowUnit(n) \in {0, 3, 6, 9}
  BY <1>2
<1>4. ArrowUnit(n) \in 0..9
  BY <1>3
<1>5. /\ ArrowUnit(ArrowUnit(n)) \in {0, 3, 6, 9} /\ ArrowUnit(ArrowUnit(n)) >= ArrowUnit(n)
      /\ ArrowUnit(ArrowUnit(n)) < ArrowUnit(n) + 3
  BY <1>2, <1>4
<1>6. \A u, v \in {0, 3, 6, 9} : v >= u /\ v < u + 3 => v = u
  BY SMT
<1> QED
  BY <1>3, <1>4, <1>5, <1>6

LEMMA QuotedStands ==
  ASSUME NEW names, names = [i \in DOMAIN names |-> names[i]]
  PROVE  NamesOf([i \in DOMAIN names |-> Quoted(names[i])]) = names
<1> DEFINE idents == [i \in DOMAIN names |-> Quoted(names[i])]
<1>1. \A name : NameOf(Quoted(name)) = name
  BY DEF NameOf, Quoted
<1>2. DOMAIN idents = DOMAIN names /\ \A i \in DOMAIN names : idents[i] = Quoted(names[i])
  OBVIOUS
<1> HIDE DEF idents
<1>3. NamesOf(idents) = [i \in DOMAIN names |-> names[i]]
  BY <1>1, <1>2 DEF NamesOf
<1> QED
  BY <1>3 DEF idents

Stands(part) == Converts(part) /\ ShownPart(Converted(part)) = part

LEMMA PartStands ==
  ASSUME SchemaAssumption, NEW part \in Parts, Converts(part)
  PROVE  Stands(ShownPart(Converted(part)))
<1>0. Unset \notin Int
  BY DEF SchemaAssumption
<1>1. CASE part.kind \in {"leaf", "array", "map"}
  <2>1. Converted(part) = part
    BY <1>1 DEF Converted
  <2>2. ShownPart(part) = part
    BY <1>1 DEF ShownPart
  <2> QED
    BY <2>1, <2>2 DEF Stands
<1>2. CASE part.kind \in {"text", "bytes"}
  <2>1. PICK kind, length : kind \in {"text", "bytes"} /\ part = [kind |-> kind, length |-> length]
    <3>1. part \in [kind : {"text", "bytes"}, length : Parameter]
      BY <1>2 DEF Parts
    <3>2. part = [kind |-> part.kind, length |-> part.length]
      BY <3>1
    <3> QED
      BY <1>2, <3>2
  <2>2. Converted(part) = [kind |-> kind, length |-> Known(length, MaxLength)]
    BY <2>1 DEF Converted
  <2> DEFINE shown == [kind |-> kind, length |-> Unset]
             whole == [kind |-> kind, length |-> MaxLength]
  <2>3. ShownPart(Converted(part)) = shown
    BY <2>1, <2>2 DEF ShownPart
  <2>4. Converted(shown) = whole
    BY <2>1 DEF Converted, Known
  <2>5. ShownPart(whole) = shown
    BY <2>1 DEF ShownPart
  <2>6. Converts(shown)
    <3>1. MaxLength \in Nat /\ MaxLength >= 1
      BY DEF MaxLength
    <3>2. MaxLength \in 1..MaxLength
      BY <3>1
    <3> QED
      BY <2>1, <2>4, <3>2 DEF Converts
  <2> HIDE DEF shown, whole
  <2> QED
    BY <2>3, <2>4, <2>5, <2>6 DEF Stands
<1>3. CASE part.kind = "timestamp"
  <2>1. PICK precision : part = Timestamp(precision)
    BY <1>3 DEF Parts, Timestamp
  <2> DEFINE p == Known(precision, 6)
             u == ArrowUnit(p)
  <2>2. Converted(part) = Timestamp(p) /\ p \in 0..9
    <3>1. Converted(part) = Timestamp(p)
      BY <2>1 DEF Converted, Timestamp
    <3>2. Timestamp(p).precision = p /\ part.kind = "timestamp"
      BY <1>3 DEF Timestamp
    <3> HIDE DEF p
    <3> QED
      BY <3>1, <3>2 DEF Converts
  <2> HIDE DEF p
  <2>3. u \in 0..9 /\ ArrowUnit(u) = u /\ u # Unset
    BY <1>0, <2>2, UnitsStand
  <2>4. ShownPart(Converted(part)) = Timestamp(u)
    BY <2>2 DEF ShownPart, Timestamp
  <2> HIDE DEF u
  <2>5. Converted(Timestamp(u)) = Timestamp(u)
    BY <2>3 DEF Converted, Known, Timestamp
  <2>6. Converts(Timestamp(u))
    BY <2>3, <2>5 DEF Converts, Timestamp
  <2>7. ShownPart(Timestamp(u)) = Timestamp(u)
    BY <2>3 DEF ShownPart, Timestamp
  <2> QED
    BY <2>4, <2>5, <2>6, <2>7 DEF Stands
<1>4. CASE part.kind = "decimal"
  <2>1. PICK precision, scale : part = Decimal(precision, scale)
    BY <1>4 DEF Parts, Decimal
  <2> DEFINE p == Known(precision, 10)
             s == Known(scale, 0)
  <2>2. Converted(part) = Decimal(p, s) /\ p \in 1..38 /\ s \in 0..p
    <3>1. Converted(part) = Decimal(p, s)
      BY <2>1 DEF Converted, Decimal
    <3>2. Decimal(p, s).precision = p /\ Decimal(p, s).scale = s /\ part.kind = "decimal"
      BY <1>4 DEF Decimal
    <3> HIDE DEF p, s
    <3> QED
      BY <3>1, <3>2 DEF Converts
  <2> HIDE DEF p, s
  <2>3. p # Unset /\ s # Unset
    BY <1>0, <2>2
  <2>4. ShownPart(Decimal(p, s)) = Decimal(p, s)
    BY DEF ShownPart, Decimal
  <2>5. Converted(Decimal(p, s)) = Decimal(p, s)
    BY <2>3 DEF Converted, Known, Decimal
  <2>6. Converts(Decimal(p, s))
    BY <2>2, <2>5 DEF Converts, Decimal
  <2> QED
    BY <2>2, <2>4, <2>5, <2>6 DEF Stands
<1>5. CASE part.kind = "struct"
  <2>1. PICK idents \in Seq(Spellings) : part = Struct(idents)
    BY <1>5 DEF Parts, Struct
  <2> DEFINE names == NamesOf(idents)
             fields == [i \in DOMAIN names |-> Quoted(names[i])]
             made == [kind |-> "struct", names |-> names]
  <2>2. Converted(part) = made
    BY <2>1 DEF Converted, Struct
  <2>3. NamesOf(fields) = names
    <3>1. names = [i \in DOMAIN names |-> names[i]]
      BY DEF NamesOf
    <3> HIDE DEF names
    <3> QED
      BY <3>1, QuotedStands
  <2> HIDE DEF names
  <2>4. names # <<>> /\ IsInjective(names)
    BY <1>5, <2>2 DEF Converts
  <2>5. ShownPart(made) = Struct(fields)
    BY DEF ShownPart
  <2> HIDE DEF fields
  <2>6. Converted(Struct(fields)) = made
    BY <2>3 DEF Converted, Struct
  <2>7. Converts(Struct(fields))
    BY <2>4, <2>6 DEF Converts, Struct
  <2> HIDE DEF made
  <2> QED
    BY <2>2, <2>5, <2>6, <2>7 DEF Stands
<1>6. part.kind # "timestamp with time zone"
  BY DEF Converts
<1> QED
  BY <1>1, <1>2, <1>3, <1>4, <1>5, <1>6 DEF Parts

(* A column of the statement, its type as it is shown and read again.      *)
LEMMA TypeStands ==
  ASSUME SchemaAssumption, NEW type \in Seq(Parts), Convertible(type)
  PROVE  /\ Convertible(Shown(Convert(type)))
         /\ Shown(Convert(Shown(Convert(type)))) = Shown(Convert(type))
<1> DEFINE shown == Shown(Convert(type))
<1>1. DOMAIN shown = DOMAIN type /\ \A i \in DOMAIN type : shown[i] = ShownPart(Converted(type[i]))
  BY DEF Shown, Convert
<1>2. shown = [i \in DOMAIN shown |-> shown[i]]
  BY DEF Shown, Convert
<1>3. \A i \in DOMAIN type : type[i] \in Parts /\ Converts(type[i])
  BY ElementOfSeq DEF Convertible
<1> HIDE DEF shown
<1>4. \A i \in DOMAIN shown : Stands(shown[i])
  BY <1>1, <1>3, PartStands
<1>5. Convertible(shown)
  BY <1>4 DEF Convertible, Stands
<1>6. Shown(Convert(shown)) = [i \in DOMAIN shown |-> ShownPart(Converted(shown[i]))]
  BY DEF Shown, Convert
<1>7. Shown(Convert(shown)) = shown
  BY <1>2, <1>4, <1>6 DEF Stands
<1> QED
  BY <1>5, <1>7 DEF shown

LEMMA DefinitionStands == ASSUME SchemaAssumption, SchemaInv PROVE ShownCanBeDeclared
<1> SUFFICES ASSUME phase = "built", written.derived = <<>> PROVE ShownCanBeDeclared
  BY DEF ShownCanBeDeclared
<1> DEFINE w == written.columns
<1>1. /\ written \in Statement /\ columns \in ColumnsThere /\ ColumnsRead(columns, <<>>, w)
      /\ partition \in Seq(Names)
  BY DEF SchemaInv
<1>2. w \in Seq(Clause) /\ DOMAIN columns = DOMAIN w
  <2>1. w \in Seq(Clause) /\ Len(columns) = Len(w)
    BY <1>1 DEF Statement, ColumnsRead
  <2>2. DOMAIN columns = 1..Len(columns) /\ DOMAIN w = 1..Len(w)
    BY <1>1, <2>1 DEF ColumnsThere
  <2> QED
    BY <2>1, <2>2
<1>3. ASSUME NEW i \in DOMAIN columns
      PROVE  LET shown == Definition.columns[i] IN
             /\ NameOf(shown.ident) = columns[i].name
             /\ Convertible(shown.type) /\ Shown(Convert(shown.type)) = shown.type
  <2> DEFINE type == w[i].text.type
  <2>1. columns[i].type = Convert(type) /\ Convertible(type)
    BY <1>1 DEF ColumnsRead, ColumnRead
  <2>2. type \in Seq(Parts)
    <3>1. w[i] \in Clause
      BY <1>2, ElementOfSeq
    <3> QED
      BY <3>1 DEF Clause, SchemaAssumption
  <2>3. /\ Definition.columns[i].ident = Quoted(columns[i].name)
        /\ Definition.columns[i].type = Shown(columns[i].type)
    BY DEF Definition
  <2>4. NameOf(Quoted(columns[i].name)) = columns[i].name
    BY DEF NameOf, Quoted
  <2> HIDE DEF type
  <2> QED
    BY <2>1, <2>2, <2>3, <2>4, TypeStands
<1>4. NamesOf(Definition.partition) = partition
  <2>1. partition = [i \in DOMAIN partition |-> partition[i]]
    BY <1>1
  <2> QED
    BY <2>1, QuotedStands DEF Definition
<1> QED
  BY <1>3, <1>4 DEF ShownCanBeDeclared

(* What is shown of a table that is built declares a table that is shown   *)
(* alike, whatever the types of its columns, nested to any depth.          *)
THEOREM ShownCanBeDeclaredAlways == ASSUME SchemaAssumption PROVE SchemaSpec => []ShownCanBeDeclared
<1>1. SchemaInit => SchemaInv
  BY SchemaInitGood
<1>2. SchemaInv /\ [SchemaNext]_schemaVars => SchemaInv'
  BY SchemaStep
<1>3. SchemaInv => ShownCanBeDeclared
  BY DefinitionStands
<1> QED
  BY <1>1, <1>2, <1>3, PTL DEF SchemaSpec


=============================================================================
