--------------------------- MODULE MC_ServerProcess ---------------------------
(* Model checking of the process: a table in two parts of different sizes, *)
(* which may fail, and joins of tables, two of which are made whole.       *)
EXTENDS ServerProcess, TLC

CONSTANTS q1, q2, sales, nation, region

Plan(scans, limit, shown) == [scans |-> scans, limit |-> limit, shown |-> shown]
Scans == {Plan(<<sales>>, None, 2), Plan(<<sales>>, 2, 9)}
Joins == {Plan(<<nation, region>>, None, 9), Plan(<<sales>>, 0, 9)}
Script == {Plan(<<sales, nation>>, None, 9), Plan(<<sales>>, None, 2)}
SomePlans == Scans \cup Joins \cup Script
SomeRows == (sales :> 3) @@ (nation :> 1) @@ (region :> 2)

Config(memory, catalogs) == [memory |-> memory, catalogs |-> catalogs]
Size(n, s) == [number |-> n, suffix |-> s]
Two(a, b) == "tpch" :> <<"a">> @@ "paimon-fs" :> <<a, b>>
Plain == Config(None, [k \in {} |-> <<>>])
Started == Config(Size(3, "k"), Two("b", "c"))
Machine(physical, cgroup) == [physical |-> physical, cgroup |-> cgroup, port |-> TRUE]
Roomy == Machine(9, None)
Start(mode, config, asked, machine) ==
  [mode |-> mode, config |-> config, asked |-> asked, machine |-> machine]
SomeStarts ==
  {Start("server", Started, Joins, Roomy), Start("repl", Started, Scans, Roomy),
   Start("command", Plain, Script, Roomy), Start("version", Plain, {}, Roomy),
   Start("server", Plain, {}, [Roomy EXCEPT !.port = FALSE])} \cup
  {Start("repl", Plain, {}, Machine(p, c)) : p \in {0, 1, 9, 100}, c \in {None, 0, 4}} \cup
  {Start("repl", c, {}, Roomy) : c \in
    {Config(Size(n, s), Two("b", "c")) : n \in {None, 1, 5}, s \in {"", "b", "m", "g", "t", "x"}} \cup
    {Config(None, Two("a", "c")), Config(None, Two("b", "b")), Config(None, Two("b", "internal"))}}

=============================================================================
