---------------------------- MODULE MC_TableDdl ----------------------------
(* Model checking of DDL: three statements on two tables.                  *)
EXTENDS TableDdlProperties

CONSTANTS narrow, wide, t1, t2

Say(kind, target, source, soft) ==
  [kind |-> kind, target |-> target, source |-> source, soft |-> soft, cascade |-> soft]

(* t1 is made from t2, both can be dropped and made again.                 *)
SmallTexts ==
  { Say("create", t1, t1, FALSE), Say("create", t2, t2, TRUE),
    Say("ctas", t1, t2, FALSE), Say("ctas", t1, t2, TRUE),
    Say("like", t2, t1, FALSE), Say("insert", t1, t2, FALSE),
    Say("overwrite", t1, t2, FALSE),
    Say("drop", t1, t1, TRUE), Say("drop", t2, t2, FALSE),
    Say("create schema", t1, t1, TRUE),
    Say("drop schema", t1, t1, FALSE), Say("drop schema", t1, t1, TRUE) }

SmallFits == {<<narrow, narrow>>, <<wide, wide>>}

=============================================================================
