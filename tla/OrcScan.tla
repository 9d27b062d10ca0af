------------------------------- MODULE OrcScan -------------------------------
(***************************************************************************)
(* Scans of ORC files (OrcSource and OrcOpener, catalog/data_file_format/  *)
(* orc.rs): the columns a query needs, as the planner narrows them, and    *)
(* those its filters need are picked from the file by ORC's own numbers of *)
(* columns, and read with the adapter of NestedColumns as if the file had  *)
(* no others.                                                              *)
(***************************************************************************)
EXTENDS NestedColumns, SequencesExt

VARIABLES
  source,  \* a scan that is planned: [table, projection, filters], or None
  read     \* the last one that opened a file, and what it read; or None

scan == <<source, read>>

Fresh == source = None /\ read = None

-----------------------------------------------------------------------------

(* Columns in ORC are numbered from the root, nested ones included, in the *)
(* order they are declared in.                                             *)
RECURSIVE Width(_)
Width(t) ==
  1 + CASE t.kind = "leaf" -> 0
        [] t.kind = "list" -> Width(t.item)
        [] t.kind = "map" -> Width(t.key) + Width(t.value)
        [] t.kind = "struct" -> FoldLeft(LAMBDA n, f : n + Width(f.type), 0, t.fields)

OrcId(schema, i) == 1 + FoldLeft(LAMBDA n, f : n + Width(f.type), 0, SubSeq(schema, 1, i - 1))

(* The mask has ORC's numbers.  Mutant: it has Arrow's.                    *)
ArrowIndices(schema, indices) == indices
Mask(schema, indices) == {OrcId(schema, i) : i \in indices}

(* ProjectionMask::roots                                                   *)
Selected(schema, ids) == SelectSeq([i \in DOMAIN schema |-> i], LAMBDA i : OrcId(schema, i) \in ids)

(* The indices in the file of columns of the table, as the adapter has it. *)
Physical(logical, schema) == {FindField(schema, logical[i].name) : i \in DOMAIN logical} \ {0}

(* The columns of a predicate, which only has those that are in the file   *)
(* as they are in the table, and none if the file is no file of the table. *)
(* They count from the table, whatever is projected.  Mutant: from what is *)
(* projected.                                                              *)
PredicateOf(filters, logical, schema) ==
  LET found(i) == FindField(schema, logical[i].name)
      usable == {i \in filters \cap DOMAIN logical : found(i) # 0 /\ logical[i].type.kind = "leaf"
                   /\ schema[found(i)].type = logical[i].type} IN
  IF Opens(logical, schema) THEN {schema[found(i)].name : i \in usable} ELSE {}
OfProjected(s, logical, schema) == PredicateOf(s.filters, logical, schema)
PredicateColumns(s, logical, schema) == PredicateOf(s.filters, s.table, schema)

(* OrcOpener::open: the file as the reader hands it over, adapted again.   *)
(* Its row may be skipped, None, if the predicate is not true of it.       *)
Open(s) ==
  LET logical == [k \in DOMAIN s.projection |-> s.table[s.projection[k]]]
      predicate == PredicateColumns(s, logical, file.schema)
      indices == Physical(logical, file.schema) \cup
                 UNION {Spelled(file.schema, name) : name \in predicate}
      selected == Selected(file.schema, Mask(file.schema, indices))
      part == [schema |-> [k \in DOMAIN selected |-> file.schema[selected[k]]],
               row |-> [k \in DOMAIN selected |-> file.row[selected[k]]]] IN
  IF \/ ~Opens(logical, file.schema) \/ ~Opens(logical, part.schema)
     \/ \E name \in predicate : Spelled(part.schema, name) = {}
  THEN Failed
  ELSE IF \E j \in DOMAIN selected : part.schema[j].name \in predicate /\ part.row[j] = Null
  THEN None ELSE [k \in DOMAIN logical |-> Whole(logical, part, k)]

-----------------------------------------------------------------------------

(* create_file_opener of an unprojected source.  Filters are columns that  *)
(* must not be NULL.                                                       *)
Plan(filters) ==
  /\ source' = [table |-> table, projection |-> [i \in DOMAIN table |-> i], filters |-> filters]
  /\ UNCHANGED <<read, vars>>

(* try_pushdown_projection: some of the columns so far, in another order.  *)
PushDown(ks) ==
  /\ source # None /\ ks \subseteq DOMAIN source.projection
  /\ \E order \in SetToSeqs(ks) :
       source' = [source EXCEPT !.projection = [k \in DOMAIN order |-> source.projection[order[k]]]]
  /\ UNCHANGED <<read, vars>>

OpenFile ==
  /\ source # None /\ file # None
  /\ read' = [source |-> source, file |-> file, columns |-> Open(source)]
  /\ source' = None
  /\ UNCHANGED vars

ScanNext ==
  \/ \E filters \in SUBSET DOMAIN table : Plan(filters)
  \/ source # None /\ \E ks \in SUBSET DOMAIN source.projection : PushDown(ks)
  \/ OpenFile

-----------------------------------------------------------------------------

(* What a scan reads of a column is what is read of it in the whole file,  *)
(* whichever other columns it has, nested ones before it, or are read for  *)
(* its filters alone ("ORC type IDs include nested children, unlike Arrow  *)
(* field indices"); only rows the filters leave out are skipped, by the    *)
(* columns of the table they are on; and every file opens that has no      *)
(* column of the scan it cannot convert.                                   *)
SelectedAsWhole ==
  read # None =>
    LET s == read.source
        schema == [k \in DOMAIN s.projection |-> s.table[s.projection[k]]] IN
    CASE read.columns = Failed -> ~Opens(schema, read.file.schema)
      [] read.columns = None -> \E i \in s.filters : Whole(s.table, read.file, i) = Null
      [] OTHER -> read.columns = [k \in DOMAIN schema |-> Whole(schema, read.file, k)]

=============================================================================
