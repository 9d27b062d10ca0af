---------------------------- MODULE NestedColumns ----------------------------
(***************************************************************************)
(* Columns of data files read as columns of a table whose spelling, fields *)
(* and types have changed since (CaseInsensitivePhysicalExprAdapter,       *)
(* catalog/data_file_format/case_insensitive_adapter.rs).                  *)
(*                                                                         *)
(* A nested column is read in one of two ways: whole, and converted by     *)
(* cast_nested; or, for s.a.b in a query, as the field of the file that    *)
(* s.a.b stands for, converted alone.                                      *)
(***************************************************************************)
EXTENDS Integers, Sequences, FiniteSets

CONSTANTS
  Names, Lower,       \* [Names -> Names]: the name in lower case
  Leaves, Castable,   \* types without fields; pairs of them arrow can cast
  Convert,            \* [Castable -> [values -> values]], Null if it cannot
  TableSchemas,       \* sequences of [name, type]
  FileSchemas, Rows,  \* Rows(schema): rows of a file with the schema
  Null, Failed, None

VARIABLES
  table,   \* the schema of the table
  file,    \* [schema, row], the file the table consists of, or None
  query    \* the last query of a column or of a field of it, or None

vars == <<table, file, query>>

Init == table \in TableSchemas /\ file = None /\ query = None

-----------------------------------------------------------------------------

(* find_field_index: the exact name, or the only one that differs in case. *)
(* 0 if there is neither.  Mutant: the exact name only.                    *)
Spelled(fields, name) == {i \in DOMAIN fields : fields[i].name = name}
Alike(fields, name) == {i \in DOMAIN fields : Lower[fields[i].name] = Lower[name]}
One(S) == IF S = {} THEN 0 ELSE CHOOSE i \in S : TRUE
FindExact(fields, name) == One(Spelled(fields, name))
FindField(fields, name) ==
  IF Spelled(fields, name) # {} THEN One(Spelled(fields, name))
  ELSE IF Cardinality(Alike(fields, name)) = 1 THEN One(Alike(fields, name)) ELSE 0

Nested(t) == t.kind # "leaf"

(* validate_nested_cast.  Mutant: only the outermost types are compared.   *)
ValidateKinds(source, target) == source.kind = target.kind
RECURSIVE Validate(_, _)
Validate(source, target) ==
  /\ source.kind = target.kind
  /\ CASE target.kind = "leaf" -> source = target \/ <<source.leaf, target.leaf>> \in Castable
       [] target.kind = "list" -> Validate(source.item, target.item)
       [] target.kind = "map" ->
            Validate(source.key, target.key) /\ Validate(source.value, target.value)
       [] target.kind = "struct" -> \A i \in DOMAIN target.fields :
            LET j == FindField(source.fields, target.fields[i].name) IN
            j # 0 => Validate(source.fields[j].type, target.fields[i].type)

(* cast_nested, on one value.  An error of a part is an error of the whole.*)
AllOrFailed(s) == IF \E i \in DOMAIN s : s[i] = Failed THEN Failed ELSE s

RECURSIVE CastNested(_, _, _)
CastNested(v, source, target) ==
  CASE source = target -> v
    [] source.kind # target.kind -> Failed
    [] source.kind = target.kind /\ source # target ->
       IF target.kind = "leaf"
       THEN IF <<source.leaf, target.leaf>> \notin Castable THEN Failed
            ELSE IF v = Null THEN Null ELSE Convert[<<source.leaf, target.leaf>>][v]
       ELSE IF v = Null THEN Null
       ELSE CASE target.kind = "list" ->
              AllOrFailed([i \in DOMAIN v |-> CastNested(v[i], source.item, target.item)])
         [] target.kind = "map" ->
              AllOrFailed([i \in DOMAIN v |-> AllOrFailed(
                <<CastNested(v[i][1], source.key, target.key),
                  CastNested(v[i][2], source.value, target.value)>>)])
         [] target.kind = "struct" ->
              AllOrFailed([i \in DOMAIN target.fields |->
                LET j == FindField(source.fields, target.fields[i].name) IN
                IF j = 0 THEN Null
                ELSE CastNested(v[j], source.fields[j].type, target.fields[i].type)])

(* The field at the end of a path, and its type.                           *)
RECURSIVE FieldOf(_, _, _)
FieldOf(v, type, path) ==
  IF path = <<>> \/ v \in {Null, Failed} THEN v
  ELSE LET j == FindExact(type.fields, Head(path)) IN FieldOf(v[j], type.fields[j].type, Tail(path))

RECURSIVE TypeAt(_, _)
TypeAt(type, path) ==
  IF path = <<>> THEN type
  ELSE TypeAt(type.fields[FindExact(type.fields, Head(path))].type, Tail(path))

(* CastExpr is strict where arrow's cast gives NULL.  Mutant: a field is   *)
(* left as it is in the file.                                              *)
Unconverted(v, source, target) == v
StrictCast(v, source, target) ==
  IF v # Null /\ CastNested(v, source, target) = Null THEN Failed ELSE CastNested(v, source, target)

(* rewrite_struct_field_access, on the type of the file.                   *)
RECURSIVE FieldAccess(_, _, _, _)
FieldAccess(v, type, path, target) ==
  IF path = <<>>
  THEN IF Nested(target) THEN CastNested(v, type, target) ELSE StrictCast(v, type, target)
  ELSE LET j == FindField(type.fields, Head(path)) IN
       IF j = 0 THEN Null
       ELSE FieldAccess(IF v = Null THEN Null ELSE v[j], type.fields[j].type, Tail(path), target)

(* create: incompatible nested columns refuse the file.                    *)
Opens(schema, fileSchema) ==
  \A i \in DOMAIN schema :
    LET j == FindField(fileSchema, schema[i].name) IN
    j # 0 /\ Nested(schema[i].type) => Validate(fileSchema[j].type, schema[i].type)

(* The column as a whole, NULL if the file does not have it.               *)
Whole(schema, f, i) ==
  LET j == FindField(f.schema, schema[i].name) IN
  IF j = 0 THEN Null ELSE CastNested(f.row[j], f.schema[j].type, schema[i].type)

(* The field of the column a query refers to.                              *)
Accessed(schema, f, i, path) ==
  LET j == FindField(f.schema, schema[i].name) IN
  IF j = 0 \/ path = <<>> THEN FieldOf(Whole(schema, f, i), schema[i].type, path)
  ELSE FieldAccess(f.row[j], f.schema[j].type, path, TypeAt(schema[i].type, path))

-----------------------------------------------------------------------------

(* The paths of a query through the structs of a type.                     *)
RECURSIVE Paths(_)
Paths(type) ==
  {<<>>} \cup IF type.kind # "struct" THEN {}
              ELSE UNION {{<<type.fields[i].name>> \o p : p \in Paths(type.fields[i].type)} :
                            i \in DOMAIN type.fields}

(* Between queries an engine changes the table or its file.                *)
Alter(schema) == table' = schema /\ query' = None /\ UNCHANGED file

Write(schema, row) ==
  file' = [schema |-> schema, row |-> row] /\ query' = None /\ UNCHANGED table

Query(i, path) ==
  /\ file # None
  /\ query' = LET opened == Opens(table, file.schema) IN
       [table |-> table, file |-> file, column |-> i, path |-> path, opened |-> opened,
        whole |-> IF opened THEN Whole(table, file, i) ELSE None,
        accessed |-> IF opened THEN Accessed(table, file, i, path) ELSE None]
  /\ UNCHANGED <<table, file>>

Next ==
  \/ \E s \in TableSchemas : Alter(s)
  \/ \E s \in FileSchemas : \E r \in Rows[s] : Write(s, r)
  \/ \E i \in DOMAIN table : Nested(table[i].type) /\ \E p \in Paths(table[i].type) : Query(i, p)

Spec == Init /\ [][Next]_vars

-----------------------------------------------------------------------------

Queried == query # None /\ query.opened

(* "an incompatible file fails when it is opened": a file that opened is   *)
(* converted without an error, at any depth (validate_nested_cast); and    *)
(* reading s.a.b from it, if that does not fail, gives what reading s as a *)
(* whole and then .a.b gives (rewrite_struct_field_access).                *)
ReadAlike ==
  Queried =>
    /\ query.whole # Failed
    /\ query.accessed \in
         {Failed, FieldOf(query.whole, query.table[query.column].type, query.path)}

(* Spelling does not matter ("Resolves table columns against data file     *)
(* columns ignoring ASCII case", "at any depth"): where no two names of a  *)
(* file differ only in case, writing all of them in lower case changes     *)
(* nothing of what is read.                                                *)
RECURSIVE LowerCase(_)
LowerCase(t) ==
  CASE t.kind = "leaf" -> t
    [] t.kind = "list" -> [t EXCEPT !.item = LowerCase(@)]
    [] t.kind = "map" -> [t EXCEPT !.key = LowerCase(@), !.value = LowerCase(@)]
    [] t.kind = "struct" -> [t EXCEPT !.fields =
         [i \in DOMAIN @ |-> [name |-> Lower[@[i].name], type |-> LowerCase(@[i].type)]]]

RECURSIVE Unambiguous(_)
Unambiguous(t) ==
  CASE t.kind = "leaf" -> TRUE
    [] t.kind = "list" -> Unambiguous(t.item)
    [] t.kind = "map" -> Unambiguous(t.key) /\ Unambiguous(t.value)
    [] t.kind = "struct" -> \A f \in {t.fields[i] : i \in DOMAIN t.fields} :
         Cardinality(Alike(t.fields, f.name)) = 1 /\ Unambiguous(f.type)

AsStruct(schema) == [kind |-> "struct", fields |-> schema]

CaseBlind ==
  Queried /\ Unambiguous(AsStruct(query.file.schema)) =>
    LET lower == [query.file EXCEPT !.schema = LowerCase(AsStruct(@)).fields] IN
    /\ Opens(query.table, lower.schema)
    /\ query.whole = Whole(query.table, lower, query.column)
    /\ query.accessed = Accessed(query.table, lower, query.column, query.path)

=============================================================================
