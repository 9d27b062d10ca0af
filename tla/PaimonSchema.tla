----------------------------- MODULE PaimonSchema -----------------------------
(***************************************************************************)
(* A CREATE TABLE of a Paimon catalog, read clause by clause: its columns, *)
(* the constraints, the partition and the properties (build_schema,        *)
(* catalog/paimon_fs/ddl.rs; Paimon's own builder then checks the keys);   *)
(* and what SHOW CREATE TABLE and DESCRIBE tell of the table (sql/         *)
(* column_type.rs, catalog/table_definition_builder.rs).                   *)
(***************************************************************************)
EXTENDS Integers, Sequences, FiniteSets, SequencesExt

CONSTANTS
  Spellings,    \* [name, quoted], as they are written
  LowerCase,    \* [names -> names]: the name in lower case
  ColumnTexts,  \* [type, options]: what is written after the name of a column
  Derived,      \* schemas of queries, sequences of [name, nullable], for CTAS
  MaxColumns, MaxConstraints, MaxProperties,
  MaxKeys, MaxPartition,  \* bounds of the names in a key, and of a partition's
  Unset

VARIABLES
  phase,      \* the clause being read; "built" and "refused" are the end
  columns,    \* the builder's: [name, type, nullable], type Unset in a CTAS
  explicit,   \* explicitly_nullable
  primary,    \* primary_keys: a sequence of names, or Unset
  partition,  \* partition_keys
  written     \* what the statement says, as it is written

schemaVars == <<phase, columns, explicit, primary, partition, written>>

(* normalize_name.  Mutant: names as they are written.                     *)
NameAsWritten(ident) == ident.name
NameOf(ident) == IF ident.quoted THEN ident.name ELSE LowerCase[ident.name]
NamesOf(idents) == [i \in DOMAIN idents |-> NameOf(idents[i])]

-----------------------------------------------------------------------------

(* A type is the sequence of its parts, each before those it is made of,   *)
(* as it is spelled: ARRAY<MAP<STRING, INT>> has an array, a map, a text   *)
(* and a leaf.                                                             *)
Leaf(name) == [kind |-> "leaf", name |-> name]
Characters(length) == [kind |-> "text", length |-> length]
Timestamp(precision) == [kind |-> "timestamp", precision |-> precision]
Decimal(p, s) == [kind |-> "decimal", precision |-> p, scale |-> s]
Struct(idents) == [kind |-> "struct", idents |-> idents]

(* Parts as SQL has them, where parameters may be left out, and as Paimon. *)
Parameter == Nat \cup {Unset}
Parts ==
  [kind : {"leaf"}, name : STRING] \cup [kind : {"text", "bytes"}, length : Parameter]
  \cup [kind : {"timestamp"}, precision : Parameter]
  \cup [kind : {"decimal"}, precision : Parameter, scale : Parameter]
  \cup [kind : {"array", "map", "timestamp with time zone"}] \cup [kind : {"struct"}, idents : Seq(Spellings)]

Names == DOMAIN LowerCase
Options == {"null", "notnull", "primarykey"}
SchemaAssumption ==
  /\ {MaxKeys, MaxPartition, MaxProperties} \subseteq Nat /\ Unset \notin Int /\ Unset \notin Seq(Names)
  /\ \A i \in Spellings : i.quoted \in BOOLEAN /\ {i.name, LowerCase[i.name]} \subseteq Names
  /\ \A d \in Derived : d \in Seq([name : Names, nullable : BOOLEAN])
  /\ \A text \in ColumnTexts : text.type \in Seq(Parts) /\ text.options \in Seq(Options)

MaxLength == 2147483647
Known(n, default) == IF n = Unset THEN default ELSE n

(* convert_type: TIMESTAMP has six digits of a second, DECIMAL ten and     *)
(* none after the point; a structure has fields of different names.  CHAR, *)
(* of one character by default, and names without characters, which are    *)
(* refused, are left out.                                                  *)
Converted(part) ==
  CASE part.kind \in {"text", "bytes"} -> [part EXCEPT !.length = Known(@, MaxLength)]
    [] part.kind = "timestamp" -> Timestamp(Known(part.precision, 6))
    [] part.kind = "decimal" -> Decimal(Known(part.precision, 10), Known(part.scale, 0))
    [] part.kind = "struct" -> [kind |-> "struct", names |-> NamesOf(part.idents)]
    [] OTHER -> part
Converts(part) ==
  LET p == Converted(part) IN
  CASE part.kind \in {"leaf", "array", "map"} -> TRUE
    [] part.kind \in {"text", "bytes"} -> p.length \in 1..MaxLength
    [] part.kind = "timestamp" -> p.precision \in 0..9
    [] part.kind = "decimal" -> p.precision \in 1..38 /\ p.scale \in 0..p.precision
    [] part.kind = "struct" -> p.names # <<>> /\ IsInjective(p.names)
    [] OTHER -> FALSE

Convertible(type) == \A i \in DOMAIN type : Converts(type[i])
Convert(type) == [i \in DOMAIN type |-> Converted(type[i])]

(* The columns of a table as DataFusion has them.                          *)
ArrowUnit(precision) == CHOOSE unit \in {0, 3, 6, 9} : unit >= precision /\ unit < precision + 3

(* sql_type_name: the type of a column as it is shown.  Mutant: fields of  *)
(* structures are not quoted.                                              *)
Bare(name) == [name |-> name, quoted |-> FALSE]
Quoted(name) == [name |-> name, quoted |-> TRUE]

ShownPart(part) ==
  CASE part.kind \in {"text", "bytes"} -> [part EXCEPT !.length = Unset]
    [] part.kind = "timestamp" -> Timestamp(ArrowUnit(part.precision))
    [] part.kind = "struct" -> Struct([i \in DOMAIN part.names |-> Quoted(part.names[i])])
    [] OTHER -> part
Shown(type) == [i \in DOMAIN type |-> ShownPart(type[i])]

(* TableDefinitionBuilder::build and describe_dataframe.                   *)
Definition ==
  [columns |-> [i \in DOMAIN columns |->
     [ident |-> Quoted(columns[i].name), type |-> Shown(columns[i].type)]],
   partition |-> [i \in DOMAIN partition |-> Quoted(partition[i])]]

-----------------------------------------------------------------------------

(* The columns of a query are there before the statement is read.          *)
SchemaInit ==
  /\ explicit = {} /\ primary = Unset /\ partition = <<>>
  /\ \E d \in Derived \cup {<<>>} :
       /\ phase = IF IsInjective([i \in DOMAIN d |-> d[i].name]) THEN "columns" ELSE "refused"
       /\ columns = [i \in DOMAIN d |-> [name |-> d[i].name, type |-> Unset, nullable |-> d[i].nullable]]
       /\ written = [derived |-> d, columns |-> <<>>, constraints |-> <<>>, partition |-> <<>>,
                     properties |-> <<>>]

Refuse == phase' = "refused" /\ UNCHANGED <<columns, explicit, primary, partition>>

IsColumn(name) == \E i \in DOMAIN columns : columns[i].name = name

(* set_primary_key                                                         *)
FirstKey(keys) == keys = Unset

(* One column; its options in any order, none twice or in conflict.        *)
Column(ident, text) ==
  LET name == NameOf(ident)
      given(option) == {i \in DOMAIN text.options : text.options[i] = option} IN
  /\ phase = "columns" /\ Len(written.columns) < MaxColumns
  /\ written' = [written EXCEPT !.columns = Append(@, [ident |-> ident, text |-> text])]
  /\ IF \/ IsColumn(name) \/ Cardinality(given("null") \cup given("notnull")) > 1
        \/ given("primarykey") # {} /\ ~(FirstKey(primary) /\ Cardinality(given("primarykey")) = 1)
        \/ written.derived # <<>>
        \/ ~Convertible(text.type)
     THEN Refuse
     ELSE /\ columns' = Append(columns, [name |-> name, type |-> Convert(text.type),
                                         nullable |-> given("notnull") = {}])
          /\ explicit' = IF given("null") # {} THEN explicit \cup {name} ELSE explicit
          /\ primary' = IF given("primarykey") # {} THEN <<name>> ELSE primary
          /\ UNCHANGED <<phase, partition>>

(* PRIMARY KEY (...) after the columns.                                    *)
Constraint(idents) ==
  /\ phase \in {"columns", "constraints"} /\ Len(written.constraints) < MaxConstraints
  /\ written' = [written EXCEPT !.constraints = Append(@, idents)]
  /\ IF columns = <<>> \/ idents = <<>> \/ ~FirstKey(primary)
     THEN Refuse
     ELSE phase' = "constraints" /\ primary' = NamesOf(idents) /\ UNCHANGED <<columns, explicit, partition>>

(* table_options: no property twice.                                       *)
PropertiesOnce(properties) == IsInjective([i \in DOMAIN properties |-> properties[i].key])

(* What Paimon's builder takes for the primary keys: those of the          *)
(* statement, or those of the property 'primary-key', not of both.         *)
KeyProperties(properties) == {p.value : p \in {q \in ToSet(properties) : q.key = "primary-key"}}
Effective(properties) ==
  IF KeyProperties(properties) # {} THEN CHOOSE k \in KeyProperties(properties) : TRUE
  ELSE IF primary = Unset THEN <<>> ELSE primary

(* Keys are columns, and none is named twice.                              *)
KeysThere(keys) == IsInjective(keys) /\ \A i \in DOMAIN keys : IsColumn(keys[i])

(* An explicitly nullable column cannot be a primary key.  Mutant: only    *)
(* the keys the statement declares are looked at.                          *)
DeclaredNull(properties) == primary # Unset /\ ToSet(primary) \cap explicit # {}
KeyDeclaredNull(properties) == ToSet(Effective(properties)) \cap explicit # {}

Build(keys, properties) ==
  /\ phase \in {"columns", "constraints"}
  /\ written' = [written EXCEPT !.partition = keys, !.properties = properties]
  /\ IF \/ columns = <<>> \/ ~PropertiesOnce(properties)
        \/ primary # Unset /\ KeyProperties(properties) # {}
        \/ ~KeysThere(Effective(properties)) \/ ~KeysThere(NamesOf(keys))
        \/ KeyDeclaredNull(properties)
     THEN Refuse
     ELSE /\ phase' = "built" /\ primary' = Effective(properties) /\ partition' = NamesOf(keys)
          /\ columns' = [i \in DOMAIN columns |->
               [columns[i] EXCEPT !.nullable = @ /\ columns[i].name \notin ToSet(Effective(properties))]]
          /\ UNCHANGED explicit

Keys(n) == UNION {[1..k -> Spellings] : k \in 0..n}
Properties ==
  [key : {"primary-key"}, value : {NamesOf(k) : k \in Keys(MaxKeys) \ {<<>>}}] \cup [key : {"bucket"}, value : {Unset}]

SchemaNext ==
  \/ \E i \in Spellings, t \in ColumnTexts : Column(i, t)
  \/ \E k \in Keys(MaxKeys) : Constraint(k)
  \/ \E p \in Keys(MaxPartition), q \in UNION {[1..n -> Properties] : n \in 0..MaxProperties} : Build(p, q)

SchemaSpec == SchemaInit /\ [][SchemaNext]_schemaVars

-----------------------------------------------------------------------------

(* The statement as a whole: what it declares of each name.  To SQL only   *)
(* quotes keep the case of a name.                                         *)
Meant(ident) == IF ident.quoted THEN ident.name ELSE LowerCase[ident.name]
MeantKey(idents) == [i \in DOMAIN idents |-> Meant(idents[i])]
Says(option) ==
  {Meant(c.ident) : c \in {d \in ToSet(written.columns) : option \in ToSet(d.text.options)}}
NotNullInQuery == {c.name : c \in {d \in ToSet(written.derived) : ~d.nullable}}
NamesWritten ==
  {Meant(c.ident) : c \in ToSet(written.columns)} \cup {c.name : c \in ToSet(written.derived)}
KeyDeclarations ==
  {<<n>> : n \in Says("primarykey")}
  \cup {MeantKey(k) : k \in ToSet(written.constraints)} \cup KeyProperties(written.properties)

(* "Primary-key columns become non-nullable and cannot be declared         *)
(* explicitly NULL": a table that is built has the columns that are        *)
(* declared, one primary key at most, wherever it is declared, and NULL is *)
(* allowed in just the columns that are neither NOT NULL nor in it.        *)
BuiltAsDeclared ==
  phase = "built" =>
    /\ {columns[i].name : i \in DOMAIN columns} = NamesWritten
    /\ Len(columns) = Cardinality(NamesWritten)
    /\ KeyDeclarations = (IF primary = <<>> THEN {} ELSE {primary})
    /\ ToSet(primary) \cap Says("null") = {}
    /\ \A i \in DOMAIN columns :
         columns[i].nullable <=>
           columns[i].name \notin Says("notnull") \cup NotNullInQuery \cup ToSet(primary)

(* What SHOW CREATE TABLE and DESCRIBE say of a table is SQL for it: read  *)
(* as the columns of another CREATE TABLE, it gives columns of the same    *)
(* names, in the same partition, that are shown alike again.  (Columns of  *)
(* queries may have types that no statement can declare.)                  *)
ShownCanBeDeclared ==
  phase = "built" /\ written.derived = <<>> =>
    /\ \A i \in DOMAIN columns :
         LET shown == Definition.columns[i] IN
         /\ NameOf(shown.ident) = columns[i].name
         /\ Convertible(shown.type) /\ Shown(Convert(shown.type)) = shown.type
    /\ NamesOf(Definition.partition) = partition

=============================================================================
