--------------------------- MODULE MC_TableMetadata ---------------------------
(* Model checking of what metadata of tables stand for, and of what texts  *)
(* of statements do: components that share no state.  A behavior is one of *)
(* a single component; the others stay as they are.                        *)
EXTENDS HiveTextFiles, TableStatistics, PaimonSchema, ProcedureCalls, SqlScripts

CONSTANTS None, Failed, id, Id, dt

VARIABLES
  component,
  text, type

types == <<text, type>>

-----------------------------------------------------------------------------

(* Types of Hive: words in two cases, numbers on both sides of the limits. *)
TypeWords ==
  {"int", "INT", "string", "decimal", "varchar", "char", "array", "Array", "map", "struct",
   "uniontype", "0", "10", "39"}

HT == INSTANCE HiveTypes WITH
  Words <- TypeWords,
  Lower <- [w \in TypeWords |-> IF w = "INT" THEN "int" ELSE IF w = "Array" THEN "array" ELSE w],
  Arrow <- [w \in {"int", "string"} |-> IF w = "int" THEN "int32" ELSE "utf8"],
  FieldNames <- {"int", "Array"},
  Number <- "0" :> 0 @@ "10" :> 10 @@ "39" :> 39,
  MaxWidth <- 256, MaxUnion <- 128, MaxLength <- 9

-----------------------------------------------------------------------------

(* Text files: delimiters spelled in different ways, under both their      *)
(* names; a header, an escape, another end of lines, another NULL; other   *)
(* SerDes and formats.  The word is base64, the number is not.             *)
Char(n) == [form |-> "character", n |-> n, first |-> n, means |-> n]
One == [form |-> "decimal", n |-> 1, first |-> 49, means |-> 1]
High == [form |-> "decimal", n |-> -2, first |-> 45, means |-> 254]
Octal == [form |-> "octal", n |-> 9, first |-> 92, means |-> 9]

NoParameters == [k \in {} |-> 0]
Storage(i, s, a, b) == [input |-> i, serde |-> s, parameters |-> a, properties |-> b]
TextTable(a, b) == Storage("mapred.TextInputFormat", "LazySimpleSerDe", a, b)
SomeTables == {
  TextTable(NoParameters, NoParameters), TextTable("field.delim" :> Char(9), NoParameters),
  TextTable("field.delim" :> Char(9), "field.delim" :> High),
  TextTable("skip.header.line.count" :> 1, "field.delim" :> Octal @@ "serialization.format" :> One),
  TextTable("skip.header.line.count" :> 2, NoParameters),
  TextTable("line.delim" :> Char(13), NoParameters), TextTable(NoParameters, "escape.delim" :> Char(92)),
  TextTable("serialization.null.format" :> "12", "serialization.format" :> One),
  Storage("mapred.TextInputFormat", Missing, NoParameters, NoParameters),
  Storage("mapred.TextInputFormat", "OpenCSVSerde", NoParameters, NoParameters),
  Storage("OrcInputFormat", "OrcSerde", NoParameters, NoParameters),
  Storage("SequenceFileInputFormat", "LazySimpleSerDe", NoParameters, NoParameters)}

SomeLayouts ==
  [p \in {<<t.input, t.serde>> : t \in SomeTables} |->
    CASE p[1] = "OrcInputFormat" -> "orc" [] p[2] = "OpenCSVSerde" -> "csv"
      [] p[1] = "SequenceFileInputFormat" -> "sequence" [] OTHER -> "text"]
TextTypes == {"utf8", "int32", "binary", "nested"}
TextsWithNul == {"NUL"}
SomeTexts == {"12", "\\N", "word", ""} \cup TextsWithNul
ParseText == "int32" :> [t \in SomeTexts \cup {Joined} |-> IF t = "12" THEN 12 ELSE Null]
             @@ "binary" :> [t \in SomeTexts \cup {Joined} |-> IF t = "word" THEN 194 ELSE Null]
TextFiles == {[extension |-> "", partition |-> "p"], [extension |-> ".gz", partition |-> "q"],
              [extension |-> ".snappy", partition |-> "p"]}
Codec == "" :> "none" @@ ".gz" :> "gzip" @@ ".snappy" :> "snappy"

-----------------------------------------------------------------------------

(* Statistics: numbers of two hexadecimal digits, days of four seconds and *)
(* nanoseconds of which four are a second.                                 *)
Of(k, g) == [kind |-> k, glue |-> g]
Whole(n) == [kind |-> "int", glue |-> "LONG", range |-> (-n - 1)..n]
Dec(p, s) == [kind |-> "decimal", glue |-> "DECIMAL", precision |-> p, scale |-> s]
Stamp(u) == [kind |-> "timestamp", glue |-> "DATE", unit |-> u]

SomeColumns ==
  {Whole(7), Whole(127), Dec(2, 0), Dec(2, 1), Of("float", "DOUBLE"), Of("double", "DOUBLE"),
   Of("boolean", "BOOLEAN"), Of("utf8", "STRING"), Of("binary", "BINARY"), Of("date", "DATE"),
   Stamp("second"), Stamp("nano")}

SomeValues ==
  [c \in SomeColumns |->
    CASE c.kind = "int" -> {-8, 7} \cup (c.range \cap {-128, 127})
      [] c.kind = "decimal" -> {-99, -10, 0, 50}
      [] c.kind = "float" -> {-2, 4} [] c.kind = "double" -> {-2, 9}
      [] c.kind = "boolean" -> {0, 1}
      [] c.kind = "date" -> {-2, -1, 1}
      [] c.kind = "timestamp" -> {-9, -1, 0, 9} [] OTHER -> {1, 2}]
SomeScales == {0, 1, 2}
SomeUnits == "second" :> 1 @@ "nano" :> 4
SomePartitions == {"p", "q"}
SomeSizes == {0, 3, 9}
SomeCounts == {7, NoValue, NotNumber}

ASSUME StatisticsAssumption

-----------------------------------------------------------------------------

(* Paimon: id and Id are one name unless they are quoted.                  *)
Ident(n, q) == [name |-> n, quoted |-> q]
Made(kind) == [kind |-> kind]
SomeTypes ==
  {<<Characters(Unset)>>, <<Characters(20)>>, <<[kind |-> "bytes", length |-> 8]>>, <<Timestamp(Unset)>>,
   <<Timestamp(4)>>, <<Timestamp(10)>>, <<Decimal(Unset, Unset)>>, <<Decimal(39, 2)>>, <<Decimal(18, 2)>>,
   <<Made("array"), Leaf("INT")>>, <<Made("map"), Characters(Unset), Made("array"), Decimal(10, 2)>>,
   <<Struct(<<Ident(Id, TRUE), Ident(Id, FALSE)>>), Leaf("INT"), Characters(20)>>,
   <<Struct(<<Ident(Id, FALSE), Ident(id, FALSE)>>), Leaf("INT"), Leaf("INT")>>,
   <<Made("timestamp with time zone")>>}
SomeOptions == UNION {[1..n -> {"null", "notnull", "primarykey"}] : n \in 0..2}
Selected(n, nullable) == [name |-> n, nullable |-> nullable]

SomeSpellings == {Ident(id, FALSE), Ident(Id, FALSE), Ident(Id, TRUE)}
SomeLowerCase == [n \in {id, Id, dt} |-> IF n = Id THEN id ELSE n]
SomeColumnTexts == [type : SomeTypes, options : {<<>>}] \cup [type : {<<Leaf("INT")>>}, options : SomeOptions]
SomeQueries == {<<Selected(id, TRUE), Selected(dt, FALSE)>>, <<Selected(id, TRUE), Selected(id, TRUE)>>}

ASSUME SchemaAssumption

-----------------------------------------------------------------------------

(* Procedures: a table, a schema and a catalog have the same names, some   *)
(* of which have dots.                                                     *)
Dotted == <<id, dt>>
SomeNames == {<<id>>, <<Id>>, <<dt>>, Dotted, <<"tag">>}
SomeIdents == {Ident(<<id>>, FALSE), Ident(<<Id>>, FALSE), Ident(<<Id>>, TRUE), Ident(Dotted, TRUE)}
Argument(word, value) == [name |-> word, value |-> value]
Tag == Argument("tag", <<Ident(<<"tag">>, FALSE)>>)
TableGiven ==
  {Argument(w, v) : w \in {"table", "TABLE"},
     v \in UNION {[1..n -> SomeIdents] : n \in 1..3} \cup {<<i, i, i, i>> : i \in SomeIdents} \cup {Null}}

SomeSegments == {id, Id, dt, "tag"}
AllIdents == SomeIdents \cup {Ident(<<"tag">>, FALSE)}
LowerNames == [n \in SomeNames |-> IF n = <<Id>> THEN <<id>> ELSE n]
SomeCatalogs == <<id>> :> "paimon-fs" @@ <<dt>> :> "hms" @@ Dotted :> "paimon-fs"
SomeScopes == {[catalog |-> c, schema |-> s] : c \in {<<id>>, <<Id>>, <<dt>>, Dotted}, s \in {<<dt>>, Dotted}}
SomeFormats == "paimon" :> "paimon" @@ "PAIMON" :> "paimon" @@ "iceberg" :> "iceberg"
SomeProcedures == {"create_tag"}
SomeArguments ==
  {<<>>, <<Tag>>} \cup {<<a>> : a \in TableGiven} \cup
  {<<o, a>> : o \in {Tag} \cup {Argument("TABLE", <<i>>) : i \in SomeIdents}, a \in TableGiven \cup {Tag}}
NoText == {Null}

ASSUME CallAssumption

-----------------------------------------------------------------------------

(* Scripts: statements on one line and over several, delimiters that are   *)
(* missing or too many, comments, a statement that is none; answers below, *)
(* at and above what is previewed, the last in one batch and in several.   *)
SomeLines ==
  {<<"select", ";">>, <<"select">>, <<"from", "--", ";">>, <<"set", "on", ";", "show", "variables">>,
   <<";", "show", "variables", "like", "hit", ";">>, <<"show", "variables", "like", "miss", ";">>,
   <<"quit", ";">>, <<"like", ";">>, <<"select", "select", ";">>}
SomeScripts ==
  {FlattenSeq([i \in DOMAIN lines |-> Append(lines[i], "\n")]) :
     lines \in UNION {[1..n -> SomeLines] : n \in 1..MaxLines}}
NativeStatements == {<<"select">>, <<"select", "from">>, <<"set", "on">>}
SomePatterns == [p \in {"hit", "miss"} |-> p = "hit"]
SomeBatches == {<<>>, <<2>>, <<1, 0, 2>>, <<3>>}

ASSUME ScriptAssumption

-----------------------------------------------------------------------------

NoType == text = <<>> /\ type = Failed
NoTable == TextInit
NoStatistics == column = Whole(7) /\ ColumnIsNew /\ TableIsNew
NoStatement ==
  /\ phase = "none" /\ columns = <<>> /\ explicit = {} /\ primary = Unset /\ partition = <<>>
  /\ written = None
NoCall == scope = None /\ asked = Unasked /\ called = {}
NoScript == mode = "repl" /\ ScriptInit

MetadataInit ==
  \/ /\ component = "types" /\ HT!Init
     /\ NoTable /\ NoStatistics /\ NoStatement /\ NoCall /\ NoScript
  \/ /\ component = "text" /\ TextInit
     /\ NoType /\ NoStatistics /\ NoStatement /\ NoCall /\ NoScript
  \/ /\ component \in {"column", "table"} /\ StatisticsInit
     /\ NoType /\ NoTable /\ NoStatement /\ NoCall /\ NoScript
  \/ /\ component = "paimon" /\ SchemaInit
     /\ NoType /\ NoTable /\ NoStatistics /\ NoCall /\ NoScript
  \/ /\ component = "call" /\ CallInit
     /\ NoType /\ NoTable /\ NoStatistics /\ NoStatement /\ NoScript
  \/ /\ component = "script" /\ ScriptInit
     /\ NoType /\ NoTable /\ NoStatistics /\ NoStatement /\ NoCall

MetadataNext ==
  /\ UNCHANGED component
  /\ \/ component = "types" /\ HT!Next /\ UNCHANGED <<textVars, statisticsVars, schemaVars, callVars, scriptVars>>
     \/ component = "text" /\ TextNext /\ UNCHANGED <<types, statisticsVars, schemaVars, callVars, scriptVars>>
     \/ component = "column" /\ ColumnNext /\ UNCHANGED <<types, textVars, schemaVars, callVars, scriptVars>>
     \/ component = "table" /\ TableNext /\ UNCHANGED <<types, textVars, schemaVars, callVars, scriptVars>>
     \/ component = "paimon" /\ SchemaNext /\ UNCHANGED <<types, textVars, statisticsVars, callVars, scriptVars>>
     \/ component = "call" /\ CallNext /\ UNCHANGED <<types, textVars, statisticsVars, schemaVars, scriptVars>>
     \/ component = "script" /\ ScriptNext /\ UNCHANGED <<types, textVars, statisticsVars, schemaVars, callVars>>

MetadataSpec ==
  MetadataInit /\ [][MetadataNext]_<<component, types, textVars, statisticsVars, schemaVars, callVars, scriptVars>>

(* A column has the type that the text of the metastore stands for.        *)
ReadAsSpelled == HT!ReadAsSpelled

=============================================================================
