---------------------------- MODULE HiveTextFiles ----------------------------
(***************************************************************************)
(* What a Hive table's metadata says of its files, and what a scan of its  *)
(* text files makes of them (HiveStorageInfo, TextFileSerdeProperties and  *)
(* build_csv_exec, catalog/table_format/hive/), while engines create the   *)
(* table, add columns and write files.  Columnar files have readers of     *)
(* their own; of text every column is read as text and converted after.    *)
(*                                                                         *)
(* A line is [delimiter, cells]: read with another delimiter it is one     *)
(* cell, Joined, which stands for text that nobody wrote as a value.  A    *)
(* delimiter in the metadata is [form, n, first, means]:  *)
(* it is spelled in a form for the number n, its first character is first, *)
(* and who wrote it means the byte means.                                  *)
(***************************************************************************)
EXTENDS Integers, Sequences, FiniteSets

CONSTANTS
  Descriptions, \* [input, serde, parameters, properties]: the metadata of storage
  Layout,      \* [pairs of input and serde -> formats]: how engines write them
  Types,       \* of columns: "utf8", "null", "nested" and others
  Parse,       \* [other types -> [Texts -> values]], Null where a text is no value
  Texts,       \* of cells
  NulTexts,    \* the texts that begin with NUL and have no other
  Files,       \* [extension, partition], partition the value of the last column
  Compression, \* [extensions -> codecs]: what an extension stands for
  MaxTextColumns, MaxFiles, MaxRows,
  Joined, Null, Missing, Unreadable

(* Delimiters as Hive and who wrote the metadata read them: a number of a  *)
(* signed byte, or the first character; of what is escaped, what it says.  *)
ProperlySpelled(d) ==
  /\ d.form \in {"decimal", "hex", "octal", "letter", "character"}
  /\ d.n \in Int /\ d.first \in Int
  /\ d.form \in {"hex", "octal", "letter"} => d.n \in 0..255
  /\ d.means = CASE d.form = "decimal" /\ d.n \in -128..127 -> d.n % 256
                 [] d.form \in {"hex", "octal", "letter"} -> d.n
                 [] OTHER -> d.first % 256
Described(p) ==
  \A key \in DOMAIN p :
    /\ p[key] # Missing /\ key \notin {"serdeConstants.FIELD_DELIM", "columns.delimited.by"}
    /\ key = "skip.header.line.count" => p[key] \in Nat
    /\ key \in {"field.delim", "serialization.format", "line.delim", "escape.delim"} => ProperlySpelled(p[key])

ASSUME DescriptionsAssumption ==
  \A t \in Descriptions : Described(t.parameters) /\ Described(t.properties)
ASSUME LayoutAssumption ==
  \A t \in Descriptions :
    LET layout == Layout[<<t.input, t.serde>>] IN
    /\ t.input = "mapred.TextInputFormat" /\ t.serde \in {Missing, "LazySimpleSerDe"} => layout = "text"
    /\ t.input \in {"MapredParquetInputFormat", "parquet.hive.DeprecatedParquetInputFormat",
                    "parquet.hive.MapredParquetInputFormat"} => layout = "parquet"
    /\ t.input = "OrcInputFormat" => layout = "orc"
    /\ t.input = "AvroContainerInputFormat" => layout = "avro"
ASSUME CompressionAssumption ==
  \A f \in Files :
    LET codec == Compression[f.extension] IN
    /\ f.extension \in {".gz", ".gzip"} => codec = "gzip"
    /\ f.extension = ".bz2" => codec = "bzip2"
    /\ f.extension = ".xz" => codec = "xz"
    /\ f.extension \in {".zst", ".zstd"} => codec = "zstd"
    /\ \/ codec = "none"
       \/ f.extension \in {".gz", ".gzip", ".bz2", ".xz", ".zst", ".zstd",
                           ".snappy", ".deflate", ".lzo", ".lzo_deflate", ".lz4"}

TextTables ==
  [input : {t.input : t \in Descriptions}, serde : {t.serde : t \in Descriptions},
   parameters : {t.parameters : t \in Descriptions}, properties : {t.properties : t \in Descriptions},
   columns : Seq(Types)]

ASSUME NothingAssumption == Null \notin Texts /\ Missing \notin Int \cup TextTables
ASSUME CellsAssumption == NulTexts \subseteq Texts /\ Joined \notin Texts /\ Joined # ""

VARIABLES
  described, \* its metadata and columns, or Missing
  files   \* [Files -> [codec, lines]]

textVars == <<described, files>>

LineEnd == 10
FieldSeparator == 1
NullMarker == "\\N"

-----------------------------------------------------------------------------

(* try_get_input_format: a table that cannot be read is refused.  Mutant:  *)
(* the SerDe is not looked at.                                             *)
Format(input) ==
  CASE input = "mapred.TextInputFormat" -> "text"
    [] input \in {"MapredParquetInputFormat", "parquet.hive.DeprecatedParquetInputFormat",
                  "parquet.hive.MapredParquetInputFormat"} -> "parquet"
    [] input = "OrcInputFormat" -> "orc"
    [] input = "AvroContainerInputFormat" -> "avro"
    [] OTHER -> Unreadable
ByInput(t) == Format(t.input)
Reader(t) ==
  IF Format(t.input) = "text" /\ t.serde \notin {Missing, "LazySimpleSerDe"} THEN Unreadable ELSE Format(t.input)

(* merge_serde_properties.  Mutant: the table's parameters come first.     *)
Beside(f, g) == [x \in DOMAIN f \cup DOMAIN g |-> IF x \in DOMAIN f THEN f[x] ELSE g[x]]
ParametersFirst(t) == Beside(t.parameters, t.properties)
Merged(t) == Beside(t.properties, t.parameters)

(* try_new_from_hms_table, try_new_from_glue_table: what a provider has.   *)
StorageInfo(t) == [format |-> Reader(t), properties |-> Merged(t)]

Value(p, key, default) == IF key \in DOMAIN p THEN p[key] ELSE default

(* parse_hive_delimiter                                                    *)
Byte(raw) ==
  CASE raw.form = "decimal" /\ raw.n \in -128..127 -> raw.n % 256
    [] raw.form \in {"hex", "octal", "letter"} -> IF raw.n \in 0..255 THEN raw.n ELSE Missing
    [] raw.form = "empty" -> Missing
    [] OTHER -> raw.first % 256

(* The first of the keys that is there counts, even if it does not parse.  *)
DelimiterOf(p, keys, default) ==
  LET there == {i \in DOMAIN keys : keys[i] \in DOMAIN p}
      byte == Byte(p[keys[CHOOSE i \in there : \A j \in there : i <= j]]) IN
  IF there = {} \/ byte = Missing THEN default ELSE byte

FieldDelimiter(p) ==
  DelimiterOf(p, <<"field.delim", "serialization.format", "serdeConstants.FIELD_DELIM",
                 "columns.delimited.by">>, FieldSeparator)

(* build_textfile_csv_options: what the CSV reader cannot honor.  Mutant:  *)
(* escapes are not looked for.                                             *)
Header(p) == Value(p, "skip.header.line.count", 0)
HonoredWithEscapes(p) == DelimiterOf(p, <<"line.delim">>, LineEnd) = LineEnd /\ Header(p) \in {0, 1}
Honored(p) ==
  /\ DelimiterOf(p, <<"line.delim">>, LineEnd) = LineEnd
  /\ DelimiterOf(p, <<"escape.delim">>, Missing) = Missing
  /\ Header(p) \in {0, 1}

(* detect_file_compression                                                 *)
DetectCompression(extension) ==
  CASE extension \in {".gz", ".gzip"} -> "gzip"
    [] extension = ".bz2" -> "bzip2"
    [] extension = ".xz" -> "xz"
    [] extension \in {".zst", ".zstd"} -> "zstd"
    [] extension \in {".snappy", ".deflate", ".lzo", ".lzo_deflate", ".lz4"} -> Unreadable
    [] OTHER -> "none"

Codecs == {DetectCompression(f.extension) : f \in DOMAIN files}
OneCodec == Unreadable \notin Codecs /\ Cardinality(Codecs) <= 1

(* The CSV reader: no line without characters is a record, and a header is *)
(* the first record.  Missing trailing cells and empty ones are NULL.      *)
(* NUL is the quote: a text that begins with it goes on, over delimiters   *)
(* and ends of lines, to the next NUL.                                     *)
Cells(line, p) ==
  IF line.delimiter # FieldDelimiter(p) \/ \E i \in DOMAIN line.cells : line.cells[i] \in NulTexts
  THEN <<Joined>> ELSE line.cells
Cell(cells, i) == IF i \in DOMAIN cells /\ cells[i] # "" THEN cells[i] ELSE Null

InQuotes(lines, i) ==
  LET quotes(j) == {j} \X {n \in DOMAIN lines[j].cells : lines[j].cells[n] \in NulTexts} IN
  Cardinality(UNION {quotes(j) : j \in 1..(i - 1)}) % 2 = 1
Records(lines) == {i \in DOMAIN lines : ~InQuotes(lines, i) /\ lines[i].cells # <<"">>}
Body(lines, p) == {i \in Records(lines) : Header(p) = 1 => \E j \in Records(lines) : j < i}

(* build_csv_exec: the conversion of one column.  A text that is no value  *)
(* is NULL, and an error in a column of BINARY, which is decoded strictly. *)
(* Mutant: the marker of NULL is only looked for in text that parses.      *)
Decoded(text, type) ==
  IF type = "utf8" THEN text
  ELSE IF type = "binary" /\ Parse[type][text] = Null THEN Unreadable ELSE Parse[type][text]
Markerless(text, type, p) ==
  IF type \in {"null", "nested"} \/ text = Null THEN Null ELSE Decoded(text, type)
ConvertedCell(text, type, p) ==
  IF type \in {"null", "nested"} \/ text \in {Null, Value(p, "serialization.null.format", NullMarker)}
  THEN Null ELSE Decoded(text, type)

(* A column of the projection is a column of the file or of the partition. *)
InFile(i) == i <= Len(described.columns)
ScannedRow(cells, f, projection) ==
  [k \in DOMAIN projection |-> IF InFile(projection[k]) THEN Cell(cells, projection[k]) ELSE f.partition]
ProjectedRow(cells, f, p, projection) ==
  LET row == ScannedRow(cells, f, projection) IN
  IF \A k \in DOMAIN projection : ~InFile(projection[k]) THEN row
  ELSE [k \in DOMAIN projection |->
          IF InFile(projection[k]) THEN ConvertedCell(row[k], described.columns[projection[k]], p) ELSE row[k]]

(* build_csv_exec: the rows of every file, by the line they begin on,      *)
(* decompressed with one codec.                                            *)
TextRows(projection) ==
  LET p == StorageInfo(described).properties
      rows(f) == [i \in Body(files[f].lines, p) |-> ProjectedRow(Cells(files[f].lines[i], p), f, p, projection)]
      read == [f \in DOMAIN files |-> IF files[f].codec \in Codecs THEN rows(f) ELSE <<<<Joined>>>>] IN
  IF \/ ~Honored(p) \/ ~OneCodec
     \/ \E f \in DOMAIN files : \E i \in DOMAIN read[f] : \E k \in DOMAIN read[f][i] : read[f][i][k] = Unreadable
  THEN Unreadable ELSE read

-----------------------------------------------------------------------------

TextInit == described = Missing /\ files = [f \in {} |-> Missing]

(* What the properties mean to an engine: a SerDe's own comes before the   *)
(* table's, and a field's delimiter has an older name.                     *)
Said(key) ==
  IF key \in DOMAIN described.properties THEN described.properties[key]
  ELSE IF key \in DOMAIN described.parameters THEN described.parameters[key] ELSE Missing
MeantByte(key, default) == IF Said(key) = Missing THEN default ELSE Said(key).means
MeantDelimiter == MeantByte("field.delim", MeantByte("serialization.format", FieldSeparator))
HeaderLines == IF Said("skip.header.line.count") = Missing THEN 0 ELSE Said("skip.header.line.count")

Create(t, type) ==
  /\ described = Missing
  /\ described' = [input |-> t.input, serde |-> t.serde, parameters |-> t.parameters,
               properties |-> t.properties, columns |-> <<type>>]
  /\ UNCHANGED files

AddColumn(type) ==
  /\ described # Missing /\ Len(described.columns) < MaxTextColumns
  /\ described' = [described EXCEPT !.columns = Append(@, type)]
  /\ UNCHANGED files

(* A line whose delimiters are escaped, or that ends in another way, is    *)
(* none to a reader that does not know of it.                              *)
Write(f, rows) ==
  /\ described # Missing /\ Layout[<<described.input, described.serde>>] = "text"
  /\ f \notin DOMAIN files /\ Cardinality(DOMAIN files) < MaxFiles
  /\ LET delimiter == IF Said("escape.delim") = Missing /\ MeantByte("line.delim", LineEnd) = LineEnd
                      THEN MeantDelimiter ELSE Missing
         header == [i \in 1..HeaderLines |-> [delimiter |-> delimiter, cells |-> <<Joined>>]]
         lines == [i \in DOMAIN rows |-> [delimiter |-> delimiter, cells |-> rows[i]]] IN
     files' = Beside(files, [g \in {f} |-> [codec |-> Compression[f.extension], lines |-> header \o lines]])
  /\ UNCHANGED described

TextNext ==
  \/ \E t \in Descriptions, c \in Types : Create(t, c)
  \/ \E c \in Types : AddColumn(c)
  \/ \E f \in Files, n \in 0..MaxRows : described # Missing /\
       \E rows \in [1..n -> [DOMAIN described.columns -> Texts]] : Write(f, rows)

TextSpec == TextInit /\ [][TextNext]_textVars

-----------------------------------------------------------------------------

(* What Hive reads in a column of a line: the marker of NULL and what is   *)
(* no value of the column are NULL, as are columns the line is too short   *)
(* for.  Here a text without characters is NULL too, and nested columns.   *)
HiveMarker == IF Said("serialization.null.format") = Missing THEN NullMarker ELSE Said("serialization.null.format")
HiveValue(cells, i) ==
  LET type == described.columns[i] IN
  IF i > Len(cells) \/ type \in {"null", "nested"} THEN Null
  ELSE IF cells[i] \in {"", HiveMarker} THEN Null
  ELSE IF type = "utf8" THEN cells[i] ELSE Parse[type][cells[i]]

(* A line without characters is a row to Hive, and none here.              *)
HiveRow(cells, f, projection) ==
  [k \in DOMAIN projection |->
     IF projection[k] > Len(described.columns) THEN f.partition ELSE HiveValue(cells, projection[k])]
HiveRows(f, projection) ==
  LET lines == files[f].lines IN
  [i \in {j \in DOMAIN lines : j > HeaderLines /\ lines[j].cells # <<"">>} |->
     HiveRow(lines[i].cells, f, projection)]

NoQuotes(f) ==
  \A i \in DOMAIN files[f].lines : \A n \in DOMAIN files[f].lines[i].cells :
    files[f].lines[i].cells[n] \notin NulTexts

(* "Only layouts we can read correctly are accepted; everything else fails *)
(* loudly instead of being read as a different format"                     *)
(* (hive_storage_info.rs:87): a table is refused, or its files are read as *)
(* they are written.  A scan of text files fails, or every column of every *)
(* projection is what Hive reads there, in files older than the column     *)
(* too.  This is said of lines that have characters, and of files in which *)
(* no text begins with NUL (issue #52 of the code).  What fails beside     *)
(* what the reader cannot honor is text of BINARY that is not base64,      *)
(* although "a value that cannot be parsed as its column type is read as   *)
(* NULL" (hive.md:31).                                                     *)
ReadAsLaidOut ==
  described # Missing /\ StorageInfo(described).format # Unreadable =>
    /\ StorageInfo(described).format = Layout[<<described.input, described.serde>>]
    /\ StorageInfo(described).format = "text" =>
         \A projection \in UNION {[1..n -> 1..(Len(described.columns) + 1)] : n \in 0..2} :
           LET read == TextRows(projection) IN
           read # Unreadable =>
             \A f \in DOMAIN files : NoQuotes(f) => read[f] = HiveRows(f, projection)

=============================================================================
