# Lakelet in TLA+

Lakelet runs SQL over tables that live in remote catalogs (Hive Metastore,
Glue, Iceberg REST, Paimon on a file system) and in object stores.  One process
holds a REPL or a Flight SQL server; sessions, caches and clients of remote
services are shared by whatever runs in it.  There is no database of its own:
what can go wrong is that a statement is planned with, cached from, or applied
to something that has changed since it looked.

This directory models the parts of the program that decide things, checks them
with TLC on small instances, and proves the most important results with TLAPS
for instances of any size.

Paths below are relative to `src/src/app/src/` unless they start with
`storage/` (`src/src/storage/src/`) or `docs/` (`src/docs/`).

## Inventory

For each part: the state it keeps, its operations, whom it talks to, what is
hard about it, and what makes it correct.

**Sessions and front ends** (`sql/session.rs`, `sql/session/use.rs`,
`server/repl.rs`, `server/flight/mod.rs`).  A session keeps the default catalog
and schema and the catalog list of the statement being planned.  Operations:
USE, resolve the tables of a statement, plan it, run it.  The REPL keeps one
session; Flight SQL makes one per request, from the request's headers.  Hard:
every lookup in a remote catalog is an await at which other requests run and
at which Ctrl-C or a lost client may drop the statement; planning replaces the
catalog list of the whole session.  Correct if a statement is planned with what
it resolved itself, in the scope its client was told.

**DDL and INSERT** (`sql/session/ddl.rs`, `catalog/paimon_fs.rs`).  Keeps no
state; the tables are directories in an object store that all sessions share.
CREATE TABLE AS is three awaits (plan, create, plan again and insert), by name.
Hard: other sessions create, drop and fill tables of that name in between; the
statement may fail or be abandoned after any of them.  Correct if rows go only
where they belong and fit, and nothing is lost but by DROP and by an INSERT OVERWRITE that
replaces it.

**Statistics** (`catalog/statistics/`).  A cache for the process from table to
(schema, statistics), entries live for an hour.  A load sends batches of
requests, some of which fail.  Hard: queries that saw different schemas of a
table look up, invalidate and insert the same key in any order.  Correct if an
answer has the layout its plan was made with and no query inherits another's
failures.

**Table lookup** (`catalog/hms.rs`, `catalog/glue.rs`, `catalog/table_format/`).
Asks for a table, then, in one answer (HMS) or pages (Glue), for its
partitions; detects the format; chooses the provider, or that of a metadata
table such as `t$partitions`.  Hard: the metastore changes between requests.

**Hive scans** (`catalog/table_format/hive/hive_table_provider.rs`,
`hive_metadata_table_provider.rs`, `hive_file_utils.rs`, `storage/storage.rs`).
Two registries of the process: object stores by URL, listings by path.  A scan
registers its store, prunes partitions, lists what is left concurrently, gives
files the values of their partition.  Hard: listings come in pages, fail half
way, finish in any order and are shared; both keys say less than what they
stand for.  Correct if a scan has the files of its own partitions, all of them.

**Pruning and partition values** (`hive_table_provider.rs`).  Pure.  The text of
a partition's value is parsed twice, by code that differs in what it does with
a text that does not parse; dates and timestamps are parsed by hand.  Correct if
pruning changes no answer that comes and a date or time on the calendar is the one
it says.

**Metadata of Hive tables** (`hive_type.rs`, `hive_storage_info.rs`,
`hive_textfile_serde.rs`, `hive_utils.rs`, `catalog/statistics/glue.rs`).  Pure.
The metastore's texts say which types columns have, how files are laid out, and
what is known of rows and values; engines write them in several spellings and
at several times.  Correct if what is read is what was meant, or refused, and no
statistics that are wrong are passed off as exact.

**Iceberg file access** (`catalog/table_format/iceberg/iceberg_file_io.rs`,
`storage/`).  Per table: credentials per backend (the catalog's block, vended,
or the backend's own chain) and a cache of operators.  Operations: single
requests, delete streams, writers.  Hard: operators are shared by concurrent
calls, a delete stream only queues until it is closed, every request may fail.

**Metadata calls and SHOW** (`server/flight/metadata.rs`,
`server/flight/mod.rs`, `sql/session/show.rs`) and **metastore clients**
(`catalog/*.rs`).  A ticket is issued by one call and redeemed by another; a
listing is a request per schema, or in Glue per page; a catalog's client is connected by the first
call that needs it.  Hard: names come and go between requests and pages; the call that
connects may fail or be dropped while others wait for it.

**Paimon schemas** (`catalog/paimon_fs/ddl.rs`, `sql/column_type.rs`,
`catalog/table_definition_builder.rs`, `sql/session/describe.rs`).  A CREATE
TABLE is read clause by clause; a primary key may come from three of them.
Correct if the table has what was declared, in any spelling, and what SHOW
CREATE TABLE tells of it declares it again.

**CALL** (`sql/session/procedure.rs`, `catalog/paimon_fs.rs`).  A procedure of
Paimon gets its table as a text that it splits at dots.  Correct if that is the
table the statement names in the scope of its session.

**ORC predicates** (`catalog/data_file_format/orc_predicate.rs`).  Pure: an
expression becomes a predicate that may skip rows.  Correct if it is a necessary
condition of the expression, through NOT, OR, NULL and what has no predicate.

**ORC scans** (`catalog/data_file_format/orc.rs`).  Columns have an index in the
table, one in the file, one in what was selected, and a number in ORC that
counts the nested ones.  Correct if a scan reads the columns asked for.

**Columns of files** (`catalog/data_file_format/case_insensitive_adapter.rs`).
Pure: columns and fields of a file are found whatever their spelling, checked
when the file is opened and converted when it is read.  Two ways to read a
field: in its whole column, or by itself.

**Generated tables** (`catalog/benchmark/`).  Per query, a worker for each
partition of each scan, in the pool of blocking threads, and a channel that
holds one batch.  Hard: a worker may fail, panic or be dropped between any two
batches; it keeps its thread while nobody reads it.  Correct if a query that is
answered got every row once, and every query ends.

**The process** (`server/mod.rs`, `context.rs`, `catalog/manager.rs`,
`src/common/src/runtime.rs`).  Configuration and catalogs, read once; two
runtimes, with as many owners as there are copies of the context.  Hard:
start-up may fail at each step, and a runtime dropped in its own context panics.
Correct if who serves does so as configured, and every process that stops exits.

**Scripts** (`sql/parser.rs`, `server/repl.rs`, `server/print.rs`,
`catalog/internal.rs`).  A text of several statements is parsed, then run one by
one in one session, from a prompt, `--command` or `--file`; the prompt shows a
part of long answers.  Hard: delimiters, comments and input that is not finished
decide where statements end; the rest is dropped when one fails.  Correct if
what runs is what was written, in order, all or as far as none fails.

**Others.**  Parquet and Avro readers, Iceberg and Delta tables, the dialect of
SQL, line editing: see *Not modelled*.

`PROJECT.json` names for each hazard of this code the line where it bites and
the properties that would catch it.

## Modules

Each component `M` has `M.tla` (state, actions, type invariant),
`MProperties.tla` where its properties are many, a module of proofs if something
is proved (`MProofs`; `FileAccessProofs` is that of `HiveScan` and
`IcebergStorage`, `PruningProofs` that of `HivePartitions`, `PartitionDates`,
`OrcPredicates` and `TableStatistics`,
`HiveTableProofs` that of `HiveTableLookup` and `HiveTextFiles`, `TableDdlProofs`
also that of `ProcedureCalls` and `PaimonSchema`, `QuerySessionsProofs` also that of
`SqlScripts`), `MC_M.tla` and `M.cfg` for TLC.  Two MC modules combine components
that share no state, so that a behaviour is one of a single component:
`MC_TableReads` (`HivePartitions`, `PartitionDates`, `OrcPredicates`,
`NestedColumns`, `OrcScan`) and `MC_TableMetadata` (`HiveTypes`, `HiveTextFiles`,
`TableStatistics`, `PaimonSchema`, `ProcedureCalls`, `SqlScripts`).
The operators marked *Mutant* in a comment are plausible bugs: in their place
each checked property fails.

| Module | State | Actions and the code they are |
| --- | --- | --- |
| `StatisticsManager` | `metastore`, `cache`, and for each call of `load` its phase, the schema it planned with, batches awaited, answer | `Describe` (the lookup that starts a load), `Lookup`, `Invalidate`, one `Respond` for each answer or failure, `Insert` if the answer is cacheable; environment: alter, expire, abandon |
| `StatisticsPromise` | the metastore and each call's question and answer | the abstract specification: an answer is complete, or as recent as its question |
| `QuerySessions` | `scope`, `registered` and `task` of each session, `schemas` there, and `believed`, what a client can know of its scope | an input is split into statements; USE writes the catalog, awaits the schema, writes the schema; a query resolves, registers its list, plans; any of them fails or is dropped at an await |
| `TableDdl` | the schema's `tables`, with who created them and whose rows they hold; `run`, the progress of each statement; `dropped` | plan, create (three forms), plan again, execute (an INSERT OVERWRITE leaves any part of the rows there were), drop, create and drop of the schema, failure, abandonment |
| `HiveTableLookup` | the table of a name and its partitions (with what there was at some time and all the time), the lookup | `GetTable`, `GetPartitions` (one answer, cut at a maximum), `GetPage`, `Build`, failures; environment: `Change` |
| `HiveScan` | contents of locations, store `registry`, listing `cache`, and for each scan its tasks | `Begin` for rows, `$data_files` or `$partitions`, `Register`, a page or a failure of a listing, `PutListing`, `Finish` |
| `HivePartitions` | the partitions there, the columns `zoned` (timestamps with local time zone), the last query | add and drop a partition; a query with any set of filters, pruned or not, which fails if a filter has a zoned column |
| `PartitionDates` | a calendar turned day by day, with its count of days | the next and the previous day; `DaysSinceEpoch` and `Timestamp` are the code's functions, a time's fraction a sequence of digits |
| `HiveTypes` | a type's text and what it stands for | the cursor's functions, one for each rule; environment: texts by the productions of Hive's grammar (`Retype`, nested in each other), then damaged |
| `HiveTextFiles` | a table's metadata and columns, its files | `Create`, `AddColumn`, `Write` by engines; the choice of a reader, the merged properties and the rows read (`TextRows`) as state functions |
| `TableStatistics` | type and values of a column, Glue's statistics of it, properties and files of the table | engines add rows, retype, analyze, forget, write files, describe; the conversions are functions of the state |
| `PaimonSchema` | the schema builder, and the statement as written (a type is a sequence of parts, what holds a type before what it holds) | a column, a constraint, the partition, a property, the columns of a query, the end with its checks |
| `ProcedureCalls` | scope, statement, what Paimon is asked | `Call` |
| `SqlScripts` | the input and how it ended, `reader` (the tokenizer), `parser` (where it is, whether it expects a delimiter, the statements so far), statements that wait, the setting, the answer being fetched, what was printed, what has begun | `RunScript`, `TypeLine`, `Leave`; `ReadWord`, `AllRead`; `Delimiter`, `ParseStatement`, `Expected`, `Parsed`, a round of the parser's loop each; `Begin` a statement, `Fetch` a batch, `PrintAnswer`, `Abandon` |
| `OrcScan` | a scan that is planned, what it read | plan, push down (projection and filters), open a file |
| `BenchmarkScans` | each query's answer; its workers, with what they send and what was received | `Execute`; a worker gets a thread, initializes, generates, fails, sends; the query receives, fails, finishes, is cancelled |
| `ServerProcess` | how the process was started, its phase, memory, catalogs, owners of the context | `ReadConfig`, `LoadCatalog`, `MakeRuntimes`, `BlockOn`, `ResolveMemoryLimit`, `BuildProviders`, `Open`; `Ask`, `Abandon`, `Stop`, `Return`, `DropContext`, `Exit`, over the steps of `BenchmarkScans` |
| `IcebergStorage` | `chosen` credentials and `operators` of each table, `files`, calls | `Build`, `StartCall`, single requests, queueing and closing of a delete stream, open, write and finish of a writer, failure of each |
| `CatalogMetadata` | schemas and tables of catalogs, the client cell of each, calls | `GetFlightInfo`, `DoGet`, `Show`, `Connect`, `ListSchemas` and `ListTables`, a page of a list each (of a catalog that is not `Paged`, the list), ends by failure or disconnection; environment: create and drop |
| `OrcPredicates` | a stack of terms, each with its predicate and its three-valued meaning | one action for each form of expression: comparison, IN, IS NULL, column, AND, OR, NOT, unsupported |
| `NestedColumns` | the table's schema, its file, the last query: whether the file opened, the whole column, the single field | `Alter`, `Write` a file of any schema, `Query` |

How they connect.  `SqlScripts` gives `QuerySessions` its inputs: the statements
of a text that parses, one after the other.  `QuerySessions` stops where a statement's own work begins:
`TableDdl` takes over for DDL, `HiveTableLookup`, `StatisticsManager` and then
`HiveScan` for the tables of a query.  What the first hands to the next is a
parameter there, ranging over all it could be: the partitions that a lookup
found and pruning kept are any choice in `HiveScan`, and `HivePartitions` shows
which choices keep the answer; the day number of a date is a value there and
computed in `PartitionDates`; the schema a query planned with is an argument of
`load` in `StatisticsManager`, and `TableStatistics` makes of Glue's answers
what is cached there; the types of columns in `NestedColumns` and
`TableStatistics` are what `HiveTypes` read; the layouts of `TableDdl` are what
`PaimonSchema` built.  `OrcScan` EXTENDS `NestedColumns`, whose adapter it uses,
and `ServerProcess` EXTENDS `BenchmarkScans`: the process runs its queries and
waits for their threads.  `CatalogMetadata` shares with the lookups the client
of each catalog.  The components are kept apart because they share no variable:
the sessions of a server share its caches, and each cache has a module of its
own with several concurrent users.

## Runs

| Run | What it asks | Instance | States |
| --- | --- | --- | --- |
| `statistics_cache` | Do queries that share a cache get statistics of their own schema, without others' failures, and return? Does the cache implement `StatisticsPromise`? | 2 queries, 1 table altered twice between 2 schemas, 2 batches, 1 in flight | 131 000 |
| `query_sessions` | Does each statement plan with its own resolution and scope, whatever runs or is dropped meanwhile? | the REPL and a Flight SQL client, 2 catalogs of 2 schemas that come and go, inputs of 1 or 2 statements | 217 000 |
| `table_ddl` | Do concurrent statements keep their rows in their own tables? | 3 statements of 12 forms, 2 names, 2 layouts that do not fit each other | 831 000 |
| `table_lookup` | Is a table read in the format it was written in, with the partitions it had? | 3 partitions, pages of 2, an answer of at most 2, 3 changes at any moment, 7 kinds of tables | 966 000 |
| `hive_scan` | Does a scan get all files of its partitions and no others? | 2 queries; a table of 2 partitions and a plain one in one bucket, for which one of their catalogs has a block, and a plain one in a bucket of the same name elsewhere; 2 pages, a file that comes and goes, one hidden file | 124 000 |
| `hive_shared_path` | (finds a violation) the same with one path below two buckets | as above, no changes | |
| `hive_shared_store` | (finds a violation) Is a bucket read with the block of the catalog that configures it? | as `hive_scan`, no changes | |
| `iceberg_storage` | Do requests go to the right backend with the right credentials, and do deletions delete what was named, only that and all of it? | 2 tables, 2 calls, buckets of one name in two backends, batches of 2, streams of up to 2 locations | 217 000 |
| `catalog_metadata` | Are listings true of the time they were made in, tickets good, clients connected once? | 2 calls of 11 commands, 4 of them refused, a catalog that answers at once and one that does so page by page, where a schema and table come and go | 90 000 |
| `table_reads` | Does pruning keep the answer?  Has each date and time the number of its day and moment?  Is an ORC predicate a necessary condition?  Do columns, single fields and ORC scans read what the file has, in any spelling? | every table of up to 2 partitions over an integer column, zoned or not, and a text column, every set of 4 filters; every day from 1890 to 2110, an integer too narrow for the last of them, and times of the days around 1970, in hundredths; every expression with two terms pending at most, 3 columns, 4 rows; 6 table schemas, 20 file schemas and all their rows, every projection | 284 000 |
| `table_metadata` | Are types, text files, statistics, CREATE TABLE, CALL and scripts read as they were meant? | types of up to 9 words and marks; 12 descriptions of text tables, 2 columns of 4 types, texts that are empty, a marker, base64, a number or begin with NUL, 2 files; columns of 12 types, 2 rows, 2 partitions; 2 columns and 2 constraints; names of up to 4 parts in 8 scopes; scripts and typed input of up to 3 of 9 lines, answers of up to 3 rows of which 2 are previewed | 1 124 000 |
| `server_process` | Does a process serve as configured, does an answered query have each row once, and does everything end? | 2 queries, 3 tables of up to 3 rows, 2 partitions, batches of 1 row, 3 threads; machines and configurations on both sides of each limit | 163 000 |

Why the bounds are enough.  The hazards are races of two: one actor looks, the
other changes, the first acts.  Two queries or calls have every such race; DDL
has three statements because its races take a table created, dropped and created
again while a third runs.  Two values of a kind (schemas, layouts, stores,
credentials) are what a property can tell apart.  Two revisions let an entry be
older than a question that is older than the metastore.  Two pages and two
batches have a first that succeeds and a second that fails.  `PartitionDates`
has a century that is a leap year, two that are not, both signs and an overflow.
Types nest in each other twice over, names have each number of parts a name can
have and one more, and every number that is parsed or multiplied has values on
both sides of its limit.  `server_process` has three threads and needs two for
workers that wait, so one is left to make progress (`ThreadsAssumption`).

The bounds are `MaxRevision`, `MaxChanges`, `MaxBytes`, `MaxDepth`, `MaxLength`,
`MaxColumns`, `MaxTextColumns`, `MaxConstraints`, `MaxProperties`, `MaxKeys`, `MaxPartition`, `MaxFiles`, `MaxRows`,
`MaxValues`, `MaxWritten`, `MaxLines`, `FirstYear`, `LastYear` and the finite sets of inputs; the theorems are without
them.  Numbers of the code that are smaller in the runs, so that their limits
are met: `Half` (2^31), `HalfLong` (2^63), `Digits` (6, of a second's fraction;
as in the code, the days a timestamp reaches have numbers that fit, `Reach`),
`Threads` (512), `BatchSize` (8192 by default), `Kilo` (1024), `MaxSize` (2^64 -
1), `ByteBase` and `Width` (2^8 and 16), `MaxLong`, `MaxDay`, `MaxFloat`, `Day`,
`Partitions`, `Pages`, `PageSize`, `MaxParts` (32767), `MaxPreview` (1000).

Deadlock is checked wherever the system runs on; `table_ddl`, `table_lookup`,
`iceberg_storage`, `table_reads`, `table_metadata`, `server_process`,
`hive_shared_path` and `hive_shared_store` stop by construction (statements run once, a lookup ends, the
stack or the text is full, the process exits).

## Fairness

Liveness is checked for `load`, DDL statements, scans, file access, metadata
calls, generated tables and processes, under weak fairness of each actor's own
steps.  The code justifies it: every step is a stretch of a future that the
tokio runtime polls when it is ready, and what it waits for (a metastore, an
object store below opendal's timeout and retry layers) answers or fails.  Where
an action has a success and a failure, fairness is of both together: the world
chooses.  Nothing is assumed of clients, of other engines, of expiry or of
Ctrl-C; a call may be abandoned but need not.  Weak fairness suffices, for once
a step of an actor is enabled no other actor disables all of them.  Two places
where this is not obvious are the calls behind one that connects a client
(`Release`), and the listings of a scan when one of them fails (`Finish`):
`EveryCallEnds` and `EveryScanEnds` fail without them.

In `ServerProcess` (`FairProcessSpec`) the steps of start-up and of the exit, each query's own task
and each blocking thread are fair, threads because the operating system runs
them; a script goes on to its next statement or its end.  Nobody has to ask, to
cancel or to stop a server or a REPL.  A worker that waits for a thread gets one
because fewer than all can wait for others (`ThreadsAssumption`): a fair queue
alone would not do, see below.

## Proofs

Each theorem holds for every value of the constants that meets the named
assumptions of its module: any number of queries, tables, statements, clients
and rows.  They are about `Spec`, without fairness.  `SchemaAssumption`,
`CallAssumption` and `ScriptAssumption` are hypotheses of their theorems, since
one module of proofs extends several components; `MC_TableMetadata` assumes them
of the instance, so that TLC evaluates them.

* `StatisticsManagerProofs`: `Typed`, `AnswersFit`, `FailuresNotInherited`,
  `CacheIsSound`, and `ImplementsPromise`, the refinement (`Promise == INSTANCE
  StatisticsPromise WITH ...`).  The run checks the refinement, of which the
  first ones are what a reader would ask by name.  What is checked is not
  inductive: an answer that is right when it is returned must have been right
  while it was collected.  `IInv` says of every query in progress that what it
  has read is no newer than the metastore, that what it loads itself is no older
  than its question, and that a cacheable answer lacks only what is still
  awaited; of every entry that it is complete and filed under its schema.  A
  newer metastore keeps all of it (`NewerIsGood`), and every other step changes
  one query (`OneQuery`).  The refinement maps everything between the lookup and
  the return to one question; a load is invisible and a hit, or the end of a
  load, is the answer (`AnswerGiven`).
* `QuerySessionsProofs`: `SessionsTyped`, `PlansUseOwnResolution`,
  `ClientsKnowScope`, `RequestsUseHeaders`, `SchemaMovesWithUse`.  `IInv` speaks
  of one client's task, scope, list and belief at a time, phase by phase; no
  action of another client touches them (`OneClient`).  It holds because each
  request has a session of its own: with one session for all, `OneClient` is
  false, and the mutant `SharedSession` breaks the property.
  `SchemaMovesWithUse`, about steps, follows from the same invariant.
* `QuerySessionsProofs`, of scripts: `RunAsWrittenAlways`, for texts, inputs and
  answers of any length.  The property compares what runs with what the text has
  between its delimiters, which is defined of the whole text; the code goes
  through it word by word, then token by token.  `ScriptInv` follows it: after each
  word, the tokens are those words before it that are in no comment (`ReadSound`);
  after each round of the parser, its statements are the pieces that start before
  the token it is at, the last of them perhaps not yet ended (`ParserSound`).  What
  the parser takes is a statement without a delimiter (`TakenGood`), and of a piece
  that is a statement it takes all (`TakenWhole`), so that it fails only on a text
  that has a piece that is none (`ParseFails`).  Then what has begun and what waits
  are the text's pieces, the count of an answer is that of the rows of the batches
  fetched, and what is kept of them is the first rows, as many as the preview has
  room for (`RunSound`).  Positions in a text are compared by counting those before
  them (`InOrderNext`), which replaces an induction over the text.
* `TableDdlProofs`: `DdlTyped`, `StrayRowsOnlyAfterDrop`, `CtasFills`,
  `RowsFit`, `TablesStay`.  Names may come to mean other tables, so `IInv`
  follows creators: a statement creates at most once (`TablePast`), holds its
  table until somebody drops it (`Owner`), and a planned INSERT fits the table
  it was planned for (`Planned`).  `CtasFills` and
  `TablesStay` are about steps: a CREATE TABLE AS that succeeds leaves its rows in
  the table it created, unless that was dropped, and a table loses its columns only
  to a DROP, its rows only to a DROP or in the step in which an INSERT OVERWRITE
  into it succeeds.
* `TableDdlProofs`, of CALL: `CallsActOnNamed`, for any scope, names, catalogs and
  arguments: the text that Paimon splits has the three parts of the table named.
* `TableDdlProofs`, of Paimon's schemas: `BuiltAsDeclaredAlways`, for statements with
  any number of columns, constraints, properties and columns of a query, and types
  of any depth; `ShownCanBeDeclaredAlways`: what is shown of a table that is built
  declares it again, and is shown the same then.  The invariant keeps with the
  builder what was declared so far (its columns, the clauses that named a primary
  key, the properties that were set), so that the checks at the end are about all
  of it.
* `HiveTableProofs`, of lookups: `LookupTyped`, `ReadAsWrittenAlways`,
  `PartitionsKeptAlways`, for pages and answers of any size; only the one answer of
  a Hive metastore is cut, the pages of Glue have all partitions.  The invariant
  splits the lookup in the time before, between and after the pages (`Before`,
  `Between`, `After`): between them, every partition that was there all along
  and whose name is not past the last page has been read.  It needs finiteness
  of the partitions and the cardinality theorems of the library for an answer
  that is cut.
* `HiveTableProofs`, of text files: `TextsReadAsLaidOut`, for any properties of a
  table and its SerDe, columns, texts and files.  `TextInv` says of each file that
  its header has the lines the properties speak of, and that the rows under it
  have the delimiter they mean and no more cells than there are columns by now.
  The merged properties are what is said of the table (`MergedIsSaid`), each
  spelling of a delimiter is read as it is meant (`Spelling`, `FieldKeys`), and so
  what can be honored is what was written (`HonoredIsWritten`), cell by cell and
  row by row; of a file in which no text begins with NUL the records are the lines
  with characters, and the header the first of them (`BodyOfFile`).  Assumed is
  what the names and spellings mean to engines:
  `DescriptionsAssumption` (delimiters are not empty and have one of the names
  that Hive writes), `LayoutAssumption`, `CompressionAssumption`.
* `FileAccessProofs`, of scans: `FilesOfOwnPartitions`, `FilesAreKept`,
  `BlocksOfScans`.  The first two are about tables that are `Apart` (no path is below
  two stores, and partitions are in the store of their table), which the instance
  of `hive_scan` is and that of `hive_shared_path` is not.  `IInv` says of each
  listing that is under way that it has all of the pages before which was there
  all along (`Listing`), and of each that is cached that it may be returned for
  whatever has its key (`Cached`); it holds for entries of any age, because what
  was ever there only grows and what was there all along only shrinks
  (`ChangeGood`).  `BlocksOfScans` needs no hypothesis: the store of a URL was
  built with the block of the catalog of some scan of that very URL, for whatever
  blocks catalogs have.  That it is the scan's own does not hold, see
  `hive_shared_store`.
* `FileAccessProofs`, of Iceberg's files: `StoreServedAsConfigured`,
  `StoreDeletesExactly`, for any locations, vended credentials and streams.  In
  `StorageInv` every cached operator is what a fresh one for its key would be, so
  that it does not matter who made it; and what a delete stream was given is, at
  any moment, yet to be named, in the queue of its own authority, or gone, while
  what was not given stays.  The second theorem is about steps: a call that
  succeeds has nothing left that was to be deleted.
* `CatalogMetadataProofs`: `MetadataTyped`, `ListingsTrue`, `TicketsHold`,
  `ConnectedOnlyOnce`.  A listing is collected schema by schema and page by
  page, in pages of any size, so `IInv` splits the names it has to have in those
  that were answered, those that are on pages still to come, and those of schemas
  that are on such pages (`Partly`), and keeps with each ticket the command it was issued
  for.  One client at most is being connected for a catalog, and who waits for it
  is behind the one who connects it.
* `ServerProcessProofs`: `ServesAsConfigured`, `AnswersAreWhole`.  For the first,
  the catalogs are those of the configuration's first entries, all under
  different names, phase by phase.  For the second, `AnswersInv` cuts the rows of
  a partition in four: received, in the channel, in the hand of the worker that
  sends, and not yet generated; each part is a run of the table's rows that
  starts where the one before it ends, so that an answer to which every worker
  came to its end has all of them.  It holds for any number of partitions, rows
  and threads, and whatever fails, panics or is dropped.
* `PruningProofs`, of partitions: `PruningIsOptimisation`, for any columns,
  values, parsers and filters, of queries whose filters have no zoned column; the
  others fail, pruned or not.
* `PruningProofs`, of dates: `DatesTyped`, `DaysExactAlways`: the code's closed
  form is the count of days of the calendar, in any year, by the steps from a
  day to the next within a month (`DayAfter`), over its end (`MonthAfter`) and
  over the year's (`NewYear`, `YearStep`).
* `PruningProofs`, of times: `TimestampsExactAlways`, for fractions of any number of
  digits and integers of any width: the fraction that is read digit by digit is
  the number its first `Digits` digits write, and a sum that does not fit is
  refused.  What is read digit by digit is a recursive function; its equation is
  proved from the existence of its approximations, and claims about all numbers
  from the least counterexample (`SmallestOf`), as well-founded induction with an
  operator for its claim is not available.
* `PruningProofs`, of ORC: `AlwaysNecessary`, `PredicatesTyped`.  Necessity alone
  is not inductive, NOT would break it.  `Good` adds that the terms whose
  predicate NOT negates are exact: their predicate keeps just the rows they are
  true of, and its negation those they are false of.
* `PruningProofs`, of statistics: `StatisticsHoldAlways`, for columns of any types
  and values, integers of any even base and any width, scales, units and files of
  any sizes.  `StatisticsInv` says what Glue can have of a column: what was
  written of the values there were when it was analyzed, or what is left of that
  (`KeptOf`), whatever type the column has now.  The rest is about the
  conversions, each for every value there is.  Bytes of a number begin with
  copies of its sign and then have its digits (`HighestDigit`, `AboveHighest`,
  `SignedIs`), so leaving out those too many leaves the number, and where it
  would not the code refuses.  A number brought to another scale twice is where
  one scaling would have brought it (`ScaledTwice`).  A time taken apart in
  seconds and nanoseconds and put together in the column's units is the quotient
  of the units (`UnitsAsTime`), as one division after another is one by the
  product (`DividedTwice`).  A sum over files is a recursive function, treated as
  the digits of a fraction are.  Assumed (`StatisticsAssumption`) are Glue's kinds
  for each kind of column, a positive number of nanoseconds in each unit, and
  that what stands for no value is not one.

Where `TypeOK` is proved it is in no run; those of `HiveScan`, `HivePartitions`
and `IcebergStorage` hold in their instances too, and are left out of the runs,
which ask what types do not say.

Only model-checked: all liveness (fairness and ENABLED are out of the prover's
reach); `ReadAlike` and `CaseBlind` (the adapter and its reference follow types
that nest, by RECURSIVE operators) and `ReadAsSpelled` (a type's text is parsed
by rules that call each other).

## Where the code differs from what it says

* *Listings by path* (run `hive_shared_path`).  `hive_file_utils.rs:51` says
  that `list_files` lists the files "under a table or partition directory".  Its
  cache key is the path without scheme and authority (line 68) in a cache of the
  whole process, so the directory of one bucket may be answered with the
  listing of the same path in another.  `hive_scan` has no such paths.

* *Shared stores* (run `hive_shared_store`).  `docs/src/storage.md:17-19`: "A
  configured block always wins".  The registry of stores is keyed by URL and
  `storage/storage.rs:158` returns early, so of two catalogs that read one bucket
  the first to scan decides: a catalog whose block configures the bucket may be
  served by the store built for one that has no block.  `hive_scan` has such
  catalogs too; what does hold there is `StoresBuiltForScans`.

The following were met while modelling and are recorded here only.

* A filter on a partition column of type `timestamp with local time zone` fails
  every query: the values are put in an array without time zone
  (`hive_table_provider.rs:774-782`), which the batch of the column's type refuses
  (line 655), although the text is parsed for both (line 930).  `Refused` in
  `HivePartitions`; `PruningKeepsAnswer` says that such queries fail and is about
  the answers of all others.
* `docs/src/table-formats/hive.md:31`: "A value that cannot be parsed as its column
  type is read as `NULL`".  A text of a BINARY column that is not base64 fails the
  query, `decode` is strict (`hive_table_provider.rs:334`, against the comment at
  250).  `ConvertedCell` has the error.
* Lines without characters are rows to Hive; the CSV reader skips them, in a header
  too, so a text table of one column loses its empty values.  NUL is the quote of
  the reader (`hive_table_provider.rs:393`, issue #52): a text that begins with it
  goes on to the next NUL.  `ReadAsLaidOut` is about lines with characters and
  files without such texts.
* A partition in another bucket than its table is listed through the store of
  the table (`hive_table_provider.rs:147`, against `hive_file_utils.rs:54`),
  where there is nothing: its rows are missing without an error.  The run has
  all partitions below the bucket of their table.
* `t$data_files` of a partitioned table that has no partitions lists the table's
  own directory (`hive_metadata_table_provider.rs:69`), a scan of `t` does not;
  `DataFilesFrom` and `RowsFrom` have both.
* `server/flight/metadata.rs:81` says that GetFlightInfo on a statement plans it
  and answers its schema; `get_flight_info_statement` does neither.
* `hive_table_provider.rs:814` says "proleptic Gregorian calendar"; its guard
  takes days up to 31 in every month, so 2023-02-30 is 2023-03-02.  Hours,
  minutes and seconds have no guard at all (line 882): 25:99:99 is a time of the
  next day, and the sum may overflow.  `PartitionDates` has the code's guards;
  its properties are about dates and times there are.
* `hive_partition.rs:9` says that a partition has as many values as the table
  has keys; the two come from two requests and are not compared.
  `HiveTableLookup` has tables whose width changes between them.
* `docs/src/table-formats/hive.md:94` has a row for each partition of the
  metastore; `catalog/hms.rs:244` asks for 32767 at most.  `PartitionsKept` has
  this condition (`MaxParts`).
* `case_insensitive_adapter.rs`: a single field is cast strictly, a field in its
  whole column leniently, so the first may fail where the second is NULL.
  `ReadAlike` is about reads that do not fail.
* The pool of blocking threads has 512 of them and does not know who waits for
  whom (`catalog/benchmark/mod.rs:248`).  The workers of the side of a join that
  is read later hold theirs, with a batch that nobody takes: with enough joins
  at once, or partitions, every thread is held by such a worker and those that
  are read first never start.  `EveryProcessEnds` fails without
  `ThreadsAssumption`.
* A memory limit of 0 that is calculated is an error, one that is configured is
  not (`context.rs`, `parse_memory_size`); the process then serves with no
  memory to reserve.  `StartedAsConfigured` asks for a positive limit only of
  the former.
* CALL reads arguments passed with `=>` only, and writes the first argument that
  is named `table` anew whatever its operator is
  (`sql/session/procedure.rs`, `catalog/paimon_fs.rs:88`); `ProcedureCalls` has
  arguments of the first form.
* The prompt joins lines by spaces (`server/repl.rs:45`), so that a comment goes on
  to the end of what is typed, not of its line as in `--file`; `quit;` (and
  `quit;;`, which the model has as a statement) is a command only alone, elsewhere it is a statement that does not parse.
  `RunAsWritten` is about the text as it is joined.
* `sql/session/show.rs:52`: filters of SHOW other than LIKE are accepted and
  ignored.  `storage/storage.rs:96` does not hand the session token of an S3
  block or the path style of an OSS block on to Paimon.

## Not modelled

* *Parquet and Avro readers*: each hands DataFusion's reader a source and
  options; the adapter they share is `NestedColumns`.  Byte ranges, batches and
  codecs' content are below what any property here tells apart.
* *Iceberg and Delta tables, Iceberg's metadata tables*: wrappers of their
  crates, which hold the commit protocols.  What Lakelet adds to Iceberg is its
  file access (`IcebergStorage`).
* *Paimon's commit and procedures*: an INSERT commits or fails as a whole
  (`Execute`), as the crate promises; a CALL ends where Paimon begins.
* *The dialect*: which words make a statement is a parameter of `SqlScripts`;
  elsewhere statements are given parsed.
* *SHOW CATALOGS, the layout of what is printed, line editing, the web console*:
  read-only answers and wording.  Of SHOW VARIABLES one setting is modelled.
* *Sizes*: bytes of files, memory and spilling of a plan.
* Within modelled parts: CHAR and comments in `PaimonSchema`, a header count
  that is no number and the difference between an empty cell and a NULL of a
  text column in `HiveTextFiles`, signs before a fraction in `PartitionDates`,
  which rows a partition has (only whether its rows are read), the rows a Paimon
  table with a primary key merges, identifiers when their normalization is turned
  off (`catalog/paimon_fs/ddl.rs:27`), casts of whole columns that are stricter in
  the code than `NestedColumns` has them, expressions of DataFusion beyond the forms `OrcPredicates` and
  `HivePartitions` list, system tables of Paimon, and a limit on `$data_files`,
  which only cuts what was listed.

## Plan

The order was: what sessions share first (statistics, sessions, DDL), then what
a query reads (lookup, scan, pruning, files), then metadata calls, then what the
texts of metadata mean, and the process around all of it.  Abstract
specifications were stated where a component promises something simpler than it
does: the statistics cache (`StatisticsPromise`), the calendar, the grammar of
Hive's types, the three-valued meaning of expressions.

Next, in this order:

1. `IcebergStorage`: an abstract store that deletes what is named, and the delete
   stream shown to implement it.
2. A composition of sessions and the caches they share, to see a USE, an ALTER
   and a scan of one client against those of another.
