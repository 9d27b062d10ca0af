SPECIFICATION MetadataSpec
CONSTANTS
  Null = Null
  None = None
  Failed = Failed
  Joined = Joined
  Missing = Missing
  Unreadable = Unreadable
  Descriptions <- SomeTables
  Layout <- SomeLayouts
  Types <- TextTypes
  Parse <- ParseText
  Texts <- SomeTexts
  NulTexts <- TextsWithNul
  Files <- TextFiles
  Compression <- Codec
  MaxTextColumns = 2
  MaxFiles = 2
  MaxRows = 1
  Absent = Absent
  NotFinite = NotFinite
  NotNumber = NotNumber
  id = id
  Id = Id
  dt = dt
  ColumnTypes <- SomeColumns
  ColumnValues <- SomeValues
  ByteBase = 16
  Width = 2
  Scales <- SomeScales
  Day = 4
  PerSecond <- SomeUnits
  MaxFloat = 5
  MaxLong = 20
  MaxDay = 1
  RowSize = 4
  Partitions <- SomePartitions
  Sizes <- SomeSizes
  Counts <- SomeCounts
  MaxValues = 2
  MaxWritten = 2
  SqlNull = SqlNull
  NoValue = NoValue
  Spellings <- SomeSpellings
  LowerCase <- SomeLowerCase
  ColumnTexts <- SomeColumnTexts
  Derived <- SomeQueries
  MaxColumns = 2
  MaxConstraints = 2
  MaxProperties = 1
  MaxKeys = 2
  MaxPartition = 1
  Unset = Unset
  Segments <- SomeSegments
  Idents <- AllIdents
  Lower <- LowerNames
  Catalogs <- SomeCatalogs
  Scopes <- SomeScopes
  Formats <- SomeFormats
  Procedures <- SomeProcedures
  ArgumentLists <- SomeArguments
  Literals <- NoText
  Unasked = Unasked
  Scripts <- SomeScripts
  Lines <- SomeLines
  Native <- NativeStatements
  Default = "off"
  Patterns <- SomePatterns
  Batches <- SomeBatches
  MaxPreview = 2
  MaxLines = 3
  Nothing = Nothing
INVARIANTS
  ReadAsSpelled
  ReadAsLaidOut
  StatisticsHold
  BuiltAsDeclared
  ShownCanBeDeclared
  CallActsOnNamed
  RunAsWritten
CHECK_DEADLOCK FALSE
