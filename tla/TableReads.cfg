SPECIFICATION ReadsSpec
CONSTANTS
  code = code
  region = region
  amount = amount
  one = one
  other = other
  marker = marker
  v1 = v1
  vw = vw
  vm = vm
  PartitionColumns = {code, region}
  DataColumns = {amount}
  Texts = {one, other, marker}
  Values = {v1, vw, vm}
  NullTexts = {marker}
  Parses <- SomeParses
  Names = {n1, n2, n3}
  DataRows <- DataOfRows
  Filters <- SomeFilters
  NullValue = NullValue
  Unparsed = Unparsed
  NoQuery = NoQuery
  NoDay = NoDay
  FirstYear = 1890
  LastYear = 2110
  Half = 40000
  HalfLong = 1000000000
  Digits = 2
  Times <- SomeTimes
  Zones <- NoneOrCode
  id = id
  flag = flag
  dt = dt
  Columns <- SomeColumns
  InFile = {id, flag}
  Flags = {flag}
  Fits <- SomeFits
  Rows <- SomeRows
  Literals = {0, 1, 2}
  Unsupported <- SomeUnsupported
  MaxDepth = 2
  Null = Null
  None = None
  Failed = Failed
  info = info
  Info = Info
  low = low
  mixed = mixed
  up = up
  more = more
  More = More
  int = int
  text = text
  i1 = i1
  t1 = t1
  word = word
INVARIANTS
  PruningKeepsAnswer
  DaysExact
  TimestampsExact
  NecessaryCondition
  ReadAlike
  CaseBlind
CHECK_DEADLOCK FALSE
SYMMETRY AnyName
