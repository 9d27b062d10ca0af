SPECIFICATION Spec
CONSTANTS
  parts = parts
  plain = plain
  far = far
  p1 = p1
  p2 = p2
  r = r
  u = u
  v = v
  hms = hms
  glue = glue
  f = f
  g = g
  hidden = hidden
  kept = kept
  keyless = keyless
  Queries = {q1, q2}
  Tables = {parts, plain, far}
  Units = {p1, p2, r, u, v}
  Partitioned = {parts}
  RootOf <- OwnRoots
  PartitionsOf <- TwoPartitions
  CatalogOf <- TwoCatalogs
  Blocks <- TwoBlocks
  Paths = {"t", "p=1", "p=2", "u", "v"}
  Stores <- BothStores
  UnitLocation <- OwnPlaces
  TableStore <- TheStores
  Files = {f, g, hidden}
  Hidden = {hidden}
  Pages = 2
  PageOf <- TwoPages
  Concurrency = 2
  Start <- SomeFiles
  Volatile = {}
  None = None
INVARIANTS
  ConfiguredBlockWins
CHECK_DEADLOCK FALSE
