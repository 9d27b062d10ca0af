SPECIFICATION FairProcessSpec
CONSTANTS
  q1 = q1
  q2 = q2
  sales = sales
  nation = nation
  region = region
  Queries = {q1, q2}
  Tables = {sales, nation, region}
  Rows <- SomeRows
  Whole = {nation, region}
  Faulty = {sales}
  Plans <- SomePlans
  Partitions = 2
  BatchSize = 1
  Threads = 3
  None = None
  Starts <- SomeStarts
  Internal = "internal"
  Kilo = 2
  MaxSize = 31
  Percent = 80
  Refused = Refused
INVARIANTS
  StartedAsConfigured
  AnswersWhole
PROPERTIES
  EveryProcessEnds
CHECK_DEADLOCK FALSE
