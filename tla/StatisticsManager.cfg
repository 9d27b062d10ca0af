SPECIFICATION FairSpec
CONSTANTS
  Queries = {q1, q2}
  Tables = {t1}
  Schemas = {s1, s2}
  None = None
  Batches <- TwoBatches
  MaxConcurrent = 1
  MaxRevision = 2
PROPERTIES
  KeepsPromise
  EveryCallReturns
