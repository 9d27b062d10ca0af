SPECIFICATION FairSpec
CONSTANTS
  narrow = narrow
  wide = wide
  Statements = {q1, q2, q3}
  Tables = {t1, t2}
  Layouts = {narrow, wide}
  Fits <- SmallFits
  t1 = t1
  t2 = t2
  Texts <- SmallTexts
  Founder = founder
  None = None
INVARIANTS
  NoStrayRows
  RowsFitColumns
PROPERTIES
  CreatedMeansFilled
  EveryStatementEnds
  TablesStayUntilDropped
CHECK_DEADLOCK FALSE
