SPECIFICATION Spec
CONSTANTS
  Ids = {1, 2, 3}
  Widths = {0, 1, 2}
  PageSize = 2
  MaxParts = 2
  MaxChanges = 3
  None = None
INVARIANTS
  ReadAsWritten
  PartitionsKept
\* The lookup ends.
CHECK_DEADLOCK FALSE
