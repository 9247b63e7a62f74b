CONSTANTS
  Absent = Absent
  CellOverhead = 1
  RowOverhead = 2
  MaxField = 8
  MaxFields = 3
  Ceilings = {40}
  Sources <- MarkedQuoted
SPECIFICATION Spec
INVARIANTS ReadsBack
CHECK_DEADLOCK FALSE
