CONSTANTS
  Absent = Absent
  CellOverhead = 1
  RowOverhead = 2
  MaxField = 3
  MaxFields = 3
  Ceilings = {9, 40}
  Sources <- Everything
SPECIFICATION Spec
INVARIANTS TypeOK Charged WithinCeiling ReadsBack
CHECK_DEADLOCK FALSE
