CONSTANTS
  None = None
  Refused = Refused
  Node <- Nodes
  Data <- Section
  AsnNumber <- NumberOf
  U16Max = 5
  U32Max = 6
  U64Max = 7
  JsonDouble <- DoubleOf
  MaxFields = 6
  MaxBytes = 36
  CityFiles <- SomeCities
  AsnFiles <- SomeAsns
  Depth = 4
  Height <- Heights
  Digits <- Names
SPECIFICATION Spec
INVARIANTS TypeOK KeptWithinBounds WalkKeepsTheStart EveryLeafDelivered OneSourceApiece ReadsBackAsWritten
CHECK_DEADLOCK FALSE
