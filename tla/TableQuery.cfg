CONSTANTS
  Absent = Absent
  Width = 2
  Header <- Names
  Conventional <- LikelyNames
  Sample = 2
  Text <- Texts
  Key <- Keys
  Parsed <- ParsedTo
  Masked <- MaskedTo
  HostBits <- FreeBits
  Within <- Holding
  Fold <- FoldedTo
  Date <- DatedAt
  Tables <- SomeTables
  Indexes <- SomeIndexes
  Queries <- SomeQueries
SPECIFICATION Spec
INVARIANTS TypeOK AnswersTheScan HintHolds KeysLeadToRows
CHECK_DEADLOCK FALSE
