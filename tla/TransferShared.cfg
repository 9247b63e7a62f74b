CONSTANTS
  t1 = t1
  t2 = t2
  NoFile = NoFile
  Task = {t1, t2}
  Sources <- EverySource
  Length <- Lengths
  Unfit = {2}
  Faults = {"kill", "power", "cancel", "disk", "age"}
  MaxFaults = 4
SPECIFICATION FairSpec
INVARIANTS TypeOK LoneWriter DestIntact NothingStagedAtRest
PROPERTIES ImplementsDatabaseFile EventuallyFetched
