CONSTANTS
  None = None
  p1 = p1
  p2 = p2
  Process = {p1, p2}
  Starts <- SomeStarts
  Later <- SomeLater
  Body <- Bodies
  Jumps = {1, 60}
  MaxWaits = 1
  MaxRestarts = 1
SPECIFICATION Spec
INVARIANTS TypeOK ValidatedNeverFaults ServesItsOwnSource TermsCoverWhatIsServed PacedByItself StatedIsRead
PROPERTIES ServiceKept
