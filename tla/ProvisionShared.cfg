CONSTANTS
  t1 = t1
  t2 = t2
  t3 = t3
  p1 = p1
  p2 = p2
  f = f
  g = g
  NoFile = NoFile
  Nobody = Nobody
  Task = {t1, t2, t3}
  Process = {p1, p2}
  Home <- TwoProcesses
  Config = {f, g}
  Rejected = {g}
  Unplannable = {}
  Outcomes = {"ok", "limited", "permanent", "undecodable"}
  RetryAfter = {5}
  Floor = 1
  Ceiling = 2
  Window = 2
  Back = 1
  MaxKills = 0
SPECIFICATION FairSpec
PROPERTIES WaitBounded EventuallyAskedAgain
