CONSTANTS
  t1 = t1
  t2 = t2
  t3 = t3
  p1 = p1
  p2 = p2
  f = f
  NoFile = NoFile
  Nobody = Nobody
  Task = {t1}
  Process = {p1}
  Home <- OneProcess
  Config = {f}
  Rejected = {}
  Unplannable = {}
  Outcomes = {"ok", "digestLimited"}
  RetryAfter = {0, 1}
  Floor = 1
  Ceiling = 2
  Window = 2
  Back = 0
  MaxKills = 1
SPECIFICATION Spec
PROPERTIES HonoursWait
