CONSTANTS
  t1 = t1
  t2 = t2
  t3 = t3
  p1 = p1
  p2 = p2
  f = f
  g = g
  h = h
  NoFile = NoFile
  Nobody = Nobody
  Task = {t1}
  Process = {p1}
  Home <- OneProcess
  Config = {f, g, h}
  Rejected = {g}
  Unplannable = {h}
  Outcomes = {"ok", "refused", "limited", "permanent", "failed"}
  RetryAfter = {0, 2, 5}
  Floor = 1
  Ceiling = 3
  Window = 3
  Back = 0
  MaxKills = 2
SPECIFICATION Spec
INVARIANTS TypeOK
PROPERTIES HonoursWait OncePerWindow
