CONSTANTS
  t1 = t1
  r1 = r1
  r2 = r2
  a = a
  p = p
  Absent = Absent
  Nobody = Nobody
  Thread = {t1}
  Refresher = {r1, r2}
  Ip = {a, p}
  Reserved = {p}
  Provisioned = {"city", "asn"}
  AgeLimit = TRUE
  MaxBuild = 2
  Trouble = {"withdrawn", "unsound", "big"}
SPECIFICATION Spec
SYMMETRY Symmetry
INVARIANTS TypeOK AnswerOfOneSet NoMissedReplacement
PROPERTIES ReadersNeverGoBack
CHECK_DEADLOCK FALSE
