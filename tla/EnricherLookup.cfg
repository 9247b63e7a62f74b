CONSTANTS
  t1 = t1
  t2 = t2
  r1 = r1
  a = a
  Absent = Absent
  Nobody = Nobody
  Thread = {t1, t2}
  Refresher = {r1}
  Ip = {a}
  Reserved = {}
  Provisioned = {"city", "asn"}
  AgeLimit = FALSE
  MaxBuild = 2
  Trouble = {"unsound"}
SPECIFICATION FairSpec
INVARIANTS AnswerNotStale
PROPERTIES ImplementsGeoAnswers EventuallyCurrent EveryLookupEnds
CHECK_DEADLOCK FALSE
