SPECIFICATION FairSpec
CONSTANTS
  e1 = e1
  e2 = e2
  l1 = l1
  l2 = l2
  None = none
  Requests = {r1, r2}
  Lessons = {l1, l2}
  Exercises = {e1, e2}
  LessonOf <- TwoExercises
  MaxCalls = 4
CHECK_DEADLOCK FALSE
INVARIANTS
  TypeOK
  SolvedLessonsAreClosed
  CertificateIsEarned
  PercentNeverOverstates
  XpIsEarned
  SerialIsExact
PROPERTIES
  EveryRequestFinishes
