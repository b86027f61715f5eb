SPECIFICATION FairSpec
CONSTANTS
  Lessons = {l1, l2}
  Students = {s1}
  Requests = {r1, r2}
  Teacher = teacher
  NoLesson = none
  PresentBeats = 1
  MaxBeats = 1
  MaxRows = 2
  MaxRestarts = 0
  MaxAborts = 0
CHECK_DEADLOCK FALSE
INVARIANTS
  TypeOK
  OneActiveLesson
PROPERTIES
  RegisterMatchesSummary
  ImplementsGroupLesson
  EveryRequestFinishes
