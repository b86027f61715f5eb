SPECIFICATION Spec
CONSTANTS
  Lessons = {l1, l2}
  Students = {s1}
  Requests = {r1, r2}
  Teacher = teacher
  NoLesson = none
  PresentBeats = 1
  MaxBeats = 1
  MaxRows = 2
  MaxRestarts = 1
  MaxAborts = 1
SYMMETRY SlotSymmetry
CHECK_DEADLOCK FALSE
INVARIANTS
  AttendanceKept
