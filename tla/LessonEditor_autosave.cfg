SPECIFICATION Spec
CONSTANTS
  l1 = l1
  l2 = l2
  x1 = x1
  x2 = x2
  x3 = x3
  x4 = x4
  e1 = e1
  p1 = p1
  Unset = Unset
  Editors = {e1}
  Panels = {p1}
  Lessons = {l1, l2}
  Legacy = {l2}
  Exercises = {x1, x2, x3, x4}
  Catalogue = Catalogue
  FirstLibrary = {x1, x2}
  MaxActs = 2
  MaxFaults = 1
  MaxTurns = 2
  Shown <- MCShown
  FirstSaved <- MCFirstSaved
CHECK_DEADLOCK FALSE
INVARIANTS
  TypeOK
  StoredPagesAreSound
  RestMeansStored
  DanglingNeedsOverlap
PROPERTIES
  SavesKeepWhatTheySaw
