SPECIFICATION FairSpec
CONSTANTS
  p1 = p1
  r1 = r1
  r2 = r2
  blank = blank
  task = task
  None = none
  Pages <- OnePage
  Requests = {r1, r2}
  Scenes <- TwoScenes
  Blank = blank
  MaxTurns = 2
CHECK_DEADLOCK FALSE
INVARIANTS
  TypeOK
  SerialMirror
  HandsFallWithTheScene
PROPERTIES
  ListenersShowTheScene
  ReconnectRefetches
  EndReachesListeners
