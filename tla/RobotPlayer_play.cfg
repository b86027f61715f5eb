SPECIFICATION Spec
CONSTANTS
  None = None
  Level <- MCLevel
  Programs <- MCPrograms
  Typed <- MCTyped
  MaxEdits = 1
  MaxPresses = 4
CHECK_DEADLOCK FALSE
INVARIANTS
  TypeOK
  DrawnIsWorld
  LoopsAreTheirs
PROPERTIES
  PageComesToRest
