SPECIFICATION Spec
CONSTANTS
  None = None
  Level <- MCLevel
  Programs <- MCPrograms
  Typed <- MCTyped
  MaxEdits = 0
  MaxPresses = 2
CHECK_DEADLOCK FALSE
PROPERTIES
  PlaybackIsNotCutShort
