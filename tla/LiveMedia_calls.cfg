SPECIFICATION FairSpec
CONSTANTS
  ClassSize = 2
  Sizes <- MCSizes
  Callers <- MCCallers
  Kinds <- MCKinds
  MaxActs = 3
  MaxAtOnce = 2
  MaxAsks = 1
CHECK_DEADLOCK FALSE
INVARIANTS
  TypeOK
  GroupsAreOneSplit
PROPERTIES
  DoorsStayShut
  EveryRequestFinishes
