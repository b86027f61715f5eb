SPECIFICATION FairSpec
CONSTANTS
  v1 = v1
  v2 = v2
  r1 = r1
  r2 = r2
  u1 = u1
  u2 = u2
  Recordings = {v1}
  Users = {u1}
  Owner <- OneOwner
  Calls = {r1, r2}
  MaxAborts = 1
  MaxErasures = 1
CHECK_DEADLOCK FALSE
INVARIANTS
  TypeOK
  LinkedBytesExist
PROPERTIES
  NothingIsLost
  AbandonedUploadsClose
