SPECIFICATION FairSpec
CONSTANTS
  Ids = {s1, s2}
  Labelled = {s1}
  NoId = NoId
  QueueCap = 1
  MaxChanges = 2
  MaxFaults = 2
INVARIANTS
  TypeOK
PROPERTIES
  PruneKeepsLiving
  Settles
  StatusFollows
  ShutsDown
CHECK_DEADLOCK FALSE
