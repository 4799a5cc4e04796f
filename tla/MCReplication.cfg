SPECIFICATION PartSpec
CONSTANTS
  v1 = v1
  v2 = v2
  Nobody = Nobody
  Volumes = {v1, v2}
  Threads = {t1, t2}
  Classes <- SameOrByDomain
  Digits = 10
  MaxGroups = 3
  MaxReplicas = 1
  Sides = {local, remote}
  Sizes = {8, 16, 24}
  MaxFaults = 1
  MaxTurns = 1
  Callers = {c1, c2}
  Kinds = {"both", "snapshots"}
  Vols = {w1, w2}
  Snaps = {s1}
  MaxEntries = {1}
  MaxChanges = 2
INVARIANTS
  GroupsAsTold
  DeletedIsUnpaired
  ToldIsExpanded
  PagesOfOneList
PROPERTIES
  PairKeptUntilDeleted
CHECK_DEADLOCK FALSE
