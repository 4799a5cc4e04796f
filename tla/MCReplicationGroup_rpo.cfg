SPECIFICATION Spec
CONSTANTS
  v1 = v1
  v2 = v2
  Nobody = Nobody
  Volumes = {v1, v2}
  Threads = {t1, t2}
  Classes <- ByRPO
  Digits = 10
  MaxGroups = 2
  MaxReplicas = 1
INVARIANT GroupOfClass
CHECK_DEADLOCK FALSE
