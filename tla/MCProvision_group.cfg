SPECIFICATION Spec
CONSTANTS
  t1 = t1
  t2 = t2
  Threads = {t1, t2}
  Ids = {1, 2, 3, 4, 5, 6}
  InitVols <- MCInitVols
  Claims <- MCClaims
  SnapRequests <- MCSnapRequests
  Expansions <- MCExpansions
  Setups <- GroupSetups
  NoVol = NoVol
SYMMETRY ThreadSymmetry
INVARIANT WholeGroupDeleted
