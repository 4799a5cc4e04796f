SPECIFICATION PartSpec
CONSTANTS
  t1 = t1
  t2 = t2
  Threads = {t1, t2}
  Ids = {1, 2, 3, 4, 5, 6}
  InitVols <- MCInitVols
  Claims <- MCClaims
  SnapRequests <- MCSnapRequests
  Expansions <- MCExpansions
  Setups <- MCSetups
  NoVol = NoVol
  BytesInKiB = 2
  KiBInGiB = 3
  MultipleGiB = 2
  DefaultKiB = 9
  Width = 7
  MaxRequest = 63
  Requested = 3
  MinSize = 4
  FsExpansions = {5, 6, 8, 13}
  Parameters = {"complete", "missing", "bad"}
  Percents = {0, 10, 50, 80, 100}
  QuotaEnabled = TRUE
  f1 = f1
  f2 = f2
  Sources = {f1, f2}
  FsSnapshots <- MCFsSnapshots
  FsClaims = {p1}
  MaxSnaps = 3
INVARIANT OwnVolume
