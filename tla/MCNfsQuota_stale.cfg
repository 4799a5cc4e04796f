SPECIFICATION Spec
CONSTANTS
  Requested = 3
  MinSize = 4
  FsExpansions = {5, 6, 8, 13}
  Parameters = {"complete", "missing", "bad"}
  Percents = {0, 10, 50, 80, 100}
  QuotaEnabled = TRUE
INVARIANT ExpandedQuota
