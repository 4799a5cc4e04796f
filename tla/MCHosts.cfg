SPECIFICATION PartSpec
CONSTANTS
  v1 = v1
  h1 = h1
  h2 = h2
  h3 = h3
  t1 = t1
  t2 = t2
  lim = lim
  any = any
  Vols = {v1}
  Hosts = {h1, h2, h3}
  Threads = {t1, t2}
  DriverOf <- OneDriver
  HostType <- MCHostType
  CapsOf <- MCCapsOf
  QoSRequests <- MCQoSRequests
  Limits <- MCLimits
  Unlimited = any
  Numerals <- MCNumerals
  LimitOf <- MCLimitOf
  PrintOf <- MCPrintOf
  Rejected = Rejected
  Unspecified = Unspecified
  NotNumeric = NotNumeric
  Unmapped = Unmapped
  NotPublished = NotPublished
  MaxPoll = 1
  s1 = s1
  s2 = s2
  Systems = {s1, s2}
  Known = {s1}
  Probes = {p1, p2}
  ModeChoices <- MCModeChoices
  MaxProbeFaults = 2
SYMMETRY ThreadSymmetry
INVARIANTS
  TypeOK
  PublishedStaysMapped
  ReadyIsDone
PROPERTIES
  RemovesOnlyUnused
  KeepsContract
