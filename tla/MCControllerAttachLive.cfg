SPECIFICATION LiveSpec
CONSTANTS
  v1 = v1
  h1 = h1
  h2 = h2
  t1 = t1
  t2 = t2
  lim = lim
  any = any
  Vols = {v1}
  Hosts = {h1, h2}
  Threads = {t1, t2}
  DriverOf <- TwoDrivers
  HostType <- MCHostType
  CapsOf <- MCCapsOf
  QoSRequests <- MCQoSRequests
  Limits <- MCLimits
  Unlimited = any
  Numerals <- MCNumerals
  LimitOf <- MCLimitOf
  PrintOf <- MCPrintOf
  Rejected = Rejected
  Unspecified = Unspecified
  NotNumeric = NotNumeric
  Unmapped = Unmapped
  NotPublished = NotPublished
  MaxPoll = 1
  MaxPublishes = 3
  MaxFaults = 2
INVARIANTS
  SingleNodeExclusive
  DeletedIsGone
PROPERTIES
  EventuallyGone
CHECK_DEADLOCK FALSE
