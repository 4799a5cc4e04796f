SPECIFICATION PartSpec
CONSTANTS
  PollingFrequency = 6
  Timeout = 2
  Leeway = 2
  Targets = {x1, x2}
  VolumeTypes = {"filesystem", "block"}
  Protocols = {"SDC", "NVMe"}
  MaxFaults = 6
  a = a
  b = b
  Systems = {a, b}
  Known = {a}
  Probes = {p1}
  ModeChoices <- MCModeChoices
  MaxProbeFaults = 2
INVARIANTS
  ConnectedIsRecent
  TargetsAsTold
  NeverForgotten
  
PROPERTIES
  MonitorStaysConnected
  EventuallyPublished
  EventuallyDeleted
  EventuallyReady
CHECK_DEADLOCK FALSE
