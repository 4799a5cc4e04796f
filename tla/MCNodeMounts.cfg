SPECIFICATION PartSpec
CONSTANTS
  a = a
  b = b
  x = x
  y = y
  Targets = {a, b}
  Private = Private
  PodOf <- MCPodOf
  NoPod = NoPod
  Devs = {x, y}
  NoDev = NoDev
  NoMount = NoMount
  Setups <- AllSetups
  Nodes = {n1, n2}
  NfsTargets = {t1, t2}
  Modes = {"SNW", "SNMW", "SNRO", "MNRO", "MNMW"}
  NoHost = NoHost
  Externals = {NoHost, ext}
  Interfaces = {TRUE, FALSE}
SYMMETRY Symmetry
INVARIANTS
  OnePodAtATime
  MountsAsTold
  NothingLeftBehind
  OneWriter
  AccessIsKept
  NotDeletedWhileShared
