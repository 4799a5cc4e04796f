SPECIFICATION Spec
CONSTANTS
  a = a
  b = b
  x = x
  y = y
  Targets = {a, b}
  Private = Private
  PodOf <- MCPodOf
  NoPod = NoPod
  Devs = {x, y}
  NoDev = NoDev
  NoMount = NoMount
  Setups <- AllSetups
INVARIANT FilesSurvive
