SPECIFICATION PartSpec
CONSTANTS
  byName = byName
  byID = byID
  idOfName = idOfName
  Arrays = {byName, byID}
  Named = {byName}
  IdOf <- MCIdOf
  Secrets <- MCSecrets
  Networks <- MCNetworks
  Requests = {r1}
  Probers = {p1}
  Reloader = w
  Free = Free
  NoKey = NoKey
  MaxChanges = 2
  v1 = v1
  v2 = v2
  c1 = c1
  c2 = c2
  NoRequest = NoRequest
  MaxFaults = 2
  MaxDeletes = 1
INVARIANTS
  ProbedIsLoggedIn
PROPERTIES
  ClientIsKept
  ArraysServed
  
  EventuallyAnswered
CHECK_DEADLOCK FALSE
