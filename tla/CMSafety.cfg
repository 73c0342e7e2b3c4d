\* Connections coming and going while limits change, with restarts.
SPECIFICATION Spec
CONSTANTS
  c1 = c1
  c2 = c2
  c3 = c3
  a1 = a1
  a2 = a2
  Conn = {c1, c2, c3}
  Admin = {a1, a2}
  StartArg = {1}
  Limit = {1}
  Increment = {2}
  Decrement = {1}
  DefaultLimit = 2
  QueueCap = 1
  MaxInt = 3
  MaxRequests = 2
  MaxStarts = 2
INVARIANTS
  TypeOK
  ActiveCountsConnections
  TokensMatchHolders
  
PROPERTIES
  RefusedOnlyWhenFull
  EndedIsReleased
CHECK_DEADLOCK FALSE
