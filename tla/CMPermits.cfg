\* An increase applied between the token and the count of a connection.
SPECIFICATION Spec
CONSTANTS
  c1 = c1
  c2 = c2
  c3 = c3
  a1 = a1
  a2 = a2
  Conn = {c1, c2}
  Admin = {a1}
  StartArg = {1}
  Limit = {}
  Increment = {1}
  Decrement = {}
  DefaultLimit = 2
  QueueCap = 2
  MaxInt = 7
  MaxRequests = 1
  MaxStarts = 1
INVARIANTS
  PermitsPreserved
CHECK_DEADLOCK FALSE
