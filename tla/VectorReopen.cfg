\* A restart after one logged and committed insert.
SPECIFICATION Spec
CONSTANTS
  c1 = c1
  c2 = c2
  Id = {1}
  Client = {c1}
  Kinds <- MCFlatLogged
  Dim = 2
  MaxOps = 1
  MaxKills = 1
  MaxCheckpoints = 0
INVARIANTS
  Reopens
CHECK_DEADLOCK FALSE
