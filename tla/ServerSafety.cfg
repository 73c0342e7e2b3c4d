\* Two sessions that create, delete and use a space and change users, with kills.
SPECIFICATION Spec
CONSTANTS
  s1 = s1
  c1 = c1
  c2 = c2
  u1 = u1
  Space = {s1}
  Caller = {c1, c2}
  Commander = {c1, c2}
  Client = {c2}
  Access = {"write"}
  User = {u1}
  Password = {1}
  Perms <- MCNoPerms
  MaxEngines = 2
INVARIANTS
  TypeOK
  CatalogMatchesMemory
  ListedIsUsable
  OpenEngineIsKnown
  UserFileMatches
  
  BusyHoldsLock
PROPERTIES
  NewSpaceIsEmpty
  OnlyDeleteOvertakes
  
CHECK_DEADLOCK FALSE
