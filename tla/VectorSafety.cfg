\* Inserts, removals, training, checkpoints and a restart.
SPECIFICATION Spec
CONSTANTS
  c1 = c1
  c2 = c2
  Id = {1, 2}
  Client = {c1, c2}
  Kinds <- MCKinds
  Dim = 2
  MaxOps = 3
  MaxKills = 1
  MaxCheckpoints = 1
INVARIANTS
  TypeOK
  StoredIsLatest
  SearchFindsNoneRemoved
PROPERTIES
  RestartKeepsSaved
  InsertedIsFound
CHECK_DEADLOCK FALSE
