\* Puts, deletes and kills at every step, log disabled.
SPECIFICATION Spec
CONSTANTS
  Key = {1, 2, 3}
  r1 = r1
  Reader = {}
  EnableWAL = FALSE
  DeletedMark = 99
  KeyLen <- MCKeyLen
  ValLen <- MCValLen
  CheckpointSize = 100
  PosMod = 1000
  InitSlots = 2
  MaxPuts = 3
  MaxDeletes = 2
  MaxKills = 2
  MaxFaults = 0
  MaxCloses = 0
PROPERTIES
  ImplementsStore
  StoreMovesForward
  RestartRevivesNothing
  KillCostsOnlyRewrite
CHECK_DEADLOCK FALSE
