\* Replay of a stale record after a kill.
SPECIFICATION Spec
CONSTANTS
  Key = {1, 2}
  r1 = r1
  Reader = {}
  EnableWAL = TRUE
  DeletedMark = 99
  KeyLen <- MCKeyLen
  ValLen <- MCValLen
  CheckpointSize = 100
  PosMod = 1000
  InitSlots = 2
  MaxPuts = 4
  MaxDeletes = 0
  MaxKills = 1
  MaxFaults = 0
  MaxCloses = 0
PROPERTIES
  StoreMovesForward
CHECK_DEADLOCK FALSE
