\* Deletes, faults, Close and kills together, log enabled.
SPECIFICATION Spec
CONSTANTS
  Key = {1, 2}
  r1 = r1
  Reader = {r1}
  EnableWAL = TRUE
  DeletedMark = 99
  KeyLen <- MCKeyLen
  ValLen <- MCValLen
  CheckpointSize = 100
  PosMod = 1000
  InitSlots = 2
  MaxPuts = 2
  MaxDeletes = 1
  MaxKills = 2
  MaxFaults = 1
  MaxCloses = 1
INVARIANTS
  TypeOK
  IndexPointsToOwnRecord
CHECK_DEADLOCK FALSE
