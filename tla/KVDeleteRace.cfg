\* A Delete while a flush holds a value of the key.
SPECIFICATION Spec
CONSTANTS
  Key = {1}
  r1 = r1
  Reader = {}
  EnableWAL = TRUE
  DeletedMark = 99
  KeyLen <- MCKeyLen
  ValLen <- MCValLen
  CheckpointSize = 100
  PosMod = 1000
  InitSlots = 2
  MaxPuts = 2
  MaxDeletes = 1
  MaxKills = 0
  MaxFaults = 0
  MaxCloses = 0
INVARIANTS
  SettledIsAcked
CHECK_DEADLOCK FALSE
