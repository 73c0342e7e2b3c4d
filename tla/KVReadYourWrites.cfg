\* A read between the swap of the batch and the flush.
SPECIFICATION Spec
CONSTANTS
  Key = {1, 2}
  r1 = r1
  Reader = {r1}
  EnableWAL = TRUE
  DeletedMark = 99
  KeyLen <- MCKeyLen
  ValLen <- MCValLen
  CheckpointSize = 100
  PosMod = 1000
  InitSlots = 2
  MaxPuts = 3
  MaxDeletes = 0
  MaxKills = 0
  MaxFaults = 0
  MaxCloses = 0
PROPERTIES
  ReadsCurrent
CHECK_DEADLOCK FALSE
