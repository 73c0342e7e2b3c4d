\* Puts and reads, log enabled, with checkpoints.
SPECIFICATION Spec
CONSTANTS
  Key = {1, 2}
  r1 = r1
  Reader = {r1}
  EnableWAL = TRUE
  DeletedMark = 99
  KeyLen <- MCKeyLen
  ValLen <- MCValLen
  CheckpointSize = 7
  PosMod = 1000
  InitSlots = 2
  MaxPuts = 3
  MaxDeletes = 0
  MaxKills = 0
  MaxFaults = 0
  MaxCloses = 0
INVARIANTS
  SettledIsAcked
  NewerBehindOlder
  
PROPERTIES
  ReadsCurrentUnlessInFlight
  AckedPutStored
  ImplementsStoreSteps
CHECK_DEADLOCK FALSE
