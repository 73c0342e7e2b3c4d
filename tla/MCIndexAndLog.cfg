\* The index: restarts and removals over three non-empty keys.
\* The log: records of two lengths, with commits and checkpoints.
SPECIFICATION MCSpec
CONSTANTS
  Key = {1, 2, 3}
  PosMod = 100
  InitSlots = 1
  MaxAdds = 4
  MaxKills = 2
  LogKey = {1, 2}
  Val = {1, 2}
  KeyLen <- MCKeyLen
  ValLen <- MCValLen
  CheckpointSize = 7
  MaxRecords = 4
INVARIANTS
  IndexTypeOK
  ReloadFindsEveryKey
  KillRevivesNothing
  WALTypeOK
  
  PendingScannedFirst
CHECK_DEADLOCK FALSE
