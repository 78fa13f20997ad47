CONSTANTS
  serve1 = serve1
  cli = cli
  entries = entries
  noUpdate = noUpdate
  sound = sound
  Sound = sound
  Absent = Absent
  Empty = Empty
  Procs <- TwoProcs
  Binaries <- OneBinary
  Changes <- BadThird
  Arrived <- Intact
  LedgerTables <- MCTables
  Triggers <- MCTriggers
  TableOf <- MCTableOf
  MaxBoots = 2
  MaxRows = 1
SPECIFICATION Spec
CHECK_DEADLOCK FALSE
PROPERTY NothingWasLost
