CONSTANTS
  serve1 = serve1
  cli = cli
  entries = entries
  noUpdate = noUpdate
  sound = sound
  Sound = sound
  Absent = Absent
  Empty = Empty
  Procs <- OneProc
  Binaries <- OneBinary
  Changes <- BadThird
  Arrived <- Intact
  LedgerTables <- MCTables
  Triggers <- MCTriggers
  TableOf <- MCTableOf
  MaxBoots = 3
  MaxRows = 1
SPECIFICATION Spec
CHECK_DEADLOCK FALSE
INVARIANT DamagePredatesBinary
