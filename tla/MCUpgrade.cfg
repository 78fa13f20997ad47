CONSTANTS
  serve1 = serve1
  cli = cli
  entries = entries
  noUpdate = noUpdate
  sound = sound
  Sound = sound
  Absent = Absent
  Empty = Empty
  Procs <- OneProc
  Binaries <- MCBinaries
  Changes <- MCChanges
  Arrived <- MCArrived
  LedgerTables <- MCTables
  Triggers <- MCTriggers
  TableOf <- MCTableOf
  MaxBoots = 4
  MaxRows = 2
SPECIFICATION Spec
CHECK_DEADLOCK FALSE
INVARIANTS
  TypeOK
  NothingLost
  BootKeepsProtection
  NeverServesUnrestored
PROPERTY RestoreIsExact
