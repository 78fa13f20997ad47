CONSTANTS
  None = None
  EmptyKey = EmptyKey
  Garbled = Garbled
  p1 = p1
  p2 = p2
  a = a
  bank = bank
  k1 = k1
  s1 = s1
  Pools <- MCPools
  Persons <- MCPersons
  SystemAccounts <- MCSystemAccounts
  BalanceKinds <- MCBalanceKinds
  Keys <- MCKeys
  SourceRefs <- MCSourceRefs
  Requests <- MCRequests
  MaxCp = 3
  MaxBatches = 3
SPECIFICATION VerifySpec
CHECK_DEADLOCK FALSE
INVARIANTS
  NoFalseAlarm
  EveryEditIsFound
  FindingsPointAtTheEdit
