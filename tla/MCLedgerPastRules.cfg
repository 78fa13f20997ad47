CONSTANTS
  None = None
  EmptyKey = EmptyKey
  p1 = p1
  p2 = p2
  ann = ann
  bob = bob
  bank = bank
  k1 = k1
  s1 = s1
  Pools <- MCPools
  Persons <- MCPersons
  SystemAccounts <- MCSystemAccounts
  BalanceKinds <- MCBalanceKinds
  Keys <- MCKeys
  SourceRefs <- MCSourceRefs
  Requests <- MCRequests
  MaxCp = 3
  MaxBatches = 4
SPECIFICATION Spec
PROPERTY PastTheRulesOnlyIO
CHECK_DEADLOCK FALSE
