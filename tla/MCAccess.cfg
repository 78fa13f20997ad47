SPECIFICATION Spec
CONSTANTS
  None = None
  IdleWindow = 3
  AbsoluteWindow = 4
  TouchInterval = 1
  StepUpWindow = 1
  CapabilityFloor = {"admin.settings"}
  AppliesTo <- Applies
  Assignments <- Rows
  Proc = {p1, p2}
  Binaries <- Builds
  Permission = {"roster.read", "admin.settings"}
  Role = {"officer", "bot"}
  User = {"uma"}
  Sid = {s1, s2}
  Account = {"bot"}
  Tid = {t1}
  AccountState <- Active
  TokenScopes = {"roster:read"}
  TokenLife = 2
  Tab = {b1, b2}
  Operations <- Ops
  Guilds <- Rows0
  Patches <- Sets
  Budgets <- Shares
INVARIANTS
  
  OneKey
PROPERTIES
  TouchNeverUndoes
  GrantsStand
  NoLostUpdate
SYMMETRY Symmetry
CHECK_DEADLOCK FALSE
