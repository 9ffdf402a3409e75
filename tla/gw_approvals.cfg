SPECIFICATION Spec
CONSTANTS
  asst = asst
  orch = orch
  search = search
  email = email
  lobby = lobby
  vault = vault
  external = external
  Agents = {asst, orch}
  Tools = {search, email}
  Rooms = {lobby}
  Needles = {}
  None = None
  Grants <- ApprovalGrants
  Policies = {}
  Managed = {asst}
  NoGrant = NoGrant
  Idle = Idle
  NoPolicy = NoPolicy
  InitialRoster <- ApprovalRoster
  RateWindow = 2
  DayLength = 4
  U64Max = 1
  TokenCosts = {1}
  StartTime = 1
  ClockSteps = {}
  MaxTime = 1
  MaxLog = 4
  MaxCrashes = 1
  MaxRosterChanges = 0
INVARIANTS
  TypeOK
  EffectsAuthorisedOnce
  AuditAccountsForEffects
  ApprovalsConserved
  MetricsAgreeWithAudit
  ApprovedCallIsTheOneShown
CHECK_DEADLOCK FALSE
