SPECIFICATION Spec
CONSTANTS
  asst = asst
  orch = orch
  search = search
  email = email
  lobby = lobby
  vault = vault
  external = external
  Agents = {asst}
  Tools = {search}
  Rooms = {lobby}
  Needles = {}
  None = None
  Grants <- BudgetGrants
  Policies = {}
  Managed = {asst}
  NoGrant = NoGrant
  Idle = Idle
  NoPolicy = NoPolicy
  InitialRoster <- BudgetRoster
  RateWindow = 2
  DayLength = 3
  U64Max = 3
  TokenCosts = {0, 2}
  StartTime = 1
  ClockSteps = {1}
  MaxTime = 4
  MaxLog = 7
  MaxCrashes = 0
  MaxRosterChanges = 1
INVARIANTS
  RateCeiling
  DailyCallCeiling
PROPERTIES
  TokenBudgetGatesAdmission
CHECK_DEADLOCK FALSE
