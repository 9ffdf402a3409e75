SPECIFICATION Spec
CONSTANTS
  asst = asst
  orch = orch
  search = search
  email = email
  lobby = lobby
  vault = vault
  external = external
  Agents = {asst}
  Tools = {email}
  Rooms = {lobby}
  Needles = {}
  None = None
  Grants <- TokenGrants
  Policies = {}
  Managed = {asst}
  NoGrant = NoGrant
  Idle = Idle
  NoPolicy = NoPolicy
  InitialRoster <- TokenRoster
  RateWindow = 2
  DayLength = 4
  U64Max = 3
  TokenCosts = {0, 2}
  StartTime = 1
  ClockSteps = {}
  MaxTime = 1
  MaxLog = 4
  MaxCrashes = 0
  MaxRosterChanges = 0
PROPERTIES
  SpentBudgetStartsNoWork
CHECK_DEADLOCK FALSE
