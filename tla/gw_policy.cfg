SPECIFICATION Spec
CONSTANTS
  asst = asst
  orch = orch
  search = search
  email = email
  lobby = lobby
  vault = vault
  external = external
  Agents = {asst, orch}
  Tools = {search, email}
  Rooms = {lobby, vault}
  Needles = {external}
  None = None
  Grants <- PolicyGrants
  Policies <- MCPolicies
  Managed = {asst}
  NoGrant = NoGrant
  Idle = Idle
  NoPolicy = NoPolicy
  InitialRoster <- PolicyRoster
  RateWindow = 2
  DayLength = 4
  U64Max = 1
  TokenCosts = {0}
  StartTime = 1
  ClockSteps = {}
  MaxTime = 1
  MaxLog = 2
  MaxCrashes = 0
  MaxRosterChanges = 1
INVARIANTS
  PolicyOnlyTightens
PROPERTIES
  WorkersGrantDecides
CHECK_DEADLOCK FALSE
