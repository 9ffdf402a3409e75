SPECIFICATION Spec
CONSTANTS
  asst = asst
  orch = orch
  search = search
  email = email
  lobby = lobby
  vault = vault
  note = note
  extra = extra
  v1 = v1
  v2 = v2
  split = split
  numbered = numbered
  figure = figure
  annex = annex
  nowhere = nowhere
  None = None
  Idle = Idle
  Agents = {asst, orch}
  Tools = {search, email, split, numbered, figure}
  Rooms = {lobby, vault, annex}
  Needles = {note}
  U32Max = 3
  U64Max = 7
  Grants <- MCGrants
  Sessions <- MCSessions
  Spelling <- MCSpelling
  Number <- MCNumber
  Values = {v1, v2}
  Catalog = {search, email}
  Policies <- MCPolicies
  Contents <- MCContents
  PolicyContents <- MCPolicyContents
  MaxLog = 3
  MaxUnknown = 1
  MaxFailures = 1
  MaxCrashes = 1
INVARIANT NothingLost
INVARIANT LossShows
INVARIANT MemoryConfined
 
INVARIANT GrantSurvivesRoomState
CHECK_DEADLOCK FALSE
