\* The HTTP front: every endpoint, and requests that meet.
SPECIFICATION Spec
CONSTANTS
  None = None
  alice = alice
  bob = bob
  r1 = r1
  r2 = r2
  t1 = t1
  d1 = d1
  c1 = c1
  c2 = c2
  c3 = c3
  w1 = w1
  w2 = w2
  Users = {alice, bob}
  Rooms = {r1, r2}
  Txns = {t1}
  Stored <- MCStored
  Devices <- MCDevices
  Localparts <- MCLocalparts
  Passwords = {"pw", "no"}
  Usages = {"master", "self_signing", "user_signing"}
  Servers = {"there", "unknown"}
  ServerName = "here"
  KeyIds = {"k1"}
  MAX_TYPING_MS = 1
  Lifetime = 3
  Decoded <- MCDecoded
  Conns = {c1, c2, c3}
  Workers = {w1, w2}
  Scenarios <- MCScenarios
  Families <- MCFamilies
CHECK_DEADLOCK FALSE
INVARIANT FrontTypeOK
INVARIANT OneWorkerPerConnection
INVARIANT RefusalLeavesNoTrace
INVARIANT WritesAreTheCallers
INVARIANT TokenSpeaksForItsLogin
INVARIANT OneTimeKeysAccountedFor
INVARIANT PublishedKeysAreAccepted
PROPERTY EveryConnectionEnds
