\* One writer in each of two rooms.
SPECIFICATION Spec
CONSTANTS
  alice = alice
  bob = bob
  r1 = r1
  r2 = r2
  t1 = t1
  w1 = w1
  w2 = w2
  None = None
  Users = {alice, bob}
  Rooms = {r1, r2}
  Txns = {t1}
  Workers = {w1, w2}
  Requests <- TwoRoomRequests
  Tries <- TwoRoomTries
  Overlapping = {}
  Syncers = {}
  MaxSyncs = 0
  MaxCrashes = 0
  Stored <- TwoRooms
SYMMETRY WorkerSymmetry
INVARIANTS
  StreamHasEveryEvent
