\* A send retried while the first try is being handled.
SPECIFICATION Spec
CONSTANTS
  alice = alice
  bob = bob
  r1 = r1
  r2 = r2
  t1 = t1
  w1 = w1
  w2 = w2
  None = None
  Users = {alice, bob}
  Rooms = {r1}
  Txns = {t1}
  Workers = {w1, w2}
  Requests <- RetryRequests
  Tries <- RetryTries
  Overlapping <- RetryRequests
  Syncers = {}
  MaxSyncs = 0
  MaxCrashes = 0
  Stored <- LocalStored
SYMMETRY WorkerSymmetry
INVARIANTS
  NeverADuplicate
