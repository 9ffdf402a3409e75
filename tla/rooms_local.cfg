\* Local writers to one room and a client that syncs.
SPECIFICATION Spec
CONSTANTS
  alice = alice
  bob = bob
  r1 = r1
  r2 = r2
  t1 = t1
  w1 = w1
  w2 = w2
  None = None
  Users = {alice, bob}
  Rooms = {r1}
  Txns = {t1}
  Workers = {w1, w2}
  Requests <- LocalRequests
  Tries <- LocalTries
  Overlapping = {}
  Syncers = {bob}
  MaxSyncs = 3
  MaxCrashes = 0
  Stored <- LocalStored
SYMMETRY WorkerSymmetry
INVARIANTS
  TypeOK
  LocalEventsChain
  MembersOnlySpeak
  StateIsReplay
  TxnAnsweredOnce
  ClientStateConverges
  SyncMissesNothing
PROPERTY
  RoomsArePromisedLogs
