\* Pairs of forks of two rooms, each given twice, on two threads.
SPECIFICATION Spec
CONSTANTS
  alice = alice
  bob = bob
  w1 = w1
  w2 = w2
  None = None
  Users = {alice, bob}
  Workers = {w1, w2}
  Batches <- MCBatches
  HashOrders <- MCHashOrders
INVARIANTS
  ResolverTypeOK
  EveryJobAnswered
  LookupsAccounted
  EqualInputsEqualResults
  AgreedStays
  NoVoiceWithoutPower
CHECK_DEADLOCK FALSE
