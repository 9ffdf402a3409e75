\* A state and the state one event made of it.
SPECIFICATION Spec
CONSTANTS
  alice = alice
  bob = bob
  w1 = w1
  w2 = w2
  None = None
  Users = {alice, bob}
  Workers = {w1, w2}
  Batches <- PriorBatches
  HashOrders <- MCHashOrders
INVARIANT
  NewerValueStands
CHECK_DEADLOCK FALSE
