CONSTANTS
  alice = alice
  bob = bob
  Out = Out
  Account = {alice, bob}
  MaxFlows = 2
  Short = {1}
SPECIFICATION FairSpec
INVARIANTS
  TypeOK
  ActiveKeyIsOurs
  ActiveKeyWasSaved
  RemovedKeysAreDead
PROPERTY LoginGetsThrough
