CONSTANTS
  alice = alice
  bob = bob
  Nobody = Nobody
  Account = {alice, bob}
  Flow = {1, 2}
  MaxMined = 1
SPECIFICATION FairSpec
INVARIANTS
  SendingHasFlow
  AcceptedIsNext
  ToldIsAccepted
PROPERTIES
  SendingEnds
