CONSTANTS
  alice = alice
  bob = bob
  Out = Out
  Account = {alice}
  MaxCalls = 2
  MaxOpened = 2
SPECIFICATION FairSpec
INVARIANTS
  OnlyApprovedKeysSign
  OncePerOpening
  SuccessWasExecuted
  ConnectedHasKey
PROPERTY CallsEnd
