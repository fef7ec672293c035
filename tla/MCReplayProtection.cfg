CONSTANTS
  Nonce = {n1, n2}
  Timeout = 2
  SubMax = 1
  Genesis = 2
  MaxTime = 10
  Signed <- MCSigned
SPECIFICATION Spec
INVARIANTS
  TypeOK
  AtMostOnce
  NonceExclusive
  RetainedAtMostThreeTimeouts
PROPERTY
  ImplementsReplayGuard
