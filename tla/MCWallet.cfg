CONSTANTS
  self = self
  ext1 = ext1
  ext2 = ext2
  s1 = s1
  s2 = s2
  k1 = k1
  k2 = k2
  primary = primary
  backup = backup
  n1 = n1
  n2 = n2
  BadPk = BadPk
  None = None
  NoSession = NoSession
  Never = Never
  Idle = Idle
  ChainId = "mainnet"
  Self = self
  Account = {self, ext1, ext2}
  SessionId = {s1, s2}
  SessionPk = {k1, k2}
  Passkey = {primary, backup}
  Primary = primary
  Nonce = {n1, n2}
  Timeout = 1
  SubMax = 0
  MaxSessionTtl = 2
  Genesis = 2
  MaxTime = 7
  Messages <- AllMessages
  Requests <- AllRequests
  Tracked <- ReplayMessages
SPECIFICATION Spec
INVARIANTS
  TypeOK
  SessionsDieOut
  SessionsHaveAccessKeys
PROPERTIES
  ImplementsReplayGuard
  NeverLockedOut
  DisableIsFinal
  PrivilegedStateNeedsSignature
