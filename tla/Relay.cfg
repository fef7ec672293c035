CONSTANTS
  a1 = a1
  a2 = a2
  k1 = k1
  k2 = k2
  r1 = r1
  r2 = r2
  r3 = r3
  Own = Own
  NoKey = NoKey
  Account = {a1}
  Key = {k1, k2}
  Req = {r1, r2, r3}
SYMMETRY MCSymmetry
SPECIFICATION RelaySpec
INVARIANTS
  RefusedWasOvertaken
  ReadyHasKey
  CreatedOnce
CHECK_DEADLOCK FALSE
