CONSTANTS
  p1 = p1
  p2 = p2
  k1 = k1
  k2 = k2
  root = root
  sub = sub
  Own = Own
  NoKey = NoKey
  Nobody = Nobody
  Account = {sub}
  Root = {}
  Page = {p1, p2}
  Key = {k1, k2}
  Attempt = {k1, k2}
  Req <- MCReq
SPECIFICATION Spec
INVARIANTS
  SavedWalletIsOurs
