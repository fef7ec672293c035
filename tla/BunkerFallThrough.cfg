CONSTANTS
  free = free
  pay = pay
  sign = sign
  ping = ping
  a1 = a1
  Event = {free}
  Agent = {a1}
  Kind <- KindOf
  Sender <- SenderOf
  Receivers <- ReceiversOf
  Stamp = {1}
  MaxBunkers = 1
  MaxLoad = 2
SPECIFICATION Spec
INVARIANT FallsThroughOnParseFailure
