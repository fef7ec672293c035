CONSTANTS
  free = free
  pay = pay
  sign = sign
  ping = ping
  a1 = a1
  Event = {free, pay, sign, ping}
  Agent = {a1}
  Kind <- KindOf
  Sender <- SenderOf
  Receivers <- ReceiversOf
  Stamp = {1, 2}
  MaxBunkers = 2
  MaxLoad = 3
SPECIFICATION FairSpec
INVARIANTS
  TypeOK
  ExecutionsCovered
  WaitingIsShown
  AnswersOnce
PROPERTY ApprovedIsAnswered
