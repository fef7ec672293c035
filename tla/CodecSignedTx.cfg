CONSTANTS
  Text = {"", "a"}
  Amount = {0, 1}
  Element <- MCElement
  Byte = {0, 1, 57, 58, 255}
  MaxLen = 3
  Base = 4
  Width = 2
  Order = 13
SPECIFICATION InputSpec
INVARIANT SignedTxIsReadable
CHECK_DEADLOCK FALSE
