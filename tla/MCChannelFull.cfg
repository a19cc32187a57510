CONSTANTS
  NLINES = 4
  MsgLines = {1}
  Window = 5
  InOrder = TRUE
  Payload = {p1}
  NoMsg = NoMsg
SPECIFICATION Spec
INVARIANTS NoOverwrite
