CONSTANTS
  NLINES = 5
  MsgLines = {1, 2}
  Window = 3
  InOrder = TRUE
  Payload = {p1, p2}
  NoMsg = NoMsg
SPECIFICATION Spec
INVARIANTS NoOverwrite AllocationSucceeds
PROPERTIES ImplementsQueue
SYMMETRY Symmetry
