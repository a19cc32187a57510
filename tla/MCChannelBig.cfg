CONSTANTS
  NLINES = 4
  MsgLines = {2, 3}
  Window = 3
  InOrder = TRUE
  Payload = {p1, p2}
  NoMsg = NoMsg
SPECIFICATION FairSpec
INVARIANTS ReceivedOnce
PROPERTIES ReceiverAdvances GcTerminates
