------------------------------ MODULE MCChannel ------------------------------
(***************************************************************************)
(* Model checking Channel: its properties, the memory walk that maps it to *)
(* MsgQueue, and the mutants.                                              *)
(***************************************************************************)
EXTENDS ChannelInv, Functions, TLC

CONSTANT NoMsg   \* the abstract queue's entry for a message not yet sent

Symmetry == Permutations(Payload)

(* The receiver polls forever, the user of the sender sends what it         *)
(* allocated, and channel_allocate and channel_free run to their end.       *)
FairSpec ==
  /\ Spec
  /\ WF_vars(GcStep \/ GcReturn)
  /\ WF_vars(\E l \in Lines, p \in Payload, b \in BOOLEAN : Send(l, p, b))
  /\ WF_vars(SkipSentinel \/ Receive)
  /\ WF_vars(FreeLine)

(* The unreceived messages, found by walking the ring from l as the         *)
(* receiver will: what later polls return, oldest first.  todo counts the   *)
(* lines of messages still to be met.                                       *)
RECURSIVE Walk(_, _)
Walk(l, todo) ==
  IF todo <= 0 \/ ~ready[l] THEN <<>>
  ELSE IF size[l] = SENTINEL THEN Walk(0, todo)
  ELSE LET e == l + alloced[l]
       IN <<IF size[l] = EMPTY THEN NoMsg ELSE data[l]>>
            \o Walk(IF e >= NLINES THEN 0 ELSE e, todo - alloced[l])

heldLines == FoldFunction(+, 0, [i \in 1 .. Len(held) |-> alloced[held[i]]])

Queue == INSTANCE MsgQueue WITH
           Unsent <- NoMsg,
           queue <- Walk(next, inflight - heldLines),
           mine <- [i \in 1 .. Len(held) |-> data[held[i]]]

-----------------------------------------------------------------------------
(* The ring implements a FIFO queue: messages are received in the order     *)
(* they were allocated, none is lost, invented or delivered twice, and a    *)
(* message keeps its payload until it is freed.                             *)
ImplementsQueue == Queue!Spec

(* A message at the receiver's position is received: next moves on.         *)
ReceiverAdvances == \A l \in Lines : (next = l /\ ready[l]) ~> (next # l)

(* _channel_gc ends, also on a ring whose messages are all free.            *)
GcTerminates == pc # "idle" ~> pc = "idle"
=============================================================================
