------------------------------- MODULE MsgQueue -------------------------------
(***************************************************************************)
(* What a channel promises: a FIFO queue of messages between one sender    *)
(* and one receiver.  A message's place in the queue is fixed when it is   *)
(* allocated; it can be received once it and every message before it have  *)
(* been sent; a received message keeps its payload until it is freed.      *)
(***************************************************************************)
EXTENDS Sequences, Naturals

CONSTANTS Payload, Unsent

VARIABLES
  queue,  \* allocated, not received: payloads, or Unsent
  mine    \* received, not freed: payloads

Init == queue = <<>> /\ mine = <<>>

Reserve ==
  /\ queue' = Append(queue, Unsent)
  /\ UNCHANGED mine

Fill(i, p) ==
  /\ i \in 1 .. Len(queue)
  /\ queue[i] = Unsent
  /\ queue' = [queue EXCEPT ![i] = p]
  /\ UNCHANGED mine

Take ==
  /\ queue # <<>>
  /\ Head(queue) # Unsent
  /\ queue' = Tail(queue)
  /\ mine' = Append(mine, Head(queue))

Release(i) ==
  /\ i \in 1 .. Len(mine)
  /\ mine' = [k \in 1 .. Len(mine) - 1 |-> IF k < i THEN mine[k] ELSE mine[k + 1]]
  /\ UNCHANGED queue

Next ==
  \/ Reserve
  \/ \E i \in 1 .. Len(queue), p \in Payload : Fill(i, p)
  \/ Take
  \/ \E i \in 1 .. Len(mine) : Release(i)

Spec == Init /\ [][Next]_<<queue, mine>>
===============================================================================
