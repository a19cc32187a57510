------------------------------- MODULE Channel -------------------------------
(***************************************************************************)
(* One direction of a message channel (messaging/include/channel.h): a     *)
(* ring in shared memory with one sender and one receiver.  The sender     *)
(* allocates a message, fills it and sends it; the receiver polls,         *)
(* receives and frees.  Frees are not messages: the receiver clears the    *)
(* `ready' byte of every cache line of the message, and the sender's       *)
(* garbage collection finds the cleared messages the next time it lacks    *)
(* space.                                                                  *)
(*                                                                         *)
(* Offsets and sizes are counted in cache lines.  Every offset of the code *)
(* is a multiple of CACHELINE_SIZE but `tail', which is one less than a    *)
(* multiple, or SHARED_SIZE when the ring is full.  The variable tail is   *)
(* the code's tail + 1 in lines, and FULL for SHARED_SIZE, so that         *)
(*     head < tail         is   head < tail                                *)
(*     new_head = tail + 1 is   newHead = tail                             *)
(*     SHARED_SIZE + 1 - head, rounded down, is NLINES - head.             *)
(***************************************************************************)
EXTENDS Integers, Sequences

CONSTANTS
  NLINES,    \* SHARED_SIZE / CACHELINE_SIZE
  MsgLines,  \* the lengths of messages, header included, in lines
  Window,    \* lines the users of the channel keep in flight at most
  InOrder,   \* TRUE if the receiver frees messages in the order it got them
  Payload    \* what messages carry

ASSUME ChannelAssumption ==
  /\ NLINES \in Nat \ {0}
  /\ MsgLines \subseteq 1 .. NLINES - 1   \* _channel_message_size refuses longer ones
  /\ Window \in Nat
  /\ InOrder \in BOOLEAN
  /\ Payload # {}

Lines == 0 .. NLINES - 1
FULL == NLINES + 1

EMPTY == "empty"        \* size = 0: allocated, not sent yet
SENT == "sent"          \* size > 0: the payload can be received
SENTINEL == "sentinel"  \* size = ~0: the rest of the ring is skipped

VARIABLES
  head, tail,              \* HalfChannel, written by the sender
  next,                    \* HalfChannel, written by the receiver
  size, alloced, ready,    \* the Message header at the start of each line
  data,                    \* the payload behind that header
  pc, req, freeing, freed, \* sender inside channel_allocate / _channel_gc
  ret,                     \* what the last channel_allocate returned
  unsent,                  \* messages the sender allocated and has not sent
  held,                    \* messages received and not yet freed
  freeIdx, freePos,        \* receiver inside channel_free
  inflight,                \* history: lines of messages not yet freed
  skipAt,                  \* history: start of the skipped end of the ring, or NLINES
  starts,                  \* history: where the latest header of each message or sentinel is
  owned,                   \* history: lines of messages or skips not yet freed
  clobbered                \* history: a claim took a line that was owned

ring == <<head, tail, next, size, alloced, ready, data>>
sender == <<pc, req, freeing, freed, ret, unsent>>
receiver == <<held, freeIdx, freePos>>
history == <<inflight, skipAt, starts, owned, clobbered>>
vars == <<ring, sender, receiver, history>>

TypeOK ==
  /\ head \in Lines /\ next \in Lines
  /\ tail \in 1 .. NLINES \/ tail = FULL
  /\ size \in [Lines -> {EMPTY, SENT, SENTINEL}]
  /\ alloced \in [Lines -> 0 .. NLINES]
  /\ ready \in [Lines -> BOOLEAN]
  /\ data \in [Lines -> Payload]
  /\ pc \in {"idle", "gcFull", "gcRetry"}
  /\ req \in 0 .. NLINES - 1
  /\ freeing \in Nat /\ freed \in Nat
  /\ ret \in {"none", "ok", "null"}
  /\ unsent \subseteq Lines
  /\ held \in Seq(Lines)
  /\ freeIdx \in 0 .. Len(held)
  /\ freePos \in 0 .. NLINES
  /\ inflight \in Nat
  /\ skipAt \in 0 .. NLINES
  /\ starts \subseteq Lines /\ owned \subseteq Lines
  /\ clobbered \in BOOLEAN

(* __channel_setup_owned: the whole ring is free. *)
Init ==
  /\ head = 0 /\ tail = NLINES /\ next = 0
  /\ size = [l \in Lines |-> EMPTY]
  /\ alloced = [l \in Lines |-> 0]
  /\ ready = [l \in Lines |-> FALSE]
  /\ \E p \in Payload : data = [l \in Lines |-> p]
  /\ pc = "idle" /\ req = 0 /\ freeing = 0 /\ freed = 0
  /\ ret = "none" /\ unsent = {}
  /\ held = <<>> /\ freeIdx = 0 /\ freePos = 0
  /\ inflight = 0 /\ skipAt = NLINES /\ starts = {} /\ owned = {} /\ clobbered = FALSE

-----------------------------------------------------------------------------
(* The sender.                                                              *)

(* tail + 1 - head, rounded down to lines, when head < tail. *)
Room == (IF tail = FULL THEN NLINES ELSE tail) - head

(* Space for a lines at head, and space at the start of the ring after      *)
(* giving up the lines from head to the end.                                *)
FitsAtHead(a) ==
  \/ head < tail /\ a <= Room
  \/ head >= tail /\ a <= NLINES - head

\* Mutant: the lines before tail are not used.
FitsAtStartNever(a) == FALSE

FitsAtStart(a) == head >= tail /\ a <= tail

WriteSentinel(sz, al, rd) ==
  /\ size' = [sz EXCEPT ![head] = SENTINEL]
  /\ alloced' = [al EXCEPT ![head] = NLINES - head]
  /\ ready' = [rd EXCEPT ![head] = TRUE]

(* channel_allocate returns and its locals are gone. *)
Return(r) == pc' = "idle" /\ ret' = r /\ req' = 0 /\ freeing' = 0 /\ freed' = 0

(* The lines a message takes at start, with the skipped end of the ring.    *)
Chunk(start, a) ==
  (start .. start + a - 1) \cup (IF start # head THEN head .. NLINES - 1 ELSE {})

(* History: the sender takes these lines and writes these headers there.     *)
Take(chunk, headers) ==
  /\ starts' = (starts \ chunk) \cup headers
  /\ owned' = owned \cup chunk
  /\ clobbered' = (clobbered \/ chunk \cap owned # {})

\* Mutant: head moves one line short of the end of the message.
NewHeadShort(start, a) == start + a - 1

NewHead(start, a) == IF start + a >= NLINES THEN 0 ELSE start + a

(* The end of channel_allocate: move head past the message, write the       *)
(* sentinel if the end of the ring is skipped, write the message's header.  *)
Claim(start, a) ==
  LET wrapped == start # head
      base(f, v) == IF wrapped THEN [f EXCEPT ![head] = v] ELSE f
  IN /\ tail' = IF start + a = tail THEN FULL ELSE tail
     /\ head' = NewHead(start, a)
     /\ size' = [base(size, SENTINEL) EXCEPT ![start] = EMPTY]
     /\ alloced' = [base(alloced, NLINES - head) EXCEPT ![start] = a]
     /\ ready' = [base(ready, TRUE) EXCEPT ![start] = TRUE]
     /\ Return("ok")
     /\ unsent' = unsent \cup {start}
     /\ inflight' = inflight + a
     /\ skipAt' = IF wrapped THEN head ELSE skipAt
     /\ Take(Chunk(start, a), {start, head})
     /\ UNCHANGED <<next, data, receiver>>

(* Entry of _channel_gc.  When head = tail the ring is empty and freed is   *)
(* SHARED_SIZE; otherwise head > tail makes it overflow and start from 0.   *)
StartGc(where, a) ==
  /\ pc' = where /\ req' = a
  /\ freeing' = tail
  /\ freed' = CASE head < tail /\ ~(tail = FULL /\ head = 0) -> Room
                [] head = tail -> NLINES
                [] OTHER -> 0
  /\ ret' = "none"
  /\ UNCHANGED <<ring, unsent, receiver, history>>

(* channel_allocate(a) up to the claim or the first garbage collection.     *)
(* The guard is the users' side: they keep at most Window lines in flight.  *)
Allocate(a) ==
  /\ pc = "idle"
  /\ inflight + a <= Window
  /\ \/ tail = FULL /\ StartGc("gcFull", a)
     \/ tail # FULL /\ FitsAtHead(a) /\ Claim(head, a)
     \/ tail # FULL /\ ~FitsAtHead(a) /\ FitsAtStart(a) /\ Claim(0, a)
     \/ tail # FULL /\ ~FitsAtHead(a) /\ ~FitsAtStart(a) /\ StartGc("gcRetry", a)

(* One round of the loop of _channel_gc: stop, or skip one freed chunk.     *)
GcAt == IF freeing >= NLINES THEN 0 ELSE freeing

\* Mutant: garbage collection does not notice that it has come around an empty
\* ring.
GcStopsNever == ready[GcAt]

GcStops == freeing = head \/ freed = NLINES \/ ready[GcAt]

GcStep ==
  /\ pc \in {"gcFull", "gcRetry"}
  /\ ~GcStops
  /\ LET newTail == IF size[GcAt] = SENTINEL THEN NLINES ELSE GcAt + alloced[GcAt]
     IN tail' = newTail /\ freeing' = newTail
  /\ freed' = freed + alloced[GcAt]
  /\ UNCHANGED <<head, next, size, alloced, ready, data, pc, req, ret, unsent, receiver, history>>

(* No space even after collecting: give up, after resetting head to the     *)
(* start of the ring when the end is too small.                             *)
ReturnNull ==
  /\ Return("null")
  /\ IF head >= tail
       THEN /\ WriteSentinel(size, alloced, ready)
            /\ head' = 0
            /\ skipAt' = head
            /\ Take(head .. NLINES - 1, {head})
       ELSE UNCHANGED <<size, alloced, ready, head, skipAt, starts, owned, clobbered>>
  /\ UNCHANGED <<tail, next, data, unsent, receiver, inflight>>

(* The rest of channel_allocate once _channel_gc has returned.              *)
GcReturn ==
  /\ pc \in {"gcFull", "gcRetry"}
  /\ GcStops
  /\ \/ FitsAtHead(req) /\ Claim(head, req)
     \/ ~FitsAtHead(req) /\ FitsAtStart(req) /\ Claim(0, req)
     \/ ~FitsAtHead(req) /\ ~FitsAtStart(req) /\ pc = "gcFull" /\ StartGc("gcRetry", req)
     \/ ~FitsAtHead(req) /\ ~FitsAtStart(req) /\ pc = "gcRetry" /\ ReturnNull

(* channel_send after the user wrote payload p.  The payload fills the      *)
(* later lines of the message, so where their ready bytes are it leaves     *)
(* whatever it contains.                                                    *)
Send(l, p, b) ==
  LET rest == l + 1 .. l + alloced[l] - 1 IN
  /\ pc = "idle"
  /\ l \in unsent
  /\ unsent' = unsent \ {l}
  /\ size' = [k \in Lines |-> IF k = l \/ (b /\ k \in rest) THEN SENT ELSE size[k]]
  /\ ready' = [k \in Lines |-> IF k \in rest THEN b ELSE ready[k]]
  /\ data' = [data EXCEPT ![l] = p]
  /\ UNCHANGED <<head, tail, next, alloced, pc, req, freeing, freed, ret, receiver, history>>

-----------------------------------------------------------------------------
(* The receiver.                                                            *)

\* Mutant: the poll does not step over the sentinel.
SkipStays ==
  /\ freeIdx = 0
  /\ ready[next] /\ size[next] = SENTINEL
  /\ UNCHANGED vars

(* __channel_poll meets the sentinel: go back to the start of the ring.     *)
SkipSentinel ==
  /\ freeIdx = 0
  /\ ready[next] /\ size[next] = SENTINEL
  /\ next' = 0
  /\ ready' = [ready EXCEPT ![next] = FALSE]
  /\ owned' = owned \ (next .. NLINES - 1)
  /\ skipAt' = IF held = <<>> THEN NLINES ELSE skipAt
  /\ UNCHANGED <<head, tail, size, alloced, data, sender, receiver, inflight, starts, clobbered>>

\* Mutant: next does not move.
ReceiveStays ==
  /\ freeIdx = 0
  /\ ready[next] /\ size[next] = SENT
  /\ held' = Append(held, next)
  /\ UNCHANGED <<head, tail, next, size, alloced, ready, data, sender, freeIdx, freePos, history>>

(* channel_receive. *)
Receive ==
  /\ freeIdx = 0
  /\ ready[next] /\ size[next] = SENT
  /\ held' = Append(held, next)
  /\ next' = LET n == next + alloced[next] IN IF n >= NLINES THEN 0 ELSE n
  /\ UNCHANGED <<head, tail, size, alloced, ready, data, sender, freeIdx, freePos, history>>

(* channel_free: clear `ready' in every line, first to last. *)
FreeBegin(i) ==
  /\ freeIdx = 0
  /\ i \in 1 .. Len(held)
  /\ InOrder => i = 1
  /\ freeIdx' = i
  /\ freePos' = held[i]
  /\ UNCHANGED <<ring, sender, held, history>>

FreeEnd == held[freeIdx] + alloced[held[freeIdx]]

RemoveAt(s, i) == [k \in 1 .. Len(s) - 1 |-> IF k < i THEN s[k] ELSE s[k + 1]]

(* One round of the loop; the last one ends channel_free.  A skip that lies *)
(* behind the oldest message left is over too.                              *)
FreeLine ==
  LET l == held[freeIdx]
      last == freePos + 1 >= FreeEnd
      rest == RemoveAt(held, freeIdx)
      oldest == IF rest = <<>> THEN next ELSE rest[1]
      skipDone == last /\ skipAt # NLINES /\ FreeEnd = skipAt /\ oldest = 0
  IN /\ freeIdx # 0
     /\ ready' = [ready EXCEPT ![freePos] = FALSE]
     /\ freePos' = IF last THEN 0 ELSE freePos + 1
     /\ held' = IF last THEN rest ELSE held
     /\ freeIdx' = IF last THEN 0 ELSE freeIdx
     /\ inflight' = IF last THEN inflight - alloced[l] ELSE inflight
     /\ skipAt' = IF skipDone THEN NLINES ELSE skipAt
     /\ owned' = IF last THEN owned \ (l .. FreeEnd - 1) ELSE owned
     /\ UNCHANGED <<head, tail, next, size, alloced, data, sender, starts, clobbered>>

-----------------------------------------------------------------------------
SenderStep ==
  \/ \E a \in MsgLines : Allocate(a)
  \/ GcStep
  \/ GcReturn
  \/ \E l \in Lines, p \in Payload, b \in BOOLEAN : Send(l, p, b)

ReceiverStep ==
  \/ SkipSentinel
  \/ Receive
  \/ \E i \in 1 .. Len(held) : FreeBegin(i)
  \/ FreeLine

Next == SenderStep \/ ReceiverStep

Spec == Init /\ [][Next]_vars

-----------------------------------------------------------------------------
(* What users of the channel rely on.                                       *)

(* The discipline of the RPC layer: a receiver frees in the order it        *)
(* receives, and there is room for one more message, of any length, than    *)
(* the sender keeps in flight.                                              *)
Disciplined == InOrder /\ \A a \in MsgLines : Window + a <= NLINES

(* The sender never reuses a line of a message that the receiver has not    *)
(* freed, nor of a skip it has not passed (channel_allocate, channel_free). *)
NoOverwrite == ~clobbered

(* channel_allocate finds space: dispatchAllocate, which asserts that it    *)
(* does, never fails on users that keep to Window.                          *)
AllocationSucceeds == ret # "null"

(* A message the user has received is not received again before it is       *)
(* freed: next is the next unreceived message (HalfChannel::next).          *)
ReceivedOnce == \A i, j \in 1 .. Len(held) : held[i] = held[j] => i = j
==============================================================================
