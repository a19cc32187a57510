------------------------------ MODULE ChannelInv ------------------------------
(***************************************************************************)
(* The inductive invariant of a Disciplined channel.  The lines in use are *)
(* an arc of the ring: it starts at the oldest message not yet freed, has  *)
(* `used' lines and ends at head.  next is in the arc or is head.          *)
(***************************************************************************)
EXTENDS Channel

oldest == IF held = <<>> THEN next ELSE held[1]
used == inflight + (NLINES - skipAt)

(* The distance from the start of the arc to line l. *)
Rel(l) == IF l >= oldest THEN l - oldest ELSE l - oldest + NLINES
InUse(l) == Rel(l) < used

(* The end of the part of the ring that the current lap has written. *)
Lap == IF head = 0 THEN NLINES ELSE head
EndOf(s) == s + alloced[s]

(* Headers tile the ring from 0 to Lap, and from lo to its end. *)
TiledTo(hi) ==
  \A s \in starts : s < hi => EndOf(s) <= hi /\ (EndOf(s) < hi => EndOf(s) \in starts)
TiledFrom(lo) ==
  \A s \in starts : s >= lo /\ EndOf(s) < NLINES => EndOf(s) \in starts

Tiling ==
  /\ \A s \in starts : alloced[s] >= 1 /\ EndOf(s) <= NLINES
  /\ \A s \in starts : size[s] = SENTINEL => EndOf(s) = NLINES
  /\ starts = {} => head = 0 /\ tail = NLINES /\ used = 0
  /\ starts # {} => 0 \in starts
  /\ TiledTo(Lap)
  /\ \A s, t \in starts : s < t => EndOf(s) <= t

(* Where garbage collection will look next there is a header. *)
Collectable ==
  /\ tail < NLINES /\ tail # head => tail \in starts
  /\ head < tail /\ tail < NLINES => TiledFrom(tail)

(* The arc, and the skipped end of the ring inside it. *)
Arc ==
  /\ oldest + used = head \/ oldest + used = head + NLINES
  /\ used < NLINES
  /\ Rel(next) <= used
  /\ used > 0 => oldest \in starts
  /\ Rel(next) < used => next \in starts
  /\ oldest + used >= NLINES => TiledFrom(oldest)

Skip ==
  /\ skipAt < NLINES =>
       /\ skipAt \in starts /\ size[skipAt] = SENTINEL
       /\ skipAt >= oldest /\ InUse(NLINES - 1)
       /\ \E a \in MsgLines : NLINES - skipAt < a
       /\ ready[skipAt] <=> Rel(next) <= Rel(skipAt)
       /\ \A l \in skipAt + 1 .. NLINES - 1 : ~ready[l] /\ l \notin starts
       /\ ~ready[skipAt] => owned \cap (skipAt .. NLINES - 1) = {}
  /\ \A s \in starts : InUse(s) /\ size[s] = SENTINEL => s = skipAt

(* Messages not yet received are ready; outside the arc nothing is. *)
Flags ==
  /\ \A s \in starts : InUse(s) /\ Rel(s) >= Rel(next) => ready[s]
  /\ \A l \in Lines : ready[l] => InUse(l)
  /\ \A s \in starts : InUse(s) => (size[s] = EMPTY <=> s \in unsent)
  /\ \A s \in unsent : s \in starts /\ InUse(s) /\ Rel(s) >= Rel(next)
  /\ \A l \in owned : InUse(l)

(* Messages received are at the start of the arc, one after the other. *)
Follows(s, t) ==
  \/ t = EndOf(s)
  \/ t = 0 /\ (EndOf(s) = NLINES \/ (EndOf(s) = skipAt /\ ~ready[skipAt]))

Received ==
  \A i \in 1 .. Len(held) :
    /\ held[i] \in starts /\ held[i] # skipAt
    /\ size[held[i]] = SENT
    /\ Rel(held[i]) < Rel(next)

Chained ==
  /\ \A i \in 1 .. Len(held) - 1 : Follows(held[i], held[i + 1])
  /\ held # <<>> => Follows(held[Len(held)], next)

Ordered == \A i, j \in 1 .. Len(held) : i < j => Rel(held[i]) < Rel(held[j])

Clearing ==
  /\ freeIdx \in {0, 1}
  /\ freeIdx = 1 =>
       /\ held # <<>>
       /\ freePos \in held[1] .. EndOf(held[1]) - 1
       /\ \A l \in held[1] .. freePos - 1 : ~ready[l]

Holding == Received /\ Chained /\ Ordered /\ Clearing

Sending ==
  /\ pc = "idle" \/ (req \in MsgLines /\ inflight + req <= Window)
  /\ inflight <= Window
  /\ pc # "idle" =>
       /\ freeing = tail
       /\ tail = FULL => freed = IF head = 0 THEN 0 ELSE NLINES - head
       /\ head < tail /\ tail # FULL => freed = tail - head
       /\ head >= tail => freed <= NLINES - head + tail

IInv ==
  /\ TypeOK /\ Tiling /\ Collectable /\ Arc /\ Skip /\ Flags /\ Holding /\ Sending
  /\ NoOverwrite /\ AllocationSucceeds
===============================================================================
