---------------------------- MODULE ChannelProofs ----------------------------
(***************************************************************************)
(* The inductive invariant of Channel holds at first and is preserved by   *)
(* the steps of the receiver (__channel_poll, channel_receive and          *)
(* channel_free) and of the sender (channel_allocate, _channel_gc and      *)
(* channel_send).  So a Disciplined channel never overwrites a message,    *)
(* never fails an allocation and never delivers a message twice.           *)
(***************************************************************************)
EXTENDS ChannelInv, TLAPS

USE DEF Lines, FULL, EMPTY, SENT, SENTINEL

-----------------------------------------------------------------------------
(* At first, and what the invariant says of the arc of lines in use.         *)

(* A ring that has been set up satisfies the invariant.                     *)
LEMMA InitIInv == ASSUME Disciplined, Init PROVE IInv
  <1> USE ChannelAssumption DEF Init
  <1>1. oldest = 0 /\ used = 0
    BY DEF oldest, used
  <1>2. TypeOK
    <2>1. held \in Seq(Lines) /\ Len(held) = 0
      OBVIOUS
    <2>2. data \in [Lines -> Payload]
      BY ZenonT(30)
    <2>3. ready \in [Lines -> BOOLEAN] /\ clobbered \in BOOLEAN
      BY ZenonT(30)
    <2>4. size \in [Lines -> {EMPTY, SENT, SENTINEL}] /\ alloced \in [Lines -> 0 .. NLINES]
      OBVIOUS
    <2>5. head \in Lines /\ next \in Lines /\ tail \in 1 .. NLINES /\ req \in 0 .. NLINES - 1
      OBVIOUS
    <2> QED
      BY <2>1, <2>2, <2>3, <2>4, <2>5 DEF TypeOK
  <1>3. Tiling /\ Collectable
    BY <1>1 DEF Tiling, Collectable, TiledTo
  <1>4. Arc
    BY <1>1 DEF Arc, Rel
  <1>5. Skip /\ Flags
    BY <1>1 DEF Skip, Flags, InUse, Rel
  <1>6. Holding /\ Sending
    BY DEF Holding, Received, Chained, Ordered, Clearing, Sending
  <1> QED
    BY ZenonT(30), <1>2, <1>3, <1>4, <1>5, <1>6 DEF IInv, NoOverwrite, AllocationSucceeds

(* The types of the quantities the invariant is about. *)
LEMMA Basics ==
  ASSUME IInv
  PROVE  /\ oldest \in Lines /\ used \in 0 .. NLINES - 1
         /\ \A l \in Lines : Rel(l) \in Lines
         /\ \A s \in starts : s \in Lines /\ alloced[s] \in 1 .. NLINES /\ EndOf(s) \in 1 .. NLINES
  <1> USE ChannelAssumption DEF IInv
  <1>1. oldest \in Lines
    BY DEF TypeOK, oldest
  <1>2. used \in 0 .. NLINES - 1
    BY DEF TypeOK, used, Arc
  <1>3. \A l \in Lines : Rel(l) \in Lines
    BY <1>1 DEF Rel
  <1>4. \A s \in starts : s \in Lines /\ alloced[s] \in 1 .. NLINES /\ EndOf(s) \in 1 .. NLINES
    BY DEF TypeOK, Tiling, EndOf
  <1> QED
    BY ZenonT(30), <1>1, <1>2, <1>3, <1>4

(* A chunk that starts in the arc lies in the arc. *)
LEMMA ChunkInArc ==
  ASSUME IInv, NEW s \in starts, InUse(s)
  PROVE  /\ Rel(s) + alloced[s] <= used
         /\ \A k \in s .. EndOf(s) - 1 : k \in Lines /\ InUse(k) /\ Rel(k) = Rel(s) + (k - s)
  <1> USE ChannelAssumption, Basics DEF IInv
  <1>1. head \in Lines /\ (s < head => EndOf(s) <= head)
    BY ZenonT(30) DEF TypeOK, Tiling, TiledTo, Lap
  <1>2. oldest + used = head \/ oldest + used = head + NLINES
    BY ZenonT(30) DEF Arc
  <1> QED
    BY <1>1, <1>2 DEF InUse, Rel, EndOf

Wrap(e) == IF e = NLINES THEN 0 ELSE e

(* The chunk after one in the arc starts right behind it. *)
LEMMA NextInArc ==
  ASSUME IInv, NEW s \in starts, InUse(s)
  PROVE  /\ Wrap(EndOf(s)) \in Lines
         /\ Rel(s) + alloced[s] < used =>
              /\ Wrap(EndOf(s)) \in starts
              /\ Rel(Wrap(EndOf(s))) = Rel(s) + alloced[s]
         /\ Rel(s) + alloced[s] = used => Wrap(EndOf(s)) = head
  <1> USE ChannelAssumption, Basics DEF IInv
  <1>1. /\ head \in Lines /\ 0 \in starts
        /\ s < head => EndOf(s) <= head /\ (EndOf(s) < head => EndOf(s) \in starts)
    BY DEF TypeOK, Tiling, TiledTo, Lap
  <1>2. oldest + used = head \/ oldest + used = head + NLINES
    BY ZenonT(30) DEF Arc
  <1>3. oldest + used >= NLINES /\ s >= oldest /\ EndOf(s) < NLINES => EndOf(s) \in starts
    BY ZenonT(30) DEF Arc, TiledFrom
  <1>4. Wrap(EndOf(s)) \in Lines
    BY DEF Wrap
  <1>5. CASE s >= oldest /\ oldest + used = head
    BY <1>1, <1>5 DEF InUse, Rel, EndOf, Wrap
  <1>6. CASE s >= oldest /\ oldest + used = head + NLINES
    <2>1. oldest > 0 /\ Rel(s) = s - oldest
      BY <1>1, <1>6 DEF Rel
    <2>2. CASE EndOf(s) = NLINES
      <3>1. Wrap(EndOf(s)) = 0 /\ Rel(0) = NLINES - oldest
        BY <1>1, <2>1, <2>2 DEF Rel, Wrap
      <3>2. alloced[s] = NLINES - s
        BY <2>2 DEF EndOf
      <3> QED
        BY <1>1, <1>4, <1>6, <2>1, <3>1, <3>2
    <2>3. CASE EndOf(s) # NLINES
      <3>1. Wrap(EndOf(s)) = EndOf(s) /\ EndOf(s) < NLINES /\ EndOf(s) > s
        BY <2>3 DEF Wrap, EndOf
      <3>2. Rel(EndOf(s)) = EndOf(s) - oldest /\ EndOf(s) \in starts
        BY <1>1, <1>3, <1>6, <3>1 DEF Rel
      <3> QED
        BY <1>1, <1>4, <1>6, <2>1, <3>1, <3>2 DEF EndOf
    <2> QED
      BY ZenonT(30), <2>2, <2>3
  <1>7. CASE s < oldest
    BY SMTT(30), <1>1, <1>2, <1>7 DEF InUse, Rel, EndOf, Wrap
  <1> QED
    BY <1>2, <1>4, <1>5, <1>6, <1>7

(* Chunks of the arc do not overlap. *)
LEMMA ChunksDisjoint ==
  ASSUME IInv, NEW s \in starts, NEW t \in starts, InUse(s), InUse(t), Rel(s) < Rel(t)
  PROVE  Rel(s) + alloced[s] <= Rel(t)
  <1> USE ChannelAssumption, Basics DEF IInv
  <1>1. s < t => EndOf(s) <= t
    BY ZenonT(30) DEF Tiling
  <1> QED
    BY <1>1 DEF Rel, EndOf

(* Two lines at the same distance are the same line. *)
LEMMA RelInjective ==
  ASSUME IInv, NEW k \in Lines, NEW l \in Lines, Rel(k) = Rel(l)
  PROVE  k = l
  BY ChannelAssumption, Basics DEF Rel

(* head is one arc away from oldest. *)
LEMMA RelHead == ASSUME IInv PROVE head \in Lines /\ Rel(head) = used
  <1>1. head \in Lines
    BY ZenonT(30) DEF IInv, TypeOK
  <1>2. oldest + used = head \/ oldest + used = head + NLINES
    BY ZenonT(30) DEF IInv, Arc
  <1>3. oldest \in Lines /\ used \in 0 .. NLINES - 1
    BY ZenonT(30), Basics
  <1> QED
    BY <1>1, <1>2, <1>3, ChannelAssumption DEF Rel

(* What channel_free works on: the oldest message, at the start of the arc. *)
LEMMA FirstHeld ==
  ASSUME IInv, freeIdx # 0
  PROVE  /\ freeIdx = 1 /\ held # <<>> /\ held[1] = oldest
         /\ oldest \in starts /\ InUse(oldest) /\ Rel(oldest) = 0 /\ oldest # skipAt
         /\ freePos \in oldest .. EndOf(oldest) - 1
         /\ alloced[oldest] <= Rel(next)
         /\ skipAt < NLINES => EndOf(oldest) <= skipAt
         /\ \A s \in starts : s \notin oldest + 1 .. EndOf(oldest) - 1
  <1> USE ChannelAssumption
  <1>a. TypeOK /\ Tiling /\ Arc /\ Skip /\ Holding
    BY ZenonT(30) DEF IInv
  <1>1. freeIdx = 1 /\ held # <<>> /\ held[1] = oldest /\ freePos \in oldest .. EndOf(oldest) - 1
    BY ZenonT(30), <1>a DEF Holding, Clearing, oldest
  <1>2. Len(held) \in Nat /\ 1 \in 1 .. Len(held) /\ next \in Lines /\ skipAt \in 0 .. NLINES
    BY <1>a, <1>1 DEF TypeOK
  <1>3. oldest \in starts /\ oldest # skipAt /\ Rel(oldest) < Rel(next)
    BY ZenonT(30), <1>a, <1>1, <1>2 DEF Holding, Received
  <1>4. Rel(oldest) = 0 /\ Rel(next) \in Lines /\ used \in Nat /\ oldest \in Lines
    BY <1>2, Basics DEF Rel
  <1>5. InUse(oldest)
    BY <1>a, <1>3, <1>4 DEF Arc, InUse
  <1>6. Rel(oldest) + alloced[oldest] <= used /\ alloced[oldest] \in 1 .. NLINES
    BY ZenonT(30), <1>3, <1>5, ChunkInArc, Basics
  <1>7. alloced[oldest] <= Rel(next)
    <2>1. CASE Rel(next) = used
      BY <1>4, <1>6, <2>1
    <2>2. CASE Rel(next) < used
      <3>1. next \in starts /\ InUse(next)
        BY ZenonT(30), <1>a, <2>2 DEF Arc, InUse
      <3> QED
        BY <1>3, <1>4, <1>5, <1>6, <3>1, ChunksDisjoint
    <2> QED
      BY <1>a, <1>4, <2>1, <2>2 DEF Arc
  <1>8. skipAt < NLINES => EndOf(oldest) <= skipAt
    BY <1>a, <1>2, <1>3, <1>4 DEF Skip, Tiling
  <1>9. \A s \in starts : s \notin oldest + 1 .. EndOf(oldest) - 1
    BY <1>a, <1>3, <1>4, <1>6, Basics DEF Tiling, EndOf
  <1> QED
    BY ZenonT(30), <1>1, <1>3, <1>4, <1>5, <1>7, <1>8, <1>9

(* A step that leaves the ring alone disturbs only the sender's locals. *)
LEMMA RingFrame ==
  ASSUME IInv, UNCHANGED <<ring, unsent, receiver, history>>
  PROVE  Tiling' /\ Collectable' /\ Arc' /\ Skip' /\ Flags' /\ Holding'
  <1>a. Tiling /\ Collectable /\ Arc /\ Skip /\ Flags /\ Holding
    BY ZenonT(30) DEF IInv
  <1>b. UNCHANGED <<head, tail, next, size, alloced, ready, data, unsent, held, freeIdx, freePos,
                    inflight, skipAt, starts, owned, clobbered>>
    BY ZenonT(30) DEF ring, receiver, history
  <1>1. oldest' = oldest /\ used' = used
    BY ZenonT(30), <1>b DEF oldest, used
  <1>2. Tiling' /\ Collectable'
    BY ZenonT(30), <1>a, <1>b, <1>1 DEF Tiling, Collectable, TiledTo, TiledFrom, Lap, EndOf
  <1>3. Arc'
    BY ZenonT(30), <1>a, <1>b, <1>1 DEF Arc, Rel, TiledFrom, EndOf
  <1>4. Skip' /\ Flags'
    BY ZenonT(30), <1>a, <1>b, <1>1 DEF Skip, Flags, InUse, Rel
  <1>5. Holding'
    BY ZenonT(30), <1>a, <1>b, <1>1 DEF Holding, Received, Chained, Ordered, Clearing, Follows, Rel, EndOf
  <1> QED
    BY ZenonT(30), <1>2, <1>3, <1>4, <1>5

(* The discipline leaves room behind the arc; when a message does not fit   *)
(* at head, the arc does not reach around the ring and a message fits       *)
(* before it.                                                               *)
LEMMA ArcRoom ==
  ASSUME Disciplined, IInv, NEW a \in MsgLines, inflight + a <= Window
  PROVE  /\ a \in 1 .. NLINES - 1 /\ used + a < NLINES
         /\ a > NLINES - head => oldest + used = head /\ skipAt = NLINES /\ a < oldest
  <1> USE ChannelAssumption
  <1>1. a \in 1 .. NLINES - 1 /\ Window \in Nat /\ Window + a <= NLINES
    BY ZenonT(30) DEF Disciplined
  <1>2. inflight \in Nat /\ skipAt \in 0 .. NLINES /\ head \in Lines
    BY ZenonT(30) DEF IInv, TypeOK
  <1>3. used = inflight + (NLINES - skipAt)
    BY ZenonT(30) DEF used
  <1>4. oldest \in Lines /\ used \in 0 .. NLINES - 1
    BY ZenonT(30), Basics
  <1>5. used + a < NLINES
    <2>1. CASE skipAt = NLINES
      <3>1. used = inflight
        BY <1>2, <1>3, <2>1
      <3> QED
        BY <1>1, <1>2, <3>1
    <2>2. CASE skipAt < NLINES
      <3>1. PICK b \in MsgLines : NLINES - skipAt < b
        BY ZenonT(30), <2>2 DEF IInv, Skip
      <3>2. Window + b <= NLINES /\ b \in 1 .. NLINES - 1
        BY ZenonT(30) DEF Disciplined
      <3> QED
        BY <1>1, <1>2, <1>3, <3>1, <3>2
    <2> QED
      BY <1>2, <2>1, <2>2
  <1>6. oldest + used = head \/ oldest + used = head + NLINES
    BY ZenonT(30) DEF IInv, Arc
  <1>7. skipAt < NLINES => skipAt >= oldest /\ used > NLINES - 1 - oldest
    <2>1. skipAt < NLINES => skipAt >= oldest /\ Rel(NLINES - 1) < used
      BY ZenonT(30) DEF IInv, Skip, InUse
    <2>2. Rel(NLINES - 1) = NLINES - 1 - oldest
      BY <1>4 DEF Rel
    <2> QED
      BY ZenonT(30), <2>1, <2>2
  <1>8. ASSUME a > NLINES - head
        PROVE  oldest + used = head /\ skipAt = NLINES /\ a < oldest
    <2>1. inflight < head
      BY <1>1, <1>2, <1>8
    <2>2. oldest + used = head
      <3>1. CASE skipAt = NLINES
        BY <1>2, <1>3, <1>4, <1>6, <2>1, <3>1
      <3>2. CASE skipAt < NLINES
        BY <1>2, <1>3, <1>4, <1>6, <1>7, <2>1, <3>2
      <3> QED
        BY <1>2, <3>1, <3>2
    <2>3. skipAt = NLINES
      BY <1>2, <1>4, <1>7, <2>2
    <2>4. inflight + oldest = head
      BY <1>2, <1>3, <1>4, <2>2, <2>3
    <2> QED
      BY <1>1, <1>2, <1>4, <1>8, <2>2, <2>3, <2>4
  <1> QED
    BY ZenonT(30), <1>1, <1>5, <1>8

-----------------------------------------------------------------------------
(* The steps.                                                                *)

(* channel_free chooses the message to free.                                *)
LEMMA FreeBeginIInv ==
  ASSUME Disciplined, IInv, NEW i \in 1 .. Len(held), FreeBegin(i)
  PROVE  IInv'
  <1> USE ChannelAssumption DEF IInv, FreeBegin, ring, sender, history
  <1>0. i = 1 /\ held # <<>>
    BY DEF Disciplined, TypeOK
  <1>1. oldest' = oldest /\ used' = used
    BY ZenonT(30) DEF oldest, used
  <1>2. TypeOK'
    BY SMTT(30), <1>0 DEF TypeOK
  <1>3. Tiling' /\ Collectable'
    BY ZenonT(30), <1>1 DEF Tiling, Collectable, TiledTo, TiledFrom, Lap, EndOf
  <1>4. Arc'
    BY ZenonT(30), <1>1 DEF Arc, Rel, TiledFrom, EndOf
  <1>5. Skip' /\ Flags'
    BY ZenonT(30), <1>1 DEF Skip, Flags, InUse, Rel
  <1>6. Holding'
    <2>1. held[1] \in Lines /\ held[1] \in starts /\ alloced[held[1]] \in 1 .. NLINES
      <3>1. held[1] \in Lines /\ held[1] \in starts
        BY SMTT(30), <1>0 DEF Holding, Received, TypeOK
      <3> QED
        BY SMTT(30), <1>0, <3>1 DEF TypeOK, Tiling
    <2>2. freePos' \in held'[1] .. EndOf(held[1])' - 1
      BY <1>0, <2>1 DEF EndOf
    <2>3. \A l \in held'[1] .. freePos' - 1 : ~ready'[l]
      BY <1>0, <2>1
    <2> QED
      BY ZenonT(30), <1>0, <1>1, <2>2, <2>3 DEF Holding, Received, Chained, Ordered, Clearing, Follows, Rel, EndOf
  <1>7. Sending'
    BY ZenonT(30) DEF Sending
  <1> QED
    BY ZenonT(30), <1>2, <1>3, <1>4, <1>5, <1>6, <1>7 DEF IInv, NoOverwrite, AllocationSucceeds

(* channel_send hands over a message that has been allocated.               *)
LEMMA SendIInv ==
  ASSUME Disciplined, IInv, NEW l \in Lines, NEW p \in Payload, NEW b \in BOOLEAN, Send(l, p, b)
  PROVE  IInv'
  <1> USE ChannelAssumption
  <1> DEFINE rest == l + 1 .. l + alloced[l] - 1
  <1>a. TypeOK /\ Tiling /\ Collectable /\ Arc /\ Skip /\ Flags /\ Holding /\ Sending
    BY ZenonT(30) DEF IInv
  <1>b. /\ l \in unsent /\ unsent' = unsent \ {l}
        /\ size' = [k \in Lines |-> IF k = l \/ (b /\ k \in rest) THEN SENT ELSE size[k]]
        /\ ready' = [k \in Lines |-> IF k \in rest THEN b ELSE ready[k]]
        /\ data' = [data EXCEPT ![l] = p]
        /\ UNCHANGED <<head, tail, next, alloced, pc, req, freeing, freed, ret, held, freeIdx,
                       freePos, inflight, skipAt, starts, owned, clobbered>>
    BY ZenonT(30) DEF Send, receiver, history
  <1> HIDE DEF rest
  <1>1. /\ oldest' = oldest /\ used' = used
        /\ \A k \in Lines : Rel(k)' = Rel(k) /\ InUse(k)' = InUse(k)
    BY ZenonT(30), <1>b DEF oldest, used, Rel, InUse
  <1>2. /\ l \in starts /\ InUse(l) /\ Rel(l) >= Rel(next) /\ size[l] = EMPTY
        /\ l # skipAt
    BY <1>a, <1>b DEF Flags, Skip, TypeOK
  <1>3. \A k \in rest : k \in Lines /\ k \notin starts /\ InUse(k) /\ Rel(k) > Rel(l)
    <2> SUFFICES ASSUME NEW k \in rest
                 PROVE  k \in Lines /\ k \notin starts /\ InUse(k) /\ Rel(k) > Rel(l)
      BY ZenonT(30)
    <2>1. l \in Lines /\ alloced[l] \in 1 .. NLINES /\ Rel(l) \in Lines
      BY ZenonT(30), <1>2, Basics
    <2>2. k \in l + 1 .. EndOf(l) - 1
      BY <2>1 DEF rest, EndOf
    <2>3. k \in Lines /\ InUse(k) /\ Rel(k) = Rel(l) + (k - l)
      BY <1>2, <2>1, <2>2, ChunkInArc DEF EndOf
    <2>4. k \notin starts
      BY <1>a, <1>2, <2>1, <2>2 DEF Tiling, EndOf
    <2> QED
      BY <2>1, <2>2, <2>3, <2>4
  <1>4. \A k \in rest : skipAt < NLINES => k < skipAt
    <2>1. skipAt < NLINES => l < skipAt /\ EndOf(l) <= skipAt
      BY <1>a, <1>2 DEF Skip, Tiling, TypeOK
    <2> QED
      BY SMTT(30), <1>a, <2>1 DEF EndOf, TypeOK, rest
  <1>5. \A k \in rest : freeIdx = 1 => k \notin held[1] .. EndOf(held[1]) - 1
    <2> SUFFICES ASSUME NEW k \in rest, freeIdx = 1, k \in held[1] .. EndOf(held[1]) - 1
                 PROVE  FALSE
      BY ZenonT(30)
    <2>1. held[1] \in starts /\ Rel(held[1]) < Rel(next) /\ next \in Lines
      BY <1>a DEF Holding, Received, TypeOK
    <2>2. Rel(held[1]) \in Lines /\ Rel(next) \in Lines /\ Rel(l) \in Lines /\ used \in Nat
      BY <2>1, Basics
    <2>3. InUse(held[1]) /\ Rel(held[1]) < Rel(l)
      BY <1>2, <2>1, <2>2 DEF InUse
    <2>4. Rel(held[1]) + alloced[held[1]] <= Rel(l)
      BY ZenonT(30), <1>2, <2>1, <2>3, ChunksDisjoint
    <2>5. Rel(k) = Rel(held[1]) + (k - held[1])
      BY ZenonT(30), <2>1, <2>3, ChunkInArc
    <2> QED
      BY <1>3, <2>1, <2>2, <2>4, <2>5, Basics DEF EndOf
  <1>6. TypeOK'
    BY ZenonT(30), <1>a, <1>b DEF TypeOK
  <1>7. Tiling' /\ Collectable'
    BY ZenonT(30), <1>a, <1>b, <1>1, <1>2, <1>3 DEF Tiling, Collectable, TiledTo, TiledFrom, Lap, EndOf, TypeOK
  <1>8. Arc'
    BY ZenonT(30), <1>a, <1>b, <1>1 DEF Arc, TiledFrom, EndOf, TypeOK
  <1>9. Skip'
    BY SMTT(30), <1>a, <1>b, <1>1, <1>2, <1>3, <1>4 DEF Skip, TypeOK
  <1>10. Flags'
    BY ZenonT(30), <1>a, <1>b, <1>1, <1>2, <1>3 DEF Flags, TypeOK
  <1>11. Holding'
    <2>1. /\ \A i \in 1 .. Len(held) : held[i] \in starts /\ size[held[i]] = SENT
          /\ ready'[skipAt] = ready[skipAt] \/ skipAt = NLINES
      BY <1>a, <1>b, <1>4 DEF Holding, Received, TypeOK
    <2>2. \A i \in 1 .. Len(held) : size'[held[i]] = SENT
      BY ZenonT(30), <1>a, <1>b, <2>1 DEF TypeOK
    <2>3. freeIdx = 1 => \A k \in held[1] .. freePos - 1 : ~ready'[k]
      <3> SUFFICES ASSUME freeIdx = 1, NEW k \in held[1] .. freePos - 1
                   PROVE  ~ready'[k]
        BY ZenonT(30)
      <3>1. held[1] \in starts
        BY <1>a DEF Holding, Received, TypeOK
      <3>2. freePos \in held[1] .. EndOf(held[1]) - 1 /\ ~ready[k]
        BY ZenonT(30), <1>a DEF Holding, Clearing
      <3>3. k \in held[1] .. EndOf(held[1]) - 1 /\ k \in Lines
        BY <3>1, <3>2, Basics
      <3> QED
        BY ZenonT(30), <1>b, <1>5, <3>2, <3>3
    <2>4. \A s, t \in Lines : Follows(s, t)' <=> Follows(s, t)
      BY ZenonT(30), <1>a, <1>b, <2>1 DEF Follows, EndOf, TypeOK
    <2>5. held' = held /\ Len(held) \in Nat /\ next \in Lines /\ \A i \in 1 .. Len(held) : held[i] \in Lines
      BY SMTT(30), <1>a, <1>b DEF TypeOK
    <2>6. \A i \in 1 .. Len(held) : Rel(held[i])' = Rel(held[i]) /\ Rel(next)' = Rel(next)
      BY ZenonT(30), <1>b, <1>1, <2>5
    <2>7. Received' /\ Ordered'
      BY <1>a, <1>b, <2>1, <2>2, <2>5, <2>6 DEF Holding, Received, Ordered
    <2>8. Chained'
      BY <1>a, <1>b, <2>4, <2>5 DEF Holding, Chained
    <2>9. Clearing'
      BY ZenonT(30), <1>a, <1>b, <2>3 DEF Holding, Clearing, EndOf
    <2> QED
      BY ZenonT(30), <2>7, <2>8, <2>9 DEF Holding
  <1>12. Sending'
    BY ZenonT(30), <1>a, <1>b DEF Sending
  <1> QED
    BY ZenonT(30), <1>b, <1>6, <1>7, <1>8, <1>9, <1>10, <1>11, <1>12 DEF IInv, NoOverwrite, AllocationSucceeds

(* channel_receive takes the message at next.                               *)
LEMMA ReceiveIInv ==
  ASSUME Disciplined, IInv, Receive
  PROVE  IInv'
  <1> USE ChannelAssumption
  <1>a. TypeOK /\ Tiling /\ Collectable /\ Arc /\ Skip /\ Flags /\ Holding /\ Sending
    BY ZenonT(30) DEF IInv
  <1>b. /\ freeIdx = 0 /\ ready[next] /\ size[next] = SENT
        /\ held' = Append(held, next)
        /\ UNCHANGED <<head, tail, size, alloced, ready, data, pc, req, freeing, freed, ret, unsent,
                       freeIdx, freePos, inflight, skipAt, starts, owned, clobbered>>
    BY ZenonT(30) DEF Receive, sender, history
  <1>c. held \in Seq(Lines) /\ next \in Lines /\ Len(held) \in Nat /\ skipAt \in 0 .. NLINES
    BY <1>a DEF TypeOK
  <1>d. /\ Len(held') = Len(held) + 1 /\ held' # <<>> /\ held' \in Seq(Lines)
        /\ held'[Len(held) + 1] = next
        /\ \A i \in 1 .. Len(held) : held'[i] = held[i] /\ held[i] \in Lines
    BY SMTT(30), <1>b, <1>c
  <1>1. InUse(next) /\ next \in starts /\ next # skipAt
    BY <1>a, <1>b, <1>c DEF Flags, Arc, Skip, InUse
  <1>2. next' = Wrap(EndOf(next))
    <2>1. next' = IF next + alloced[next] >= NLINES THEN 0 ELSE next + alloced[next]
      BY ZenonT(30) DEF Receive
    <2> QED
      BY <1>1, <2>1, Basics DEF EndOf, Wrap
  <1>3. /\ next' \in Lines
        /\ Rel(next') = Rel(next) + alloced[next] /\ Rel(next') <= used
        /\ Rel(next') < used => next' \in starts
    <2>1. Rel(next) + alloced[next] <= used
      BY ZenonT(30), <1>1, ChunkInArc
    <2>2. Rel(next) \in Lines /\ alloced[next] \in 1 .. NLINES /\ used \in Nat
      BY <1>1, <1>c, Basics
    <2> QED
      BY <1>1, <1>2, <2>1, <2>2, NextInArc, RelHead
  <1>4. /\ oldest' = oldest /\ used' = used
        /\ \A k \in Lines : Rel(k)' = Rel(k) /\ InUse(k)' = InUse(k)
    <2>1. oldest' = oldest
      BY <1>c, <1>d DEF oldest
    <2>2. used' = used
      BY ZenonT(30), <1>b DEF used
    <2> QED
      BY ZenonT(30), <2>1, <2>2 DEF Rel, InUse
  <1>5. Rel(next)' = Rel(next') /\ Rel(next) < Rel(next') /\ \A k \in Lines : Rel(k) \in Lines
    <2>1. Rel(next)' = Rel(next')
      BY ZenonT(30), <1>4 DEF Rel
    <2>2. \A k \in Lines : Rel(k) \in Lines
      BY ZenonT(30), Basics
    <2>3. alloced[next] \in 1 .. NLINES
      BY ZenonT(30), <1>1, Basics
    <2>4. Rel(next) \in Lines
      BY ZenonT(30), <2>2, <1>c
    <2>5. Rel(next') = Rel(next) + alloced[next]
      BY ZenonT(30), <1>3
    <2>6. Rel(next) < Rel(next')
      BY <2>3, <2>4, <2>5
    <2> QED
      BY ZenonT(30), <2>1, <2>2, <2>6
  <1>6. \A s \in starts : InUse(s) /\ s # next /\ Rel(s) >= Rel(next) => Rel(s) >= Rel(next')
    <2> SUFFICES ASSUME NEW s \in starts, InUse(s), s # next, Rel(s) >= Rel(next)
                 PROVE  Rel(s) >= Rel(next')
      BY ZenonT(30)
    <2>1. s \in Lines /\ Rel(s) > Rel(next)
      BY SMTT(30), <1>c, <1>5, RelInjective, Basics
    <2> QED
      BY ZenonT(30), <1>1, <1>3, <2>1, ChunksDisjoint
  <1>7. TypeOK'
    <2>1. next' \in Lines /\ held' \in Seq(Lines)
      BY ZenonT(30), <1>d, <1>3
    <2>2. UNCHANGED <<head, tail, size, alloced, ready, data, pc, req, freeing, freed, ret, unsent,
                      freeIdx, freePos, inflight, skipAt, starts, owned, clobbered>>
      BY ZenonT(30), <1>b
    <2>3. freeIdx' \in 0 .. Len(held')
      <3>1. freeIdx' = 0
        BY ZenonT(30), <1>b
      <3> QED
        BY <1>c, <1>d, <3>1
    <2> QED
      BY ZenonT(30), <1>a, <2>1, <2>2, <2>3 DEF TypeOK
  <1>8. Tiling' /\ Collectable'
    BY ZenonT(30), <1>a, <1>b, <1>4 DEF Tiling, Collectable, TiledTo, TiledFrom, Lap, EndOf
  <1>9. Arc'
    BY ZenonT(30), <1>a, <1>b, <1>3, <1>4, <1>5 DEF Arc, TiledFrom, EndOf
  <1>10. Skip'
    <2>1. skipAt < NLINES => skipAt \in Lines /\ NLINES - 1 \in Lines /\ InUse(skipAt)
      BY <1>a, <1>c, <1>4, Basics DEF Skip, InUse, Rel
    <2>2. skipAt < NLINES => (Rel(next') <= Rel(skipAt) <=> Rel(next) <= Rel(skipAt))
      <3> SUFFICES ASSUME skipAt < NLINES
                   PROVE  Rel(next') <= Rel(skipAt) <=> Rel(next) <= Rel(skipAt)
        BY ZenonT(30)
      <3>1. skipAt \in starts /\ skipAt # next
        BY ZenonT(30), <1>a, <1>1 DEF Skip
      <3>2. Rel(skipAt) \in Lines /\ Rel(next) \in Lines /\ Rel(next') \in Lines
        BY ZenonT(30), <2>1, <1>5, <1>c, <1>3
      <3>3. Rel(skipAt) >= Rel(next) => Rel(skipAt) >= Rel(next')
        BY ZenonT(30), <1>6, <2>1, <3>1
      <3> QED
        BY <1>5, <3>2, <3>3
    <2> QED
      BY ZenonT(30), <1>a, <1>b, <1>4, <1>5, <2>1, <2>2, Basics DEF Skip
  <1>11. Flags'
    <2>1. \A s \in unsent : s # next /\ s \in starts /\ InUse(s) /\ Rel(s) >= Rel(next')
      BY ZenonT(30), <1>a, <1>b, <1>1, <1>6 DEF Flags
    <2>2. \A s \in starts : s \in Lines /\ Rel(s)' = Rel(s) /\ InUse(s)' = InUse(s)
      BY ZenonT(30), <1>4, Basics
    <2>3. \A s \in starts : Rel(s) >= Rel(next') => Rel(s) >= Rel(next)
      <3> SUFFICES ASSUME NEW s \in starts, Rel(s) >= Rel(next') PROVE Rel(s) >= Rel(next)
        BY ZenonT(30)
      <3>1. Rel(s) \in Lines /\ Rel(next) \in Lines /\ Rel(next') \in Lines
        BY ZenonT(30), <1>5, <1>c, <1>3, <2>2
      <3> QED
        BY <1>5, <3>1
    <2>4. \A l \in owned : l \in Lines
      BY ZenonT(30), <1>a DEF TypeOK
    <2> QED
      BY ZenonT(30), <1>a, <1>b, <1>4, <1>5, <2>1, <2>2, <2>3, <2>4 DEF Flags
  <1>12. Holding'
    <2>1. \A i \in 1 .. Len(held) : Rel(held[i]) < Rel(next) /\ Rel(held[i]) < Rel(next')
      <3> SUFFICES ASSUME NEW i \in 1 .. Len(held)
                   PROVE  Rel(held[i]) < Rel(next) /\ Rel(held[i]) < Rel(next')
        BY ZenonT(30)
      <3>1. Rel(held[i]) < Rel(next)
        BY ZenonT(30), <1>a DEF Holding, Received
      <3>2. Rel(held[i]) \in Lines /\ Rel(next) \in Lines /\ Rel(next') \in Lines
        BY ZenonT(30), <1>5, <1>c, <1>d, <1>3
      <3> QED
        BY <1>5, <3>1, <3>2
    <2>2. Received'
      <3> SUFFICES ASSUME NEW i \in 1 .. Len(held')
                   PROVE  /\ held'[i] \in starts /\ held'[i] # skipAt
                          /\ size[held'[i]] = SENT /\ Rel(held'[i]) < Rel(next')
        BY ZenonT(30), <1>b, <1>d, <1>4, <1>5, <1>c, <1>3 DEF Received, Rel
      <3>1. CASE i <= Len(held)
        <4>1. i \in 1 .. Len(held) /\ held'[i] = held[i]
          BY <1>c, <1>d, <3>1
        <4> QED
          BY ZenonT(30), <1>a, <2>1, <4>1 DEF Holding, Received
      <3>2. CASE i = Len(held) + 1
        BY ZenonT(30), <1>b, <1>d, <1>1, <1>5, <3>2
      <3> QED
        BY <1>c, <1>d, <3>1, <3>2
    <2>3. Ordered'
      BY <1>a, <1>b, <1>d, <1>4, <2>1, <1>c DEF Holding, Ordered
    <2>4. \A s, t \in Lines : Follows(s, t)' <=> Follows(s, t)
      BY ZenonT(30), <1>b DEF Follows, EndOf
    <2>5. Follows(next, next')
      BY ZenonT(30), <1>2 DEF Follows, Wrap
    <2>6. Follows(held[Len(held)], next)'
      BY ZenonT(30), <1>b, <1>c, <1>d, <2>5 DEF Follows, EndOf
    <2>7. ASSUME NEW i \in 1 .. Len(held)
          PROVE  Follows(held[i], held[i + 1])'
      <3>1. CASE i < Len(held)
        <4>1. i \in 1 .. Len(held) - 1 /\ i + 1 \in 1 .. Len(held)
          BY <1>c, <3>1
        <4>2. Follows(held[i], held[i + 1])
          BY ZenonT(30), <1>a, <4>1 DEF Holding, Chained
        <4> QED
          BY ZenonT(30), <1>b, <1>d, <4>1, <4>2 DEF Follows, EndOf
      <3>2. CASE i = Len(held)
        BY <1>a, <1>c, <1>d, <2>4, <3>2 DEF Holding, Chained
      <3> QED
        BY <1>c, <3>1, <3>2
    <2>8. Chained'
      BY <1>c, <1>d, <2>6, <2>7 DEF Chained
    <2>9. Clearing'
      BY <1>b DEF Clearing
    <2> QED
      BY ZenonT(30), <2>2, <2>3, <2>8, <2>9 DEF Holding
  <1>13. Sending'
    BY ZenonT(30), <1>a, <1>b DEF Sending
  <1> QED
    BY ZenonT(30), <1>b, <1>7, <1>8, <1>9, <1>10, <1>11, <1>12, <1>13 DEF IInv, NoOverwrite, AllocationSucceeds

(* __channel_poll steps over a sentinel, back to the start of the ring.     *)
LEMMA SkipSentinelIInv ==
  ASSUME Disciplined, IInv, SkipSentinel
  PROVE  IInv'
  <1> USE ChannelAssumption
  <1>a. TypeOK /\ Tiling /\ Collectable /\ Arc /\ Skip /\ Flags /\ Holding /\ Sending
    BY ZenonT(30) DEF IInv
  <1>b. /\ freeIdx = 0 /\ ready[next] /\ size[next] = SENTINEL /\ next' = 0
        /\ ready' = [ready EXCEPT ![next] = FALSE]
        /\ owned' = owned \ (next .. NLINES - 1)
        /\ skipAt' = IF held = <<>> THEN NLINES ELSE skipAt
        /\ UNCHANGED <<head, tail, size, alloced, data, pc, req, freeing, freed, ret, unsent,
                       held, freeIdx, freePos, inflight, starts, clobbered>>
    BY ZenonT(30) DEF SkipSentinel, sender, receiver
  <1>c. /\ held \in Seq(Lines) /\ next \in Lines /\ head \in Lines /\ inflight \in Nat
        /\ ready \in [Lines -> BOOLEAN] /\ owned \subseteq Lines /\ starts \subseteq Lines
        /\ unsent \subseteq Lines
    BY ZenonT(30), <1>a DEF TypeOK
  <1>1. InUse(next) /\ next \in starts /\ next = skipAt
    BY ZenonT(30), <1>a, <1>b, <1>c DEF Flags, Arc, Skip, InUse
  <1>2. /\ oldest \in Lines /\ used \in 0 .. NLINES - 1 /\ oldest <= next /\ 0 \in starts
        /\ used > NLINES - 1 - oldest
        /\ \A l \in next + 1 .. NLINES - 1 : ~ready[l] /\ l \notin starts
    <2>1. oldest \in Lines /\ used \in 0 .. NLINES - 1
      BY ZenonT(30), Basics
    <2>2. oldest <= next /\ Rel(NLINES - 1) < used
      BY <1>a, <1>c, <1>1 DEF Skip, InUse
    <2>3. Rel(NLINES - 1) = NLINES - 1 - oldest
      BY <2>1 DEF Rel
    <2> QED
      BY <1>a, <1>c, <1>1, <2>1, <2>2, <2>3 DEF Skip, Tiling
  <1>3. oldest + used = head + NLINES
    BY <1>a, <1>c, <1>2 DEF Arc
  <1>4. \A l \in Lines : InUse(l) <=> l >= oldest \/ l < head
    BY <1>c, <1>2, <1>3 DEF InUse, Rel
  <1>5. head < oldest /\ next < NLINES
    BY <1>c, <1>2, <1>3
  <1>6. \A s \in starts : InUse(s) /\ s > next => FALSE
    BY <1>c, <1>2
  <1>7. TypeOK'
    <2>1. skipAt' \in 0 .. NLINES
      BY <1>b, <1>1, <1>c
    <2>2. ready' \in [Lines -> BOOLEAN] /\ owned' \subseteq Lines /\ next' \in Lines
      BY <1>b, <1>c
    <2> QED
      BY ZenonT(30), <1>a, <1>b, <2>1, <2>2 DEF TypeOK
  <1>8. Tiling' /\ Collectable'
    BY ZenonT(30), <1>a, <1>b, <1>2 DEF Tiling, Collectable, TiledTo, TiledFrom, Lap, EndOf
  <1>9. Sending'
    BY ZenonT(30), <1>a, <1>b DEF Sending
  <1>10. CASE held = <<>>
    <2>1. oldest = next /\ oldest' = 0 /\ used' = head /\ skipAt' = NLINES
      BY <1>b, <1>c, <1>1, <1>3, <1>10 DEF oldest, used
    <2>2. \A l \in Lines : Rel(l)' = l /\ (InUse(l)' <=> l < head)
      BY <1>c, <2>1 DEF Rel, InUse
    <2>3. Rel(next)' = 0 /\ Rel(next) = 0
      BY <1>b, <1>c, <2>1 DEF Rel
    <2>4. \A l \in Lines : l < head => l # next /\ InUse(l)
      BY <1>4, <1>5, <1>c, <2>1
    <2>5. Arc'
      BY <1>b, <1>c, <1>2, <2>1, <2>3 DEF Arc
    <2>6. Skip'
      <3> SUFFICES ASSUME NEW s \in starts, InUse(s)', size[s] = SENTINEL PROVE FALSE
        BY <1>b, <2>1 DEF Skip
      <3>1. s < head /\ InUse(s)
        BY ZenonT(30), <1>c, <2>2, <2>4
      <3> QED
        BY ZenonT(30), <1>a, <1>c, <1>1, <2>4, <3>1 DEF Skip
    <2>7. Flags'
      <3>1. \A s \in starts : InUse(s)' => ready'[s]
        BY <1>a, <1>b, <1>c, <2>2, <2>3, <2>4, Basics DEF Flags
      <3>2. \A l \in Lines : ready'[l] => InUse(l)'
        <4> SUFFICES ASSUME NEW l \in Lines, ready'[l] PROVE InUse(l)'
          BY ZenonT(30)
        <4>1. l # next /\ ready[l]
          BY ZenonT(30), <1>b, <1>c
        <4>2. InUse(l) /\ l < next
          BY <1>a, <1>c, <1>2, <4>1 DEF Flags
        <4> QED
          BY <1>4, <2>1, <2>2, <4>2, <1>2
      <3>3. \A s \in unsent : s \in starts /\ InUse(s)'
        <4> SUFFICES ASSUME NEW s \in unsent PROVE s \in starts /\ InUse(s)'
          BY ZenonT(30)
        <4>1. s \in starts /\ s \in Lines /\ InUse(s) /\ size[s] = EMPTY
          BY ZenonT(30), <1>a, <1>c DEF Flags
        <4>2. s < next
          BY <1>b, <1>c, <1>2, <4>1
        <4> QED
          BY <1>4, <2>1, <2>2, <4>1, <4>2, <1>2
      <3>4. \A s \in starts : InUse(s)' => InUse(s)
        BY ZenonT(30), <1>c, <2>2, <2>4
      <3>5. \A l \in owned' : InUse(l)'
        <4> SUFFICES ASSUME NEW l \in owned' PROVE InUse(l)'
          BY ZenonT(30)
        <4>1. l \in owned /\ l \in Lines /\ l < next
          BY <1>b, <1>c
        <4>2. InUse(l)
          BY ZenonT(30), <1>a, <4>1 DEF Flags
        <4> QED
          BY <1>4, <2>1, <2>2, <4>1, <4>2, <1>2
      <3>6. \A s \in starts : InUse(s)' => (size[s] = EMPTY <=> s \in unsent)
        BY ZenonT(30), <1>a, <3>4 DEF Flags
      <3>7. \A s \in unsent : Rel(s)' >= Rel(next)'
        BY <1>c, <2>2, <2>3
      <3> QED
        BY ZenonT(30), <1>b, <3>1, <3>2, <3>3, <3>5, <3>6, <3>7 DEF Flags
    <2>8. Holding'
      BY <1>b, <1>10 DEF Holding, Received, Chained, Ordered, Clearing
    <2> QED
      BY ZenonT(30), <1>b, <1>7, <1>8, <1>9, <2>5, <2>6, <2>7, <2>8 DEF IInv, NoOverwrite, AllocationSucceeds
  <1>11. CASE held # <<>>
    <2>1. oldest' = oldest /\ used' = used /\ skipAt' = skipAt
      BY ZenonT(30), <1>b, <1>11 DEF oldest, used
    <2>2. \A l \in Lines : Rel(l)' = Rel(l) /\ InUse(l)' = InUse(l)
      BY ZenonT(30), <2>1 DEF Rel, InUse
    <2>3. Rel(next)' = NLINES - oldest /\ Rel(next) = next - oldest /\ Rel(0) = NLINES - oldest
      BY <1>b, <1>c, <1>2, <1>5, <2>1 DEF Rel
    <2>4. \A s \in starts : InUse(s) /\ s # next => (Rel(s) >= Rel(next) <=> Rel(s) >= NLINES - oldest)
      <3> SUFFICES ASSUME NEW s \in starts, InUse(s), s # next
                   PROVE Rel(s) >= Rel(next) <=> Rel(s) >= NLINES - oldest
        BY ZenonT(30)
      <3>1. s \in Lines /\ s < next
        BY <1>c, <1>6
      <3> QED
        BY <1>c, <1>2, <2>3, <3>1 DEF Rel
    <2>5. Arc'
      <3>1. Rel(next)' <= used /\ next' \in starts
        BY <1>b, <1>2, <2>3
      <3> QED
        BY ZenonT(30), <1>a, <1>b, <2>1, <3>1 DEF Arc, TiledFrom, EndOf
    <2>6. Skip'
      <3>1. ~ready'[skipAt] /\ ~(Rel(next)' <= Rel(skipAt))
        BY <1>b, <1>c, <1>1, <1>2, <2>3
      <3>2. owned' \cap (skipAt .. NLINES - 1) = {}
        BY ZenonT(30), <1>b, <1>c, <1>1
      <3>3. \A l \in skipAt + 1 .. NLINES - 1 : ~ready'[l] /\ l \notin starts
        BY <1>b, <1>c, <1>1, <1>2
      <3>4. skipAt \in Lines /\ NLINES - 1 \in Lines /\ \A s \in starts : s \in Lines
        BY <1>1, <1>c
      <3> QED
        BY ZenonT(30), <1>a, <1>b, <2>1, <2>2, <3>1, <3>2, <3>3, <3>4 DEF Skip
    <2>7. Flags'
      <3>1. \A s \in starts : InUse(s) /\ Rel(s) >= Rel(next)' => ready'[s]
        <4> SUFFICES ASSUME NEW s \in starts, InUse(s), Rel(s) >= Rel(next)' PROVE ready'[s]
          BY ZenonT(30)
        <4>1. s # next
          BY <1>c, <1>2, <2>3
        <4> QED
          BY ZenonT(30), <1>a, <1>b, <1>c, <2>3, <2>4, <4>1 DEF Flags
      <3>2. \A s \in unsent : s \in starts /\ InUse(s) /\ Rel(s) >= Rel(next)'
        <4> SUFFICES ASSUME NEW s \in unsent PROVE s \in starts /\ InUse(s) /\ Rel(s) >= Rel(next)'
          BY ZenonT(30)
        <4>1. s \in starts /\ InUse(s) /\ Rel(s) >= Rel(next) /\ size[s] = EMPTY
          BY ZenonT(30), <1>a DEF Flags
        <4> QED
          BY ZenonT(30), <1>b, <2>3, <2>4, <4>1
      <3>3. \A l \in Lines : ready'[l] => ready[l]
        BY ZenonT(30), <1>b, <1>c
      <3> QED
        BY <1>a, <1>b, <1>c, <2>2, <3>1, <3>2, <3>3 DEF Flags
    <2>8. Holding'
      <3>1. Len(held) \in Nat /\ Len(held) # 0 /\ \A i \in 1 .. Len(held) : held[i] \in Lines
        BY <1>c, <1>11
      <3>2. \A i \in 1 .. Len(held) : Rel(held[i]) < Rel(next)'
        <4> SUFFICES ASSUME NEW i \in 1 .. Len(held) PROVE Rel(held[i]) < Rel(next)'
          BY ZenonT(30)
        <4>1. Rel(held[i]) < next - oldest
          BY ZenonT(30), <1>a, <2>3 DEF Holding, Received
        <4>2. Rel(held[i]) \in Lines
          BY ZenonT(30), <3>1, Basics
        <4> QED
          BY <1>c, <1>2, <2>3, <4>1, <4>2
      <3>3. Received'
        BY ZenonT(30), <1>a, <1>b, <2>1, <2>2, <3>1, <3>2 DEF Holding, Received
      <3>4. Ordered'
        BY ZenonT(30), <1>a, <1>b, <2>2, <3>1 DEF Holding, Ordered
      <3>5. ~ready'[skipAt]
        BY ZenonT(30), <1>b, <1>c, <1>1
      <3>6. \A u, t \in Lines : Follows(u, t) => Follows(u, t)'
        BY ZenonT(30), <1>b, <2>1, <3>5 DEF Follows, EndOf
      <3>7. Follows(held[Len(held)], next)'
        <4>1. Follows(held[Len(held)], next)
          BY ZenonT(30), <1>a, <1>11 DEF Holding, Chained
        <4>2. next # 0
          BY <1>c, <1>2, <1>5
        <4> QED
          BY ZenonT(30), <1>b, <1>1, <2>1, <3>5, <4>1, <4>2 DEF Follows, EndOf
      <3>8. \A i \in 1 .. Len(held) - 1 : Follows(held[i], held[i + 1])'
        <4> SUFFICES ASSUME NEW i \in 1 .. Len(held) - 1 PROVE Follows(held[i], held[i + 1])'
          BY ZenonT(30)
        <4>1. Follows(held[i], held[i + 1])
          BY ZenonT(30), <1>a DEF Holding, Chained
        <4> QED
          BY ZenonT(30), <1>b, <2>1, <3>5, <4>1 DEF Follows, EndOf
      <3>9. Chained' /\ Clearing'
        BY <1>b, <3>7, <3>8 DEF Chained, Clearing
      <3> QED
        BY ZenonT(30), <3>3, <3>4, <3>9 DEF Holding
    <2> QED
      BY ZenonT(30), <1>b, <1>7, <1>8, <1>9, <2>5, <2>6, <2>7, <2>8 DEF IInv, NoOverwrite, AllocationSucceeds
  <1> QED
    BY ZenonT(30), <1>10, <1>11

(* channel_free clears a line that is not the message's last. *)
LEMMA FreeLineMidIInv ==
  ASSUME Disciplined, IInv, FreeLine, ~(freePos + 1 >= FreeEnd)
  PROVE  IInv'
  <1> USE ChannelAssumption
  <1>a. TypeOK /\ Tiling /\ Collectable /\ Arc /\ Skip /\ Flags /\ Holding /\ Sending
    BY ZenonT(30) DEF IInv
  <1>b. /\ freeIdx # 0
        /\ ready' = [ready EXCEPT ![freePos] = FALSE] /\ freePos' = freePos + 1
        /\ UNCHANGED <<head, tail, next, size, alloced, data, pc, req, freeing, freed, ret, unsent,
                       held, freeIdx, inflight, skipAt, starts, owned, clobbered>>
    BY ZenonT(30) DEF FreeLine, sender
  <1>c. /\ held \in Seq(Lines) /\ next \in Lines /\ skipAt \in 0 .. NLINES
        /\ ready \in [Lines -> BOOLEAN] /\ owned \subseteq Lines /\ starts \subseteq Lines
        /\ unsent \subseteq Lines
    BY ZenonT(30), <1>a DEF TypeOK
  <1>1. /\ freeIdx = 1 /\ held # <<>> /\ held[1] = oldest
        /\ oldest \in starts /\ InUse(oldest) /\ Rel(oldest) = 0 /\ oldest # skipAt
        /\ freePos \in oldest .. EndOf(oldest) - 1
        /\ alloced[oldest] <= Rel(next)
        /\ skipAt < NLINES => EndOf(oldest) <= skipAt
        /\ \A s \in starts : s \notin oldest + 1 .. EndOf(oldest) - 1
    BY ZenonT(30), <1>b, FirstHeld
  <1>2. /\ oldest' = oldest /\ used' = used
        /\ \A k \in Lines : Rel(k)' = Rel(k) /\ InUse(k)' = InUse(k)
    BY ZenonT(30), <1>b DEF oldest, used, Rel, InUse
  <1>3. oldest \in Lines /\ EndOf(oldest) \in 1 .. NLINES /\ alloced[oldest] \in 1 .. NLINES
    BY ZenonT(30), <1>1, Basics
  <1>4. freePos \in Lines /\ freePos + 1 \in oldest .. EndOf(oldest) - 1
    BY <1>1, <1>3 DEF FreeEnd, EndOf
  <1>5. Rel(freePos) < Rel(next)
    <2>1. Rel(freePos) = freePos - oldest
      BY <1>1, <1>3, <1>4 DEF Rel
    <2>2. Rel(next) \in Lines
      BY ZenonT(30), <1>c, Basics
    <2> QED
      BY <1>1, <1>3, <1>4, <2>1, <2>2 DEF EndOf
  <1>6. \A k \in Lines : k # freePos => ready'[k] = ready[k]
    BY ZenonT(30), <1>b, <1>c
  <1>7. \A k \in Lines : ready'[k] => ready[k]
    BY ZenonT(30), <1>b, <1>c
  <1>8. TypeOK'
    <2>1. ready' \in [Lines -> BOOLEAN] /\ freePos' \in 0 .. NLINES
      BY <1>b, <1>c, <1>3, <1>4
    <2> QED
      BY ZenonT(30), <1>a, <1>b, <2>1 DEF TypeOK
  <1>9. Tiling' /\ Collectable'
    BY ZenonT(30), <1>a, <1>b, <1>2 DEF Tiling, Collectable, TiledTo, TiledFrom, Lap, EndOf
  <1>10. Arc'
    BY ZenonT(30), <1>a, <1>b, <1>c, <1>2 DEF Arc, TiledFrom, EndOf
  <1>11. skipAt < NLINES => skipAt \in Lines /\ skipAt # freePos /\ ready'[skipAt] = ready[skipAt]
    BY <1>c, <1>1, <1>3, <1>4, <1>6
  <1>12. Skip'
    <2>1. NLINES - 1 \in Lines /\ skipAt + 1 .. NLINES - 1 \subseteq Lines
      BY <1>c
    <2> QED
      BY ZenonT(30), <1>a, <1>b, <1>c, <1>2, <1>7, <1>11, <2>1 DEF Skip
  <1>13. Flags'
    <2>1. \A s \in starts : InUse(s) /\ Rel(s) >= Rel(next) => ready'[s]
      <3> SUFFICES ASSUME NEW s \in starts, InUse(s), Rel(s) >= Rel(next) PROVE ready'[s]
        BY ZenonT(30)
      <3>1. s \in Lines /\ Rel(s) \in Lines /\ Rel(freePos) \in Lines /\ Rel(next) \in Lines
        BY ZenonT(30), <1>c, <1>4, Basics
      <3>2. s # freePos
        BY <1>5, <3>1
      <3> QED
        BY ZenonT(30), <1>a, <1>6, <3>1, <3>2 DEF Flags
    <2> QED
      BY <1>a, <1>b, <1>c, <1>2, <1>7, <2>1 DEF Flags
  <1>14. Holding'
    <2>1. Len(held) \in Nat /\ \A i \in 1 .. Len(held) : held[i] \in Lines
      BY <1>c
    <2>2. Received' /\ Ordered'
      BY ZenonT(30), <1>a, <1>b, <1>c, <1>2, <2>1 DEF Holding, Received, Ordered
    <2>4. Chained'
      <3>1. \A i \in 1 .. Len(held) - 1 : Follows(held[i], held[i + 1])'
        <4> SUFFICES ASSUME NEW i \in 1 .. Len(held) - 1 PROVE Follows(held[i], held[i + 1])'
          BY ZenonT(30)
        <4>1. Follows(held[i], held[i + 1])
          BY ZenonT(30), <1>a DEF Holding, Chained
        <4> QED
          BY <1>b, <1>c, <1>11, <4>1 DEF Follows, EndOf
      <3>2. Follows(held[Len(held)], next)'
        <4>1. Follows(held[Len(held)], next)
          BY ZenonT(30), <1>a, <1>1 DEF Holding, Chained
        <4> QED
          BY <1>b, <1>c, <1>11, <4>1 DEF Follows, EndOf
      <3> QED
        BY ZenonT(30), <1>b, <3>1, <3>2 DEF Chained
    <2>5. Clearing'
      <3>1. freePos' \in held'[1] .. EndOf(held[1])' - 1
        BY ZenonT(30), <1>b, <1>1, <1>4 DEF EndOf
      <3>2. \A k \in held'[1] .. freePos' - 1 : ~ready'[k]
        <4> SUFFICES ASSUME NEW k \in oldest .. freePos PROVE ~ready'[k]
          BY <1>b, <1>1, <1>3, <1>4
        <4>1. k \in Lines
          BY <1>3, <1>4
        <4>2. k # freePos => ~ready[k]
          BY <1>a, <1>1, <1>3, <1>4 DEF Holding, Clearing
        <4> QED
          BY ZenonT(30), <1>b, <1>c, <4>1, <4>2
      <3> QED
        BY ZenonT(30), <1>b, <1>1, <3>1, <3>2 DEF Clearing
    <2> QED
      BY ZenonT(30), <2>2, <2>4, <2>5 DEF Holding
  <1>15. Sending'
    BY ZenonT(30), <1>a, <1>b DEF Sending
  <1> QED
    BY ZenonT(30), <1>b, <1>8, <1>9, <1>10, <1>12, <1>13, <1>14, <1>15 DEF IInv, NoOverwrite, AllocationSucceeds

(* channel_free clears the last line: the arc loses the message and, when   *)
(* the message was the last one before a skip, the skip.                    *)
LEMMA FreeLineLastIInv ==
  ASSUME Disciplined, IInv, FreeLine, freePos + 1 >= FreeEnd
  PROVE  IInv'
  <1> USE ChannelAssumption
  <1> DEFINE rest == RemoveAt(held, 1)
             o == IF rest = <<>> THEN next ELSE rest[1]
             D == IF o = 0 THEN NLINES - oldest ELSE alloced[oldest]
  <1>a. TypeOK /\ Tiling /\ Collectable /\ Arc /\ Skip /\ Flags /\ Holding /\ Sending
    BY ZenonT(30) DEF IInv
  <1>1. /\ freeIdx = 1 /\ held # <<>> /\ held[1] = oldest
        /\ oldest \in starts /\ InUse(oldest) /\ Rel(oldest) = 0 /\ oldest # skipAt
        /\ freePos \in oldest .. EndOf(oldest) - 1
        /\ alloced[oldest] <= Rel(next)
        /\ skipAt < NLINES => EndOf(oldest) <= skipAt
        /\ \A s \in starts : s \notin oldest + 1 .. EndOf(oldest) - 1
    BY SMTT(30), FirstHeld DEF FreeLine
  <1>b. /\ FreeEnd = EndOf(oldest)
        /\ ready' = [ready EXCEPT ![freePos] = FALSE] /\ freePos' = 0
        /\ held' = rest /\ freeIdx' = 0 /\ inflight' = inflight - alloced[oldest]
        /\ skipAt' = IF skipAt # NLINES /\ EndOf(oldest) = skipAt /\ o = 0 THEN NLINES ELSE skipAt
        /\ owned' = owned \ (oldest .. EndOf(oldest) - 1)
        /\ UNCHANGED <<head, tail, next, size, alloced, data, pc, req, freeing, freed, ret, unsent,
                       starts, clobbered>>
    BY ZenonT(30), <1>1 DEF FreeLine, FreeEnd, EndOf, sender
  <1>c. /\ held \in Seq(Lines) /\ next \in Lines /\ skipAt \in 0 .. NLINES /\ head \in Lines
        /\ ready \in [Lines -> BOOLEAN] /\ owned \subseteq Lines /\ starts \subseteq Lines
        /\ unsent \subseteq Lines /\ inflight \in Nat /\ Len(held) \in Nat /\ Len(held) >= 1
    <2>1. /\ held \in Seq(Lines) /\ next \in Lines /\ skipAt \in 0 .. NLINES /\ head \in Lines
          /\ ready \in [Lines -> BOOLEAN] /\ owned \subseteq Lines /\ starts \subseteq Lines
          /\ unsent \subseteq Lines /\ inflight \in Nat
      BY ZenonT(30), <1>a DEF TypeOK
    <2>2. Len(held) \in Nat /\ Len(held) >= 1
      BY <1>1, <2>1
    <2> QED
      BY ZenonT(30), <2>1, <2>2
  <1>d. /\ rest \in Seq(Lines) /\ Len(rest) = Len(held) - 1
        /\ \A i \in 1 .. Len(rest) : rest[i] = held[i + 1] /\ rest[i] \in Lines
    <2>1. rest = [k \in 1 .. Len(held) - 1 |-> held[k + 1]]
      BY <1>c DEF RemoveAt
    <2>2. \A k \in 1 .. Len(held) - 1 : held[k + 1] \in Lines
      BY <1>c
    <2> HIDE DEF rest
    <2> QED
      BY <1>c, <2>1, <2>2
  <1>e. rest = <<>> <=> Len(held) = 1
    <2> HIDE DEF rest
    <2>1. Len(rest) = 0 => rest = <<>>
      BY <1>d
    <2>2. rest = <<>> => Len(rest) = 0
      OBVIOUS
    <2> QED
      BY <1>c, <1>d, <2>1, <2>2
  <1>f. used = inflight + (NLINES - skipAt) /\ used' = inflight' + (NLINES - skipAt')
    BY ZenonT(30) DEF used
  <1> HIDE DEF rest
  <1>2. o \in Lines /\ Follows(oldest, o)
    <2>1. CASE rest = <<>>
      BY ZenonT(30), <1>a, <1>c, <1>1, <1>e, <2>1 DEF Holding, Chained
    <2>2. CASE rest # <<>>
      <3>1. 1 \in 1 .. Len(held) - 1 /\ rest[1] = held[2] /\ rest[1] \in Lines
        BY <1>c, <1>d, <1>e, <2>2
      <3>2. Follows(held[1], held[1 + 1])
        BY ZenonT(30), <1>a, <3>1 DEF Holding, Chained
      <3> QED
        BY <1>1, <2>2, <3>1, <3>2
    <2> QED
      BY ZenonT(30), <2>1, <2>2
  <1>3. /\ oldest \in Lines /\ EndOf(oldest) \in 1 .. NLINES /\ alloced[oldest] \in 1 .. NLINES
        /\ EndOf(oldest) = oldest + alloced[oldest] /\ used \in 0 .. NLINES - 1
        /\ alloced[oldest] <= used /\ freePos \in Lines /\ freePos = EndOf(oldest) - 1
    <2>1. /\ oldest \in Lines /\ EndOf(oldest) \in 1 .. NLINES /\ alloced[oldest] \in 1 .. NLINES
          /\ used \in 0 .. NLINES - 1
      BY ZenonT(30), <1>1, Basics
    <2>2. Rel(oldest) + alloced[oldest] <= used
      BY ZenonT(30), <1>1, ChunkInArc
    <2> QED
      BY SMTT(30), <1>1, <1>b, <2>1, <2>2 DEF EndOf
  (* After a gap the skip is over and the oldest message is at line 0. *)
  <1>4. skipAt < NLINES => used > NLINES - 1 - oldest /\ oldest > 0
    <2>1. skipAt < NLINES => Rel(NLINES - 1) < used
      BY ZenonT(30), <1>a DEF Skip, InUse
    <2>2. Rel(NLINES - 1) = NLINES - 1 - oldest
      BY SMTT(30), <1>3 DEF Rel
    <2> QED
      BY <1>3, <2>1, <2>2
  <1>5. (o = 0 => D = NLINES - oldest) /\ (o # 0 => D = alloced[oldest]) /\ oldest' = o
    BY ZenonT(30), <1>b DEF oldest
  <1>h. (rest = <<>> => o = next) /\ (rest # <<>> => o = rest[1])
    BY ZenonT(30)
  <1>g. skipAt' = IF skipAt # NLINES /\ EndOf(oldest) = skipAt /\ o = 0 THEN NLINES ELSE skipAt
    BY ZenonT(30), <1>b
  <1> HIDE DEF D, o
  <1>6. o # 0 => o = EndOf(oldest) /\ skipAt' = skipAt
    BY ZenonT(30), <1>g, <1>2 DEF Follows
  <1>7. o = 0 => \/ EndOf(oldest) = NLINES /\ skipAt = NLINES /\ skipAt' = NLINES
                 \/ EndOf(oldest) = skipAt /\ skipAt < NLINES /\ ~ready[skipAt] /\ skipAt' = NLINES
    <2> SUFFICES ASSUME o = 0
                 PROVE  \/ EndOf(oldest) = NLINES /\ skipAt = NLINES /\ skipAt' = NLINES
                        \/ EndOf(oldest) = skipAt /\ skipAt < NLINES /\ ~ready[skipAt] /\ skipAt' = NLINES
      BY ZenonT(30)
    <2>1. EndOf(oldest) = NLINES \/ (EndOf(oldest) = skipAt /\ ~ready[skipAt])
      BY <1>2, <1>3 DEF Follows
    <2>2. skipAt \in 0 .. NLINES /\ EndOf(oldest) \in 1 .. NLINES
      BY ZenonT(30), <1>c, <1>3
    <2>3. CASE EndOf(oldest) = NLINES
      <3>1. skipAt = NLINES
        BY <1>1, <2>2, <2>3
      <3> QED
        BY ZenonT(30), <1>g, <2>3, <3>1
    <2>4. CASE EndOf(oldest) = skipAt /\ ~ready[skipAt] /\ EndOf(oldest) # NLINES
      <3>1. skipAt < NLINES
        BY <2>2, <2>4
      <3> QED
        BY ZenonT(30), <1>g, <2>4, <3>1
    <2> QED
      BY ZenonT(30), <2>1, <2>3, <2>4
  <1>8. inflight' = inflight - alloced[oldest] /\ inflight \in Nat /\ skipAt \in 0 .. NLINES
    BY ZenonT(30), <1>b, <1>c
  <1>9. inflight' \in Nat
    <2>1. CASE skipAt = NLINES
      <3>1. used = inflight
        BY <1>f, <1>8, <2>1
      <3> QED
        BY <1>3, <1>8, <3>1
    <2>2. CASE skipAt < NLINES
      <3>1. EndOf(oldest) <= skipAt /\ used > NLINES - 1 - oldest
        BY ZenonT(30), <1>1, <1>4, <2>2
      <3> QED
        BY <1>3, <1>8, <1>f, <3>1
    <2> QED
      BY <1>8, <2>1, <2>2
  <1>10. D \in 1 .. used /\ Rel(o) = D /\ used' = used - D
    <2>1. CASE o # 0
      <3>1. D = alloced[oldest] /\ o = oldest + alloced[oldest] /\ skipAt' = skipAt
        BY ZenonT(30), <1>3, <1>5, <1>6, <2>1
      <3>2. Rel(o) = D
        BY <1>2, <1>3, <3>1 DEF Rel
      <3>3. used' = used - D
        BY <1>f, <1>3, <1>8, <3>1
      <3> QED
        BY <1>3, <3>1, <3>2, <3>3
    <2>2. CASE o = 0 /\ EndOf(oldest) = NLINES
      <3>1. D = NLINES - oldest /\ D = alloced[oldest] /\ oldest > 0
        BY <1>3, <1>5, <2>2
      <3>2. Rel(o) = D
        BY <1>3, <2>2, <3>1 DEF Rel
      <3>3. skipAt = NLINES /\ skipAt' = NLINES
        BY ZenonT(30), <1>7, <1>8, <2>2
      <3>4. used' = used - D
        BY <1>f, <1>3, <1>8, <3>1, <3>3
      <3> QED
        BY <1>3, <3>1, <3>2, <3>4
    <2>3. CASE o = 0 /\ EndOf(oldest) # NLINES
      <3>1. skipAt < NLINES /\ EndOf(oldest) = skipAt /\ skipAt' = NLINES /\ D = NLINES - oldest
        BY ZenonT(30), <1>5, <1>7, <2>3
      <3>2. used > NLINES - 1 - oldest /\ oldest > 0
        BY ZenonT(30), <1>4, <3>1
      <3>3. Rel(o) = D
        BY <1>3, <2>3, <3>1, <3>2 DEF Rel
      <3>4. used' = used - D
        BY <1>f, <1>3, <1>8, <3>1
      <3>5. D \in 1 .. used
        BY <1>3, <3>1, <3>2
      <3> QED
        BY ZenonT(30), <3>3, <3>4, <3>5
    <2> QED
      BY ZenonT(30), <2>1, <2>2, <2>3
  <1>11. /\ oldest + D = (IF o = 0 THEN NLINES ELSE o) /\ D \in Lines /\ used' \in Nat
         /\ \A k \in Lines : Rel(k) \in Lines
    <2>1. oldest + D = (IF o = 0 THEN NLINES ELSE o)
      BY <1>3, <1>5, <1>6
    <2>2. D \in Lines /\ used' \in Nat
      BY <1>3, <1>10
    <2>3. \A k \in Lines : Rel(k) \in Lines
      BY ZenonT(30), Basics
    <2> QED
      BY ZenonT(30), <2>1, <2>2, <2>3
  <1>12. \A k \in Lines : /\ Rel(k) >= D => Rel(k)' = Rel(k) - D
                          /\ InUse(k)' <=> InUse(k) /\ Rel(k) >= D
    <2> SUFFICES ASSUME NEW k \in Lines
                 PROVE  /\ Rel(k) >= D => Rel(k)' = Rel(k) - D
                        /\ InUse(k)' <=> InUse(k) /\ Rel(k) >= D
      BY ZenonT(30)
    <2>1. Rel(k) = IF k >= oldest THEN k - oldest ELSE k - oldest + NLINES
      BY ZenonT(30) DEF Rel
    <2>2. Rel(k)' = IF k >= o THEN k - o ELSE k - o + NLINES
      BY ZenonT(30), <1>5 DEF Rel
    <2>3. Rel(k) >= D => Rel(k)' = Rel(k) - D
      BY <1>2, <1>3, <1>10, <1>11, <2>1, <2>2
    <2>4. Rel(k) < D => Rel(k)' = Rel(k) - D + NLINES
      BY <1>2, <1>3, <1>10, <1>11, <2>1, <2>2
    <2>5. Rel(k) \in Lines
      BY ZenonT(30), <1>11
    <2>6. (InUse(k) <=> Rel(k) < used) /\ (InUse(k)' <=> Rel(k)' < used - D)
      BY ZenonT(30), <1>10 DEF InUse
    <2> QED
      BY <1>3, <1>10, <1>11, <2>3, <2>4, <2>5, <2>6
  <1>13. Rel(next) \in Lines /\ Rel(next) >= D /\ Rel(next)' = Rel(next) - D
    <2>1. Rel(next) \in Lines
      BY ZenonT(30), <1>c, <1>11
    <2>2. CASE rest = <<>>
      <3>1. Rel(next) = D
        BY ZenonT(30), <1>h, <1>10, <2>2
      <3> QED
        BY SMTT(30), <1>b, <1>c, <1>11, <1>12, <2>1, <3>1 DEF Rel
    <2>3. CASE rest # <<>>
      <3>1. 2 \in 1 .. Len(held) /\ o = held[2]
        BY <1>c, <1>d, <1>e, <1>h, <2>3
      <3>2. Rel(o) < Rel(next)
        BY ZenonT(30), <1>a, <3>1 DEF Holding, Received
      <3>3. Rel(next) >= D
        BY <1>10, <1>11, <2>1, <3>2
      <3> QED
        BY ZenonT(30), <1>b, <1>c, <1>12, <2>1, <3>3 DEF Rel
    <2> QED
      BY ZenonT(30), <2>2, <2>3
  <1>14. \A k \in Lines : Rel(k) < D => k >= oldest /\ (k < EndOf(oldest) \/ k >= skipAt) /\ (o # 0 => k < EndOf(oldest))
    <2> SUFFICES ASSUME NEW k \in Lines, Rel(k) < D
                 PROVE  k >= oldest /\ (k < EndOf(oldest) \/ k >= skipAt) /\ (o # 0 => k < EndOf(oldest))
      BY ZenonT(30)
    <2>1. k >= oldest /\ Rel(k) = k - oldest
      BY <1>2, <1>3, <1>11 DEF Rel
    <2>2. o # 0 => k < EndOf(oldest)
      BY <1>2, <1>3, <1>6, <1>11, <2>1
    <2>3. o = 0 => k < EndOf(oldest) \/ k >= skipAt
      BY SMTT(30), <1>7, <1>3, <1>8
    <2> QED
      BY ZenonT(30), <2>1, <2>2, <2>3
  <1>15. \A k \in Lines : ready'[k] => ready[k] /\ Rel(k) >= D
    <2> SUFFICES ASSUME NEW k \in Lines, ready'[k] PROVE ready[k] /\ Rel(k) >= D
      BY ZenonT(30)
    <2>1. ready[k] /\ k # freePos
      BY ZenonT(30), <1>b, <1>c
    <2>2. k < oldest \/ k >= EndOf(oldest)
      <3>1. \A j \in oldest .. freePos - 1 : ~ready[j]
        BY ZenonT(30), <1>a, <1>1 DEF Holding, Clearing
      <3> QED
        BY <1>3, <2>1, <3>1
    <2>3. o = 0 /\ skipAt < NLINES => k < skipAt
      <3> SUFFICES ASSUME o = 0, skipAt < NLINES PROVE k < skipAt
        BY ZenonT(30)
      <3>1. ~ready[skipAt] /\ \A j \in skipAt + 1 .. NLINES - 1 : ~ready[j]
        BY <1>a, <1>7 DEF Skip
      <3> QED
        BY <1>8, <2>1, <3>1
    <2>4. Rel(k) \in Lines
      BY ZenonT(30), <1>11
    <2> QED
      BY <1>3, <1>8, <1>11, <1>14, <2>1, <2>2, <2>3, <2>4
  <1>16. \A k \in owned' : k \in owned /\ Rel(k) >= D
    <2> SUFFICES ASSUME NEW k \in owned' PROVE k \in owned /\ Rel(k) >= D
      BY ZenonT(30)
    <2>1. k \in owned /\ k \in Lines /\ k \notin oldest .. EndOf(oldest) - 1
      BY ZenonT(30), <1>b, <1>c
    <2>2. o = 0 /\ skipAt < NLINES => k < skipAt
      <3> SUFFICES ASSUME o = 0, skipAt < NLINES PROVE k < skipAt
        BY ZenonT(30)
      <3>1. owned \cap (skipAt .. NLINES - 1) = {}
        BY <1>a, <1>7 DEF Skip
      <3> QED
        BY <1>8, <2>1, <3>1
    <2>3. Rel(k) \in Lines
      BY ZenonT(30), <1>11, <2>1
    <2> QED
      BY <1>3, <1>8, <1>11, <1>14, <2>1, <2>2, <2>3
  <1>17. TypeOK'
    <2>1. ready' \in [Lines -> BOOLEAN] /\ owned' \subseteq Lines
      BY ZenonT(30), <1>b, <1>c
    <2>2. held' \in Seq(Lines) /\ freeIdx' \in 0 .. Len(held') /\ freePos' \in 0 .. NLINES
      BY <1>b, <1>c, <1>d
    <2>3. skipAt' \in 0 .. NLINES
      BY SMTT(30), <1>g, <1>8
    <2> QED
      BY ZenonT(30), <1>a, <1>b, <1>9, <2>1, <2>2, <2>3 DEF TypeOK
  <1>18. Tiling' /\ Collectable'
    <2>1. starts # {}
      BY ZenonT(30), <1>1
    <2> QED
      BY ZenonT(30), <1>a, <1>b, <2>1 DEF Tiling, Collectable, TiledTo, TiledFrom, Lap, EndOf
  <1>19. Arc'
    <2>1. o + used' = head \/ o + used' = head + NLINES
      <3>1. oldest + used = head \/ oldest + used = head + NLINES
        BY ZenonT(30), <1>a DEF Arc
      <3>2. head \in Lines /\ used' = used - D /\ used' \in Nat /\ D \in Lines
        BY ZenonT(30), <1>c, <1>10, <1>11
      <3>3. CASE o = 0
        BY <1>3, <1>11, <3>1, <3>2, <3>3
      <3>4. CASE o # 0
        BY SMTT(30), <1>2, <1>3, <1>11, <3>1, <3>2, <3>4
      <3> QED
        BY ZenonT(30), <3>3, <3>4
    <2>2. Rel(next)' <= used' /\ (Rel(next)' < used' => next \in starts)
      <3>1. Rel(next) <= used /\ (Rel(next) < used => next \in starts)
        BY ZenonT(30), <1>a DEF Arc
      <3> QED
        BY <1>3, <1>10, <1>11, <1>13, <3>1
    <2>3. used' > 0 => o \in starts
      <3>1. CASE rest = <<>>
        BY SMTT(30), <1>h, <2>2, <3>1, <1>3, <1>10, <1>11, <1>13
      <3>2. CASE rest # <<>>
        <4>1. 2 \in 1 .. Len(held) /\ o = held[2]
          BY <1>c, <1>d, <1>e, <1>h, <3>2
        <4> QED
          BY ZenonT(30), <1>a, <4>1 DEF Holding, Received
      <3> QED
        BY ZenonT(30), <3>1, <3>2
    <2>4. o + used' >= NLINES => TiledFrom(oldest) /\ o >= oldest
      <3>1. o + used' >= NLINES => o # 0
        BY SMTT(30), <1>3, <1>10, <1>11
      <3>2. o # 0 => oldest + used = o + used' /\ o >= oldest
        BY <1>3, <1>2, <1>10, <1>11
      <3>3. oldest + used >= NLINES => TiledFrom(oldest)
        BY ZenonT(30), <1>a DEF Arc
      <3> QED
        BY ZenonT(30), <3>1, <3>2, <3>3
    <2>5. o + used' >= NLINES => \A s \in starts : s >= o /\ EndOf(s) < NLINES => EndOf(s) \in starts
      <3> SUFFICES ASSUME o + used' >= NLINES, NEW s \in starts, s >= o, EndOf(s) < NLINES
                   PROVE  EndOf(s) \in starts
        BY ZenonT(30)
      <3>1. s >= oldest
        BY <1>c, <1>2, <1>3, <2>4
      <3> QED
        BY ZenonT(30), <2>4, <3>1 DEF TiledFrom
    <2>6. used' < NLINES
      BY SMTT(30), <1>3, <1>10, <1>11
    <2>7. oldest' + used' >= NLINES => TiledFrom(oldest)'
      BY ZenonT(30), <1>b, <1>5, <2>5 DEF TiledFrom, EndOf
    <2> QED
      BY ZenonT(30), <1>b, <1>5, <2>1, <2>2, <2>3, <2>6, <2>7 DEF Arc
  <1>20. Skip'
    <2>1. ASSUME skipAt' < NLINES
          PROVE  /\ skipAt' = skipAt /\ skipAt \in Lines /\ skipAt >= o /\ Rel(skipAt) >= D
                 /\ Rel(NLINES - 1) >= D /\ ready'[skipAt] = ready[skipAt]
      <3>1. o # 0 /\ skipAt' = skipAt
        BY SMTT(30), <1>6, <1>7, <2>1
      <3>2. skipAt \in Lines /\ skipAt >= o /\ o >= oldest
        BY SMTT(30), <1>1, <1>2, <1>3, <1>6, <1>8, <2>1, <3>1
      <3>3. Rel(skipAt) = skipAt - oldest /\ Rel(NLINES - 1) = NLINES - 1 - oldest
        BY SMTT(30), <1>2, <1>3, <3>2 DEF Rel
      <3>4. ready'[skipAt] = ready[skipAt]
        <4>1. skipAt # freePos
          BY SMTT(30), <1>1, <1>3, <1>8, <2>1, <3>1
        <4> QED
          BY ZenonT(30), <1>b, <1>c, <3>2, <4>1
      <3>5. Rel(skipAt) >= D /\ Rel(NLINES - 1) >= D
        BY SMTT(30), <1>2, <1>3, <1>11, <3>2, <3>3
      <3> QED
        BY ZenonT(30), <3>1, <3>2, <3>4, <3>5
    <2>2. ASSUME skipAt' < NLINES
          PROVE  /\ skipAt \in starts /\ size[skipAt] = SENTINEL /\ InUse(NLINES - 1)'
                 /\ ready[skipAt] <=> Rel(next)' <= Rel(skipAt)'
                 /\ \E a \in MsgLines : NLINES - skipAt < a
      <3>1. /\ skipAt \in starts /\ size[skipAt] = SENTINEL /\ InUse(NLINES - 1)
            /\ ready[skipAt] <=> Rel(next) <= Rel(skipAt)
            /\ \E a \in MsgLines : NLINES - skipAt < a
        BY ZenonT(30), <1>a, <2>1, <2>2 DEF Skip
      <3>2. InUse(NLINES - 1)'
        BY SMTT(30), <1>12, <2>1, <2>2, <3>1
      <3>3. Rel(skipAt)' = Rel(skipAt) - D
        <4>1. \A k \in Lines : k = skipAt => Rel(skipAt)' = Rel(k)'
          BY ZenonT(30), <2>1, <2>2 DEF Rel
        <4> QED
          BY ZenonT(30), <1>12, <2>1, <2>2, <4>1
      <3>4. Rel(next)' <= Rel(skipAt)' <=> Rel(next) <= Rel(skipAt)
        BY <1>11, <1>13, <2>1, <2>2, <3>3
      <3> QED
        BY ZenonT(30), <3>1, <3>2, <3>4
    <2>3. ASSUME skipAt' < NLINES
          PROVE  /\ \A l \in skipAt + 1 .. NLINES - 1 : ~ready'[l] /\ l \notin starts
                 /\ ~ready[skipAt] => owned' \cap (skipAt .. NLINES - 1) = {}
      <3>1. /\ \A l \in skipAt + 1 .. NLINES - 1 : ~ready[l] /\ l \notin starts
            /\ ~ready[skipAt] => owned \cap (skipAt .. NLINES - 1) = {}
        BY ZenonT(30), <1>a, <2>1, <2>3 DEF Skip
      <3>2. \A l \in skipAt + 1 .. NLINES - 1 : l \in Lines
        BY <2>1, <2>3
      <3> QED
        BY ZenonT(30), <1>15, <1>16, <3>1, <3>2
    <2>4. ASSUME NEW s \in starts, InUse(s)', size[s] = SENTINEL
          PROVE  s = skipAt'
      <3>1. s \in Lines /\ InUse(s) /\ Rel(s) >= D
        BY ZenonT(30), <1>c, <1>12, <2>4
      <3>2. s = skipAt
        BY ZenonT(30), <1>a, <2>4, <3>1 DEF Skip
      <3>3. CASE o # 0
        BY ZenonT(30), <1>6, <3>2, <3>3
      <3>4. CASE o = 0
        <4>1. s >= oldest
          BY <1>7, <1>1, <1>3, <3>1, <3>2, <3>4
        <4>2. Rel(s) = s - oldest
          BY ZenonT(30), <4>1 DEF Rel
        <4> QED
          BY SMTT(30), <1>3, <1>11, <3>1, <3>4, <4>1, <4>2
      <3> QED
        BY ZenonT(30), <3>3, <3>4
    <2>5. ASSUME skipAt' < NLINES
          PROVE  /\ skipAt' \in starts' /\ size'[skipAt'] = SENTINEL
                 /\ skipAt' >= oldest' /\ InUse(NLINES - 1)'
                 /\ \E a \in MsgLines : NLINES - skipAt' < a
                 /\ ready'[skipAt'] <=> Rel(next)' <= Rel(skipAt)'
                 /\ \A l \in skipAt' + 1 .. NLINES - 1 : ~ready'[l] /\ l \notin starts'
                 /\ ~ready'[skipAt'] => owned' \cap (skipAt' .. NLINES - 1) = {}
      BY ZenonT(30), <1>b, <1>5, <2>1, <2>2, <2>3, <2>5
    <2> QED
      BY ZenonT(30), <1>b, <2>4, <2>5 DEF Skip
  <1>21. Flags'
    <2>1. \A s \in starts : InUse(s)' /\ Rel(s)' >= Rel(next)' => ready'[s]
      <3> SUFFICES ASSUME NEW s \in starts, InUse(s)', Rel(s)' >= Rel(next)' PROVE ready'[s]
        BY ZenonT(30)
      <3>1. s \in Lines /\ InUse(s) /\ Rel(s) >= D /\ Rel(s)' = Rel(s) - D /\ Rel(s) \in Lines
        BY ZenonT(30), <1>c, <1>11, <1>12
      <3>2. Rel(s) >= Rel(next)
        BY <1>11, <1>13, <3>1
      <3>3. ready[s]
        BY SMTT(30), <1>a, <3>1, <3>2 DEF Flags
      <3>4. s # freePos
        BY <1>1, <1>3, <1>10, <1>11, <3>1 DEF Rel
      <3> QED
        BY ZenonT(30), <1>b, <1>c, <3>1, <3>3, <3>4
    <2>2. \A l \in Lines : ready'[l] => InUse(l)'
      BY ZenonT(30), <1>a, <1>12, <1>15 DEF Flags
    <2>3. \A s \in starts : InUse(s)' => (size[s] = EMPTY <=> s \in unsent)
      BY ZenonT(30), <1>a, <1>c, <1>12 DEF Flags
    <2>4. \A s \in unsent : s \in starts /\ InUse(s)' /\ Rel(s)' >= Rel(next)'
      <3> SUFFICES ASSUME NEW s \in unsent PROVE s \in starts /\ InUse(s)' /\ Rel(s)' >= Rel(next)'
        BY ZenonT(30)
      <3>1. s \in starts /\ s \in Lines /\ InUse(s) /\ Rel(s) >= Rel(next)
        BY ZenonT(30), <1>a, <1>c DEF Flags
      <3>2. Rel(s) >= D /\ Rel(s) \in Lines
        BY <1>11, <1>13, <3>1
      <3>3. Rel(s)' = Rel(s) - D /\ InUse(s)'
        BY ZenonT(30), <1>12, <3>1, <3>2
      <3> QED
        BY <1>11, <1>13, <3>1, <3>2, <3>3
    <2>5. \A l \in owned' : InUse(l)'
      BY ZenonT(30), <1>a, <1>c, <1>12, <1>16 DEF Flags
    <2> QED
      BY SMTT(30), <1>b, <2>1, <2>2, <2>3, <2>4, <2>5 DEF Flags
  <1>22. ASSUME NEW i \in 1 .. Len(rest)
         PROVE  /\ i + 1 \in 1 .. Len(held) /\ rest[i] = held[i + 1] /\ rest[i] \in Lines
                /\ Rel(rest[i]) \in Lines /\ Rel(rest[i]) >= D
                /\ Rel(held[i])' = Rel(rest[i]) - D
    <2>1. i + 1 \in 1 .. Len(held) /\ rest[i] = held[i + 1] /\ rest[i] \in Lines
      BY <1>c, <1>d
    <2>2. Rel(rest[i]) \in Lines
      BY ZenonT(30), <1>11, <2>1
    <2>3. 2 \in 1 .. Len(held) /\ o = held[2]
      BY SMTT(30), <1>c, <1>d, <1>e, <1>h
    <2>4. i = 1 \/ Rel(held[2]) < Rel(held[i + 1])
      BY <1>a, <2>1, <2>3 DEF Holding, Ordered
    <2>5. Rel(held[2]) = D
      BY ZenonT(30), <1>10, <2>3
    <2>6. i = 1 => rest[i] = o
      BY <2>1, <2>3
    <2>7. Rel(rest[i]) >= D
      <3>1. CASE i = 1
        <4>1. rest[i] = held[2]
          BY ZenonT(30), <2>3, <2>6, <3>1
        <4>2. Rel(rest[i]) = D
          BY ZenonT(30), <2>5, <4>1
        <4> QED
          BY <1>11, <4>2
      <3>2. CASE Rel(held[2]) < Rel(held[i + 1])
        <4>1. D < Rel(rest[i])
          BY ZenonT(30), <2>1, <2>5, <3>2
        <4> QED
          BY <1>11, <2>2, <4>1
      <3> QED
        BY ZenonT(30), <2>4, <3>1, <3>2
    <2>8. \A k \in Lines : k = rest[i] => Rel(held[i])' = Rel(k)'
      BY ZenonT(30), <1>b DEF Rel
    <2> QED
      BY ZenonT(30), <1>12, <2>1, <2>2, <2>7, <2>8
  <1>23. Received'
    <2> SUFFICES ASSUME NEW i \in 1 .. Len(rest)
                 PROVE  /\ rest[i] \in starts /\ rest[i] # skipAt'
                        /\ size[rest[i]] = SENT /\ Rel(held[i])' < Rel(next)'
      BY ZenonT(30), <1>b DEF Received
    <2>1. /\ rest[i] \in starts /\ rest[i] # skipAt /\ size[rest[i]] = SENT
          /\ Rel(rest[i]) < Rel(next)
      BY <1>a, <1>22 DEF Holding, Received
    <2>2. Rel(held[i])' < Rel(next)'
      BY <1>11, <1>13, <1>22, <2>1
    <2>3. rest[i] # skipAt'
      BY <1>6, <1>7, <1>22, <2>1
    <2> QED
      BY ZenonT(30), <2>1, <2>2, <2>3
  <1>24. Ordered'
    <2> SUFFICES ASSUME NEW i \in 1 .. Len(rest), NEW j \in 1 .. Len(rest), i < j
                 PROVE  Rel(held[i])' < Rel(held[j])'
      BY ZenonT(30), <1>b DEF Ordered
    <2>1. i + 1 < j + 1
      BY <1>d, <1>c
    <2>2. Rel(rest[i]) < Rel(rest[j])
      BY ZenonT(30), <1>a, <1>22, <2>1 DEF Holding, Ordered
    <2> QED
      BY <1>11, <1>22, <2>2
  <1>25. ASSUME NEW u \in starts, NEW t \in Lines, Follows(u, t), u # oldest
         PROVE  \/ t = EndOf(u)
                \/ t = 0 /\ (EndOf(u) = NLINES \/ (EndOf(u) = skipAt' /\ ~ready'[skipAt']))
    <2>1. CASE o # 0
      <3>1. skipAt' = skipAt
        BY ZenonT(30), <1>6, <2>1
      <3>2. skipAt < NLINES => (ready'[skipAt] => ready[skipAt])
        BY <1>8, <1>15
      <3> QED
        BY <1>8, <1>25, <3>1, <3>2 DEF Follows
    <2>2. CASE o = 0 /\ skipAt = NLINES
      BY ZenonT(30), <1>25, <2>2 DEF Follows
    <2>3. CASE o = 0 /\ skipAt < NLINES
      <3>1. EndOf(oldest) = skipAt
        BY ZenonT(30), <1>7, <2>3
      <3>2. u < oldest => EndOf(u) <= oldest
        BY ZenonT(30), <1>a, <1>1 DEF Tiling
      <3>3. oldest < u => EndOf(oldest) <= u
        BY ZenonT(30), <1>a, <1>1 DEF Tiling
      <3>4. u \in Lines /\ EndOf(u) \in 1 .. NLINES /\ u < EndOf(u)
        <4>1. u \in Lines /\ EndOf(u) \in 1 .. NLINES /\ alloced[u] \in 1 .. NLINES
          BY ZenonT(30), Basics
        <4> QED
          BY <4>1 DEF EndOf
      <3>5. EndOf(u) # skipAt
        BY SMTT(30), <1>3, <1>25, <3>1, <3>2, <3>3, <3>4
      <3> QED
        BY ZenonT(30), <1>25, <3>5 DEF Follows
    <2> QED
      BY <1>8, <2>1, <2>2, <2>3
  <1>26. ASSUME NEW i \in 1 .. Len(rest) PROVE rest[i] # oldest
    <2>1. Rel(held[1]) < Rel(held[i + 1])
      BY <1>a, <1>c, <1>22 DEF Holding, Ordered
    <2> QED
      BY <1>1, <1>22, <2>1
  <1>27. Chained'
    <2>1. ASSUME NEW i \in 1 .. Len(rest) - 1 PROVE Follows(held[i], held[i + 1])'
      <3>1. i \in 1 .. Len(rest) /\ i + 1 \in 1 .. Len(rest) /\ i + 1 \in 1 .. Len(held) - 1
        BY <1>c, <1>d
      <3>2. Follows(held[i + 1], held[(i + 1) + 1])
        BY ZenonT(30), <1>a, <3>1 DEF Holding, Chained
      <3>3. Follows(rest[i], rest[i + 1])
        BY ZenonT(30), <1>22, <3>1, <3>2
      <3>4. rest[i] \in starts /\ rest[i + 1] \in Lines /\ rest[i] # oldest
        BY SMTT(30), <1>a, <1>22, <1>26, <3>1 DEF Holding, Received
      <3> QED
        BY ZenonT(30), <1>b, <1>25, <3>3, <3>4 DEF Follows, EndOf
    <2>2. rest # <<>> => Follows(held[Len(held)], next)'
      <3> SUFFICES ASSUME rest # <<>> PROVE Follows(held[Len(held)], next)'
        BY ZenonT(30)
      <3>1. Len(rest) \in 1 .. Len(rest) /\ Len(rest) + 1 = Len(held)
        BY <1>c, <1>d, <1>e
      <3>2. Follows(held[Len(held)], next)
        BY ZenonT(30), <1>a, <1>1 DEF Holding, Chained
      <3>3. rest[Len(rest)] = held[Len(held)]
        BY ZenonT(30), <1>22, <3>1
      <3>4. rest[Len(rest)] \in starts /\ rest[Len(rest)] # oldest
        BY ZenonT(30), <1>a, <1>22, <1>26, <3>1 DEF Holding, Received
      <3> QED
        BY ZenonT(30), <1>b, <1>c, <1>25, <3>2, <3>3, <3>4 DEF Follows, EndOf
    <2> QED
      BY SMTT(30), <1>b, <2>1, <2>2 DEF Chained
  <1>28. Holding'
    BY SMTT(30), <1>b, <1>23, <1>24, <1>27 DEF Holding, Clearing
  <1>29. Sending'
    <2>1. inflight' <= inflight
      BY <1>3, <1>8
    <2>2. Window \in Nat /\ req \in Nat
      BY <1>a DEF TypeOK
    <2>3. inflight <= Window /\ (inflight + req <= Window => inflight' + req <= Window)
      BY <1>a, <1>8, <1>9, <2>1, <2>2 DEF Sending
    <2>4. inflight' <= Window
      BY <1>8, <1>9, <2>1, <2>2, <2>3
    <2> QED
      BY ZenonT(30), <1>a, <1>b, <2>3, <2>4 DEF Sending
  <1> QED
    BY ZenonT(30), <1>b, <1>17, <1>18, <1>19, <1>20, <1>21, <1>28, <1>29 DEF IInv, NoOverwrite, AllocationSucceeds

-----------------------------------------------------------------------------
(* The steps of the sender.                                                 *)

(* channel_allocate calls _channel_gc.                                      *)
LEMMA StartGcIInv ==
  ASSUME Disciplined, IInv, NEW where \in {"gcFull", "gcRetry"}, NEW a \in MsgLines,
         inflight + a <= Window, StartGc(where, a)
  PROVE  IInv'
  <1> USE ChannelAssumption
  <1>a. TypeOK /\ Sending /\ NoOverwrite
    BY ZenonT(30) DEF IInv
  <1>b. /\ pc' = where /\ req' = a /\ freeing' = tail /\ ret' = "none"
        /\ UNCHANGED <<ring, unsent, receiver, history>>
    BY ZenonT(30) DEF StartGc
  <1>c. UNCHANGED <<head, tail, next, size, alloced, ready, data, unsent, held, freeIdx, freePos,
                    inflight, skipAt, starts, owned, clobbered>>
    BY ZenonT(30), <1>b DEF ring, receiver, history
  <1>d. head \in Lines /\ (tail \in 1 .. NLINES \/ tail = FULL)
    BY ZenonT(30), <1>a DEF TypeOK
  <1>1. freed' = IF head < tail /\ ~(tail = FULL /\ head = 0) THEN Room
                 ELSE IF head = tail THEN NLINES ELSE 0
    <2>1. freed' = CASE head < tail /\ ~(tail = FULL /\ head = 0) -> Room
                     [] head = tail -> NLINES
                     [] OTHER -> 0
      BY ZenonT(30) DEF StartGc
    <2> QED
      BY <1>d, <2>1
  <1>2. /\ freed' \in Nat
        /\ tail = FULL => freed' = IF head = 0 THEN 0 ELSE NLINES - head
        /\ head < tail /\ tail # FULL => freed' = tail - head
        /\ head >= tail => freed' <= NLINES - head + tail
    BY <1>d, <1>1 DEF Room
  <1>3. TypeOK'
    <2>1. a \in 0 .. NLINES - 1 /\ tail \in Nat
      BY <1>d
    <2> QED
      BY ZenonT(30), <1>a, <1>b, <1>c, <1>2, <2>1 DEF TypeOK
  <1>4. Sending'
    BY ZenonT(30), <1>a, <1>b, <1>c, <1>2 DEF Sending
  <1>5. NoOverwrite' /\ AllocationSucceeds'
    BY ZenonT(30), <1>a, <1>b, <1>c DEF NoOverwrite, AllocationSucceeds
  <1> QED
    BY ZenonT(30), <1>b, <1>3, <1>4, <1>5, RingFrame DEF IInv

(* _channel_gc passes a free message or a sentinel, or stops.               *)
LEMMA GcStepIInv ==
  ASSUME Disciplined, IInv, GcStep
  PROVE  IInv'
  <1> USE ChannelAssumption
  <1> DEFINE g == GcAt
  <1>a. TypeOK /\ Tiling /\ Collectable /\ Arc /\ Skip /\ Flags /\ Holding /\ Sending
    BY ZenonT(30) DEF IInv
  <1>b. /\ pc \in {"gcFull", "gcRetry"} /\ freeing # head /\ freed # NLINES
        /\ tail' = (IF size[g] = SENTINEL THEN NLINES ELSE g + alloced[g])
        /\ freeing' = tail'
        /\ freed' = freed + alloced[g]
        /\ UNCHANGED <<head, next, size, alloced, ready, data, pc, req, ret, unsent, held, freeIdx,
                       freePos, inflight, skipAt, starts, owned, clobbered>>
    BY ZenonT(30) DEF GcStep, GcStops, receiver, history
  <1>c. /\ head \in Lines /\ (tail \in 1 .. NLINES \/ tail = FULL) /\ freed \in Nat
        /\ starts \subseteq Lines
    BY ZenonT(30), <1>a DEF TypeOK
  <1>d. /\ freeing = tail
        /\ tail = FULL => freed = IF head = 0 THEN 0 ELSE NLINES - head
        /\ head < tail /\ tail # FULL => freed = tail - head
        /\ head >= tail => freed <= NLINES - head + tail
    BY ZenonT(30), <1>a, <1>b DEF Sending
  <1>1. g = (IF tail >= NLINES THEN 0 ELSE tail)
    BY ZenonT(30), <1>d DEF GcAt
  <1> HIDE DEF g
  <1>2. g \in starts
    <2>1. CASE tail < NLINES
      BY <1>a, <1>b, <1>c, <1>d, <1>1, <2>1 DEF Collectable
    <2>2. CASE tail >= NLINES
      <3>1. starts # {}
        BY <1>a, <1>b, <1>c, <1>d DEF Tiling
      <3> QED
        BY ZenonT(30), <1>a, <1>1, <2>2, <3>1 DEF Tiling
    <2> QED
      BY <1>c, <2>1, <2>2
  <1>3. g \in Lines /\ alloced[g] \in 1 .. NLINES /\ EndOf(g) \in 1 .. NLINES /\ EndOf(g) = g + alloced[g]
    BY ZenonT(30), <1>2, Basics DEF EndOf
  <1>4. tail' = EndOf(g)
    <2>1. size[g] = SENTINEL => EndOf(g) = NLINES
      BY ZenonT(30), <1>a, <1>2 DEF Tiling
    <2> QED
      BY ZenonT(30), <1>b, <1>3, <2>1
  <1>5. Lap = (IF head = 0 THEN NLINES ELSE head)
    BY ZenonT(30) DEF Lap
  <1>6. \A s \in starts : s < Lap => EndOf(s) <= Lap /\ (EndOf(s) < Lap => EndOf(s) \in starts)
    BY ZenonT(30), <1>a DEF Tiling, TiledTo
  (* g is in the current lap, up to head, or in the remains of the last one. *)
  <1>7. /\ EndOf(g) < NLINES /\ EndOf(g) # head => EndOf(g) \in starts
        /\ head < EndOf(g) => TiledFrom(EndOf(g)) /\ freed + alloced[g] = EndOf(g) - head
        /\ head >= EndOf(g) => freed + alloced[g] <= NLINES - head + EndOf(g)
    <2>1. CASE g < Lap /\ ~(head < tail /\ tail < NLINES)
      <3>1. EndOf(g) <= Lap /\ (EndOf(g) < Lap => EndOf(g) \in starts)
        BY ZenonT(30), <1>2, <1>6, <2>1
      <3>2. EndOf(g) < NLINES /\ EndOf(g) # head => EndOf(g) \in starts
        BY <1>c, <1>3, <1>5, <3>1
      <3>3. head < EndOf(g) => head = 0
        BY <1>c, <1>3, <1>5, <3>1
      <3>4. head < EndOf(g) => TiledFrom(EndOf(g))
        BY <1>c, <1>5, <1>6, <3>3 DEF TiledFrom
      <3>5. head < EndOf(g) => freed + alloced[g] = EndOf(g) - head
        BY <1>b, <1>c, <1>d, <1>1, <1>3, <2>1, <3>3
      <3>6. head >= EndOf(g) => freed + alloced[g] <= NLINES - head + EndOf(g)
        BY <1>b, <1>c, <1>d, <1>1, <1>3, <2>1
      <3> QED
        BY ZenonT(30), <3>2, <3>4, <3>5, <3>6
    <2>2. CASE head < tail /\ tail < NLINES
      <3>1. TiledFrom(tail) /\ g = tail
        BY <1>a, <1>1, <2>2, <1>c DEF Collectable
      <3>2. EndOf(g) < NLINES => EndOf(g) \in starts
        BY <1>2, <1>3, <3>1 DEF TiledFrom
      <3>3. TiledFrom(EndOf(g))
        <4> SUFFICES ASSUME NEW s \in starts, s >= EndOf(g), EndOf(s) < NLINES PROVE EndOf(s) \in starts
          BY ZenonT(30) DEF TiledFrom
        <4>1. s >= tail
          BY <1>c, <1>3, <3>1
        <4> QED
          BY ZenonT(30), <3>1, <4>1 DEF TiledFrom
      <3>4. head < EndOf(g) /\ freed + alloced[g] = EndOf(g) - head
        BY <1>c, <1>d, <1>3, <2>2, <3>1
      <3>5. ~(head >= EndOf(g))
        BY <1>c, <1>3, <3>4
      <3> QED
        BY ZenonT(30), <3>2, <3>3, <3>4, <3>5
    <2>3. g < Lap \/ (head < tail /\ tail < NLINES)
      <3>1. tail # head
        BY ZenonT(30), <1>b, <1>d
      <3>2. CASE tail >= NLINES
        BY <1>c, <1>1, <1>5, <3>2
      <3>3. CASE tail < NLINES
        <4>1. tail \in Lines /\ g = tail
          BY <1>c, <1>1, <3>3
        <4>2. tail > head \/ tail < head
          BY <1>c, <3>1, <4>1
        <4>3. tail < head => Lap = head
          BY <1>c, <1>5, <4>1
        <4> QED
          BY ZenonT(30), <3>3, <4>1, <4>2, <4>3
      <3> QED
        BY <1>c, <3>2, <3>3
    <2> QED
      BY ZenonT(30), <2>1, <2>2, <2>3
  <1>8. TypeOK'
    <2>1. tail' \in 1 .. NLINES /\ freeing' \in Nat /\ freed' \in Nat
      BY <1>b, <1>c, <1>3, <1>4
    <2> QED
      BY ZenonT(30), <1>a, <1>b, <2>1 DEF TypeOK
  <1>9. oldest' = oldest /\ used' = used
    BY ZenonT(30), <1>b DEF oldest, used
  <1>10. Tiling'
    BY ZenonT(30), <1>a, <1>b, <1>2, <1>9 DEF Tiling, TiledTo, Lap, EndOf
  <1>11. Collectable'
    BY ZenonT(30), <1>b, <1>4, <1>7 DEF Collectable, TiledFrom, EndOf
  <1>12. Arc'
    BY ZenonT(30), <1>a, <1>b, <1>9 DEF Arc, Rel, TiledFrom, EndOf
  <1>13. Skip' /\ Flags'
    BY ZenonT(30), <1>a, <1>b, <1>9 DEF Skip, Flags, InUse, Rel
  <1>14. Holding'
    BY ZenonT(30), <1>a, <1>b, <1>9 DEF Holding, Received, Chained, Ordered, Clearing, Follows, Rel, EndOf
  <1>15. Sending'
    <2>1. tail' # FULL
      BY <1>3, <1>4
    <2> QED
      BY ZenonT(30), <1>a, <1>b, <1>4, <1>7, <2>1 DEF Sending
  <1> QED
    BY ZenonT(30), <1>b, <1>8, <1>10, <1>11, <1>12, <1>13, <1>14, <1>15 DEF IInv, NoOverwrite, AllocationSucceeds

(* After garbage collection a message fits, at head or at the start. *)
LEMMA GcMakesRoom ==
  ASSUME Disciplined, IInv, pc # "idle", GcStops
  PROVE  FitsAtHead(req) \/ FitsAtStart(req)
  <1> USE ChannelAssumption
  <1> SUFFICES ASSUME ~FitsAtHead(req), ~FitsAtStart(req) PROVE FALSE
    BY ZenonT(30)
  <1>a. TypeOK /\ Flags /\ Sending
    BY ZenonT(30) DEF IInv
  <1>b. req \in MsgLines /\ inflight + req <= Window
    BY ZenonT(30), <1>a DEF Sending
  <1>c. /\ req \in 1 .. NLINES - 1 /\ used + req < NLINES
        /\ req > NLINES - head => oldest + used = head /\ skipAt = NLINES /\ req < oldest
    BY ZenonT(30), <1>b, ArcRoom
  <1>d. head \in Lines /\ (tail \in 1 .. NLINES \/ tail = FULL) /\ freed \in Nat
    BY ZenonT(30), <1>a DEF TypeOK
  <1>e. oldest \in Lines /\ used \in 0 .. NLINES - 1
    BY ZenonT(30), Basics
  <1>f. oldest + used = head \/ oldest + used = head + NLINES
    BY ZenonT(30) DEF IInv, Arc
  <1>1. /\ freeing = tail
        /\ tail = FULL => freed = IF head = 0 THEN 0 ELSE NLINES - head
        /\ head < tail /\ tail # FULL => freed = tail - head
        /\ head >= tail => freed <= NLINES - head + tail
    BY ZenonT(30), <1>a DEF Sending
  <1>2. tail = head \/ freed = NLINES \/ ready[GcAt]
    BY ZenonT(30), <1>1 DEF GcStops
  <1>3. \A l \in Lines : ready[l] => Rel(l) < used
    BY ZenonT(30), <1>a DEF Flags, InUse
  <1>4. CASE head < tail /\ tail >= NLINES
    <2>1. Room = NLINES - head
      BY <1>d, <1>4 DEF Room
    <2>2. req > NLINES - head
      BY <1>c, <1>d, <1>4, <2>1 DEF FitsAtHead
    <2>3. tail # head /\ freed # NLINES
      BY <1>c, <1>d, <1>1, <1>4, <2>2
    <2>4. ready[0]
      <3>1. GcAt = 0
        BY ZenonT(30), <1>1, <1>4 DEF GcAt
      <3> QED
        BY ZenonT(30), <1>2, <2>3, <3>1
    <2>5. Rel(0) < used
      BY <1>3, <2>4
    <2> QED
      BY <1>c, <1>d, <1>e, <2>2, <2>5 DEF Rel
  <1>5. CASE head < tail /\ tail < NLINES
    <2>1. Room = tail - head
      BY <1>d, <1>5 DEF Room
    <2>2. req > tail - head
      BY <1>c, <1>d, <1>5, <2>1 DEF FitsAtHead
    <2>3. tail # head /\ freed # NLINES
      BY <1>d, <1>1, <1>5
    <2>4. GcAt = tail /\ tail \in Lines
      BY <1>d, <1>1, <1>5 DEF GcAt
    <2>5. Rel(tail) < used
      BY ZenonT(30), <1>2, <1>3, <2>3, <2>4
    <2> QED
      BY <1>c, <1>d, <1>e, <1>f, <1>5, <2>2, <2>4, <2>5 DEF Rel
  <1>6. CASE head >= tail
    <2>1. req > NLINES - head /\ req > tail
      BY <1>c, <1>d, <1>6 DEF FitsAtHead, FitsAtStart
    <2>2. oldest + used = head /\ req < oldest
      BY ZenonT(30), <1>c, <2>1
    <2>3. tail # head /\ freed # NLINES
      BY <1>c, <1>d, <1>e, <1>1, <1>6, <2>1, <2>2
    <2>4. GcAt = tail /\ tail \in Lines
      BY <1>d, <1>1, <1>6 DEF GcAt
    <2>5. Rel(tail) < used
      BY ZenonT(30), <1>2, <1>3, <2>3, <2>4
    <2> QED
      BY <1>c, <1>d, <1>e, <1>6, <2>1, <2>2, <2>4, <2>5 DEF Rel
  <1> QED
    BY <1>d, <1>4, <1>5, <1>6

(* channel_allocate takes the lines at head. *)
LEMMA ClaimAtHeadIInv ==
  ASSUME Disciplined, IInv, NEW a \in MsgLines, inflight + a <= Window,
         FitsAtHead(a), Claim(head, a)
  PROVE  IInv'
  <1> USE ChannelAssumption
  <1> DEFINE chunk == head .. head + a - 1
             top == IF head + a = NLINES THEN 0 ELSE head + a
  <1>a. TypeOK /\ Tiling /\ Collectable /\ Arc /\ Skip /\ Flags /\ Holding /\ Sending /\ NoOverwrite
    BY ZenonT(30) DEF IInv
  <1>b. /\ tail' = (IF head + a = tail THEN FULL ELSE tail)
        /\ head' = (IF head + a >= NLINES THEN 0 ELSE head + a)
        /\ size' = [size EXCEPT ![head] = EMPTY]
        /\ alloced' = [alloced EXCEPT ![head] = a]
        /\ ready' = [ready EXCEPT ![head] = TRUE]
        /\ pc' = "idle" /\ ret' = "ok" /\ req' = 0 /\ freeing' = 0 /\ freed' = 0
        /\ unsent' = unsent \cup {head}
        /\ inflight' = inflight + a
        /\ starts' = (starts \ chunk) \cup {head}
        /\ owned' = owned \cup chunk
        /\ clobbered' = (clobbered \/ chunk \cap owned # {})
        /\ UNCHANGED <<next, data, held, freeIdx, freePos, skipAt>>
    <2>1. /\ tail' = (IF head + a = tail THEN FULL ELSE tail)
          /\ head' = (IF head + a >= NLINES THEN 0 ELSE head + a)
          /\ pc' = "idle" /\ ret' = "ok" /\ req' = 0 /\ freeing' = 0 /\ freed' = 0
          /\ unsent' = unsent \cup {head} /\ inflight' = inflight + a
          /\ UNCHANGED <<next, data, held, freeIdx, freePos, skipAt>>
      BY ZenonT(30) DEF Claim, NewHead, Return, receiver
    <2>2. /\ size' = [size EXCEPT ![head] = EMPTY]
          /\ alloced' = [alloced EXCEPT ![head] = a]
          /\ ready' = [ready EXCEPT ![head] = TRUE]
      BY ZenonT(30) DEF Claim
    <2>3. Take(Chunk(head, a), {head, head})
      BY ZenonT(30) DEF Claim
    <2>4. Chunk(head, a) = chunk /\ {head, head} = {head}
      BY ZenonT(30) DEF Chunk
    <2> HIDE DEF chunk
    <2>5. Take(chunk, {head})
      BY ZenonT(30), <2>3, <2>4
    <2>6. /\ starts' = (starts \ chunk) \cup {head} /\ owned' = owned \cup chunk
          /\ clobbered' = (clobbered \/ chunk \cap owned # {})
      BY ZenonT(30), <2>5 DEF Take
    <2> QED
      BY ZenonT(30), <2>1, <2>2, <2>6
  <1>c. /\ head \in Lines /\ next \in Lines /\ (tail \in 1 .. NLINES \/ tail = FULL)
        /\ size \in [Lines -> {EMPTY, SENT, SENTINEL}] /\ alloced \in [Lines -> 0 .. NLINES]
        /\ ready \in [Lines -> BOOLEAN] /\ owned \subseteq Lines /\ starts \subseteq Lines
        /\ unsent \subseteq Lines /\ inflight \in Nat /\ skipAt \in 0 .. NLINES /\ held \in Seq(Lines)
    BY ZenonT(30), <1>a DEF TypeOK
  <1>d. a \in 1 .. NLINES - 1 /\ used + a < NLINES /\ Window \in Nat
    BY ZenonT(30), ArcRoom
  <1>e. /\ oldest \in Lines /\ used \in 0 .. NLINES - 1
        /\ \A l \in Lines : Rel(l) \in Lines
    BY ZenonT(30), Basics
  <1>f. oldest + used = head \/ oldest + used = head + NLINES
    BY ZenonT(30), <1>a DEF Arc
  <1>1. head + a <= NLINES /\ (head < tail => head + a <= tail \/ tail = FULL)
    BY <1>c, <1>d DEF FitsAtHead, Room
  <1>g. head \in Lines /\ a \in 1 .. NLINES - 1 /\ inflight \in Nat /\ skipAt \in 0 .. NLINES
    BY ZenonT(30), <1>c, <1>d
  <1>2. head' = top /\ top \in Lines
    <2>1. head' = IF head + a >= NLINES THEN 0 ELSE head + a
      BY ZenonT(30), <1>b
    <2> QED
      BY <1>g, <1>1, <2>1
  <1>3. oldest' = oldest /\ used' = used + a
    <2>1. oldest' = oldest
      BY ZenonT(30), <1>b DEF oldest
    <2>2. inflight' = inflight + a /\ skipAt' = skipAt
      BY ZenonT(30), <1>b
    <2>3. used' = used + a
      BY <1>g, <2>2 DEF used
    <2> QED
      BY <2>1, <2>3
  <1>4. \A k \in Lines : Rel(k)' = Rel(k) /\ (InUse(k)' <=> Rel(k) < used + a)
    BY ZenonT(30), <1>3 DEF Rel, InUse
  <1>5. \A k \in chunk : k \in Lines /\ Rel(k) = used + (k - head) /\ ~InUse(k)
    <2> SUFFICES ASSUME NEW k \in chunk PROVE k \in Lines /\ Rel(k) = used + (k - head) /\ ~InUse(k)
      BY ZenonT(30)
    <2>1. k \in Lines /\ k >= head /\ k < head + a
      BY <1>g, <1>1
    <2>2. Rel(k) = used + (k - head)
      BY <1>d, <1>g, <1>e, <1>f, <2>1 DEF Rel
    <2> QED
      BY <1>g, <1>e, <2>1, <2>2 DEF InUse
  <1>6. \A k \in Lines : InUse(k)' <=> InUse(k) \/ k \in chunk
    <2> SUFFICES ASSUME NEW k \in Lines PROVE InUse(k)' <=> InUse(k) \/ k \in chunk
      BY ZenonT(30)
    <2>1. k \in chunk => Rel(k) < used + a
      <3> SUFFICES ASSUME k \in chunk PROVE Rel(k) < used + a
        BY ZenonT(30)
      <3>1. Rel(k) = used + (k - head)
        BY ZenonT(30), <1>5
      <3> QED
        BY <1>g, <1>e, <3>1
    <2>2. Rel(k) < used + a /\ ~(Rel(k) < used) => k \in chunk
      BY <1>g, <1>e, <1>f, <1>1 DEF Rel
    <2>3. Rel(k) < used => Rel(k) < used + a
      BY <1>d, <1>e
    <2> QED
      BY ZenonT(30), <1>4, <2>1, <2>2, <2>3 DEF InUse
  <1>7. head \in chunk /\ Rel(head) = used
    BY <1>g, RelHead
  <1> HIDE DEF chunk, top
  <1>8. \A k \in Lines : InUse(k) => /\ k \notin chunk /\ k # head /\ size'[k] = size[k]
                                     /\ alloced'[k] = alloced[k] /\ ready'[k] = ready[k]
    BY ZenonT(30), <1>b, <1>c, <1>5, <1>7
  <1>9. clobbered' = FALSE
    <2>1. chunk \cap owned = {}
      BY ZenonT(30), <1>a, <1>5 DEF Flags
    <2> QED
      BY ZenonT(30), <1>a, <1>b, <2>1 DEF NoOverwrite
  <1>10. TypeOK'
    <2>1. tail' \in 1 .. NLINES \/ tail' = FULL
      BY ZenonT(30), <1>b, <1>c
    <2>2. size' \in [Lines -> {EMPTY, SENT, SENTINEL}] /\ alloced' \in [Lines -> 0 .. NLINES]
      BY <1>b, <1>c, <1>d
    <2>3. ready' \in [Lines -> BOOLEAN]
      BY ZenonT(30), <1>b, <1>c
    <2>4. unsent' \subseteq Lines /\ starts' \subseteq Lines /\ owned' \subseteq Lines
      BY ZenonT(30), <1>b, <1>c, <1>5
    <2>5. inflight' \in Nat /\ req' \in 0 .. NLINES - 1
      BY <1>b, <1>c, <1>d
    <2> QED
      BY ZenonT(30), <1>a, <1>b, <1>2, <1>9, <2>1, <2>2, <2>3, <2>4, <2>5 DEF TypeOK
  <1>11. \A s \in starts' : s \in Lines /\ (s = head \/ (s \in starts /\ (s < head \/ s >= head + a)))
    <2>1. \A s \in Lines : s \notin chunk => s < head \/ s >= head + a
      BY <1>g DEF chunk
    <2> QED
      BY ZenonT(30), <1>b, <1>c, <2>1
  <1>13. \A s \in starts : s < head => EndOf(s) <= head /\ (EndOf(s) < head => EndOf(s) \in starts)
    BY SMTT(30), <1>a, <1>c DEF Tiling, TiledTo, Lap
  <1>14. \A s \in Lines : alloced'[s] = IF s = head THEN a ELSE alloced[s]
    BY ZenonT(30), <1>b, <1>c
  <1>15. \A s \in starts : s \notin chunk => s \in starts'
    BY ZenonT(30), <1>b
  <1>16. \A s \in starts' : EndOf(s)' = (IF s = head THEN head + a ELSE EndOf(s)) /\ EndOf(s)' \in 1 .. NLINES
    <2> SUFFICES ASSUME NEW s \in starts'
                 PROVE  EndOf(s)' = (IF s = head THEN head + a ELSE EndOf(s)) /\ EndOf(s)' \in 1 .. NLINES
      BY ZenonT(30)
    <2>1. EndOf(s)' = s + alloced'[s] /\ EndOf(s) = s + alloced[s]
      BY ZenonT(30) DEF EndOf
    <2>2. CASE s = head
      BY SMTT(30), <1>g, <1>1, <1>14, <2>1, <2>2
    <2>3. CASE s # head
      <3>1. s \in starts /\ alloced'[s] = alloced[s]
        BY ZenonT(30), <1>11, <1>14, <2>3
      <3> QED
        BY ZenonT(30), <2>1, <2>3, <3>1, Basics
    <2> QED
      BY ZenonT(30), <2>2, <2>3
  (* What the current lap has written now ends at head + a. *)
  <1>17. \A s \in starts' : s < head + a =>
           /\ EndOf(s)' <= head + a
           /\ EndOf(s)' < head + a => EndOf(s)' \in starts'
    <2> SUFFICES ASSUME NEW s \in starts', s < head + a
                 PROVE  EndOf(s)' <= head + a /\ (EndOf(s)' < head + a => EndOf(s)' \in starts')
      BY ZenonT(30)
    <2>1. CASE s = head
      BY <1>g, <1>16, <2>1
    <2>2. CASE s # head
      <3>1. s \in starts /\ s < head /\ EndOf(s)' = EndOf(s) /\ EndOf(s) \in 1 .. NLINES
        <4>1. s \in starts /\ s \in Lines /\ s < head
          BY <1>g, <1>11, <2>2
        <4> QED
          BY ZenonT(30), <1>16, <2>2, <4>1
      <3>2. EndOf(s) <= head /\ (EndOf(s) < head => EndOf(s) \in starts)
        BY ZenonT(30), <1>13, <3>1
      <3>3. EndOf(s) < head => EndOf(s) \notin chunk
        BY <1>g, <3>1 DEF chunk
      <3>4. EndOf(s) \in starts'
        <4>1. head \in starts'
          BY ZenonT(30), <1>b
        <4>2. EndOf(s) = head \/ EndOf(s) < head
          BY <1>g, <3>1, <3>2
        <4> QED
          BY ZenonT(30), <1>15, <3>2, <3>3, <4>1, <4>2
      <3> QED
        BY <1>g, <3>1, <3>2, <3>4
    <2> QED
      BY ZenonT(30), <2>1, <2>2
  <1>18. Tiling'
    <2>1. \A s \in starts' : alloced'[s] >= 1 /\ EndOf(s)' <= NLINES
      <3> SUFFICES ASSUME NEW s \in starts' PROVE alloced'[s] >= 1 /\ EndOf(s)' <= NLINES
        BY ZenonT(30)
      <3>1. s # head => alloced[s] \in 1 .. NLINES
        BY ZenonT(30), <1>11, Basics
      <3>2. s \in Lines /\ EndOf(s)' \in 1 .. NLINES
        BY ZenonT(30), <1>11, <1>16
      <3> QED
        BY <1>d, <1>14, <3>1, <3>2
    <2>2. \A s \in starts' : size'[s] = SENTINEL => EndOf(s)' = NLINES
      <3> SUFFICES ASSUME NEW s \in starts', size'[s] = SENTINEL PROVE EndOf(s)' = NLINES
        BY ZenonT(30)
      <3>1. s # head /\ s \in starts /\ size[s] = SENTINEL
        BY ZenonT(30), <1>b, <1>c, <1>11
      <3> QED
        BY ZenonT(30), <1>a, <1>16, <3>1 DEF Tiling
    <2>3. head \in starts' /\ 0 \in starts'
      <3>1. starts = {} => head = 0
        BY ZenonT(30), <1>a DEF Tiling
      <3>2. starts # {} => 0 \in starts
        BY ZenonT(30), <1>a DEF Tiling
      <3>3. head # 0 => 0 \notin chunk
        BY <1>g DEF chunk
      <3> QED
        BY ZenonT(30), <1>b, <1>15, <3>1, <3>2, <3>3
    <2>4. Lap' = head + a
      BY <1>2, <1>g DEF Lap, top
    <2>5. TiledTo(Lap)'
      BY ZenonT(30), <1>17, <2>4 DEF TiledTo
    <2>6. \A s, t \in starts' : s < t => EndOf(s)' <= t
      <3> SUFFICES ASSUME NEW s \in starts', NEW t \in starts', s < t PROVE EndOf(s)' <= t
        BY ZenonT(30)
      <3>1. /\ s \in Lines /\ (s = head \/ (s \in starts /\ (s < head \/ s >= head + a)))
            /\ t \in Lines /\ (t = head \/ (t \in starts /\ (t < head \/ t >= head + a)))
        BY ZenonT(30), <1>11
      <3>2. EndOf(s)' = IF s = head THEN head + a ELSE EndOf(s)
        BY ZenonT(30), <1>16
      <3>3. CASE s = head
        BY <1>g, <3>1, <3>2, <3>3
      <3>4. CASE s # head /\ t = head
        BY ZenonT(30), <1>13, <3>1, <3>2, <3>4
      <3>5. CASE s # head /\ t # head
        BY ZenonT(30), <1>a, <3>1, <3>2, <3>5 DEF Tiling
      <3> QED
        BY ZenonT(30), <3>3, <3>4, <3>5
    <2> QED
      BY ZenonT(30), <2>1, <2>2, <2>3, <2>5, <2>6 DEF Tiling
  <1>19. Collectable'
    <2>1. tail' < NLINES => tail' = tail /\ tail \in Lines
      BY SMTT(30), <1>b, <1>c
    <2>2. ASSUME tail' < NLINES, tail' # head' PROVE tail' \in starts'
      <3>1. tail' = tail /\ tail \in Lines
        BY ZenonT(30), <2>1, <2>2
      <3>2. CASE tail = head
        BY ZenonT(30), <1>b, <3>1, <3>2
      <3>3. CASE tail # head
        <4>1. tail \in starts
          BY ZenonT(30), <1>a, <2>2, <3>1, <3>3 DEF Collectable
        <4>2. tail \notin chunk
          BY <1>g, <1>1, <3>1, <3>3 DEF chunk
        <4> QED
          BY ZenonT(30), <1>15, <3>1, <4>1, <4>2
      <3> QED
        BY ZenonT(30), <3>2, <3>3
    <2>3. ASSUME head' < tail', tail' < NLINES,
                 NEW s \in starts', s >= tail', EndOf(s)' < NLINES
          PROVE  EndOf(s)' \in starts'
      <3>1. tail' = tail /\ tail \in Lines /\ s \in Lines
        BY ZenonT(30), <1>11, <2>1, <2>3
      <3>2. CASE head + a = NLINES
        BY <1>17, <2>3, <3>1, <3>2
      <3>3. CASE head + a < NLINES
        <4>1. head + a < tail
          BY <1>2, <2>3, <3>1, <3>3 DEF top
        <4>2. s \in starts /\ s # head /\ EndOf(s)' = EndOf(s) /\ EndOf(s) \in 1 .. NLINES
          BY <1>g, <1>11, <1>16, <2>3, <3>1, <4>1
        <4>3. EndOf(s) \in starts
          <5>1. head < tail
            BY <1>g, <3>1, <4>1
          <5> QED
            BY ZenonT(30), <1>a, <2>3, <3>1, <4>2, <5>1 DEF Collectable, TiledFrom
        <4>4. EndOf(s) > s
          <5>1. alloced[s] \in 1 .. NLINES
            BY ZenonT(30), <4>2, Basics
          <5> QED
            BY <3>1, <5>1 DEF EndOf
        <4>5. EndOf(s) \notin chunk
          BY <1>g, <2>3, <3>1, <4>1, <4>2, <4>4 DEF chunk
        <4> QED
          BY ZenonT(30), <1>15, <4>2, <4>3, <4>5
      <3> QED
        BY <1>1, <1>g, <3>2, <3>3
    <2> QED
      BY ZenonT(30), <2>2, <2>3 DEF Collectable, TiledFrom
  <1>20. Arc'
    <2>1. oldest + used + a = top \/ oldest + used + a = top + NLINES
      <3>1. head \in Int /\ a \in Int /\ oldest \in Int /\ used \in Int
        BY <1>g, <1>e
      <3>2. CASE head + a = NLINES
        <4>1. top = 0
          BY ZenonT(30), <3>2 DEF top
        <4>2. oldest + used # head + NLINES
          BY <1>d, <1>e, <3>1, <3>2
        <4> QED
          BY <1>f, <3>1, <3>2, <4>1, <4>2
      <3>3. CASE head + a # NLINES
        <4>1. top = head + a
          BY ZenonT(30), <3>3 DEF top
        <4> QED
          BY <1>f, <3>1, <4>1
      <3> QED
        BY ZenonT(30), <3>2, <3>3
    <2>2. Rel(next) <= used /\ Rel(next) \in Lines /\ Rel(oldest) = 0
      <3>1. Rel(next) <= used /\ Rel(next) \in Lines
        BY ZenonT(30), <1>a, <1>c, <1>e DEF Arc
      <3>2. Rel(oldest) = 0
        BY <1>e DEF Rel
      <3> QED
        BY ZenonT(30), <3>1, <3>2
    <2>3. \A k \in Lines : Rel(k) <= used => k = head \/ InUse(k)
      <3> SUFFICES ASSUME NEW k \in Lines, Rel(k) <= used, ~InUse(k) PROVE k = head
        BY ZenonT(30)
      <3>1. Rel(k) = Rel(head)
        BY <1>e, <1>7 DEF InUse
      <3> QED
        BY ZenonT(30), <1>c, <3>1, RelInjective
    <2>4. oldest \in starts'
      <3>1. InUse(oldest) => oldest \in starts
        BY ZenonT(30), <1>a, <1>e, <2>2 DEF Arc, InUse
      <3>2. oldest = head \/ InUse(oldest)
        BY <1>e, <2>2, <2>3
      <3> QED
        BY ZenonT(30), <1>b, <1>e, <1>8, <1>15, <3>1, <3>2
    <2>5. next \in starts'
      <3>1. InUse(next) => next \in starts
        BY ZenonT(30), <1>a DEF Arc, InUse
      <3>2. next = head \/ InUse(next)
        BY ZenonT(30), <1>c, <2>2, <2>3
      <3> QED
        BY ZenonT(30), <1>b, <1>c, <1>8, <1>15, <3>1, <3>2
    <2>6. ASSUME oldest + used + a >= NLINES, NEW s \in starts', s >= oldest, EndOf(s)' < NLINES
          PROVE  EndOf(s)' \in starts'
      <3>1. s \in Lines
        BY ZenonT(30), <1>11
      <3>2. CASE oldest + used = head
        <4>1. head + a = NLINES
          BY <1>g, <1>e, <1>1, <2>6, <3>2
        <4> QED
          BY <1>17, <2>6, <3>1, <4>1
      <3>3. CASE oldest + used = head + NLINES
        <4>1. head + a < oldest
          BY <1>d, <1>g, <1>e, <3>3
        <4>2. s \in starts /\ s # head /\ EndOf(s)' = EndOf(s) /\ EndOf(s) \in 1 .. NLINES
          BY <1>g, <1>e, <1>11, <1>16, <2>6, <3>1, <4>1
        <4>3. EndOf(s) \in starts
          <5>1. oldest + used >= NLINES
            BY <1>g, <3>3
          <5> QED
            BY ZenonT(30), <1>a, <2>6, <4>2, <5>1 DEF Arc, TiledFrom
        <4>4. EndOf(s) > s
          <5>1. alloced[s] \in 1 .. NLINES
            BY ZenonT(30), <4>2, Basics
          <5> QED
            BY <3>1, <5>1 DEF EndOf
        <4>5. EndOf(s) \notin chunk
          BY <1>g, <1>e, <2>6, <3>1, <4>1, <4>2, <4>4 DEF chunk
        <4> QED
          BY ZenonT(30), <1>15, <4>2, <4>3, <4>5
      <3> QED
        BY ZenonT(30), <1>f, <3>2, <3>3
    <2>7. oldest' + used' = head' \/ oldest' + used' = head' + NLINES
      BY SMTT(30), <1>2, <1>3, <1>d, <1>e, <2>1
    <2>8. used' < NLINES /\ Rel(next)' <= used'
      <3>1. next' = next
        BY ZenonT(30), <1>b
      <3>2. Rel(next)' = Rel(next)
        BY ZenonT(30), <1>3, <3>1 DEF Rel
      <3>3. used + a < NLINES /\ Rel(next) <= used + a
        BY <1>d, <1>e, <2>2
      <3> QED
        BY ZenonT(30), <1>3, <3>2, <3>3
    <2>9. oldest' + used' >= NLINES => TiledFrom(oldest)'
      BY <1>3, <1>d, <1>e, <2>6 DEF TiledFrom
    <2> QED
      BY ZenonT(30), <1>b, <1>3, <2>4, <2>5, <2>7, <2>8, <2>9 DEF Arc
  <1>21. skipAt < NLINES => \A l \in skipAt .. NLINES - 1 : l \in Lines /\ InUse(l)
    <2> SUFFICES ASSUME skipAt < NLINES, NEW l \in skipAt .. NLINES - 1 PROVE l \in Lines /\ InUse(l)
      BY ZenonT(30)
    <2>1. skipAt >= oldest /\ Rel(NLINES - 1) < used
      BY ZenonT(30), <1>a DEF Skip, InUse
    <2>2. l \in Lines /\ l >= oldest
      BY <1>g, <1>e, <2>1
    <2>3. Rel(l) = l - oldest /\ Rel(NLINES - 1) = NLINES - 1 - oldest
      BY <1>e, <2>2 DEF Rel
    <2> QED
      BY <1>e, <2>1, <2>2, <2>3 DEF InUse
  <1>22. Skip'
    <2>1. ASSUME skipAt < NLINES
          PROVE  /\ skipAt \in starts' /\ size'[skipAt] = SENTINEL /\ skipAt >= oldest
                 /\ InUse(NLINES - 1)' /\ (ready'[skipAt] <=> Rel(next) <= Rel(skipAt))
                 /\ \E b \in MsgLines : NLINES - skipAt < b
                 /\ ~ready'[skipAt] => owned' \cap (skipAt .. NLINES - 1) = {}
      <3>1. /\ skipAt \in starts /\ size[skipAt] = SENTINEL /\ skipAt >= oldest
            /\ InUse(NLINES - 1) /\ (ready[skipAt] <=> Rel(next) <= Rel(skipAt))
            /\ \E b \in MsgLines : NLINES - skipAt < b
            /\ ~ready[skipAt] => owned \cap (skipAt .. NLINES - 1) = {}
        BY ZenonT(30), <1>a, <2>1 DEF Skip
      <3>2. skipAt \in Lines /\ InUse(skipAt) /\ NLINES - 1 \in Lines
        BY <1>g, <1>21, <2>1
      <3>3. chunk \cap (skipAt .. NLINES - 1) = {}
        BY ZenonT(30), <1>8, <1>21, <2>1
      <3> QED
        BY ZenonT(30), <1>b, <1>6, <1>8, <1>15, <3>1, <3>2, <3>3
    <2>2. ASSUME skipAt < NLINES, NEW l \in skipAt + 1 .. NLINES - 1
          PROVE  ~ready'[l] /\ l \notin starts'
      <3>1. ~ready[l] /\ l \notin starts
        BY ZenonT(30), <1>a, <2>2 DEF Skip
      <3>2. l \in Lines /\ InUse(l)
        BY <1>g, <1>21, <2>2
      <3> QED
        BY ZenonT(30), <1>b, <1>8, <3>1, <3>2
    <2>3. ASSUME NEW s \in starts', InUse(s)', size'[s] = SENTINEL
          PROVE  s = skipAt
      <3>1. s # head /\ s \in Lines /\ s \in starts /\ s \notin chunk
        BY ZenonT(30), <1>b, <1>c, <1>11, <2>3
      <3>2. InUse(s) /\ size[s] = SENTINEL
        BY ZenonT(30), <1>6, <1>8, <2>3, <3>1
      <3> QED
        BY ZenonT(30), <1>a, <3>1, <3>2 DEF Skip
    <2>4. skipAt' = skipAt /\ oldest' = oldest /\ Rel(next)' = Rel(next)
      BY ZenonT(30), <1>b, <1>3 DEF Rel
    <2>5. Rel(skipAt)' = Rel(skipAt)
      BY ZenonT(30), <1>b, <1>3 DEF Rel
    <2> QED
      BY ZenonT(30), <2>1, <2>2, <2>3, <2>4, <2>5 DEF Skip
  <1>23. Flags'
    <2>1. Rel(next)' = Rel(next) /\ Rel(next) <= used /\ Rel(next) \in Lines
      BY ZenonT(30), <1>a, <1>b, <1>c, <1>e, <1>3 DEF Rel, Arc
    <2>2. \A s \in starts' : InUse(s)' => s = head \/ (s \in starts /\ InUse(s) /\ s # head)
      BY ZenonT(30), <1>6, <1>11, <1>b
    <2>3. \A s \in starts' : InUse(s)' /\ Rel(s)' >= Rel(next)' => ready'[s]
      <3> SUFFICES ASSUME NEW s \in starts', InUse(s)', Rel(s)' >= Rel(next)' PROVE ready'[s]
        BY ZenonT(30)
      <3>1. CASE s = head
        BY ZenonT(30), <1>b, <1>c, <3>1
      <3>2. CASE s \in starts /\ InUse(s) /\ s # head
        <4>1. s \in Lines /\ Rel(s)' = Rel(s)
          BY ZenonT(30), <1>c, <1>4, <3>2
        <4>2. ready[s]
          BY ZenonT(30), <1>a, <2>1, <3>2, <4>1 DEF Flags
        <4> QED
          BY ZenonT(30), <1>8, <3>2, <4>1, <4>2
      <3> QED
        BY ZenonT(30), <2>2, <3>1, <3>2
    <2>4. \A l \in Lines : ready'[l] => InUse(l)'
      BY ZenonT(30), <1>a, <1>b, <1>c, <1>6, <1>7 DEF Flags
    <2>5. \A s \in starts' : InUse(s)' => (size'[s] = EMPTY <=> s \in unsent')
      <3> SUFFICES ASSUME NEW s \in starts', InUse(s)' PROVE size'[s] = EMPTY <=> s \in unsent'
        BY ZenonT(30)
      <3>1. CASE s = head
        BY ZenonT(30), <1>b, <1>c, <3>1
      <3>2. CASE s \in starts /\ InUse(s) /\ s # head
        <4>1. size'[s] = size[s] /\ (s \in unsent' <=> s \in unsent)
          BY ZenonT(30), <1>b, <1>c, <1>8, <3>2
        <4> QED
          BY ZenonT(30), <1>a, <3>2, <4>1 DEF Flags
      <3> QED
        BY ZenonT(30), <2>2, <3>1, <3>2
    <2>6. \A s \in unsent' : s \in starts' /\ InUse(s)' /\ Rel(s)' >= Rel(next)'
      <3> SUFFICES ASSUME NEW s \in unsent' PROVE s \in starts' /\ InUse(s)' /\ Rel(s)' >= Rel(next)'
        BY ZenonT(30)
      <3>1. CASE s = head
        <4>1. s \in starts' /\ InUse(s)' /\ Rel(s)' = used
          BY ZenonT(30), <1>b, <1>c, <1>4, <1>6, <1>7, <3>1
        <4> QED
          BY ZenonT(30), <1>e, <2>1, <4>1
      <3>2. CASE s \in unsent
        <4>1. s \in starts /\ s \in Lines /\ InUse(s) /\ Rel(s) >= Rel(next)
          BY ZenonT(30), <1>a, <1>c, <3>2 DEF Flags
        <4> QED
          BY ZenonT(30), <1>4, <1>6, <1>8, <1>15, <2>1, <4>1
      <3> QED
        BY ZenonT(30), <1>b, <3>1, <3>2
    <2>7. \A l \in owned' : InUse(l)'
      BY ZenonT(30), <1>a, <1>b, <1>c, <1>5, <1>6 DEF Flags
    <2> QED
      BY ZenonT(30), <2>3, <2>4, <2>5, <2>6, <2>7 DEF Flags
  <1>24. ASSUME NEW i \in 1 .. Len(held)
         PROVE  held[i] \in Lines /\ held[i] \in starts /\ InUse(held[i])
    <2>1. held[i] \in Lines /\ held[i] \in starts /\ Rel(held[i]) < Rel(next)
      BY ZenonT(30), <1>a, <1>c DEF Holding, Received
    <2>2. Rel(next) <= used /\ Rel(next) \in Lines /\ Rel(held[i]) \in Lines
      BY ZenonT(30), <1>a, <1>c, <1>e, <2>1 DEF Arc
    <2>3. Rel(held[i]) < used
      BY <1>e, <2>1, <2>2
    <2> QED
      BY ZenonT(30), <2>1, <2>3 DEF InUse
  <1>25. Holding'
    <2>1. held' = held /\ next' = next /\ skipAt' = skipAt /\ freeIdx' = freeIdx /\ freePos' = freePos
      BY ZenonT(30), <1>b
    <2>2. skipAt < NLINES => ready'[skipAt] = ready[skipAt]
      <3>1. skipAt < NLINES => skipAt \in skipAt .. NLINES - 1
        BY <1>g
      <3> QED
        BY ZenonT(30), <1>8, <1>21, <3>1
    <2>3. Received'
      <3> SUFFICES ASSUME NEW i \in 1 .. Len(held)
                   PROVE  /\ held[i] \in starts' /\ held[i] # skipAt
                          /\ size'[held[i]] = SENT /\ Rel(held[i])' < Rel(next)'
        BY ZenonT(30), <2>1 DEF Received
      <3>1. Rel(held[i])' = Rel(held[i]) /\ Rel(next)' = Rel(next)
        BY ZenonT(30), <1>3, <2>1 DEF Rel
      <3> QED
        BY ZenonT(30), <1>a, <1>8, <1>15, <1>24, <3>1 DEF Holding, Received
    <2>4. Ordered'
      <3>1. \A i \in 1 .. Len(held) : Rel(held[i])' = Rel(held[i])
        BY ZenonT(30), <1>3, <2>1 DEF Rel
      <3> QED
        BY <1>a, <2>1, <3>1 DEF Holding, Ordered
    <2>5. ASSUME NEW i \in 1 .. Len(held), NEW t \in Lines, Follows(held[i], t)
          PROVE  \/ t = held[i] + alloced'[held[i]]
                 \/ t = 0 /\ \/ held[i] + alloced'[held[i]] = NLINES
                             \/ held[i] + alloced'[held[i]] = skipAt /\ ~ready'[skipAt]
      <3>1. alloced'[held[i]] = alloced[held[i]]
        BY ZenonT(30), <1>8, <1>24
      <3>2. \/ t = held[i] + alloced[held[i]]
            \/ t = 0 /\ \/ held[i] + alloced[held[i]] = NLINES
                        \/ held[i] + alloced[held[i]] = skipAt /\ ~ready[skipAt]
        BY ZenonT(30), <2>5 DEF Follows, EndOf
      <3>3. skipAt < NLINES \/ skipAt = NLINES
        BY <1>g
      <3> QED
        BY ZenonT(30), <2>2, <3>1, <3>2, <3>3
    <2>6. Chained'
      <3>1. Len(held) \in Nat /\ (held # <<>> => Len(held) \in 1 .. Len(held))
        BY <1>g
      <3>2. ASSUME NEW i \in 1 .. Len(held) - 1 PROVE Follows(held[i], held[i + 1])'
        <4>1. i \in 1 .. Len(held) /\ i + 1 \in 1 .. Len(held) /\ Follows(held[i], held[i + 1])
          BY <1>a, <3>1 DEF Holding, Chained
        <4>2. held[i + 1] \in Lines
          BY ZenonT(30), <1>24, <4>1
        <4> QED
          BY ZenonT(30), <2>1, <2>5, <4>1, <4>2 DEF Follows, EndOf
      <3>3. held # <<>> => Follows(held[Len(held)], next)'
        <4> SUFFICES ASSUME held # <<>> PROVE Follows(held[Len(held)], next)'
          BY ZenonT(30)
        <4>1. Follows(held[Len(held)], next)
          BY ZenonT(30), <1>a DEF Holding, Chained
        <4> QED
          BY ZenonT(30), <1>c, <2>1, <2>5, <3>1, <4>1 DEF Follows, EndOf
      <3> QED
        BY ZenonT(30), <2>1, <3>2, <3>3 DEF Chained
    <2>7. Clearing'
      <3>1. freeIdx \in {0, 1}
        BY ZenonT(30), <1>a DEF Holding, Clearing
      <3>2. ASSUME freeIdx = 1
            PROVE  /\ held # <<>> /\ freePos \in held[1] .. EndOf(held[1])' - 1
                   /\ \A l \in held[1] .. freePos - 1 : ~ready'[l]
        <4>1. /\ held # <<>> /\ freePos \in held[1] .. EndOf(held[1]) - 1
              /\ \A l \in held[1] .. freePos - 1 : ~ready[l]
          BY ZenonT(30), <1>a, <3>2 DEF Holding, Clearing
        <4>2. 1 \in 1 .. Len(held)
          BY <1>g, <4>1
        <4>3. held[1] \in starts /\ held[1] \in Lines /\ InUse(held[1])
          BY ZenonT(30), <1>24, <4>2
        <4>4. EndOf(held[1])' = EndOf(held[1])
          BY ZenonT(30), <1>8, <2>1, <4>3 DEF EndOf
        <4>5. \A l \in held[1] .. EndOf(held[1]) - 1 : l \in Lines /\ InUse(l)
          BY ZenonT(30), <4>3, ChunkInArc
        <4>6. EndOf(held[1]) \in 1 .. NLINES
          BY ZenonT(30), <4>3, Basics
        <4>7. \A l \in held[1] .. freePos - 1 : l \in held[1] .. EndOf(held[1]) - 1
          BY <4>1, <4>3, <4>6
        <4>8. \A l \in held[1] .. freePos - 1 : ~ready'[l]
          BY ZenonT(30), <1>8, <4>1, <4>5, <4>7
        <4> QED
          BY ZenonT(30), <4>1, <4>4, <4>8
      <3> QED
        BY ZenonT(30), <2>1, <3>1, <3>2 DEF Clearing
    <2> QED
      BY ZenonT(30), <2>3, <2>4, <2>6, <2>7 DEF Holding
  <1>26. Sending' /\ NoOverwrite' /\ AllocationSucceeds'
    BY ZenonT(30), <1>b, <1>9 DEF Sending, NoOverwrite, AllocationSucceeds
  <1> QED
    BY ZenonT(30), <1>10, <1>18, <1>19, <1>20, <1>22, <1>23, <1>25, <1>26 DEF IInv

(* channel_allocate skips the end of the ring and takes the lines at 0. *)
LEMMA ClaimAtStartIInv ==
  ASSUME Disciplined, IInv, NEW a \in MsgLines, inflight + a <= Window,
         ~FitsAtHead(a), FitsAtStart(a), Claim(0, a)
  PROVE  IInv'
  <1> USE ChannelAssumption
  <1> DEFINE chunk == (0 .. a - 1) \cup (head .. NLINES - 1)
  <1>a. TypeOK /\ Tiling /\ Collectable /\ Arc /\ Skip /\ Flags /\ Holding /\ Sending /\ NoOverwrite
    BY ZenonT(30) DEF IInv
  <1>c. /\ head \in Lines /\ next \in Lines /\ (tail \in 1 .. NLINES \/ tail = FULL)
        /\ size \in [Lines -> {EMPTY, SENT, SENTINEL}] /\ alloced \in [Lines -> 0 .. NLINES]
        /\ ready \in [Lines -> BOOLEAN] /\ owned \subseteq Lines /\ starts \subseteq Lines
        /\ unsent \subseteq Lines /\ inflight \in Nat /\ skipAt \in 0 .. NLINES /\ held \in Seq(Lines)
    BY ZenonT(30), <1>a DEF TypeOK
  <1>d. a \in 1 .. NLINES - 1 /\ used + a < NLINES /\ Window \in Nat
    BY ZenonT(30), ArcRoom
  <1>e. oldest \in Lines /\ used \in 0 .. NLINES - 1 /\ \A l \in Lines : Rel(l) \in Lines
    BY ZenonT(30), Basics
  <1>1. tail <= head /\ a <= tail /\ a > NLINES - head /\ head # 0
    BY <1>c, <1>d DEF FitsAtHead, FitsAtStart
  <1>2. oldest + used = head /\ skipAt = NLINES /\ a < oldest
    BY ZenonT(30), <1>1, ArcRoom
  <1>g. head \in Lines /\ oldest \in Lines /\ a \in 1 .. NLINES - 1 /\ a < oldest /\ oldest <= head
    BY SMTT(30), <1>c, <1>d, <1>e, <1>2
  <1>b. /\ tail' = (IF a = tail THEN FULL ELSE tail)
        /\ head' = a
        /\ size' = [[size EXCEPT ![head] = SENTINEL] EXCEPT ![0] = EMPTY]
        /\ alloced' = [[alloced EXCEPT ![head] = NLINES - head] EXCEPT ![0] = a]
        /\ ready' = [[ready EXCEPT ![head] = TRUE] EXCEPT ![0] = TRUE]
        /\ pc' = "idle" /\ ret' = "ok" /\ req' = 0 /\ freeing' = 0 /\ freed' = 0
        /\ unsent' = unsent \cup {0}
        /\ inflight' = inflight + a
        /\ skipAt' = head
        /\ starts' = (starts \ chunk) \cup {0, head}
        /\ owned' = owned \cup chunk
        /\ clobbered' = (clobbered \/ chunk \cap owned # {})
        /\ UNCHANGED <<next, data, held, freeIdx, freePos>>
    <2>0. 0 # head /\ 0 + a = a
      BY <1>g, <1>1
    <2>1. /\ tail' = (IF a = tail THEN FULL ELSE tail)
          /\ head' = (IF a >= NLINES THEN 0 ELSE a)
          /\ pc' = "idle" /\ ret' = "ok" /\ req' = 0 /\ freeing' = 0 /\ freed' = 0
          /\ unsent' = unsent \cup {0} /\ inflight' = inflight + a /\ skipAt' = head
          /\ UNCHANGED <<next, data, held, freeIdx, freePos>>
      BY ZenonT(30), <2>0 DEF Claim, NewHead, Return, receiver
    <2>2. head' = a
      BY <1>d, <2>1
    <2>3. /\ size' = [[size EXCEPT ![head] = SENTINEL] EXCEPT ![0] = EMPTY]
          /\ alloced' = [[alloced EXCEPT ![head] = NLINES - head] EXCEPT ![0] = a]
          /\ ready' = [[ready EXCEPT ![head] = TRUE] EXCEPT ![0] = TRUE]
      BY ZenonT(30), <2>0 DEF Claim
    <2>4. Take(Chunk(0, a), {0, head})
      BY ZenonT(30) DEF Claim
    <2>5. Chunk(0, a) = chunk
      BY <2>0 DEF Chunk
    <2> HIDE DEF chunk
    <2>6. /\ starts' = (starts \ chunk) \cup {0, head} /\ owned' = owned \cup chunk
          /\ clobbered' = (clobbered \/ chunk \cap owned # {})
      BY ZenonT(30), <2>4, <2>5 DEF Take
    <2> QED
      BY ZenonT(30), <2>1, <2>2, <2>3, <2>6
  <1>3. \A k \in Lines : k \in chunk <=> k < a \/ k >= head
    BY <1>g
  <1> HIDE DEF chunk
  <1>4. oldest' = oldest /\ used' = used + a + (NLINES - head) /\ oldest + used' = a + NLINES
    <2>1. oldest' = oldest
      BY ZenonT(30), <1>b DEF oldest
    <2>2. used = inflight
      BY <1>c, <1>2 DEF used
    <2>3. used' = used + a + (NLINES - head)
      BY ZenonT(30), <1>b, <1>c, <1>d, <2>2 DEF used
    <2> QED
      BY <1>g, <1>e, <1>2, <2>1, <2>3
  <1>5. \A k \in Lines : /\ Rel(k)' = Rel(k)
                         /\ InUse(k) <=> k >= oldest /\ k < head
                         /\ InUse(k)' <=> k >= oldest \/ k < a
    <2> SUFFICES ASSUME NEW k \in Lines
                 PROVE  /\ Rel(k)' = Rel(k)
                        /\ InUse(k) <=> k >= oldest /\ k < head
                        /\ InUse(k)' <=> k >= oldest \/ k < a
      BY ZenonT(30)
    <2>1. Rel(k)' = Rel(k)
      BY ZenonT(30), <1>4 DEF Rel
    <2>2. InUse(k) <=> k >= oldest /\ k < head
      BY <1>g, <1>e, <1>2 DEF InUse, Rel
    <2>3. Rel(k) < used' <=> k >= oldest \/ k < a
      <3>1. Rel(k) = IF k >= oldest THEN k - oldest ELSE k - oldest + NLINES
        BY ZenonT(30) DEF Rel
      <3>2. used' = a + NLINES - oldest
        BY <1>g, <1>e, <1>4
      <3> QED
        BY <1>d, <1>e, <3>1, <3>2
    <2> QED
      BY ZenonT(30), <2>1, <2>2, <2>3 DEF InUse
  <1>6. \A k \in Lines : InUse(k) => /\ k \notin chunk /\ k # head /\ k # 0 /\ InUse(k)'
                                     /\ size'[k] = size[k] /\ alloced'[k] = alloced[k]
                                     /\ ready'[k] = ready[k]
    <2> SUFFICES ASSUME NEW k \in Lines, InUse(k)
                 PROVE  /\ k \notin chunk /\ k # head /\ k # 0 /\ InUse(k)'
                        /\ size'[k] = size[k] /\ alloced'[k] = alloced[k] /\ ready'[k] = ready[k]
      BY ZenonT(30)
    <2>1. k >= oldest /\ k < head
      BY ZenonT(30), <1>5
    <2>2. k \notin chunk /\ k # head /\ k # 0 /\ InUse(k)'
      <3>1. k # 0 /\ k # head /\ ~(k < a \/ k >= head)
        BY <1>g, <2>1
      <3> QED
        BY ZenonT(30), <1>3, <1>5, <2>1, <3>1
    <2> QED
      BY ZenonT(30), <1>b, <1>c, <2>2
  <1>7. Rel(head) = used /\ Rel(0) = NLINES - oldest /\ oldest > 0
    BY <1>g, <1>e, <1>2, RelHead DEF Rel
  <1>8. clobbered' = FALSE
    <2>1. chunk \cap owned = {}
      BY ZenonT(30), <1>a, <1>c, <1>6 DEF Flags
    <2> QED
      BY ZenonT(30), <1>a, <1>b, <2>1 DEF NoOverwrite
  <1>9. TypeOK'
    <2>1. tail' \in 1 .. NLINES \/ tail' = FULL
      BY ZenonT(30), <1>b, <1>c
    <2>2. size' \in [Lines -> {EMPTY, SENT, SENTINEL}] /\ alloced' \in [Lines -> 0 .. NLINES]
      <3>1. a \in 0 .. NLINES /\ NLINES - head \in 0 .. NLINES
        BY <1>g
      <3> QED
        BY ZenonT(30), <1>b, <1>c, <3>1
    <2>3. ready' \in [Lines -> BOOLEAN]
      BY ZenonT(30), <1>b, <1>c
    <2>4. \A k \in chunk : k \in Lines
      BY <1>g DEF chunk
    <2>5. unsent' \subseteq Lines /\ starts' \subseteq Lines /\ owned' \subseteq Lines
      <3>1. 0 \in Lines
        OBVIOUS
      <3> QED
        BY ZenonT(30), <1>b, <1>c, <2>4, <3>1
    <2>6. inflight' \in Nat /\ req' \in 0 .. NLINES - 1 /\ skipAt' \in 0 .. NLINES /\ head' \in Lines
      <3>1. inflight' = inflight + a /\ req' = 0 /\ skipAt' = head /\ head' = a /\ inflight \in Nat
        BY ZenonT(30), <1>b, <1>c
      <3> QED
        BY SMTT(30), <1>g, <3>1
    <2> QED
      BY ZenonT(30), <1>a, <1>b, <1>8, <2>1, <2>2, <2>3, <2>5, <2>6 DEF TypeOK
  <1>10. \A s \in starts' : s \in Lines /\ (s = 0 \/ s = head \/ (s \in starts /\ s >= a /\ s < head))
    <2>1. \A s \in Lines : s \notin chunk => s >= a /\ s < head
      BY <1>3, <1>g
    <2>2. 0 \in Lines
      BY <1>g
    <2> QED
      BY ZenonT(30), <1>b, <1>c, <2>1, <2>2
  <1>11. \A s \in starts : s >= a /\ s < head => s \in starts'
    <2>1. \A s \in Lines : s >= a /\ s < head => s \notin chunk
      BY <1>3, <1>g
    <2> QED
      BY ZenonT(30), <1>b, <1>c, <2>1
  <1>12. \A s \in starts : s < head => EndOf(s) <= head /\ (EndOf(s) < head => EndOf(s) \in starts)
    BY <1>a, <1>c DEF Tiling, TiledTo, Lap
  <1>h. 0 \in Lines /\ head \in Lines /\ head # 0
    BY <1>1, <1>g
  <1>13. /\ alloced'[0] = a /\ alloced'[head] = NLINES - head
         /\ \A s \in Lines : s # 0 /\ s # head => alloced'[s] = alloced[s]
    BY ZenonT(30), <1>b, <1>c, <1>h
  <1>14. ASSUME NEW s \in starts'
         PROVE  /\ s = 0 => EndOf(s)' = a
                /\ s = head => EndOf(s)' = NLINES
                /\ s # 0 /\ s # head => EndOf(s)' = EndOf(s) /\ EndOf(s) \in 1 .. head
                /\ alloced'[s] \in 1 .. NLINES
    <2>1. EndOf(s)' = s + alloced'[s] /\ EndOf(s) = s + alloced[s]
      BY ZenonT(30) DEF EndOf
    <2>2. s = 0 => EndOf(s)' = a /\ alloced'[s] \in 1 .. NLINES
      BY <1>d, <1>13, <2>1
    <2>3. s = head => EndOf(s)' = NLINES /\ alloced'[s] \in 1 .. NLINES
      <3>1. NLINES - head \in 1 .. NLINES /\ head + (NLINES - head) = NLINES
        BY <1>g
      <3> QED
        BY ZenonT(30), <1>13, <2>1, <3>1
    <2>4. ASSUME s # 0, s # head
          PROVE  EndOf(s)' = EndOf(s) /\ EndOf(s) \in 1 .. head /\ alloced'[s] \in 1 .. NLINES
      <3>1. s \in starts /\ s \in Lines /\ s < head
        BY ZenonT(30), <1>10, <2>4
      <3>2. EndOf(s) <= head /\ EndOf(s) \in 1 .. NLINES /\ alloced[s] \in 1 .. NLINES
        BY ZenonT(30), <1>12, <3>1, Basics
      <3> QED
        <4>1. alloced'[s] = alloced[s]
          BY ZenonT(30), <1>13, <2>4, <3>1
        <4> QED
          BY <1>g, <2>1, <3>2, <4>1
    <2> QED
      BY ZenonT(30), <2>2, <2>3, <2>4
  <1>15. 0 \in starts' /\ head \in starts'
    BY ZenonT(30), <1>b
  (* From line a on headers tile the ring up to its end. *)
  <1>16. ASSUME NEW s \in starts', s >= a, EndOf(s)' < NLINES PROVE EndOf(s)' \in starts'
    <2>1. s \in starts /\ s \in Lines /\ s # 0 /\ s # head /\ s < head
      <3>1. s # 0
        BY <1>g, <1>16
      <3>2. s # head
        <4>1. s = head => EndOf(s)' = NLINES
          BY ZenonT(30), <1>14
        <4> QED
          BY <1>16, <4>1
      <3> QED
        BY ZenonT(30), <1>10, <3>1, <3>2
    <2>2. EndOf(s)' = EndOf(s) /\ EndOf(s) <= head /\ (EndOf(s) < head => EndOf(s) \in starts)
      BY ZenonT(30), <1>12, <1>14, <2>1
    <2>3. EndOf(s) \in Nat /\ EndOf(s) > s
      <3>1. alloced[s] \in 1 .. NLINES
        BY ZenonT(30), <2>1, Basics
      <3> QED
        BY <2>1, <3>1 DEF EndOf
    <2>4. EndOf(s) = head \/ (EndOf(s) >= a /\ EndOf(s) < head)
      BY SMTT(30), <1>g, <1>16, <2>1, <2>2, <2>3
    <2> QED
      BY ZenonT(30), <1>11, <1>15, <2>2, <2>4
  <1>17. Tiling'
    <2>1. \A s \in starts' : alloced'[s] >= 1 /\ EndOf(s)' <= NLINES
      <3> SUFFICES ASSUME NEW s \in starts' PROVE alloced'[s] >= 1 /\ EndOf(s)' <= NLINES
        BY ZenonT(30)
      <3>1. s = 0 \/ s = head \/ (s # 0 /\ s # head)
        BY ZenonT(30)
      <3>2. alloced'[s] \in 1 .. NLINES
        BY ZenonT(30), <1>14
      <3>3. EndOf(s)' = a \/ EndOf(s)' = NLINES \/ EndOf(s)' \in 1 .. head
        BY ZenonT(30), <1>14, <3>1
      <3> QED
        BY <1>g, <3>2, <3>3
    <2>2. \A s \in starts' : size'[s] = SENTINEL => EndOf(s)' = NLINES
      <3> SUFFICES ASSUME NEW s \in starts', size'[s] = SENTINEL PROVE EndOf(s)' = NLINES
        BY ZenonT(30)
      <3>1. s # 0
        <4>1. size'[0] = EMPTY
          BY ZenonT(30), <1>b, <1>c, <1>h
        <4> QED
          BY <4>1
      <3>2. CASE s = head
        BY ZenonT(30), <1>14, <3>2
      <3>3. CASE s # head
        <4>1. s \in starts /\ size[s] = SENTINEL
          BY ZenonT(30), <1>b, <1>c, <1>10, <3>1, <3>3
        <4> QED
          BY ZenonT(30), <1>a, <1>14, <3>1, <3>3, <4>1 DEF Tiling
      <3> QED
        BY ZenonT(30), <3>2, <3>3
    <2>3. TiledTo(Lap)'
      <3>1. Lap' = a
        <4>1. head' = a
          BY ZenonT(30), <1>b
        <4> QED
          BY <1>g, <4>1 DEF Lap
      <3>2. \A s \in starts' : s < a => s = 0
        BY <1>g, <1>10
      <3>3. \A s \in starts' : s < a => EndOf(s)' <= a /\ ~(EndOf(s)' < a)
        BY <1>d, <1>14, <3>2
      <3> QED
        BY ZenonT(30), <3>1, <3>3 DEF TiledTo
    <2>4. \A s, t \in starts' : s < t => EndOf(s)' <= t
      <3> SUFFICES ASSUME NEW s \in starts', NEW t \in starts', s < t PROVE EndOf(s)' <= t
        BY ZenonT(30)
      <3>1. /\ s \in Lines /\ (s = 0 \/ s = head \/ (s \in starts /\ s >= a /\ s < head))
            /\ t \in Lines /\ (t = 0 \/ t = head \/ (t \in starts /\ t >= a /\ t < head))
        BY ZenonT(30), <1>10
      <3>2. t # 0 /\ s # head
        BY SMTT(30), <1>g, <3>1
      <3>3. CASE s = 0
        <4>1. EndOf(s)' = a
          BY ZenonT(30), <1>14, <3>3
        <4>2. t >= a
          BY <1>g, <3>1, <3>2
        <4> QED
          BY ZenonT(30), <4>1, <4>2, <1>d, <3>1
      <3>4. CASE s # 0
        <4>1. EndOf(s)' = EndOf(s) /\ EndOf(s) <= head
          BY <1>14, <3>2, <3>4
        <4>2. t # head => EndOf(s) <= t
          BY ZenonT(30), <1>a, <3>1, <3>2, <3>4 DEF Tiling
        <4> QED
          BY ZenonT(30), <4>1, <4>2
      <3> QED
        BY ZenonT(30), <3>3, <3>4
    <2> QED
      BY ZenonT(30), <1>15, <2>1, <2>2, <2>3, <2>4 DEF Tiling
  <1>18. Collectable'
    <2>1. ASSUME tail' < NLINES, tail' # head' PROVE tail' \in starts'
      <3>1. tail' = tail /\ tail \in Lines /\ tail > a
        <4>1. tail' = (IF a = tail THEN FULL ELSE tail) /\ head' = a
          BY ZenonT(30), <1>b
        <4>2. tail \in 1 .. NLINES \/ tail = FULL
          BY ZenonT(30), <1>c
        <4>3. a # tail
          BY <1>d, <2>1, <4>1
        <4> QED
          BY <1>1, <1>g, <2>1, <4>1, <4>2, <4>3
      <3>2. CASE tail = head
        BY ZenonT(30), <1>15, <3>1, <3>2
      <3>3. CASE tail # head
        <4>1. tail \in starts
          BY <1>a, <3>1, <3>3 DEF Collectable
        <4>2. tail < head /\ tail >= a
          BY <1>g, <1>1, <3>1, <3>3
        <4> QED
          BY ZenonT(30), <1>11, <3>1, <4>1, <4>2
      <3> QED
        BY ZenonT(30), <3>2, <3>3
    <2>2. ASSUME head' < tail', tail' < NLINES,
                 NEW s \in starts', s >= tail', EndOf(s)' < NLINES
          PROVE  EndOf(s)' \in starts'
      <3>1. tail' \in Lines /\ tail' > a /\ s \in Lines
        <4>1. tail' \in 1 .. NLINES \/ tail' = FULL
          BY ZenonT(30), <1>9 DEF TypeOK
        <4>2. s \in Lines
          BY ZenonT(30), <1>10
        <4>3. tail' \in Lines
          BY <2>2, <4>1
        <4>4. a < tail'
          BY ZenonT(30), <1>b, <2>2
        <4> QED
          BY ZenonT(30), <1>g, <4>2, <4>3, <4>4
      <3>2. s >= a
        BY SMTT(30), <1>d, <2>2, <3>1
      <3> QED
        BY ZenonT(30), <1>16, <2>2, <3>2
    <2> QED
      BY ZenonT(30), <2>1, <2>2 DEF Collectable, TiledFrom
  <1>19. Arc'
    <2>1. Rel(next) <= used /\ Rel(next) \in Lines /\ Rel(oldest) = 0
      <3>1. Rel(next) <= used /\ Rel(next) \in Lines
        BY ZenonT(30), <1>a, <1>c, <1>e DEF Arc
      <3>2. Rel(oldest) = 0
        BY <1>e DEF Rel
      <3> QED
        BY ZenonT(30), <3>1, <3>2
    <2>2. \A k \in Lines : Rel(k) <= used => k = head \/ InUse(k)
      <3> SUFFICES ASSUME NEW k \in Lines, Rel(k) <= used, ~InUse(k) PROVE k = head
        BY ZenonT(30)
      <3>1. Rel(k) = Rel(head)
        BY <1>e, <1>7 DEF InUse
      <3> QED
        BY ZenonT(30), <1>c, <3>1, RelInjective
    <2>3. \A k \in starts : InUse(k) => k \in starts'
      BY ZenonT(30), <1>b, <1>c, <1>6
    <2>4. oldest \in starts'
      <3>1. InUse(oldest) => oldest \in starts
        BY ZenonT(30), <1>a, <1>e, <2>1 DEF Arc, InUse
      <3>2. oldest = head \/ InUse(oldest)
        BY <1>e, <2>1, <2>2
      <3> QED
        BY ZenonT(30), <1>15, <2>3, <3>1, <3>2
    <2>5. next \in starts'
      <3>1. InUse(next) => next \in starts
        BY ZenonT(30), <1>a DEF Arc, InUse
      <3>2. next = head \/ InUse(next)
        BY ZenonT(30), <1>c, <2>1, <2>2
      <3> QED
        BY ZenonT(30), <1>15, <2>3, <3>1, <3>2
    <2>6. used' < NLINES /\ used' \in Nat /\ used' >= used
      BY SMTT(30), <1>g, <1>e, <1>2, <1>4
    <2>7. Rel(next)' = Rel(next)
      BY ZenonT(30), <1>b, <1>4 DEF Rel
    <2>8. TiledFrom(oldest)'
      <3> SUFFICES ASSUME NEW s \in starts', s >= oldest, EndOf(s)' < NLINES
                   PROVE  EndOf(s)' \in starts'
        BY ZenonT(30), <1>4 DEF TiledFrom
      <3>1. s \in Lines /\ s >= a
        BY SMTT(30), <1>d, <1>e, <1>2, <1>10
      <3> QED
        BY ZenonT(30), <1>16, <3>1
    <2>9. oldest' + used' = head' + NLINES
      BY ZenonT(30), <1>b, <1>4
    <2>10. Rel(next)' <= used'
      BY <1>e, <2>1, <2>6, <2>7
    <2> QED
      BY ZenonT(30), <1>b, <1>4, <2>4, <2>5, <2>6, <2>8, <2>9, <2>10 DEF Arc
  <1>20. Skip'
    <2>1. head \in starts' /\ size'[head] = SENTINEL /\ ready'[head] /\ head >= oldest
      BY ZenonT(30), <1>b, <1>c, <1>g, <1>1, <1>15
    <2>2. InUse(NLINES - 1)' /\ NLINES - head < a
      <3>1. NLINES - 1 \in Lines /\ NLINES - 1 >= oldest
        BY <1>g
      <3> QED
        BY ZenonT(30), <1>5, <1>1, <1>g, <3>1
    <2>3. Rel(next)' <= Rel(skipAt)'
      <3>1. Rel(next)' = Rel(next) /\ Rel(next) <= used
        BY ZenonT(30), <1>a, <1>b, <1>4 DEF Rel, Arc
      <3>2. Rel(skipAt)' = Rel(head)
        BY ZenonT(30), <1>b, <1>4 DEF Rel
      <3> QED
        BY ZenonT(30), <1>7, <3>1, <3>2
    <2>4. \A l \in head + 1 .. NLINES - 1 : ~ready'[l] /\ l \notin starts'
      <3> SUFFICES ASSUME NEW l \in head + 1 .. NLINES - 1 PROVE ~ready'[l] /\ l \notin starts'
        BY ZenonT(30)
      <3>1. l \in Lines /\ l # head /\ l # 0 /\ l > head
        BY <1>g
      <3>2. ~InUse(l)
        BY <1>5, <1>g, <3>1
      <3>3. ~ready[l]
        BY ZenonT(30), <1>a, <3>1, <3>2 DEF Flags
      <3>4. ready'[l] = ready[l]
        BY ZenonT(30), <1>b, <1>c, <3>1
      <3>5. l \notin starts'
        BY <1>10, <1>g, <3>1
      <3> QED
        BY ZenonT(30), <3>3, <3>4, <3>5
    <2>5. ASSUME NEW s \in starts', InUse(s)', size'[s] = SENTINEL PROVE s = head
      <3> SUFFICES ASSUME s # head PROVE FALSE
        BY ZenonT(30)
      <3>1. s # 0
        <4>1. size'[0] = EMPTY
          BY ZenonT(30), <1>b, <1>c, <1>h
        <4> QED
          BY <2>5, <4>1
      <3>2. s \in starts /\ s \in Lines /\ s >= a /\ s < head
        BY ZenonT(30), <1>10, <3>1
      <3>3. InUse(s)
        BY SMTT(30), <1>5, <1>g, <2>5, <3>2
      <3>4. size[s] = SENTINEL
        BY ZenonT(30), <1>6, <2>5, <3>2, <3>3
      <3>5. s = skipAt
        BY ZenonT(30), <1>a, <3>2, <3>3, <3>4 DEF Skip
      <3> QED
        BY <1>2, <3>2, <3>5
    <2> QED
      BY ZenonT(30), <1>b, <1>4, <2>1, <2>2, <2>3, <2>4, <2>5 DEF Skip
  <1>21. Flags'
    <2>1. Rel(next)' = Rel(next) /\ Rel(next) <= used /\ Rel(next) \in Lines
      BY ZenonT(30), <1>a, <1>b, <1>c, <1>e, <1>4 DEF Rel, Arc
    <2>2. \A s \in starts' : InUse(s)' => s = 0 \/ s = head \/ (s \in starts /\ s \in Lines /\ InUse(s))
      BY SMTT(30), <1>5, <1>10, <1>g
    <2>3. ready'[0] /\ ready'[head] /\ size'[0] = EMPTY /\ size'[head] = SENTINEL /\ 0 \in Lines
      BY ZenonT(30), <1>b, <1>c, <1>h
    <2>4. \A s \in starts' : InUse(s)' /\ Rel(s)' >= Rel(next)' => ready'[s]
      <3> SUFFICES ASSUME NEW s \in starts', InUse(s)', Rel(s)' >= Rel(next)' PROVE ready'[s]
        BY ZenonT(30)
      <3>1. CASE s \in starts /\ s \in Lines /\ InUse(s)
        <4>1. Rel(s)' = Rel(s)
          BY ZenonT(30), <1>5, <3>1
        <4>2. ready[s]
          BY ZenonT(30), <1>a, <2>1, <3>1, <4>1 DEF Flags
        <4> QED
          BY ZenonT(30), <1>6, <3>1, <4>2
      <3> QED
        BY ZenonT(30), <2>2, <2>3, <3>1
    <2>5. \A l \in Lines : ready'[l] => InUse(l)'
      <3> SUFFICES ASSUME NEW l \in Lines, ready'[l] PROVE InUse(l)'
        BY ZenonT(30)
      <3>1. l = 0 \/ l = head \/ ready[l]
        BY ZenonT(30), <1>b, <1>c
      <3>2. ready[l] => InUse(l)'
        BY ZenonT(30), <1>a, <1>6 DEF Flags
      <3>3. l = 0 \/ l = head => InUse(l)'
        BY <1>5, <1>g
      <3> QED
        BY ZenonT(30), <3>1, <3>2, <3>3
    <2>6. \A s \in starts' : InUse(s)' => (size'[s] = EMPTY <=> s \in unsent')
      <3> SUFFICES ASSUME NEW s \in starts', InUse(s)' PROVE size'[s] = EMPTY <=> s \in unsent'
        BY ZenonT(30)
      <3>1. CASE s \in starts /\ s \in Lines /\ InUse(s)
        <4>1. size'[s] = size[s] /\ (s \in unsent' <=> s \in unsent)
          BY ZenonT(30), <1>b, <1>6, <3>1
        <4> QED
          BY ZenonT(30), <1>a, <3>1, <4>1 DEF Flags
      <3>2. CASE s = 0
        BY ZenonT(30), <1>b, <2>3, <3>2
      <3>3. CASE s = head
        <4>1. ~InUse(head)
          BY <1>5, <1>g
        <4>2. head \notin unsent /\ head # 0
          BY ZenonT(30), <1>a, <1>1, <4>1 DEF Flags
        <4> QED
          BY ZenonT(30), <1>b, <2>3, <3>3, <4>2
      <3> QED
        BY ZenonT(30), <2>2, <3>1, <3>2, <3>3
    <2>7. \A s \in unsent' : s \in starts' /\ InUse(s)' /\ Rel(s)' >= Rel(next)'
      <3> SUFFICES ASSUME NEW s \in unsent' PROVE s \in starts' /\ InUse(s)' /\ Rel(s)' >= Rel(next)'
        BY ZenonT(30)
      <3>1. CASE s = 0
        <4>1. s \in starts' /\ InUse(s)' /\ Rel(s)' = NLINES - oldest
          BY SMTT(30), <1>5, <1>7, <1>15, <1>g, <3>1, <2>3
        <4> QED
          BY <1>g, <1>e, <1>2, <2>1, <4>1
      <3>2. CASE s \in unsent
        <4>1. s \in starts /\ s \in Lines /\ InUse(s) /\ Rel(s) >= Rel(next)
          BY ZenonT(30), <1>a, <1>c, <3>2 DEF Flags
        <4>2. s \in starts'
          BY ZenonT(30), <1>b, <1>6, <4>1
        <4> QED
          BY ZenonT(30), <1>5, <1>6, <2>1, <4>1, <4>2
      <3> QED
        BY ZenonT(30), <1>b, <3>1, <3>2
    <2>8. \A l \in owned' : InUse(l)'
      <3> SUFFICES ASSUME NEW l \in owned' PROVE InUse(l)'
        BY ZenonT(30)
      <3>1. l \in owned => InUse(l)'
        BY ZenonT(30), <1>a, <1>c, <1>6 DEF Flags
      <3>2. l \in chunk => l \in Lines
        BY <1>g DEF chunk
      <3>3. l \in chunk => InUse(l)'
        BY <1>3, <1>5, <1>g, <3>2
      <3> QED
        BY ZenonT(30), <1>b, <3>1, <3>3
    <2> QED
      BY ZenonT(30), <2>4, <2>5, <2>6, <2>7, <2>8 DEF Flags
  <1>22. ASSUME NEW i \in 1 .. Len(held)
         PROVE  held[i] \in Lines /\ held[i] \in starts /\ InUse(held[i])
    <2>1. held[i] \in Lines /\ held[i] \in starts /\ Rel(held[i]) < Rel(next)
      BY ZenonT(30), <1>a, <1>c DEF Holding, Received
    <2>2. Rel(next) <= used /\ Rel(next) \in Lines /\ Rel(held[i]) \in Lines
      BY ZenonT(30), <1>a, <1>c, <1>e, <2>1 DEF Arc
    <2>3. Rel(held[i]) < used
      BY <1>e, <2>1, <2>2
    <2> QED
      BY ZenonT(30), <2>1, <2>3 DEF InUse
  <1>23. Holding'
    <2>1. held' = held /\ next' = next /\ skipAt' = head /\ freeIdx' = freeIdx /\ freePos' = freePos
      BY ZenonT(30), <1>b
    <2>2. ASSUME NEW i \in 1 .. Len(held) PROVE held[i] \in starts' /\ held[i] # head
      BY ZenonT(30), <1>b, <1>6, <1>22
    <2>3. Received'
      <3> SUFFICES ASSUME NEW i \in 1 .. Len(held)
                   PROVE  /\ held[i] \in starts' /\ held[i] # head
                          /\ size'[held[i]] = SENT /\ Rel(held[i])' < Rel(next)'
        BY ZenonT(30), <2>1 DEF Received
      <3>1. Rel(held[i])' = Rel(held[i]) /\ Rel(next)' = Rel(next)
        BY ZenonT(30), <1>4, <2>1 DEF Rel
      <3> QED
        BY ZenonT(30), <1>a, <1>6, <1>22, <2>2, <3>1 DEF Holding, Received
    <2>4. Ordered'
      <3>1. \A i \in 1 .. Len(held) : Rel(held[i])' = Rel(held[i])
        BY ZenonT(30), <1>4, <2>1 DEF Rel
      <3> QED
        BY <1>a, <2>1, <3>1 DEF Holding, Ordered
    <2>5. ASSUME NEW i \in 1 .. Len(held), NEW t \in Lines, Follows(held[i], t)
          PROVE  \/ t = held[i] + alloced'[held[i]]
                 \/ t = 0 /\ held[i] + alloced'[held[i]] = NLINES
      <3>1. alloced'[held[i]] = alloced[held[i]]
        BY ZenonT(30), <1>6, <1>22
      <3> QED
        BY ZenonT(30), <1>2, <2>5, <3>1 DEF Follows, EndOf
    <2>6. Chained'
      <3>1. Len(held) \in Nat /\ (held # <<>> => Len(held) \in 1 .. Len(held))
        BY SMTT(30), <1>c
      <3>2. ASSUME NEW i \in 1 .. Len(held) - 1 PROVE Follows(held[i], held[i + 1])'
        <4>1. i \in 1 .. Len(held) /\ i + 1 \in 1 .. Len(held) /\ Follows(held[i], held[i + 1])
          BY <1>a, <3>1 DEF Holding, Chained
        <4>2. held[i + 1] \in Lines
          BY ZenonT(30), <1>22, <4>1
        <4> QED
          BY ZenonT(30), <2>1, <2>5, <4>1, <4>2 DEF Follows, EndOf
      <3>3. held # <<>> => Follows(held[Len(held)], next)'
        <4> SUFFICES ASSUME held # <<>> PROVE Follows(held[Len(held)], next)'
          BY ZenonT(30)
        <4>1. Follows(held[Len(held)], next)
          BY ZenonT(30), <1>a DEF Holding, Chained
        <4> QED
          BY ZenonT(30), <1>c, <2>1, <2>5, <3>1, <4>1 DEF Follows, EndOf
      <3> QED
        BY ZenonT(30), <2>1, <3>2, <3>3 DEF Chained
    <2>7. Clearing'
      <3>1. freeIdx \in {0, 1}
        BY ZenonT(30), <1>a DEF Holding, Clearing
      <3>2. ASSUME freeIdx = 1
            PROVE  /\ held # <<>> /\ freePos \in held[1] .. EndOf(held[1])' - 1
                   /\ \A l \in held[1] .. freePos - 1 : ~ready'[l]
        <4>1. /\ held # <<>> /\ freePos \in held[1] .. EndOf(held[1]) - 1
              /\ \A l \in held[1] .. freePos - 1 : ~ready[l]
          BY ZenonT(30), <1>a, <3>2 DEF Holding, Clearing
        <4>2. 1 \in 1 .. Len(held)
          BY <1>g, <4>1
        <4>3. held[1] \in starts /\ held[1] \in Lines /\ InUse(held[1])
          BY ZenonT(30), <1>22, <4>2
        <4>4. EndOf(held[1])' = EndOf(held[1])
          BY ZenonT(30), <1>6, <2>1, <4>3 DEF EndOf
        <4>5. \A l \in held[1] .. EndOf(held[1]) - 1 : l \in Lines /\ InUse(l)
          BY ZenonT(30), <4>3, ChunkInArc
        <4>6. EndOf(held[1]) \in 1 .. NLINES
          BY ZenonT(30), <4>3, Basics
        <4>7. \A l \in held[1] .. freePos - 1 : l \in held[1] .. EndOf(held[1]) - 1
          BY SMTT(30), <4>1, <4>3, <4>6
        <4>8. \A l \in held[1] .. freePos - 1 : ~ready'[l]
          BY ZenonT(30), <1>6, <4>1, <4>5, <4>7
        <4> QED
          BY ZenonT(30), <4>1, <4>4, <4>8
      <3> QED
        BY ZenonT(30), <2>1, <3>1, <3>2 DEF Clearing
    <2> QED
      BY ZenonT(30), <2>3, <2>4, <2>6, <2>7 DEF Holding
  <1>24. Sending' /\ NoOverwrite' /\ AllocationSucceeds'
    BY ZenonT(30), <1>b, <1>8 DEF Sending, NoOverwrite, AllocationSucceeds
  <1> QED
    BY ZenonT(30), <1>9, <1>17, <1>18, <1>19, <1>20, <1>21, <1>23, <1>24 DEF IInv

(* channel_allocate, where it need not collect first.                       *)
LEMMA AllocateIInv ==
  ASSUME Disciplined, IInv, NEW a \in MsgLines, Allocate(a)
  PROVE  IInv'
  <1>1. inflight + a <= Window
    BY ZenonT(30) DEF Allocate
  <1>2. CASE StartGc("gcFull", a) \/ StartGc("gcRetry", a)
    BY ZenonT(30), <1>1, <1>2, StartGcIInv
  <1>3. CASE FitsAtHead(a) /\ Claim(head, a)
    BY ZenonT(30), <1>1, <1>3, ClaimAtHeadIInv
  <1>4. CASE ~FitsAtHead(a) /\ FitsAtStart(a) /\ Claim(0, a)
    BY ZenonT(30), <1>1, <1>4, ClaimAtStartIInv
  <1> QED
    BY ZenonT(30), <1>2, <1>3, <1>4 DEF Allocate

(* channel_allocate after garbage collection.                               *)
LEMMA GcReturnIInv ==
  ASSUME Disciplined, IInv, GcReturn
  PROVE  IInv'
  <1>1. pc # "idle" /\ GcStops
    BY ZenonT(30) DEF GcReturn
  <1>2. req \in MsgLines /\ inflight + req <= Window
    BY ZenonT(30), <1>1 DEF IInv, Sending
  <1>3. FitsAtHead(req) \/ FitsAtStart(req)
    BY ZenonT(30), <1>1, GcMakesRoom
  <1>4. CASE FitsAtHead(req) /\ Claim(head, req)
    BY ZenonT(30), <1>2, <1>4, ClaimAtHeadIInv
  <1>5. CASE ~FitsAtHead(req) /\ FitsAtStart(req) /\ Claim(0, req)
    BY ZenonT(30), <1>2, <1>5, ClaimAtStartIInv
  <1> QED
    BY ZenonT(30), <1>3, <1>4, <1>5 DEF GcReturn

-----------------------------------------------------------------------------
(* The theorems.                                                             *)

(* Every step of sender and receiver preserves the invariant.               *)
LEMMA NextIInv == ASSUME Disciplined, IInv, [Next]_vars PROVE IInv'
  <1>1. CASE UNCHANGED vars
    <2>1. /\ UNCHANGED <<ring, unsent, receiver, history>>
          /\ UNCHANGED <<head, tail, next, size, alloced, ready, data, pc, req, freeing, freed, ret,
                         unsent, held, freeIdx, freePos, inflight, skipAt, starts, owned, clobbered>>
      BY ZenonT(30), <1>1 DEF vars, ring, sender, receiver, history
    <2>2. TypeOK' /\ Sending' /\ NoOverwrite' /\ AllocationSucceeds'
      BY ZenonT(30), <2>1 DEF IInv, TypeOK, Sending, NoOverwrite, AllocationSucceeds
    <2> QED
      BY ZenonT(30), <2>1, <2>2, RingFrame DEF IInv
  <1>2. CASE \E a \in MsgLines : Allocate(a)
    BY ZenonT(30), <1>2, AllocateIInv
  <1>3. CASE GcStep
    BY ZenonT(30), <1>3, GcStepIInv
  <1>4. CASE GcReturn
    BY ZenonT(30), <1>4, GcReturnIInv
  <1>5. CASE \E l \in Lines, p \in Payload, b \in BOOLEAN : Send(l, p, b)
    BY ZenonT(30), <1>5, SendIInv
  <1>6. CASE SkipSentinel
    BY ZenonT(30), <1>6, SkipSentinelIInv
  <1>7. CASE Receive
    BY ZenonT(30), <1>7, ReceiveIInv
  <1>8. CASE \E i \in 1 .. Len(held) : FreeBegin(i)
    BY ZenonT(30), <1>8, FreeBeginIInv
  <1>9. CASE FreeLine
    BY ZenonT(30), <1>9, FreeLineMidIInv, FreeLineLastIInv
  <1> QED
    BY ZenonT(30), <1>1, <1>2, <1>3, <1>4, <1>5, <1>6, <1>7, <1>8, <1>9 DEF Next, SenderStep, ReceiverStep

(* The invariant holds in every state of a Disciplined channel.             *)
LEMMA Invariance == ASSUME Disciplined PROVE Spec => []IInv
  <1>1. Init => IInv
    BY ZenonT(30), InitIInv
  <1>2. IInv /\ [Next]_vars => IInv'
    BY ZenonT(30), NextIInv
  <1> QED
    BY <1>1, <1>2, PTL DEF Spec

(* On a Disciplined channel every variable keeps its type: offsets stay in  *)
(* the ring, tail is a line boundary or FULL.                               *)
THEOREM TypeCorrect == ASSUME Disciplined PROVE Spec => []TypeOK
  <1>1. IInv => TypeOK
    BY ZenonT(30) DEF IInv
  <1> QED
    BY <1>1, Invariance, PTL

(* The sender never reuses a line before the receiver frees it, for every   *)
(* ring, message lengths and window that leave room for one more message:   *)
(* channel_allocate, _channel_gc and channel_free need no lock.             *)
THEOREM Safety == ASSUME Disciplined PROVE Spec => []NoOverwrite
  <1>1. IInv => NoOverwrite
    BY ZenonT(30) DEF IInv
  <1> QED
    BY <1>1, Invariance, PTL

(* channel_allocate never returns NULL on a Disciplined channel, so the     *)
(* assert in dispatchAllocate holds.                                        *)
THEOREM Allocation == ASSUME Disciplined PROVE Spec => []AllocationSucceeds
  <1>1. IInv => AllocationSucceeds
    BY ZenonT(30) DEF IInv
  <1> QED
    BY <1>1, Invariance, PTL

(* channel_receive never returns a message that the receiver still holds.   *)
THEOREM Delivery == ASSUME Disciplined PROVE Spec => []ReceivedOnce
  <1>1. IInv => ReceivedOnce
    <2> SUFFICES ASSUME IInv, NEW i \in 1 .. Len(held), NEW j \in 1 .. Len(held), held[i] = held[j]
                 PROVE  i = j
      BY ZenonT(30) DEF ReceivedOnce
    <2>1. \A k, m \in 1 .. Len(held) : k < m => Rel(held[k]) < Rel(held[m])
      BY ZenonT(30) DEF IInv, Holding, Ordered
    <2>2. held \in Seq(Lines)
      BY ZenonT(30) DEF IInv, TypeOK
    <2>3. Len(held) \in Nat /\ \A k \in 1 .. Len(held) : held[k] \in Lines
      BY <2>2, ChannelAssumption
    <2>4. Rel(held[i]) \in Lines
      BY ZenonT(30), <2>3, Basics
    <2>5. ~(Rel(held[i]) < Rel(held[i]))
      BY <2>4
    <2>6. ~(i < j) /\ ~(j < i)
      BY ZenonT(30), <2>1, <2>5
    <2> QED
      BY <2>3, <2>6
  <1> QED
    BY <1>1, Invariance, PTL
=============================================================================
