-------------------------- MODULE DispatcherProofs --------------------------
(***************************************************************************)
(* Proofs about Dispatcher, for every set of clients, backends, channels     *)
(* and transactions and for servers and applications: types, rings and the   *)
(* place of each request are preserved (TypeStep, RingsStep, RequestsStep),  *)
(* transactions stay with their threads (OwnedStep), and what follows from   *)
(* the invariant of DispatcherInv.                                           *)
(***************************************************************************)
EXTENDS DispatcherInv, WellFoundedInduction, TLAPS

-----------------------------------------------------------------------------
(* Facts about the data.                                                      *)

LEMMA NatMin ==
    ASSUME NEW S, S \subseteq Nat, S # {}
    PROVE  \E x \in S : \A y \in S : x <= y
<1> DEFINE Lt == {ss \in Nat \X Nat : ss[1] < ss[2]}
<1>1. IsWellFoundedOn(Lt, Nat)
    BY NatLessThanWellFounded, Zenon DEF OpToRel
<1>2. PICK x \in S : \A y \in S : ~(<<y, x>> \in Lt)
  <2> HIDE DEF Lt
  <2> QED
    BY ZenonT(30), <1>1, WFMin
<1>3. \A y \in S : ~(y < x)
    BY ZenonT(30), <1>2
<1> QED
    BY <1>3

LEMMA OneElement ==
    ASSUME NEW e
    PROVE  /\ <<e>> # <<>> /\ Len(<<e>>) = 1 /\ Head(<<e>>) = e /\ Tail(<<e>>) = <<>>
           /\ Append(<<>>, e) = <<e>>
OBVIOUS

LEMMA TailElement ==
    ASSUME NEW S, NEW s \in Seq(S), s # <<>>, NEW i \in 1..Len(Tail(s))
    PROVE  i + 1 \in 1..Len(s) /\ Tail(s)[i] = s[i + 1]
OBVIOUS

LEMMA CurKinds ==
    ASSUME TypeOK
    PROVE  /\ cur.at \in {"main", "handler", "drain", "wait"}
           /\ Busy => cur.h \in Handlers
           /\ ~Busy => cur = Main
           /\ cur.at = "wait" => cur = Waiting(cur.h, cur.trans, cur.count)
           /\ cur.at = "wait" => cur.trans \in Trans /\ cur.count \in Nat
BY DEF TypeOK, CurType, Busy, Main, Waiting

\* channel_select returns a channel that has a message.
LEMMA SelectedReady ==
    ASSUME TypeOK, Ready # {}
    PROVE  Selected \in Ready
<1>1. PICK k \in Ready : TRUE
    BY ZenonT(30)
<1>2. Len(Chans) \in Nat \ {0}
    BY <1>1, DispatcherAssumption DEF Ready
<1>3. \A j \in Ready : Distance(j) \in Nat
    BY <1>2 DEF Ready, Distance, TypeOK
<1>4. PICK d \in {Distance(j) : j \in Ready} : \A e \in {Distance(j) : j \in Ready} : d <= e
    BY ZenonT(30), <1>1, <1>3, NatMin
<1> QED
    BY ZenonT(30), <1>4 DEF Selected

\* What a poll takes from a ring.
LEMMA Polled ==
    ASSUME TypeOK, Rings, Ready # {}
    PROVE  /\ From \in Peers
           /\ ring[From] \in Seq(Messages) /\ ring[From] # <<>>
           /\ Message \in Messages
           /\ Message.kind = "request" => From \in Clients /\ ring[From] = <<Question>>
           /\ Message.kind = "response" =>
                  From \in Backends /\ Message.trans \in Trans /\ Message = Response(Message.trans)
           /\ From \in Clients => Message = Question
<1>1. Selected \in Ready
    BY ZenonT(30), SelectedReady
<1>2. From \in Peers /\ ring[From] # <<>>
    BY <1>1, DispatcherAssumption DEF Ready, From, Peers
<1>3. ring[From] \in Seq(Messages)
    BY ZenonT(30), <1>2 DEF TypeOK
<1>4. Message \in Messages /\ Message = ring[From][1] /\ 1 \in 1..Len(ring[From])
    BY <1>2, <1>3 DEF Message
<1>5. CASE From \in Clients
  <2>1. ring[From] = <<Question>>
    BY ZenonT(30), <1>2, <1>5 DEF Rings
  <2> QED
    BY <1>2, <1>3, <1>4, <1>5, <2>1 DEF Question
<1>6. CASE From \in Backends
  <2>1. Message.kind = "note" \/ \E t \in Trans : Message = Response(t)
    BY ZenonT(30), <1>4, <1>6 DEF Rings
  <2>2. From \notin Clients
    BY ZenonT(30), <1>6, DispatcherAssumption
  <2>3. CASE Message.kind = "note"
    BY <1>2, <1>3, <1>4, <2>2, <2>3
  <2>4. ASSUME NEW t \in Trans, Message = Response(t)
        PROVE  Message.kind = "response" /\ Message.trans = t
    BY ZenonT(30), <2>4 DEF Response
  <2> QED
    BY <1>2, <1>3, <1>4, <1>6, <2>1, <2>2, <2>3, <2>4
<1> QED
    BY ZenonT(30), <1>2, <1>5, <1>6 DEF Peers

-----------------------------------------------------------------------------
(* Type correctness.                                                          *)

LEMMA CurMade ==
    ASSUME NEW h \in Handlers
    PROVE  /\ Main \in CurType /\ InHandler(h) \in CurType /\ Draining(h) \in CurType
           /\ \A t : Received(h, t) \in CurType
           /\ \A t \in Trans, n \in Nat : Waiting(h, t, n) \in CurType
<1>1. \A t : [h EXCEPT !.out = @ \ {t}] \in Handlers
    BY ZenonT(30) DEF Handlers
<1> QED
    BY ZenonT(30), <1>1 DEF CurType, InHandler, Draining, Received, Waiting

LEMMA RingChanges ==
    ASSUME TypeOK, NEW p \in Peers, NEW s \in Seq(Messages), ring' = [ring EXCEPT ![p] = s]
    PROVE  /\ ring' \in [Peers -> Seq(Messages)]
           /\ ring'[p] = s
           /\ \A q \in Peers : q # p => ring'[q] = ring[q]
BY ZenonT(30) DEF TypeOK

LEMMA RingGrows ==
    ASSUME TypeOK, NEW p \in Peers, NEW m \in Messages, ring' = [ring EXCEPT ![p] = Append(@, m)]
    PROVE  /\ ring' \in [Peers -> Seq(Messages)]
           /\ ring'[p] = Append(ring[p], m)
           /\ \A q \in Peers : q # p => ring'[q] = ring[q]
<1>1. Append(ring[p], m) \in Seq(Messages)
    BY DEF TypeOK
<1> QED
    BY ZenonT(30), <1>1, RingChanges

LEMMA PollTypes ==
    ASSUME TypeOK, Rings, PollMessage
    PROVE  /\ ring' \in [Peers -> Seq(Messages)]
           /\ pos' \in 0..Len(Chans)
<1>1. Tail(ring[From]) \in Seq(Messages)
    BY Polled DEF PollMessage
<1>2. Selected \in 1..Len(Chans)
    BY SelectedReady DEF PollMessage, Ready
<1>3. From \in Peers
    BY ZenonT(30), Polled DEF PollMessage
<1>4. pos' \in 0..Len(Chans)
    BY <1>2, DispatcherAssumption DEF PollMessage
<1> QED
    BY ZenonT(30), <1>1, <1>3, <1>4, RingChanges DEF PollMessage

\* While a thread waits it never wakes another, and takes all that it has put off.
LEMMA OwnFacts ==
    ASSUME TypeOK, Sleepers, WaitOwn
    PROVE  /\ cur' = Received(cur.h, cur.trans)
           /\ resps' = IF DOMAIN asleep = {} THEN <<>> ELSE resps
           /\ rmap' = IF DOMAIN asleep = {} THEN rmap \cup Range(resps) ELSE rmap
           /\ UNCHANGED <<asleep, reqs>> /\ used' \in Int
<1> DEFINE Wakes == {i \in 1..cur.count : resps[i] \in DOMAIN asleep}
<1>1. resps \in Seq(Trans) /\ DOMAIN resps = 1..Len(resps) /\ Len(resps) \in Nat
    BY DEF TypeOK
<1>2. CASE DOMAIN asleep = {}
  <2>1. cur.count = Len(resps)
    BY ZenonT(30), <1>2 DEF Sleepers, WaitOwn
  <2>2. Wakes = {}
    BY ZenonT(30), <1>2
  <2>3. resps' = SubSeq(resps, Len(resps) + 1, Len(resps))
        /\ rmap' = rmap \cup {resps[i] : i \in 1..Len(resps)}
        /\ cur' = Received(cur.h, cur.trans) /\ UNCHANGED <<asleep, reqs>>
    BY <2>1, <2>2 DEF WaitOwn
  <2>4. SubSeq(resps, Len(resps) + 1, Len(resps)) = <<>>
    BY <1>1
  <2>5. used' \in Int
    BY DEF WaitOwn, TypeOK, Allocated
  <2> QED
    BY ZenonT(30), <1>1, <1>2, <2>3, <2>4, <2>5 DEF Range
<1>3. CASE DOMAIN asleep # {}
  <2>1. cur.count = 0
    BY ZenonT(30), <1>3 DEF Sleepers, WaitOwn
  <2>2. Wakes = {}
    BY <2>1
  <2>3. resps' = SubSeq(resps, 1, Len(resps))
        /\ rmap' = rmap \cup {resps[i] : i \in 1..0}
        /\ cur' = Received(cur.h, cur.trans) /\ UNCHANGED <<asleep, reqs>>
    BY <2>1, <2>2 DEF WaitOwn
  <2>4. SubSeq(resps, 1, Len(resps)) = resps
    BY <1>1
  <2>5. used' \in Int
    BY DEF WaitOwn, TypeOK, Allocated
  <2> QED
    BY <1>3, <2>3, <2>4, <2>5
<1> QED
    BY ZenonT(30), <1>2, <1>3

LEMMA ProcessTypes ==
    ASSUME TypeOK, Rings, PollMessage, ProcessMessage
    PROVE  /\ reqs' \in Seq(Clients) /\ resps' \in Seq(Trans) /\ rmap' \subseteq Trans
           /\ used' \in Int
<1>1. reqs' \in Seq(Clients)
    BY Polled DEF PollMessage, ProcessMessage, TypeOK
<1>2. resps' \in Seq(Trans)
    BY Polled DEF PollMessage, ProcessMessage, TypeOK
<1> QED
    BY <1>1, <1>2 DEF ProcessMessage, TypeOK, Allocated

LEMMA TypeInit == Init => TypeOK
<1> SUFFICES ASSUME Init
             PROVE  TypeOK
    BY ZenonT(30)
<1>1. Application \in Handlers
    BY DispatcherAssumption DEF Application, Handlers
<1>2. cur \in CurType
    BY ZenonT(30), <1>1, CurMade DEF Init
<1>3. reqs \in Seq(Clients) /\ resps \in Seq(Trans) /\ ring \in [Peers -> Seq(Messages)]
    BY DEF Init
<1>4. DOMAIN asleep = {}
    BY DEF Init
<1>5. pos \in 0..Len(Chans) /\ used \in Int
    BY DispatcherAssumption DEF Init
<1> QED
    BY ZenonT(30), <1>2, <1>3, <1>4, <1>5 DEF Init, TypeOK

LEMMA TypeStep == ASSUME TypeOK, Rings, Shape, Sleepers, [Next]_vars PROVE TypeOK'
<1> USE DispatcherAssumption
<1>1. ASSUME NEW c \in Clients, Ask(c) PROVE TypeOK'
  <2>1. ring' \in [Peers -> Seq(Messages)]
    <3>1. Question \in Messages
      BY ZenonT(30) DEF Messages, Question
    <3> QED
      BY ZenonT(30), <1>1, <3>1, RingGrows DEF Ask, Peers, Question
  <2> QED
    BY ZenonT(30), <1>1, <2>1 DEF TypeOK, Ask, queues
<1>2. ASSUME NEW c \in Clients, Take(c) PROVE TypeOK'
    BY <1>2 DEF TypeOK, Take, queues
<1>3. ASSUME NEW b \in Backends, NEW t \in Trans, Answer(b, t) PROVE TypeOK'
  <2>1. ring' \in [Peers -> Seq(Messages)]
    <3>1. Response(t) \in Messages
      BY DEF Messages, Response
    <3> QED
      BY ZenonT(30), <1>3, <3>1, RingGrows DEF Answer, Peers, Response
  <2> QED
    BY <1>3, <2>1 DEF TypeOK, Answer, queues
<1>4. ASSUME NEW b \in Backends, Notify(b) PROVE TypeOK'
  <2>1. ring' \in [Peers -> Seq(Messages)]
    <3>1. [kind |-> "note", trans |-> 0] \in Messages
      BY DEF Messages
    <3> QED
      BY ZenonT(30), <1>4, <3>1, RingGrows DEF Notify, Peers
  <2> QED
    BY <1>4, <2>1 DEF TypeOK, Notify, queues
<1>5. CASE MainRequest
  <2>1. Head(reqs) \in Clients /\ Tail(reqs) \in Seq(Clients)
    BY <1>5 DEF TypeOK, MainRequest
  <2>2. [Application EXCEPT !.from = Head(reqs)] \in Handlers
    BY <2>1 DEF Application, Handlers
  <2>3. cur' \in CurType /\ client' \in [Clients -> {"idle", "asked", "answered", "forgotten"}]
    BY ZenonT(30), <1>5, <2>1, <2>2, CurMade DEF TypeOK, MainRequest
  <2> QED
    BY <1>5, <2>1, <2>3 DEF TypeOK, MainRequest
<1>6. CASE MainResponse
  <2>1. Head(resps) \in Trans /\ Tail(resps) \in Seq(Trans)
    BY <1>6 DEF TypeOK, MainResponse
  <2>2. /\ cur' \in CurType /\ rmap' \subseteq Trans /\ used' \in Int
        /\ DOMAIN asleep' \subseteq Trans /\ \A t \in DOMAIN asleep' : asleep'[t] \in Handlers
    BY SMTT(30), <1>6, <2>1, CurMade DEF TypeOK, MainResponse, Restrict
  <2> QED
    BY ZenonT(30), <1>6, <2>1, <2>2 DEF TypeOK, MainResponse, peers
<1>7. CASE MainPoll
  <2>1. CASE PollNothing
    <3>1. UNCHANGED queues
      BY <1>7, <2>1 DEF MainPoll, PollNothing, PollMessage
    <3> QED
      BY <1>7, <2>1, <3>1 DEF TypeOK, MainPoll, PollNothing, Allocated, queues, peers
  <2>2. CASE PollMessage /\ ProcessMessage /\ UNCHANGED asleep
    BY ZenonT(30), <1>7, <2>2, PollTypes, ProcessTypes DEF TypeOK, MainPoll, PollMessage
  <2> QED
    BY <1>7, <2>1, <2>2 DEF MainPoll
<1>8. ASSUME NEW b \in Backends, Call(b) PROVE TypeOK'
  <2> DEFINE t == CHOOSE u \in Trans \ InUse : \A v \in Trans \ InUse : u <= v
  <2>1. t \in Trans \ InUse
    BY ZenonT(30), <1>8, NatMin DEF Call
  <2>2. [cur.h EXCEPT !.out = @ \cup {t}, !.calls = @ + 1] \in Handlers
    <3>1. cur.h \in Handlers /\ cur.h.calls + 1 \in 0..MaxCalls
      BY <1>8, CurKinds DEF Call, Handlers, Busy
    <3> HIDE DEF t
    <3> QED
      BY ZenonT(30), <2>1, <3>1 DEF Handlers
  <2>3. cur' \in CurType /\ asked' \in [Backends -> SUBSET Trans]
    <3> HIDE DEF t
    <3> QED
      BY ZenonT(30), <1>8, <2>1, <2>2, CurMade DEF TypeOK, Call, t
  <2> QED
    BY ZenonT(30), <1>8, <2>3 DEF TypeOK, Call, queues
<1>9. ASSUME NEW t \in Trans, Receive(t) PROVE TypeOK'
  <2>1. cur' \in CurType
    BY <1>9, CurKinds, CurMade DEF Receive, Busy
  <2> QED
    <3>1. rmap' \subseteq Trans /\ used' \in Int
      <4>1. rmap \subseteq Trans /\ used \in Int
        BY DEF TypeOK
      <4>2. CASE t \in rmap
        <5>1. rmap' = rmap \ {t} /\ used' = used - 1
          BY <1>9, <4>2 DEF Receive
        <5> QED
          BY <4>1, <5>1
      <4>3. CASE t \notin rmap
        <5>1. UNCHANGED <<rmap, used>>
          BY ZenonT(30), <1>9, <4>3 DEF Receive, queues
        <5> QED
          BY <4>1, <5>1
      <4> QED
        BY <4>2, <4>3
    <3>2. UNCHANGED <<setup, client, asked, ring, pos, reqs, resps, asleep, spare>>
      BY <1>9 DEF Receive, peers
    <3> QED
      BY <2>1, <3>1, <3>2 DEF TypeOK
<1>10. CASE Return
  <2>1. Application \in Handlers
    BY DEF Application, Handlers
  <2>2. cur' \in CurType /\ client' \in [Clients -> {"idle", "asked", "answered", "forgotten"}]
    BY <1>10, <2>1, CurMade DEF TypeOK, Return
  <2> QED
    BY <1>10, <2>2 DEF TypeOK, Return, queues
<1>11. CASE CheckNotifications
  <2>1. cur' \in CurType
    BY <1>11, CurKinds, CurMade DEF CheckNotifications, Busy
  <2> QED
    BY <1>11, <2>1 DEF TypeOK, CheckNotifications, queues, peers
<1>12. CASE Drain
  <2>1. CASE PollNothing /\ cur' = InHandler(cur.h) /\ UNCHANGED queues
    <3>1. cur' \in CurType
      BY <1>12, <2>1, CurKinds, CurMade DEF Drain, Busy
    <3> QED
      BY <1>12, <2>1, <3>1 DEF TypeOK, PollNothing, Allocated, queues, peers
  <2>2. CASE PollMessage /\ ProcessMessage /\ UNCHANGED <<asleep, cur>>
    BY ZenonT(30), <2>2, PollTypes, ProcessTypes DEF TypeOK, PollMessage
  <2> QED
    BY <1>12, <2>1, <2>2 DEF Drain
<1>13. ASSUME cur.at = "wait", Sleep
       PROVE  /\ cur' \in CurType /\ DOMAIN asleep' \subseteq Trans
              /\ \A t \in DOMAIN asleep' : asleep'[t] \in Handlers
  <2>1. cur.trans \in Trans /\ cur.h \in Handlers
    BY <1>13, CurKinds DEF Busy
  <2> QED
    BY <1>13, <2>1, CurMade DEF TypeOK, Sleep
<1>14. CASE WaitNothing
    BY <1>13, <1>14 DEF TypeOK, WaitNothing, PollNothing, Allocated, peers
<1>15. CASE WaitOther
  <2>1. cur.h \in Handlers /\ cur.trans \in Trans /\ cur.count \in Nat
        /\ cur = Waiting(cur.h, cur.trans, cur.count)
    BY <1>15, CurKinds DEF WaitOther, Busy
  <2>2. \A n \in Nat : [cur EXCEPT !.count = n] = Waiting(cur.h, cur.trans, n)
    BY <2>1 DEF Waiting
  <2>3. /\ cur' \in CurType /\ DOMAIN asleep' \subseteq Trans
        /\ \A t \in DOMAIN asleep' : asleep'[t] \in Handlers
    <3>1. CASE Sleep
      BY <1>13, <1>15, <3>1 DEF WaitOther
    <3>2. CASE /\ cur' = [cur EXCEPT !.count = IF Message.kind = "note" THEN @ ELSE @ + 1]
               /\ UNCHANGED asleep
      <4> DEFINE n == IF Message.kind = "note" THEN cur.count ELSE cur.count + 1
      <4>1. n \in Nat
        BY <2>1
      <4>2. cur' = [cur EXCEPT !.count = n]
        BY <2>1, <3>2 DEF Waiting
      <4>3. cur' = Waiting(cur.h, cur.trans, n)
        BY <2>2, <4>1, <4>2
      <4> HIDE DEF n
      <4>4. cur' \in CurType
        BY ZenonT(30), <2>1, <4>1, <4>3, CurMade
      <4> QED
        BY <3>2, <4>4 DEF TypeOK
    <3> QED
      BY <1>15, <3>1, <3>2 DEF WaitOther
  <2> QED
    BY ZenonT(30), <1>15, <2>3, PollTypes, ProcessTypes DEF TypeOK, WaitOther, PollMessage
<1>16. CASE WaitOwn
  <2>1. cur' \in CurType
    <3>1. cur.h \in Handlers
      BY ZenonT(30), <1>16, CurKinds DEF WaitOwn, Busy
    <3>2. cur' = Received(cur.h, cur.trans)
      BY ZenonT(30), <1>16, OwnFacts
    <3> QED
      BY ZenonT(30), <3>1, <3>2, CurMade
  <2>2. resps' \in Seq(Trans) /\ rmap' \subseteq Trans
    <3>1. Range(resps) \subseteq Trans
      BY DEF TypeOK, Range
    <3>2. /\ resps' = <<>> \/ resps' = resps
          /\ rmap' = rmap \/ rmap' = rmap \cup Range(resps)
      BY ZenonT(30), <1>16, OwnFacts
    <3>3. <<>> \in Seq(Trans) /\ resps \in Seq(Trans) /\ rmap \subseteq Trans
      BY DEF TypeOK
    <3> QED
      BY ZenonT(30), <3>1, <3>2, <3>3
  <2> QED
    BY ZenonT(30), <1>16, <2>1, <2>2, OwnFacts, PollTypes DEF TypeOK, WaitOwn, PollMessage
<1>17. CASE UNCHANGED vars
    BY <1>17 DEF TypeOK, vars
<1> QED
    BY ZenonT(30), <1>1, <1>2, <1>3, <1>4, <1>5, <1>6, <1>7, <1>8, <1>9, <1>10, <1>11, <1>12, <1>14, <1>15,
       <1>16, <1>17 DEF Next, Process

-----------------------------------------------------------------------------
(* Requests.                                                                  *)

\* The threads that the constructors of cur make.
LEMMA CurFields ==
    ASSUME NEW h \in Handlers, NEW t
    PROVE  /\ InHandler(h).at = "handler" /\ InHandler(h).h = h
           /\ Draining(h).at = "drain" /\ Draining(h).h = h
           /\ Received(h, t).at = "handler"
           /\ Received(h, t).h.from = h.from /\ Received(h, t).h.out = h.out \ {t}
           /\ \A n : Waiting(h, t, n).at = "wait" /\ Waiting(h, t, n).h = h
                     /\ Waiting(h, t, n).trans = t /\ Waiting(h, t, n).count = n
           /\ Main.at = "main"
BY DEF InHandler, Draining, Received, Waiting, Main, Handlers

LEMMA RingsKept ==
    ASSUME Rings, UNCHANGED ring
    PROVE  Rings'
BY DEF Rings

LEMMA PollRings ==
    ASSUME TypeOK, Rings, PollMessage
    PROVE  /\ Rings'
           /\ \A c \in Clients : ring'[c] = IF c = From THEN <<>> ELSE ring[c]
           /\ UNCHANGED <<setup, client, asked>>
<1>1. /\ From \in Peers /\ ring[From] \in Seq(Messages) /\ ring[From] # <<>>
      /\ From \in Clients => ring[From] = <<Question>>
    BY Polled DEF PollMessage, Rings
<1>2. Tail(ring[From]) \in Seq(Messages)
    BY <1>1
<1>3. ring'[From] = Tail(ring[From]) /\ \A q \in Peers : q # From => ring'[q] = ring[q]
    BY ZenonT(30), <1>1, <1>2, RingChanges DEF PollMessage
<1>4. \A c \in Clients : ring'[c] = IF c = From THEN <<>> ELSE ring[c]
    BY ZenonT(30), <1>1, <1>3, OneElement DEF Peers
<1>5. ASSUME NEW b \in Backends, NEW i \in 1..Len(ring'[b])
      PROVE  ring'[b][i].kind = "note" \/ \E t \in Trans : ring'[b][i] = Response(t)
  <2>1. CASE b = From
    <3>1. i + 1 \in 1..Len(ring[b]) /\ ring'[b][i] = ring[b][i + 1]
      BY ZenonT(30), <1>1, <1>3, <1>5, <2>1, TailElement
    <3> QED
      BY <3>1 DEF Rings
  <2>2. CASE b # From
    BY <1>3, <2>2 DEF Rings, Peers
  <2> QED
    BY <2>1, <2>2
<1> QED
    BY ZenonT(30), <1>4, <1>5 DEF Rings, PollMessage

LEMMA RingsStep == ASSUME TypeOK, Rings, Requests, [Next]_vars PROVE Rings'
<1>1. ASSUME NEW c \in Clients, Ask(c) PROVE Rings'
  <2>1. Question \in Messages /\ c \in Peers
    BY DEF Question, Messages, Peers
  <2>2. ring'[c] = Append(ring[c], Question) /\ \A q \in Peers : q # c => ring'[q] = ring[q]
    BY ZenonT(30), <1>1, <2>1, RingGrows DEF Ask, Question
  <2>3. ring[c] = <<>>
    BY <1>1 DEF Ask, Requests
  <2>4. ring'[c] = <<Question>>
    BY <2>2, <2>3, OneElement
  <2>5. \A d \in Clients : ring'[d] \in {<<>>, <<Question>>}
    BY ZenonT(30), <2>2, <2>4 DEF Rings, Peers
  <2>6. \A b \in Backends : ring'[b] = ring[b]
    BY <2>2, DispatcherAssumption DEF Peers
  <2> QED
    BY SMTT(30), <2>5, <2>6 DEF Rings
<1>2. ASSUME NEW b \in Backends, NEW m \in Messages, ring' = [ring EXCEPT ![b] = Append(@, m)],
             m.kind = "note" \/ \E t \in Trans : m = Response(t)
      PROVE  Rings'
  <2>1. /\ ring[b] \in Seq(Messages)
        /\ ring'[b] = Append(ring[b], m) /\ \A q \in Peers : q # b => ring'[q] = ring[q]
    BY <1>2, RingGrows DEF Peers, TypeOK
  <2>2. \A c \in Clients : ring'[c] = ring[c]
    BY <2>1, DispatcherAssumption DEF Peers
  <2>3. ASSUME NEW d \in Backends, NEW i \in 1..Len(ring'[d])
        PROVE  ring'[d][i].kind = "note" \/ \E t \in Trans : ring'[d][i] = Response(t)
    <3>1. CASE d = b /\ i = Len(ring[b]) + 1
      BY SMTT(30), <1>2, <2>1, <3>1
    <3>2. CASE d = b /\ i # Len(ring[b]) + 1
      <4>1. i \in 1..Len(ring[b]) /\ ring'[d][i] = ring[b][i]
        BY <2>1, <2>3, <3>2
      <4> QED
        BY <4>1 DEF Rings
    <3>3. CASE d # b
      BY SMTT(30), <2>1, <3>3 DEF Rings, Peers
    <3> QED
      BY <3>1, <3>2, <3>3
  <2> QED
    BY <2>2, <2>3 DEF Rings
<1>3. ASSUME NEW b \in Backends, NEW t \in Trans, Answer(b, t) PROVE Rings'
  <2>1. Response(t) \in Messages
    BY DEF Response, Messages
  <2> QED
    BY ZenonT(30), <1>2, <1>3, <2>1 DEF Answer, Response
<1>4. ASSUME NEW b \in Backends, Notify(b) PROVE Rings'
  <2>1. [kind |-> "note", trans |-> 0] \in Messages
    BY DEF Messages
  <2> QED
    BY ZenonT(30), <1>2, <1>4, <2>1 DEF Notify
<1>5. CASE PollMessage
    BY <1>5, PollRings
<1>6. CASE UNCHANGED ring
    BY <1>6, RingsKept
<1>7. ASSUME Process
      PROVE  PollMessage \/ UNCHANGED ring
    BY ZenonT(30), <1>7 DEF Process, MainRequest, MainResponse, MainPoll, Call, Receive, Return,
                CheckNotifications, Drain, WaitNothing, WaitOther, WaitOwn, PollNothing, peers
<1> QED
    BY <1>1, <1>3, <1>4, <1>5, <1>6, <1>7 DEF Next, Take, vars

\* A step that leaves requests where they are.
LEMMA RequestsFrame ==
    ASSUME Shape, Requests, UNCHANGED <<setup, client, reqs, asleep>>,
           \A c \in Clients : ring'[c] = ring[c],
           Busy' <=> Busy, Busy => cur'.h.from = cur.h.from,
           cur'.at = "drain" => ~setup.running /\ cur'.h.out = {}
    PROVE  Shape' /\ Requests'
<1>1. Shape'
    BY DEF Shape
<1>2. \A c : Held(c) => Held(c)'
    BY DEF Held
<1> QED
    BY <1>1, <1>2 DEF Requests

\* A message received is a request, now pending, or leaves requests where they are.
LEMMA PollQueues ==
    ASSUME TypeOK, Rings, reqs = <<>>, PollMessage, ProcessMessage
    PROVE  \/ reqs' = <<>> /\ \A c \in Clients : ring'[c] = ring[c]
           \/ /\ Message.kind = "request" /\ UNCHANGED resps
              /\ From \in Clients /\ ring[From] # <<>>
              /\ reqs' = <<From>> /\ ring'[From] = <<>>
              /\ \A c \in Clients : c # From => ring'[c] = ring[c]
<1>1. CASE Message.kind = "request"
  <2>1. From \in Clients /\ ring[From] # <<>>
    BY <1>1, Polled DEF PollMessage
  <2>2. reqs' = <<From>> /\ UNCHANGED resps
    BY <1>1, OneElement DEF ProcessMessage
  <2> QED
    BY <1>1, <2>1, <2>2, PollRings
<1>2. CASE Message.kind # "request"
  <2>1. From \notin Clients
    BY <1>2, Polled DEF PollMessage, Question
  <2> QED
    BY <1>2, <2>1, PollRings DEF ProcessMessage
<1> QED
    BY <1>1, <1>2

LEMMA SleepRequests ==
    ASSUME TypeOK, Shape, Requests, setup.running, cur.at = "wait", Sleep, UNCHANGED <<setup, client>>,
           \/ reqs' = <<>> /\ \A c \in Clients : ring'[c] = ring[c]
           \/ /\ From \in Clients /\ ring[From] # <<>>
              /\ reqs' = <<From>> /\ ring'[From] = <<>>
              /\ \A c \in Clients : c # From => ring'[c] = ring[c]
    PROVE  Shape' /\ Requests'
<1>1. cur' = Main /\ ~Busy' /\ Busy /\ cur'.at # "drain"
    BY DEF Sleep, Main, Busy
<1>2. /\ DOMAIN asleep' = DOMAIN asleep \cup {cur.trans}
      /\ asleep'[cur.trans] = cur.h
      /\ \A t \in DOMAIN asleep : t # cur.trans => asleep'[t] = asleep[t]
    BY DEF Sleep
<1>3. reqs' = <<>> \/ \E c \in Clients : reqs' = <<c>>
    OBVIOUS
<1>4. Shape'
    BY <1>1, <1>2, <1>3 DEF Shape
<1>5. \A c : Held(c) => Held(c)' /\ reqs' # <<c>>
    BY OneElement DEF Held
<1>6. Held(cur.h.from) /\ \A t \in DOMAIN asleep : Held(asleep[t].from) /\ cur.h.from # asleep[t].from
    BY <1>1 DEF Requests
<1>7. \A t \in DOMAIN asleep' : Held(asleep'[t].from)
    BY <1>2, <1>6
<1>8. \A t, u \in DOMAIN asleep' : asleep'[t].from = asleep'[u].from => t = u
    BY <1>2, <1>6 DEF Requests
<1>9. \A c \in Clients : /\ ring'[c] # <<>> => client'[c] = "asked"
                         /\ reqs' = <<c>> => Held(c)'
    BY OneElement DEF Requests, Held
<1> QED
    BY <1>1, <1>4, <1>5, <1>7, <1>8, <1>9 DEF Requests

LEMMA RequestsStep == ASSUME IInv, [Next]_vars PROVE Shape' /\ Requests'
<1> USE DispatcherAssumption
<1>0. TypeOK /\ Rings /\ Shape /\ Requests /\ Sleepers
    BY ZenonT(30) DEF IInv
<1>1. ASSUME NEW c \in Clients, Ask(c) PROVE Shape' /\ Requests'
  <2>1. ring' = [ring EXCEPT ![c] = Append(@, Question)]
    BY ZenonT(30), <1>1 DEF Ask, Question
  <2>2. Question \in Messages /\ c \in Peers
    BY DEF Question, Messages, Peers
  <2>3. \A q \in Clients : q # c => ring'[q] = ring[q]
    BY <1>0, <2>1, <2>2, RingGrows DEF Peers
  <2>4. client'[c] = "asked" /\ \A q \in Clients : q # c => client'[q] = client[q]
    BY ZenonT(30), <1>0, <1>1 DEF Ask, TypeOK
  <2>5. Shape'
    BY ZenonT(30), <1>0, <1>1 DEF Shape, Ask, Busy, queues
  <2>6. \A q : Held(q) => Held(q)'
    BY ZenonT(30), <1>1, <2>3, <2>4 DEF Held, Ask
  <2>7. \A q \in Clients : ring'[q] # <<>> => client'[q] = "asked"
    BY ZenonT(30), <1>0, <2>3, <2>4 DEF Requests
  <2> QED
    BY ZenonT(30), <1>0, <1>1, <2>5, <2>6, <2>7 DEF Requests, Ask, Busy, queues
<1>2. ASSUME NEW c \in Clients, Take(c) PROVE Shape' /\ Requests'
  <2>1. client'[c] = "idle" /\ \A q \in Clients : q # c => client'[q] = client[q]
    BY ZenonT(30), <1>0, <1>2 DEF Take, TypeOK
  <2>2. Shape'
    BY <1>0, <1>2 DEF Shape, Take, Busy, queues
  <2>3. \A q : Held(q) => Held(q)'
    BY <1>2, <2>1 DEF Held, Take
  <2>4. \A q \in Clients : ring'[q] # <<>> => client'[q] = "asked"
    BY ZenonT(30), <1>0, <1>2, <2>1 DEF Requests, Take
  <2> QED
    BY ZenonT(30), <1>0, <1>2, <2>2, <2>3, <2>4 DEF Requests, Take, Busy, queues
<1>3. ASSUME NEW b \in Backends, NEW m \in Messages, ring' = [ring EXCEPT ![b] = Append(@, m)],
             UNCHANGED <<setup, client, queues, cur>>
      PROVE  Shape' /\ Requests'
  <2>1. \A c \in Clients : ring'[c] = ring[c]
    BY ZenonT(30), <1>0, <1>3, RingGrows DEF Peers
  <2>2. cur.at = "drain" => ~setup.running /\ cur.h.out = {}
    BY <1>0 DEF Shape, Busy
  <2> QED
    BY ZenonT(30), <1>0, <1>3, <2>1, <2>2, RequestsFrame DEF queues, Busy
<1>4. ASSUME NEW b \in Backends, NEW t \in Trans, Answer(b, t) PROVE Shape' /\ Requests'
  <2>1. [kind |-> "response", trans |-> t] \in Messages
    BY DEF Messages
  <2> QED
    BY ZenonT(30), <1>3, <1>4, <2>1 DEF Answer
<1>5. ASSUME NEW b \in Backends, Notify(b) PROVE Shape' /\ Requests'
  <2>1. [kind |-> "note", trans |-> 0] \in Messages
    BY DEF Messages
  <2> QED
    BY ZenonT(30), <1>3, <1>5, <2>1 DEF Notify
<1>6. CASE MainRequest
  <2>1. PICK c \in Clients : reqs = <<c>>
    BY <1>0, <1>6 DEF Shape, MainRequest
  <2>2. Head(reqs) = c /\ reqs' = <<>> /\ ~Busy /\ UNCHANGED <<setup, ring, asleep>>
    BY <1>6, <2>1, OneElement DEF MainRequest, Busy
  <2>3. setup.running
    BY <1>0, <2>2 DEF Shape
  <2>4. Held(c) /\ \A t \in DOMAIN asleep : Held(asleep[t].from) /\ asleep[t].from # c
    BY <1>0, <2>1 DEF Requests
  <2>5. CASE c \in setup.unknown
    <3>1. client' = [client EXCEPT ![c] = "forgotten"] /\ UNCHANGED cur
      BY <1>6, <2>2, <2>5 DEF MainRequest
    <3>2. Shape'
      BY ZenonT(30), <1>0, <2>2, <3>1 DEF Shape, Busy
    <3>3. \A q : Held(q) /\ q # c => Held(q)'
      BY ZenonT(30), <1>0, <2>2, <3>1 DEF Held, TypeOK
    <3>4. \A q \in Clients : ring'[q] # <<>> => client'[q] = "asked"
      BY ZenonT(30), <1>0, <2>2, <2>4, <3>1 DEF Held, Requests, TypeOK
    <3> QED
      BY ZenonT(30), <1>0, <2>2, <2>4, <3>1, <3>2, <3>3, <3>4, OneElement DEF Requests, Busy
  <2>6. CASE c \notin setup.unknown
    <3>1. [Application EXCEPT !.from = c] \in Handlers /\ [Application EXCEPT !.from = c].from = c
      BY SMTT(30) DEF Application, Handlers
    <3>2. cur' = InHandler([Application EXCEPT !.from = c]) /\ UNCHANGED client
      BY <1>6, <2>2, <2>6 DEF MainRequest
    <3>3. Busy' /\ cur'.at = "handler" /\ cur'.h.from = c
      BY ZenonT(30), <3>1, <3>2, CurFields DEF Busy
    <3>4. Shape'
      BY ZenonT(30), <1>0, <2>2, <2>3, <3>3 DEF Shape
    <3>5. \A q : Held(q) => Held(q)'
      BY <2>2, <3>2 DEF Held
    <3>6. \A q \in Clients : reqs' # <<q>>
      BY <2>2, OneElement
    <3> QED
      BY <1>0, <2>2, <2>3, <2>4, <3>2, <3>3, <3>4, <3>5, <3>6, OneElement DEF Requests
  <2> QED
    BY <2>5, <2>6
<1>7. CASE MainResponse
  <2>1. reqs = <<>> /\ UNCHANGED <<setup, client, ring, reqs>> /\ ~Busy
    BY ZenonT(30), <1>7 DEF MainResponse, peers, Busy
  <2>2. setup.running
    BY <1>0, <2>1 DEF Shape
  <2>3. CASE Head(resps) \in DOMAIN asleep
    <3> DEFINE t == Head(resps)
    <3>1. asleep' = Restrict(asleep, DOMAIN asleep \ {t}) /\ cur' = Received(asleep[t], t)
      BY ZenonT(30), <1>7, <2>3 DEF MainResponse
    <3>2. asleep[t] \in Handlers
      BY <1>0, <2>3 DEF TypeOK
    <3>3. Busy' /\ cur'.at = "handler" /\ cur'.h.from = asleep[t].from
      BY SMTT(30), <3>1, <3>2, CurFields DEF Busy
    <3>4. /\ DOMAIN asleep' = DOMAIN asleep \ {t}
          /\ \A u \in DOMAIN asleep' : asleep'[u] = asleep[u]
      BY <3>1 DEF Restrict
    <3> HIDE DEF t
    <3>5. Shape'
      BY <1>0, <2>1, <2>2, <2>3, <3>3, <3>4 DEF Shape, t
    <3>6. \A q : Held(q) => Held(q)'
      BY <2>1 DEF Held
    <3>7. \A q : reqs' # <<q>>
      BY <2>1, OneElement
    <3>8. \A u \in DOMAIN asleep' : u \in DOMAIN asleep /\ u # t /\ asleep[u].from # asleep[t].from
      BY <1>0, <2>3, <3>4 DEF Requests, t
    <3> QED
      BY ZenonT(30), <1>0, <2>1, <2>2, <2>3, <3>3, <3>4, <3>5, <3>6, <3>7, <3>8 DEF Requests, t
  <2>4. CASE Head(resps) \notin DOMAIN asleep
    <3>1. UNCHANGED <<asleep, cur>>
      BY <1>7, <2>4 DEF MainResponse
    <3>2. cur.at # "drain"
      BY <2>1 DEF Busy
    <3> QED
      BY <1>0, <2>1, <3>1, <3>2, RequestsFrame DEF Busy
  <2> QED
    BY <2>3, <2>4
<1>8. CASE MainPoll
  <2>1. reqs = <<>> /\ ~Busy /\ UNCHANGED cur /\ ~Busy' /\ cur'.at # "drain"
    BY <1>8 DEF MainPoll, Busy
  <2>2. CASE PollNothing /\ UNCHANGED queues
    BY <1>0, <2>1, <2>2, RequestsFrame DEF PollNothing, queues, peers
  <2>3. CASE PollMessage /\ ProcessMessage /\ UNCHANGED asleep
    <3>1. UNCHANGED <<setup, client>>
      BY ZenonT(30), <2>3 DEF PollMessage
    <3>2. CASE reqs' = <<>> /\ \A c \in Clients : ring'[c] = ring[c]
      BY <1>0, <2>1, <2>3, <3>1, <3>2, RequestsFrame
    <3>3. CASE /\ From \in Clients /\ ring[From] # <<>>
               /\ reqs' = <<From>> /\ ring'[From] = <<>>
               /\ \A c \in Clients : c # From => ring'[c] = ring[c]
      <4>1. Shape'
        BY ZenonT(30), <1>0, <2>1, <2>3, <3>1, <3>3 DEF Shape
      <4>2. \A c : Held(c) => Held(c)' /\ reqs' # <<c>>
        BY <3>1, <3>3, OneElement DEF Held
      <4>3. \A c \in Clients : /\ ring'[c] # <<>> => client'[c] = "asked"
                               /\ reqs' = <<c>> => Held(c)'
        BY ZenonT(30), <1>0, <3>1, <3>3, OneElement DEF Requests, Held
      <4> QED
        BY ZenonT(30), <1>0, <2>1, <2>3, <4>1, <4>2, <4>3 DEF Requests
    <3> QED
      BY ZenonT(30), <1>0, <2>1, <2>3, <3>2, <3>3, PollQueues
  <2> QED
    BY <1>8, <2>2, <2>3 DEF MainPoll
<1>9. ASSUME NEW b \in Backends, Call(b) PROVE Shape' /\ Requests'
  <2> DEFINE t == CHOOSE u \in Trans \ InUse : \A v \in Trans \ InUse : u <= v
             h == [cur.h EXCEPT !.out = @ \cup {t}, !.calls = @ + 1]
  <2>1. cur' = InHandler(h)
    BY <1>9 DEF Call
  <2>2. cur.h \in Handlers
    BY <1>0, <1>9, CurKinds DEF Call, Busy
  <2>3. h.from = cur.h.from
    BY <2>2 DEF Handlers
  <2> HIDE DEF h
  <2>4. Busy /\ Busy' /\ cur'.at # "drain" /\ cur'.h.from = cur.h.from
    <3>1. cur.at = "handler"
      BY <1>9 DEF Call
    <3> QED
      BY <2>1, <2>3, <3>1 DEF InHandler, Busy
  <2> QED
    BY ZenonT(30), <1>0, <1>9, <2>4, RequestsFrame DEF Call, queues
<1>10. ASSUME NEW t \in Trans, Receive(t) PROVE Shape' /\ Requests'
  <2>1. cur.h \in Handlers
    BY <1>0, <1>10, CurKinds DEF Receive, Busy
  <2>2. Busy /\ Busy' /\ cur'.at # "drain" /\ cur'.h.from = cur.h.from
    BY SMTT(30), <1>10, <2>1, CurFields DEF Receive, Busy
  <2> QED
    BY <1>0, <1>10, <2>2, RequestsFrame DEF Receive, peers
<1>11. CASE Return
  <2>1. cur.at = "handler" /\ Busy /\ reqs = <<>> /\ UNCHANGED <<setup, ring, reqs, asleep>>
    BY <1>0, <1>11 DEF Return, Busy, Shape, queues
  <2>2. CASE setup.running
    <3>1. client' = [client EXCEPT ![cur.h.from] = "answered"] /\ cur' = Main
      BY ZenonT(30), <1>11, <2>2 DEF Return
    <3>2. ~Busy' /\ cur'.at # "drain"
      BY <3>1 DEF Main, Busy
    <3>3. Shape'
      BY <1>0, <2>1, <2>2, <3>2 DEF Shape
    <3>4. \A q : Held(q) /\ q # cur.h.from => Held(q)'
      BY ZenonT(30), <1>0, <2>1, <3>1 DEF Held, TypeOK
    <3>5. Held(cur.h.from)
      BY <1>0, <2>1, <2>2 DEF Requests
    <3>6. \A q \in Clients : ring'[q] # <<>> => client'[q] = "asked"
      BY ZenonT(30), <1>0, <2>1, <3>1, <3>5 DEF Held, Requests, TypeOK
    <3>7. \A q : reqs' # <<q>>
      BY <2>1, OneElement
    <3> QED
      BY <1>0, <2>1, <3>2, <3>3, <3>4, <3>6, <3>7 DEF Requests
  <2>3. CASE ~setup.running
    <3>1. Application \in Handlers
      BY SMTT(30) DEF Application, Handlers
    <3>2. cur' = InHandler(Application) /\ UNCHANGED client
      BY ZenonT(30), <1>11, <2>3 DEF Return
    <3>3. Busy' /\ cur'.at = "handler"
      BY ZenonT(30), <3>1, <3>2, CurFields DEF Busy
    <3>4. Shape'
      BY ZenonT(30), <1>0, <2>1, <2>3, <3>3 DEF Shape
    <3> QED
      BY ZenonT(30), <1>0, <2>1, <2>3, <3>2, <3>4 DEF Requests, Shape, Held
  <2> QED
    BY <2>2, <2>3
<1>12. CASE CheckNotifications
  <2>1. cur.h \in Handlers /\ cur.at = "handler" /\ cur' = Draining(cur.h) /\ ~setup.running
        /\ cur.h.out = {} /\ UNCHANGED <<setup, client, ring, reqs, asleep>>
    BY ZenonT(30), <1>0, <1>12, CurKinds DEF CheckNotifications, Busy, queues, peers
  <2>2. Busy /\ Busy' /\ cur'.h = cur.h
    BY ZenonT(30), <2>1, CurFields DEF Busy
  <2> QED
    BY ZenonT(30), <1>0, <2>1, <2>2, RequestsFrame
<1>13. CASE Drain
  <2>1. /\ cur.h \in Handlers /\ cur.at = "drain" /\ Busy /\ reqs = <<>>
        /\ ~setup.running /\ cur.h.out = {} /\ \A c \in Clients : ring[c] = <<>>
    BY ZenonT(30), <1>0, <1>13, CurKinds DEF Drain, Busy, Shape
  <2>2. CASE PollNothing /\ cur' = InHandler(cur.h) /\ UNCHANGED queues
    <3>1. Busy' /\ cur'.h = cur.h /\ cur'.at # "drain"
      BY ZenonT(30), <2>1, <2>2, CurFields DEF Busy
    <3> QED
      BY ZenonT(30), <1>0, <2>1, <2>2, <3>1, RequestsFrame DEF PollNothing, queues, peers
  <2>3. CASE PollMessage /\ ProcessMessage /\ UNCHANGED <<asleep, cur>>
    <3>1. reqs' = reqs /\ \A c \in Clients : ring'[c] = ring[c]
      BY ZenonT(30), <1>0, <2>1, <2>3, PollQueues
    <3> QED
      BY ZenonT(30), <1>0, <2>1, <2>3, <3>1, RequestsFrame DEF PollMessage, Busy
  <2> QED
    BY <1>13, <2>2, <2>3 DEF Drain
<1>14. CASE WaitNothing
  <2>1. cur.at = "wait" /\ Busy /\ reqs = <<>> /\ UNCHANGED <<setup, client, ring, reqs>>
    BY <1>0, <1>14 DEF WaitNothing, PollNothing, Busy, Shape, peers
  <2>2. CASE UNCHANGED <<asleep, cur>>
    BY <1>0, <2>1, <2>2, RequestsFrame DEF Busy
  <2>3. CASE Sleep /\ setup.running
    BY <1>0, <2>1, <2>3, SleepRequests
  <2> QED
    BY <1>14, <2>2, <2>3 DEF WaitNothing, ShouldYield
<1>15. CASE WaitOther
  <2>1. cur.at = "wait" /\ Busy /\ reqs = <<>> /\ PollMessage /\ ProcessMessage
        /\ UNCHANGED <<setup, client>>
    BY <1>0, <1>15 DEF WaitOther, PollMessage, Busy, Shape
  <2>2. CASE Sleep /\ setup.running
    BY <1>0, <2>1, <2>2, PollQueues, SleepRequests
  <2>3. CASE ~ShouldYield(reqs', resps') /\ UNCHANGED asleep
             /\ cur' = [cur EXCEPT !.count = IF Message.kind = "note" THEN @ ELSE @ + 1]
    <3>1. cur = Waiting(cur.h, cur.trans, cur.count)
      BY ZenonT(30), <1>0, <2>1, CurKinds
    <3>2. cur'.at = "wait" /\ cur'.h = cur.h
      BY <2>3, <3>1 DEF Waiting
    <3>3. reqs' = <<>> /\ \A c \in Clients : ring'[c] = ring[c]
      <4>1. CASE setup.running
        BY ZenonT(30), <1>0, <2>1, <2>3, <4>1, PollQueues, OneElement DEF ShouldYield
      <4>2. CASE ~setup.running
        BY ZenonT(30), <1>0, <2>1, <4>2, PollQueues DEF Shape
      <4> QED
        BY <4>1, <4>2
    <3> QED
      BY <1>0, <2>1, <2>3, <3>2, <3>3, RequestsFrame DEF Busy
  <2> QED
    BY <1>15, <2>2, <2>3 DEF WaitOther, ShouldYield
<1>16. CASE WaitOwn
  <2>1. cur.at = "wait" /\ Busy /\ cur.h \in Handlers /\ PollMessage /\ Message.kind = "response"
    BY ZenonT(30), <1>0, <1>16, CurKinds DEF WaitOwn, Busy, Own
  <2>2. From \notin Clients
    BY ZenonT(30), <1>0, <2>1, Polled DEF PollMessage, Question
  <2>3. UNCHANGED <<setup, client>> /\ \A c \in Clients : ring'[c] = ring[c]
    BY ZenonT(30), <1>0, <2>1, <2>2, PollRings
  <2>4. Busy' /\ cur'.at = "handler" /\ cur'.h.from = cur.h.from
    <3>1. cur' = Received(cur.h, cur.trans)
      BY ZenonT(30), <1>0, <1>16, OwnFacts
    <3> QED
      BY <2>1, <3>1, CurFields DEF Busy
  <2> QED
    BY ZenonT(30), <1>0, <1>16, <2>1, <2>3, <2>4, OwnFacts, RequestsFrame
<1>17. CASE UNCHANGED vars
  <2>1. cur.at = "drain" => ~setup.running /\ cur.h.out = {}
    BY ZenonT(30), <1>0 DEF Shape, Busy
  <2> QED
    BY ZenonT(30), <1>0, <1>17, <2>1, RequestsFrame DEF vars, Busy
<1> QED
    BY ZenonT(30),
       <1>1, <1>2, <1>4, <1>5, <1>6, <1>7, <1>8, <1>9, <1>10, <1>11, <1>12, <1>13, <1>14, <1>15,
       <1>16, <1>17 DEF Next, Process

-----------------------------------------------------------------------------
(* Responses under way.                                                       *)

LEMMA ResponseOf ==
    \A t, u : /\ Response(t) = Response(u) => t = u
              /\ Response(t).kind = "response" /\ Response(t).trans = t
BY ZenonT(30) DEF Response

LEMMA FlightKept ==
    ASSUME Unique, UNCHANGED asked, \A b \in Backends : ring'[b] = ring[b]
    PROVE  Unique' /\ \A u : Flying(u)' <=> Flying(u)
<1>1. \A u : InRing(u)' <=> InRing(u)
    BY ZenonT(30) DEF InRing
<1>2. \A u : Flying(u)' <=> Flying(u)
    BY ZenonT(30), <1>1 DEF Flying
<1>3. SentOnce'
  <2>1. SentOnce
    BY ZenonT(30) DEF Unique
  <2> QED
    BY SMTT(30), <2>1 DEF SentOnce
<1> QED
    BY ZenonT(30), <1>1, <1>2, <1>3 DEF Unique

\* A backend sends a message that is not, or is no longer, expected of it.
LEMMA FlightSent ==
    ASSUME TypeOK, Unique, NEW b \in Backends, NEW m \in Messages,
           ring' = [ring EXCEPT ![b] = Append(@, m)],
           \/ m.kind = "note" /\ UNCHANGED asked
           \/ \E t \in asked[b] : m = Response(t) /\ asked' = [asked EXCEPT ![b] = @ \ {t}]
    PROVE  Unique' /\ \A u : Flying(u)' <=> Flying(u)
<1>1. /\ ring[b] \in Seq(Messages)
      /\ ring'[b] = Append(ring[b], m) /\ \A d \in Backends : d # b => ring'[d] = ring[d]
    BY ZenonT(30), RingGrows DEF Peers, TypeOK
<1>2. ASSUME NEW d \in Backends, NEW i \in 1..Len(ring'[d])
      PROVE  \/ d = b /\ i = Len(ring[b]) + 1 /\ ring'[d][i] = m
             \/ i \in 1..Len(ring[d]) /\ ring'[d][i] = ring[d][i]
  <2>1. CASE d = b
    BY <1>1, <1>2, <2>1
  <2>2. CASE d # b
    BY ZenonT(30), <1>1, <1>2, <2>2
  <2> QED
    BY ZenonT(30), <2>1, <2>2
<1>3. \A d \in Backends : asked'[d] \subseteq asked[d]
    BY ZenonT(30) DEF TypeOK
<1>4. \A u : InRing(u)' => InRing(u) \/ m = Response(u)
    BY SMTT(30), <1>2 DEF InRing
<1>5. \A u : m = Response(u) => u \in asked[b] /\ ~InRing(u) /\ \A d \in Backends : u \notin asked'[d]
  <2> SUFFICES ASSUME NEW u, m = Response(u)
               PROVE  u \in asked[b] /\ ~InRing(u) /\ \A d \in Backends : u \notin asked'[d]
    BY ZenonT(30)
  <2>1. u \in asked[b] /\ asked' = [asked EXCEPT ![b] = @ \ {u}]
    BY ZenonT(30), ResponseOf
  <2>2. ~InRing(u) /\ \A d \in Backends : d # b => u \notin asked[d]
    BY ZenonT(30), <2>1 DEF Unique
  <2> QED
    BY ZenonT(30), <2>1, <2>2 DEF TypeOK
<1>6. \A u : Flying(u)' => Flying(u)
    BY ZenonT(30), <1>3, <1>4, <1>5 DEF Flying
<1>7. \A d, e \in Backends : asked'[d] \cap asked'[e] # {} => d = e
    BY ZenonT(30), <1>3 DEF Unique
<1>8. \A d \in Backends : \A u \in asked'[d] : ~InRing(u)'
    BY ZenonT(30), <1>3, <1>4, <1>5 DEF Unique
<1>9. ASSUME NEW d \in Backends, NEW e \in Backends, NEW u \in Trans,
             NEW i \in 1..Len(ring'[d]), NEW j \in 1..Len(ring'[e]),
             ring'[d][i] = Response(u), ring'[e][j] = Response(u)
      PROVE  d = e /\ i = j
  <2>1. CASE m = Response(u)
    <3>1. ~InRing(u)
      BY ZenonT(30), <1>5, <2>1
    <3>2. \A f \in Backends : \A k \in 1..Len(ring[f]) : ring[f][k] # Response(u)
      BY ZenonT(30), <3>1 DEF InRing
    <3> QED
      BY SMTT(30), <1>2, <1>9, <3>2
  <2>2. CASE m # Response(u)
    <3>1. i \in 1..Len(ring[d]) /\ ring[d][i] = Response(u)
      BY ZenonT(30), <1>2, <1>9, <2>2
    <3>2. j \in 1..Len(ring[e]) /\ ring[e][j] = Response(u)
      BY ZenonT(30), <1>2, <1>9, <2>2
    <3> QED
      BY ZenonT(30), <3>1, <3>2 DEF Unique, SentOnce
  <2> QED
    BY ZenonT(30), <2>1, <2>2
<1>10. \A u : Flying(u) => Flying(u)'
  <2>1. /\ Len(ring[b]) + 1 \in 1..Len(ring'[b]) /\ ring'[b][Len(ring[b]) + 1] = m
        /\ \A i \in 1..Len(ring[b]) : i \in 1..Len(ring'[b]) /\ ring'[b][i] = ring[b][i]
    BY <1>1
  <2>2. \A u : InRing(u) => InRing(u)'
    BY <1>1, <2>1 DEF InRing
  <2>3. ASSUME NEW u, NEW d \in Backends, u \in asked[d]
        PROVE  Flying(u)'
    <3>1. CASE u \in asked'[d]
      BY <3>1 DEF Flying
    <3>2. CASE u \notin asked'[d]
      <4>1. PICK t \in asked[b] : m = Response(t) /\ asked' = [asked EXCEPT ![b] = @ \ {t}]
        BY <2>3, <3>2
      <4>2. u = t
        BY <2>3, <3>2, <4>1 DEF TypeOK
      <4>3. InRing(u)'
        BY <2>1, <4>1, <4>2 DEF InRing
      <4> QED
        BY <4>3 DEF Flying
    <3> QED
      BY <3>1, <3>2
  <2> QED
    BY ZenonT(30), <2>2, <2>3 DEF Flying
<1>11. SentOnce'
    BY SMTT(30), <1>9 DEF SentOnce
<1> QED
    BY ZenonT(30), <1>6, <1>7, <1>8, <1>10, <1>11 DEF Unique

LEMMA FlightPolled ==
    ASSUME TypeOK, Rings, Unique, PollMessage
    PROVE  /\ Unique'
           /\ \A u : Flying(u)' => Flying(u)
           /\ \A t : From \in Backends /\ Message = Response(t) => Flying(t) /\ ~Flying(t)'
           /\ \A u : Flying(u) => Flying(u)' \/ Message = Response(u)
<1>1. /\ From \in Peers /\ ring[From] \in Seq(Messages) /\ ring[From] # <<>>
      /\ Message = ring[From][1] /\ 1 \in 1..Len(ring[From])
    BY SMTT(30), Polled DEF PollMessage, Message
<1>2. Tail(ring[From]) \in Seq(Messages)
    BY <1>1
<1>3. ring'[From] = Tail(ring[From]) /\ \A d \in Backends : d # From => ring'[d] = ring[d]
    BY ZenonT(30), <1>1, <1>2, RingChanges DEF PollMessage, Peers
<1> DEFINE At(d, i) == IF d = From THEN i + 1 ELSE i
<1>4. ASSUME NEW d \in Backends, NEW i \in 1..Len(ring'[d])
      PROVE  At(d, i) \in 1..Len(ring[d]) /\ ring'[d][i] = ring[d][At(d, i)]
  <2>1. CASE d = From
    BY ZenonT(30), <1>1, <1>3, <1>4, <2>1, TailElement
  <2>2. CASE d # From
    BY <1>3, <1>4, <2>2
  <2> QED
    BY ZenonT(30), <2>1, <2>2
<1>5. UNCHANGED asked
    BY DEF PollMessage
<1>6. \A u : InRing(u)' => InRing(u)
    BY <1>4 DEF InRing
<1>7. \A u : Flying(u)' => Flying(u)
    BY ZenonT(30), <1>5, <1>6 DEF Flying
<1>8. ASSUME NEW d \in Backends, NEW e \in Backends, NEW u \in Trans,
             NEW i \in 1..Len(ring'[d]), NEW j \in 1..Len(ring'[e]),
             ring'[d][i] = Response(u), ring'[e][j] = Response(u)
      PROVE  d = e /\ i = j
  <2>1. d = e /\ At(d, i) = At(e, j)
    <3> HIDE DEF At
    <3>1. At(d, i) \in 1..Len(ring[d]) /\ ring[d][At(d, i)] = Response(u)
      BY ZenonT(30), <1>4, <1>8
    <3>2. At(e, j) \in 1..Len(ring[e]) /\ ring[e][At(e, j)] = Response(u)
      BY ZenonT(30), <1>4, <1>8
    <3> QED
      BY ZenonT(30), <3>1, <3>2 DEF Unique, SentOnce
  <2>2. i \in Int /\ j \in Int
    OBVIOUS
  <2> QED
    BY <2>1, <2>2
<1>9. Unique'
  <2>1. SentOnce'
    BY <1>8 DEF SentOnce
  <2> QED
    BY ZenonT(30), <1>5, <1>6, <2>1 DEF Unique
<1>10. ASSUME NEW t, From \in Backends, Message = Response(t)
       PROVE  Flying(t) /\ ~Flying(t)'
  <2>1. t \in Trans /\ ring[From][1] = Response(t)
    BY ZenonT(30), <1>1, <1>10, Polled, ResponseOf DEF PollMessage
  <2>2. InRing(t)
    BY ZenonT(30), <1>1, <1>10, <2>1 DEF InRing
  <2>3. \A d \in Backends : t \notin asked'[d]
    BY ZenonT(30), <1>5, <2>2 DEF Unique
  <2>4. ASSUME NEW d \in Backends, NEW i \in 1..Len(ring'[d]), ring'[d][i] = Response(t)
        PROVE  FALSE
    <3>1. d = From /\ At(d, i) = 1
      <4> HIDE DEF At
      <4> QED
        BY SMTT(30), <1>1, <1>4, <1>10, <2>1, <2>4 DEF Unique, SentOnce
    <3>2. i \in Int /\ i >= 1
      OBVIOUS
    <3> QED
      BY <3>1, <3>2
  <2>5. ~InRing(t)'
    BY <2>4 DEF InRing
  <2> QED
    BY ZenonT(30), <2>2, <2>3, <2>5 DEF Flying
<1>11. ASSUME NEW u, NEW d \in Backends, NEW i \in 1..Len(ring[d]), ring[d][i] = Response(u)
       PROVE  InRing(u)' \/ Message = Response(u)
  <2>1. CASE d # From
    BY <1>3, <1>11, <2>1 DEF InRing
  <2>2. CASE d = From /\ i = 1
    BY <1>1, <1>11, <2>2
  <2>3. CASE d = From /\ i # 1
    <3>1. i - 1 \in 1..Len(Tail(ring[d])) /\ (i - 1) + 1 = i
      BY <1>1, <2>3
    <3>2. ring'[d][i - 1] = ring[d][i] /\ i - 1 \in 1..Len(ring'[d])
      <4>1. Tail(ring[From])[i - 1] = ring[From][(i - 1) + 1]
        BY ZenonT(30), <1>1, <2>3, <3>1, TailElement
      <4> QED
        BY ZenonT(30), <1>3, <2>3, <3>1, <4>1
    <3> QED
      BY <1>11, <3>2 DEF InRing
  <2> QED
    BY <2>1, <2>2, <2>3
<1>12. \A u : Flying(u) => Flying(u)' \/ Message = Response(u)
    BY <1>5, <1>11 DEF Flying, InRing
<1> QED
    BY <1>7, <1>9, <1>10, <1>12

LEMMA RangeOf ==
    ASSUME NEW s \in Seq(Trans)
    PROVE  \A t : t \in Range(s) <=> \E i \in 1..Len(s) : s[i] = t
BY DEF Range

LEMMA RangeGrows ==
    ASSUME NEW s \in Seq(Trans), NEW t \in Trans
    PROVE  \A u : u \in Range(Append(s, t)) <=> u \in Range(s) \/ u = t
<1>1. Append(s, t) \in Seq(Trans) /\ Len(Append(s, t)) = Len(s) + 1 /\ Len(s) \in Nat
    OBVIOUS
<1>2. /\ Append(s, t)[Len(s) + 1] = t
      /\ \A i \in 1..Len(s) : Append(s, t)[i] = s[i]
    OBVIOUS
<1>3. \A u : u \in Range(Append(s, t)) <=> \E i \in 1..Len(s) + 1 : Append(s, t)[i] = u
    BY ZenonT(30), <1>1, RangeOf
<1>4. 1..Len(s) + 1 = 1..Len(s) \cup {Len(s) + 1}
    BY <1>1
<1> QED
    BY <1>2, <1>3, <1>4, RangeOf

LEMMA InUseIs ==
    /\ \A t : t \in InUse <=> \/ \E u \in DOMAIN asleep : t \in asleep[u].out
                              \/ Busy /\ t \in cur.h.out
    /\ \A t : t \in InUse' <=> \/ \E u \in DOMAIN asleep' : t \in asleep'[u].out
                               \/ Busy' /\ t \in cur'.h.out
<1> DEFINE S == UNION {asleep[u].out : u \in DOMAIN asleep}
           T == UNION {asleep'[u].out : u \in DOMAIN asleep'}
<1>1. \A t : t \in S <=> \E u \in DOMAIN asleep : t \in asleep[u].out
    BY ZenonT(30)
<1>2. \A t : t \in T <=> \E u \in DOMAIN asleep' : t \in asleep'[u].out
    BY ZenonT(30)
<1>3. InUse = S \cup (IF cur.at = "main" THEN {} ELSE cur.h.out)
    BY ZenonT(30) DEF InUse
<1>4. InUse' = T \cup (IF cur'.at = "main" THEN {} ELSE cur'.h.out)
    BY ZenonT(30) DEF InUse
<1> HIDE DEF S, T
<1> QED
    BY <1>1, <1>2, <1>3, <1>4 DEF Busy

LEMMA InUseKept ==
    ASSUME UNCHANGED asleep, Busy' <=> Busy, Busy => cur'.h.out = cur.h.out
    PROVE  \A t : t \in InUse' <=> t \in InUse
BY InUseIs

\* What is pending moves at most from the queue to the map.
LEMMA PendingKept ==
    ASSUME IInv, Unique', \A u : Flying(u)' <=> Flying(u),
           \A t : t \in InUse' <=> t \in InUse, UNCHANGED <<resps, rmap>>
    PROVE  Transactions'
BY ZenonT(30) DEF IInv, Transactions, Pending

LEMMA ThreadsKept ==
    ASSUME IInv, UNCHANGED <<asleep, cur, resps, rmap, reqs>>, Unique',
           \A u : Flying(u)' <=> Flying(u)
    PROVE  Threads' /\ Transactions' /\ Sleepers'
<1>1. Threads'
    BY ZenonT(30) DEF IInv, Threads, Busy
<1>2. Sleepers'
    BY ZenonT(30) DEF IInv, Sleepers, Busy, Pending
<1>3. Transactions'
    BY InUseKept, PendingKept DEF Busy
<1> QED
    BY <1>1, <1>2, <1>3

LEMMA PollPending ==
    ASSUME IInv, PollMessage, ProcessMessage, \A t : t \in InUse' <=> t \in InUse
    PROVE  /\ Unique' /\ Transactions' /\ UNCHANGED rmap
           /\ \/ Message.kind # "response" /\ UNCHANGED resps
              \/ \E t \in InUse \cap Trans :
                    /\ Message = Response(t) /\ resps' = Append(resps, t) /\ t \notin Pending
                    /\ \A u : u \in Range(resps') <=> u \in Range(resps) \/ u = t
<1>1. /\ Unique' /\ \A u : Flying(u)' => Flying(u)
      /\ \A u : Flying(u) => Flying(u)' \/ Message = Response(u)
    BY ZenonT(30), FlightPolled DEF IInv
<1>2. UNCHANGED rmap
    BY ZenonT(30) DEF ProcessMessage
<1>3. CASE Message.kind # "response"
    BY <1>1, <1>2, <1>3, PendingKept, ResponseOf DEF ProcessMessage
<1>4. CASE Message.kind = "response"
  <2>1. PICK t \in Trans : From \in Backends /\ Message = Response(t) /\ resps' = Append(resps, t)
    BY ZenonT(30), <1>4, Polled DEF PollMessage, ProcessMessage, IInv
  <2>2. Flying(t) /\ ~Flying(t)'
    BY <2>1, FlightPolled DEF IInv
  <2>3. t \in InUse /\ t \notin Pending
    BY <2>2 DEF IInv, Transactions
  <2>4. resps \in Seq(Trans) /\ \A u : u \in Range(resps') <=> u \in Range(resps) \/ u = t
    BY <2>1, RangeGrows DEF IInv, TypeOK
  <2>5. \A u : u \in Pending' <=> u \in Pending \/ u = t
    BY <1>2, <2>4 DEF Pending
  <2>6. rmap' \cap Range(resps') = {}
    BY <1>2, <2>3, <2>4 DEF IInv, Transactions, Pending
  <2>7. ASSUME NEW i \in 1..Len(resps'), NEW j \in 1..Len(resps'), resps'[i] = resps'[j]
        PROVE  i = j
    <3>1. \A k \in 1..Len(resps) : resps[k] # t
      BY <2>3, <2>4, RangeOf DEF Pending
    <3>2. \A k, l \in 1..Len(resps) : resps[k] = resps[l] => k = l
      BY ZenonT(30) DEF IInv, Transactions
    <3>3. \A k \in 1..Len(resps') : \/ k = Len(resps) + 1 /\ resps'[k] = t
                                    \/ k \in 1..Len(resps) /\ resps'[k] = resps[k]
      BY <2>1, <2>4
    <3> QED
      BY ZenonT(30), <2>7, <3>1, <3>2, <3>3
  <2>8. \A u \in Trans : Flying(u)' => u \in InUse' \ Pending'
    BY <1>1, <2>2, <2>5 DEF IInv, Transactions
  <2>9. Pending' \subseteq InUse'
    BY ZenonT(30), <2>3, <2>5 DEF IInv, Transactions
  <2>10. \A u \in InUse' : Flying(u)' \/ u \in Pending'
    BY <1>1, <2>1, <2>5, ResponseOf DEF IInv, Transactions
  <2>11. Transactions'
    BY <2>6, <2>7, <2>8, <2>9, <2>10 DEF Transactions
  <2> QED
    BY <1>1, <1>2, <2>1, <2>3, <2>4, <2>11
<1> QED
    BY ZenonT(30), <1>3, <1>4

-----------------------------------------------------------------------------
(* One lemma per kind of step: transactions stay with their threads.          *)

Owned == Threads /\ Unique /\ Transactions /\ Sleepers

LEMMA OwnedFrame ==
    ASSUME IInv, UNCHANGED <<asked, asleep, cur, resps, rmap, reqs>>,
           \A b \in Backends : ring'[b] = ring[b]
    PROVE  Owned'
BY ZenonT(30), FlightKept, ThreadsKept DEF Owned, IInv

LEMMA OwnedPeers ==
    ASSUME IInv, NEW b \in Backends, Notify(b) \/ \E t \in Trans : Answer(b, t)
    PROVE  Owned'
<1>1. CASE Notify(b)
  <2>1. [kind |-> "note", trans |-> 0] \in Messages
    BY ZenonT(30) DEF Messages
  <2>2. Unique' /\ \A u : Flying(u)' <=> Flying(u)
    BY ZenonT(30), <1>1, <2>1, FlightSent DEF Notify, IInv
  <2> QED
    BY <1>1, <2>2, ThreadsKept DEF Notify, queues, Owned
<1>2. ASSUME NEW t \in Trans, Answer(b, t) PROVE Owned'
  <2>1. Response(t) \in Messages
    BY ZenonT(30) DEF Messages, Response
  <2>2. Unique' /\ \A u : Flying(u)' <=> Flying(u)
    BY ZenonT(30), <1>2, <2>1, FlightSent DEF Answer, IInv, Response
  <2> QED
    BY ZenonT(30), <1>2, <2>2, ThreadsKept DEF Answer, queues, Owned
<1> QED
    BY ZenonT(30), <1>1, <1>2

LEMMA OwnedMainRequest == ASSUME IInv, MainRequest PROVE Owned'
<1>1. Unique' /\ \A u : Flying(u)' <=> Flying(u)
    BY ZenonT(30), FlightKept DEF MainRequest, IInv
<1>2. /\ ~Busy /\ reqs # <<>> /\ UNCHANGED <<resps, rmap, asleep>>
      /\ Busy' => cur'.at = "handler" /\ cur'.h.out = {}
      /\ cur'.at \in {"main", "handler"}
    BY DEF MainRequest, InHandler, Application, Busy
<1>3. \A t : t \in InUse' <=> t \in InUse
    BY <1>2, InUseIs
<1>4. Transactions'
    BY ZenonT(30), <1>1, <1>2, <1>3, PendingKept
<1>5. Threads'
    BY ZenonT(30), <1>2 DEF IInv, Threads, Busy
<1>6. Sleepers'
    BY ZenonT(30), <1>2 DEF IInv, Sleepers, Busy
<1> QED
    BY <1>1, <1>4, <1>5, <1>6 DEF Owned

LEMMA OwnedReturn == ASSUME IInv, Return \/ CheckNotifications PROVE Owned'
<1>1. /\ cur.at = "handler" /\ cur.h.out = {} /\ cur.h \in Handlers /\ Busy
      /\ UNCHANGED <<asked, ring, resps, rmap, reqs, asleep>>
    BY ZenonT(30), CurKinds DEF Return, CheckNotifications, IInv, queues, peers, Busy
<1>2. cur'.at \in {"main", "handler", "drain"} /\ (Busy' => cur'.h.out = {})
  <2>1. CASE Return
    <3>1. cur' = Main \/ cur' = InHandler(Application)
      BY ZenonT(30), <2>1 DEF Return
    <3>2. Main.at = "main"
      BY ZenonT(30) DEF Main
    <3>3. InHandler(Application).at = "handler" /\ InHandler(Application).h.out = {}
      BY ZenonT(30) DEF InHandler, Application
    <3> QED
      BY ZenonT(30), <3>1, <3>2, <3>3 DEF Busy
  <2>2. CASE CheckNotifications
    BY ZenonT(30), <1>1, <2>2 DEF CheckNotifications, Draining, Busy
  <2> QED
    BY ZenonT(30), <2>1, <2>2
<1>3. Unique' /\ \A u : Flying(u)' <=> Flying(u)
    BY ZenonT(30), <1>1, FlightKept DEF IInv
<1>4. \A t : t \in InUse' <=> t \in InUse
    BY ZenonT(30), <1>1, <1>2, InUseIs
<1>5. Transactions'
    BY <1>1, <1>3, <1>4, PendingKept
<1>6. Threads'
    BY ZenonT(30), <1>1, <1>2 DEF IInv, Threads
<1>7. Sleepers'
    BY ZenonT(30), <1>1, <1>2 DEF IInv, Sleepers, Busy
<1> QED
    BY <1>3, <1>5, <1>6, <1>7 DEF Owned

LEMMA OwnedMainPoll == ASSUME IInv, MainPoll PROVE Owned'
<1>1. /\ ~Busy /\ resps = <<>> /\ UNCHANGED <<cur, asleep>> /\ cur.at = "main"
    BY ZenonT(30) DEF MainPoll, queues, Busy
<1>2. CASE PollNothing /\ UNCHANGED queues
    BY <1>1, <1>2, OwnedFrame DEF PollNothing, peers, queues
<1>3. CASE PollMessage /\ ProcessMessage
  <2>1. \A t : t \in InUse' <=> t \in InUse
    BY ZenonT(30), <1>1, InUseKept DEF Busy
  <2>2. /\ Unique' /\ Transactions' /\ UNCHANGED rmap
        /\ \/ Message.kind # "response" /\ UNCHANGED resps
           \/ \E t \in InUse \cap Trans : Message = Response(t) /\ resps' = Append(resps, t)
    BY <1>3, <2>1, PollPending
  <2>3. Threads'
    BY ZenonT(30), <1>1 DEF IInv, Threads, Busy
  <2>4. Sleepers'
    <3>1. CASE resps' = <<>>
      <4>1. Range(resps') = {} /\ Len(resps') = 0
        BY <3>1 DEF Range
      <4>2. \A i \in 1..Len(resps') : i # Len(resps') => resps'[i] \notin DOMAIN asleep
        BY <4>1
      <4> QED
        BY ZenonT(30), <1>1, <2>2, <4>1, <4>2 DEF IInv, Sleepers, Busy
    <3>2. ASSUME NEW t \in InUse \cap Trans, Message = Response(t), resps' = Append(resps, t)
          PROVE  Sleepers'
      <4>1. resps' = <<t>> /\ Len(resps') = 1
        BY <1>1, <3>2, OneElement
      <4>2. reqs' = <<>>
        BY <1>3, <3>2, ResponseOf DEF MainPoll, ProcessMessage
      <4> QED
        BY SMTT(30), <1>1, <2>2, <4>1, <4>2 DEF IInv, Sleepers, Busy
    <3> QED
      BY ZenonT(30), <1>1, <2>2, <3>1, <3>2
  <2> QED
    BY <2>2, <2>3, <2>4 DEF Owned
<1> QED
    BY ZenonT(30), <1>2, <1>3 DEF MainPoll

LEMMA OwnedDrain == ASSUME IInv, Drain PROVE Owned'
<1>1. /\ cur.at = "drain" /\ cur.h.out = {} /\ cur.h \in Handlers /\ Busy
      /\ DOMAIN asleep = {} /\ UNCHANGED asleep
    BY ZenonT(30), CurKinds DEF Drain, IInv, queues, Busy, Shape
<1>2. /\ cur'.at \in {"handler", "drain"} /\ Busy' /\ cur'.h.out = {}
  <2>1. cur' = cur \/ cur' = InHandler(cur.h)
    BY ZenonT(30) DEF Drain
  <2>2. InHandler(cur.h).at = "handler" /\ InHandler(cur.h).h = cur.h
    BY ZenonT(30) DEF InHandler
  <2> QED
    BY ZenonT(30), <1>1, <2>1, <2>2 DEF Busy
<1>3. \A t : t \in InUse' <=> t \in InUse
    BY ZenonT(30), <1>1, <1>2, InUseKept
<1>4. Threads'
    BY ZenonT(30), <1>1, <1>2 DEF Threads
<1>5. CASE PollNothing /\ UNCHANGED queues
  <2>1. Unique' /\ \A u : Flying(u)' <=> Flying(u)
    BY <1>5, FlightKept DEF IInv, PollNothing, peers
  <2>2. Transactions'
    BY <1>3, <1>5, <2>1, PendingKept DEF queues
  <2>3. Sleepers'
    BY ZenonT(30), <1>1, <1>2, <1>5 DEF Sleepers, queues
  <2> QED
    BY <1>4, <2>1, <2>2, <2>3 DEF Owned
<1>6. CASE PollMessage /\ ProcessMessage
  <2>1. Unique' /\ Transactions'
    BY <1>3, <1>6, PollPending
  <2>2. Sleepers'
    BY ZenonT(30), <1>1, <1>2 DEF Sleepers
  <2> QED
    BY <1>4, <2>1, <2>2 DEF Owned
<1> QED
    BY <1>5, <1>6 DEF Drain

LEMMA ReceivedFields ==
    ASSUME NEW h \in Handlers, NEW t, cur' = Received(h, t)
    PROVE  cur'.at = "handler" /\ Busy' /\ cur'.h.out = h.out \ {t}
<1>1. Received(h, t).at = "handler" /\ Received(h, t).h.out = h.out \ {t}
    BY SMTT(30), CurFields
<1> QED
    BY <1>1 DEF Busy

LEMMA OwnedMainResponse == ASSUME IInv, MainResponse PROVE Owned'
<1> DEFINE t == Head(resps)
<1>1. /\ ~Busy /\ cur.at = "main" /\ resps # <<>> /\ resps \in Seq(Trans)
      /\ resps' = Tail(resps) /\ reqs = <<>> /\ UNCHANGED <<asked, ring, reqs>>
    BY DEF MainResponse, Busy, IInv, TypeOK, peers
<1>2. Unique' /\ \A u : Flying(u)' <=> Flying(u)
    BY <1>1, FlightKept DEF IInv
<1>3. t = resps[1] /\ 1 \in 1..Len(resps) /\ t \in Range(resps) /\ t \in Trans
  <2>1. t = resps[1] /\ 1 \in 1..Len(resps) /\ t \in Trans
    BY <1>1
  <2> QED
    BY <1>1, <2>1, RangeOf
<1>4. ~Flying(t) /\ t \in InUse /\ t \notin rmap
    BY <1>3 DEF IInv, Transactions, Pending
<1>5. CASE t \in DOMAIN asleep
  <2>1. /\ asleep' = Restrict(asleep, DOMAIN asleep \ {t})
        /\ cur' = Received(asleep[t], t) /\ UNCHANGED rmap
    BY ZenonT(30), <1>5 DEF MainResponse
  <2> HIDE DEF t
  <2>2. resps' = <<>> /\ Range(resps') = {}
    <3>1. Len(resps) = 1
      BY ZenonT(30), <1>3, <1>5 DEF IInv, Sleepers
    <3>2. resps' = <<>>
      BY <1>1, <3>1
    <3> QED
      BY <3>2 DEF Range
  <2>3. /\ DOMAIN asleep' = DOMAIN asleep \ {t}
        /\ \A u \in DOMAIN asleep' : asleep'[u] = asleep[u]
    BY <2>1 DEF Restrict
  <2>4. cur'.at = "handler" /\ Busy' /\ cur'.h.out = asleep[t].out \ {t}
    <3>1. asleep[t] \in Handlers
      BY ZenonT(30), <1>5 DEF IInv, TypeOK
    <3> QED
      BY ZenonT(30), <2>1, <3>1, ReceivedFields
  <2>5. \A u \in DOMAIN asleep : u # t => asleep[u].out \cap asleep[t].out = {}
    BY <1>5 DEF IInv, Threads
  <2>6. Threads'
    BY ZenonT(30), <2>3, <2>4, <2>5 DEF IInv, Threads
  <2>7. \A u : u \in InUse' <=> u \in InUse /\ u # t
    <3>1. t \in asleep[t].out
      BY ZenonT(30), <1>5 DEF IInv, Threads
    <3> QED
      BY ZenonT(30), <1>1, <1>5, <2>3, <2>4, <2>5, <3>1, InUseIs
  <2>8. Transactions'
    <3>1. Pending' = rmap /\ rmap \subseteq Pending
      BY ZenonT(30), <2>1, <2>2 DEF Pending
    <3>2. \A u \in Trans : Flying(u)' => u \in InUse' \ Pending'
      BY <1>2, <1>4, <2>7, <3>1 DEF IInv, Transactions
    <3>3. Pending' \subseteq InUse'
      BY <1>4, <2>7, <3>1 DEF IInv, Transactions
    <3>4. \A u \in Range(resps) : u = t
      <4>1. Len(resps) = 1
        BY ZenonT(30), <1>3, <1>5 DEF IInv, Sleepers
      <4> QED
        BY <1>1, <1>3, <4>1, RangeOf
    <3>5. \A u \in InUse' : Flying(u)' \/ u \in Pending'
      BY <1>2, <2>7, <3>1, <3>4 DEF IInv, Transactions, Pending
    <3> QED
      BY <2>2, <3>2, <3>3, <3>5 DEF Transactions
  <2>9. Sleepers'
    <3>1. Len(resps') = 0
      BY <2>2
    <3>2. \A i \in 1..Len(resps') : FALSE
      BY <3>1
    <3>3. DOMAIN asleep \cap rmap = {}
      BY ZenonT(30) DEF IInv, Sleepers
    <3>4. DOMAIN asleep' \cap rmap' = {}
      BY ZenonT(30), <2>1, <2>3, <3>3
    <3>5. cur'.at # "wait"
      BY ZenonT(30), <2>4
    <3> QED
      BY ZenonT(30), <2>2, <3>2, <3>4, <3>5 DEF Sleepers
  <2> QED
    BY <1>2, <2>6, <2>8, <2>9 DEF Owned
<1>6. CASE t \notin DOMAIN asleep
  <2>1. rmap' = rmap \cup {t} /\ UNCHANGED <<asleep, cur>>
    BY ZenonT(30), <1>6 DEF MainResponse
  <2> HIDE DEF t
  <2>2. /\ Tail(resps) \in Seq(Trans) /\ Len(Tail(resps)) = Len(resps) - 1 /\ Len(resps) \in Nat
        /\ \A k \in 1..Len(Tail(resps)) : k + 1 \in 1..Len(resps) /\ resps'[k] = resps[k + 1]
    BY <1>1, TailElement
  <2>3. \A k, l \in 1..Len(resps) : resps[k] = resps[l] => k = l
    BY ZenonT(30) DEF IInv, Transactions
  <2>4. \A u : u \in Range(resps') => u \in Range(resps) /\ u # t
    <3>1. \A u : u \in Range(resps') <=> \E k \in 1..Len(Tail(resps)) : resps'[k] = u
      BY ZenonT(30), <1>1, <2>2, RangeOf
    <3> QED
      BY <1>1, <1>3, <2>2, <2>3, <3>1, RangeOf
  <2>5. \A u : u \in Range(resps) => u = t \/ u \in Range(resps')
    <3> SUFFICES ASSUME NEW u, u \in Range(resps), u # t
                 PROVE  u \in Range(resps')
      BY ZenonT(30)
    <3>1. PICK k \in 1..Len(resps) : resps[k] = u
      BY ZenonT(30), <1>1, RangeOf
    <3>2. k # 1
      BY <1>3, <3>1
    <3>3. k - 1 \in 1..Len(Tail(resps)) /\ (k - 1) + 1 = k
      BY <2>2, <3>2
    <3>4. resps'[k - 1] = u
      BY <2>2, <3>1, <3>3
    <3> QED
      BY ZenonT(30), <1>1, <2>2, <3>3, <3>4, RangeOf
  <2>6. \A u : u \in Pending' <=> u \in Pending
    BY <1>3, <2>1, <2>4, <2>5 DEF Pending
  <2>7. \A u : u \in InUse' <=> u \in InUse
    BY <2>1, InUseKept DEF Busy
  <2>8. \A k, l \in 1..Len(resps') : resps'[k] = resps'[l] => k = l
    <3> SUFFICES ASSUME NEW k \in 1..Len(Tail(resps)), NEW l \in 1..Len(Tail(resps)),
                        resps'[k] = resps'[l]
                 PROVE  k = l
      BY ZenonT(30), <1>1
    <3>1. k + 1 = l + 1
      BY <2>2, <2>3
    <3> QED
      BY <3>1
  <2>9. Transactions'
    <3>1. rmap' \cap Range(resps') = {}
      BY ZenonT(30), <2>1, <2>4 DEF IInv, Transactions
    <3> QED
      BY ZenonT(30), <1>2, <2>6, <2>7, <2>8, <3>1 DEF IInv, Transactions
  <2>10. Threads'
    BY ZenonT(30), <2>1 DEF IInv, Threads, Busy
  <2>11. Sleepers'
    <3>1. ASSUME NEW k \in 1..Len(resps'), k # Len(resps')
          PROVE  resps'[k] \notin DOMAIN asleep'
      <4>1. k \in 1..Len(Tail(resps)) /\ k \in Int /\ k # Len(Tail(resps))
        BY SMTT(30), <1>1, <3>1
      <4>2. k + 1 \in 1..Len(resps) /\ resps'[k] = resps[k + 1]
        BY ZenonT(30), <2>2, <4>1
      <4>3. Len(resps') = Len(resps) - 1 /\ Len(resps) \in Nat
        BY <1>1
      <4>4. k + 1 # Len(resps)
        BY <3>1, <4>1, <4>3
      <4> QED
        BY ZenonT(30), <2>1, <4>2, <4>4 DEF IInv, Sleepers
    <3> QED
      BY ZenonT(30), <1>1, <1>6, <2>1, <3>1 DEF IInv, Sleepers, Busy
  <2> QED
    BY ZenonT(30), <1>2, <2>9, <2>10, <2>11 DEF Owned
<1> QED
    BY ZenonT(30), <1>5, <1>6

LEMMA OwnedCall == ASSUME IInv, NEW b \in Backends, Call(b) PROVE Owned'
<1> DEFINE t == CHOOSE u \in Trans \ InUse : \A v \in Trans \ InUse : u <= v
<1>1. t \in Trans \ InUse
    BY ZenonT(30), NatMin, DispatcherAssumption DEF Call
<1>2. /\ cur.at = "handler" /\ Busy /\ cur.h \in Handlers
      /\ asked' = [asked EXCEPT ![b] = @ \cup {t}]
      /\ cur' = InHandler([cur.h EXCEPT !.out = @ \cup {t}, !.calls = @ + 1])
      /\ UNCHANGED <<ring, reqs, resps, rmap, asleep>>
    BY CurKinds DEF Call, queues, Busy, IInv
<1> HIDE DEF t
<1>3. cur'.at = "handler" /\ Busy' /\ cur'.h.out = cur.h.out \cup {t}
    BY ZenonT(30), <1>2 DEF InHandler, Handlers, Busy
<1>4. ~Flying(t) /\ t \notin Pending
    BY <1>1 DEF IInv, Transactions
<1>5. \A u : InRing(u)' <=> InRing(u)
    BY <1>2 DEF InRing
<1>6. \A d \in Backends : asked'[d] = IF d = b THEN asked[b] \cup {t} ELSE asked[d]
    BY <1>2 DEF IInv, TypeOK
<1>7. \A u : Flying(u)' <=> Flying(u) \/ u = t
    BY ZenonT(30), <1>5, <1>6 DEF Flying
<1>8. Unique'
  <2>1. ~InRing(t) /\ \A d \in Backends : t \notin asked[d]
    BY ZenonT(30), <1>4 DEF Flying
  <2>2. \A d, e \in Backends : asked'[d] \cap asked'[e] # {} => d = e
    <3>1. \A d, e \in Backends : asked[d] \cap asked[e] # {} => d = e
      BY ZenonT(30) DEF IInv, Unique
    <3> QED
      BY ZenonT(30), <1>6, <2>1, <3>1
  <2>3. \A d \in Backends : \A u \in asked'[d] : ~InRing(u)'
    BY ZenonT(30), <1>5, <1>6, <2>1 DEF IInv, Unique
  <2>4. UNCHANGED ring
    BY ZenonT(30), <1>2
  <2>5. SentOnce'
    <3>1. SentOnce
      BY ZenonT(30) DEF IInv, Unique
    <3> QED
      BY SMTT(30), <2>4, <3>1 DEF SentOnce
  <2> QED
    BY ZenonT(30), <2>2, <2>3, <2>5 DEF Unique
<1>9. \A u : u \in InUse' <=> u \in InUse \/ u = t
    BY <1>2, <1>3, InUseIs
<1>10. Transactions'
    BY <1>2, <1>4, <1>7, <1>9 DEF IInv, Transactions, Pending
<1>11. Threads'
  <2>1. \A u \in DOMAIN asleep : t \notin asleep[u].out
    BY ZenonT(30), <1>1, InUseIs
  <2> QED
    BY SMTT(30), <1>2, <1>3, <2>1 DEF IInv, Threads
<1>12. Sleepers'
    BY <1>2, <1>3, <1>4 DEF IInv, Sleepers, Pending
<1> QED
    BY <1>8, <1>10, <1>11, <1>12 DEF Owned

LEMMA OwnedReceive == ASSUME IInv, NEW t \in Trans, Receive(t) PROVE Owned'
<1>1. /\ cur.at = "handler" /\ Busy /\ cur.h \in Handlers /\ t \in cur.h.out
      /\ UNCHANGED <<asked, ring, reqs, resps, asleep>>
    BY ZenonT(30), CurKinds DEF Receive, Busy, IInv, peers
<1>2. Unique' /\ \A u : Flying(u)' <=> Flying(u)
    BY ZenonT(30), <1>1, FlightKept DEF IInv
<1>3. \A u \in DOMAIN asleep : asleep[u].out \cap cur.h.out = {}
    BY ZenonT(30), <1>1 DEF IInv, Threads
<1>4. CASE t \in rmap
  <2>1. rmap' = rmap \ {t} /\ cur' = Received(cur.h, t)
    BY ZenonT(30), <1>4 DEF Receive
  <2>2. cur'.at = "handler" /\ Busy' /\ cur'.h.out = cur.h.out \ {t}
    <3>1. Received(cur.h, t).at = "handler" /\ Received(cur.h, t).h.out = cur.h.out \ {t}
      BY SMTT(30), <1>1 DEF Received, InHandler, Handlers
    <3> QED
      BY ZenonT(30), <2>1, <3>1 DEF Busy
  <2>3. \A u : u \in InUse' <=> u \in InUse /\ u # t
    BY ZenonT(30), <1>1, <1>3, <2>2, InUseIs
  <2>4. \A u : u \in Pending' <=> u \in Pending /\ u # t
    BY ZenonT(30), <1>1, <1>4, <2>1 DEF IInv, Transactions, Pending
  <2>5. t \in Pending
    BY <1>4 DEF Pending
  <2>6. Transactions'
    BY ZenonT(30), <1>1, <1>2, <2>1, <2>3, <2>4, <2>5 DEF IInv, Transactions
  <2>7. Threads'
    BY ZenonT(30), <1>1, <2>2 DEF IInv, Threads
  <2>8. Sleepers'
    BY ZenonT(30), <1>1, <2>1, <2>2 DEF IInv, Sleepers
  <2> QED
    BY <1>2, <2>6, <2>7, <2>8 DEF Owned
<1>5. CASE t \notin rmap
  <2>1. UNCHANGED rmap /\ cur' = Waiting(cur.h, t, 0)
    BY ZenonT(30), <1>5 DEF Receive
  <2>2. /\ cur'.at = "wait" /\ Busy' /\ cur'.h = cur.h /\ cur'.trans = t /\ cur'.count = 0
    BY ZenonT(30), <2>1 DEF Waiting, Busy
  <2>3. \A u : u \in InUse' <=> u \in InUse
    BY ZenonT(30), <1>1, <2>2, InUseKept
  <2>4. Transactions'
    BY ZenonT(30), <1>1, <1>2, <2>1, <2>3, PendingKept
  <2>5. Threads'
    BY ZenonT(30), <1>1, <2>2 DEF IInv, Threads
  <2>6. t \notin Pending' /\ Range(resps') \cap cur'.h.out = {}
    BY ZenonT(30), <1>1, <1>5, <2>1, <2>2 DEF IInv, Sleepers, Pending
  <2>7. DOMAIN asleep = {} => resps = <<>>
    <3> SUFFICES ASSUME DOMAIN asleep = {}, resps # <<>> PROVE FALSE
      OBVIOUS
    <3>1. resps \in Seq(Trans) /\ 1 \in 1..Len(resps)
      BY DEF IInv, TypeOK
    <3>2. resps[1] \in Range(resps)
      BY <3>1, RangeOf
    <3>3. resps[1] \in InUse
      BY ZenonT(30), <3>2 DEF IInv, Transactions, Pending
    <3>4. resps[1] \in cur.h.out
      BY ZenonT(30), <3>3, InUseIs
    <3> QED
      BY ZenonT(30), <1>1, <3>2, <3>4 DEF IInv, Sleepers
  <2>8. DOMAIN asleep' = {} => cur'.count = Len(resps')
    BY ZenonT(30), <1>1, <2>2, <2>7
  <2>9. Sleepers'
    BY ZenonT(30), <1>1, <2>1, <2>2, <2>6, <2>8 DEF IInv, Sleepers
  <2> QED
    BY ZenonT(30), <1>2, <2>4, <2>5, <2>9 DEF Owned
<1> QED
    BY <1>4, <1>5

\* The thread that waits goes to sleep, and whatever arrives last is processed first.
LEMMA OwnedSleep ==
    ASSUME IInv, cur.at = "wait", Sleep,
           \/ UNCHANGED resps
           \/ reqs' = <<>> /\ \E t \in Trans : resps' = Append(resps, t),
           UNCHANGED rmap
    PROVE  /\ \A u : u \in InUse' <=> u \in InUse
           /\ Threads' /\ Sleepers'
<1>1. /\ Busy /\ cur.h \in Handlers /\ cur.trans \in cur.h.out /\ cur.trans \notin Pending
      /\ Range(resps) \cap DOMAIN asleep = {} /\ resps \in Seq(Trans)
    BY ZenonT(30), CurKinds DEF Busy, IInv, Threads, Sleepers, TypeOK
<1>2. /\ DOMAIN asleep' = DOMAIN asleep \cup {cur.trans}
      /\ asleep'[cur.trans] = cur.h
      /\ \A u \in DOMAIN asleep : u # cur.trans => asleep'[u] = asleep[u]
      /\ cur' = Main
    BY ZenonT(30) DEF Sleep
<1>3. ~Busy' /\ cur'.at = "main"
    BY ZenonT(30), <1>2 DEF Busy, Main
<1>4. \A u \in DOMAIN asleep : u \in asleep[u].out /\ asleep[u].out \cap cur.h.out = {}
    BY ZenonT(30), <1>1 DEF IInv, Threads
<1>5. cur.trans \notin DOMAIN asleep
    BY <1>1, <1>4
<1>6. \A u \in DOMAIN asleep : asleep'[u] = asleep[u]
    BY <1>2, <1>5
<1>7. \A u : u \in InUse' <=> u \in InUse
    BY ZenonT(30), <1>1, <1>2, <1>3, <1>6, InUseIs
<1>8. Threads'
  <2>1. \A u \in DOMAIN asleep' : u \in asleep'[u].out
    BY ZenonT(30), <1>1, <1>2, <1>4, <1>6
  <2>2. ASSUME NEW u \in DOMAIN asleep', NEW v \in DOMAIN asleep',
               asleep'[u].out \cap asleep'[v].out # {}
        PROVE  u = v
    BY ZenonT(30), <1>2, <1>4, <1>6, <2>2 DEF IInv, Threads
  <2> QED
    BY ZenonT(30), <1>3, <2>1, <2>2 DEF Threads
<1>9. \A i \in 1..Len(resps) : resps[i] \notin DOMAIN asleep'
    BY ZenonT(30), <1>1, <1>2, RangeOf DEF Pending
<1>10. DOMAIN asleep' \cap rmap' = {}
    BY ZenonT(30), <1>1, <1>2 DEF IInv, Sleepers, Pending
<1>11. Range(resps) \cap DOMAIN asleep' = {}
    BY ZenonT(30), <1>1, <1>2 DEF Pending
<1>12. Sleepers'
  <2>1. CASE UNCHANGED resps
    BY ZenonT(30), <1>3, <1>9, <1>10, <1>11, <2>1 DEF Sleepers
  <2>2. ASSUME reqs' = <<>>, NEW t \in Trans, resps' = Append(resps, t)
        PROVE  Sleepers'
    <3>1. \A i \in 1..Len(resps') : i # Len(resps') => resps'[i] \notin DOMAIN asleep'
      <4>1. Len(resps') = Len(resps) + 1 /\ Len(resps) \in Nat
        BY SMTT(30), <1>1, <2>2
      <4>2. \A i \in 1..Len(resps') : i # Len(resps') => i \in 1..Len(resps) /\ resps'[i] = resps[i]
        BY SMTT(30), <1>1, <2>2, <4>1
      <4> QED
        BY ZenonT(30), <1>9, <4>2
    <3> QED
      BY ZenonT(30), <1>3, <1>10, <2>2, <3>1 DEF Sleepers
  <2> QED
    BY <2>1, <2>2
<1> QED
    BY ZenonT(30), <1>7, <1>8, <1>12

LEMMA OwnedWaitNothing == ASSUME IInv, WaitNothing PROVE Owned'
<1>1. cur.at = "wait" /\ UNCHANGED <<asked, ring, reqs, resps, rmap>>
    BY ZenonT(30) DEF WaitNothing, PollNothing, peers
<1>2. CASE ShouldYield(reqs, resps)
  <2>1. Sleep
    BY <1>2 DEF WaitNothing
  <2>2. (\A u : u \in InUse' <=> u \in InUse) /\ Threads' /\ Sleepers'
    BY <1>1, <2>1, OwnedSleep
  <2>3. Unique' /\ \A u : Flying(u)' <=> Flying(u)
    BY <1>1, FlightKept DEF IInv
  <2>4. Transactions'
    BY <1>1, <2>2, <2>3, PendingKept
  <2> QED
    BY <2>2, <2>3, <2>4 DEF Owned
<1>3. CASE ~ShouldYield(reqs, resps)
    BY <1>1, <1>3, OwnedFrame DEF WaitNothing
<1> QED
    BY <1>2, <1>3

LEMMA OwnedWaitOther == ASSUME IInv, WaitOther PROVE Owned'
<1>1. cur.at = "wait" /\ Busy /\ PollMessage /\ ProcessMessage /\ UNCHANGED rmap
    BY ZenonT(30) DEF WaitOther, ProcessMessage, Busy
<1>2. /\ cur.h \in Handlers /\ cur.trans \in Trans /\ cur.count \in Nat
      /\ cur = Waiting(cur.h, cur.trans, cur.count)
    BY <1>1, CurKinds DEF IInv
<1>3. CASE ShouldYield(reqs', resps')
  <2>1. Sleep
    BY ZenonT(30), <1>3 DEF WaitOther
  <2>2. \/ UNCHANGED resps
        \/ reqs' = <<>> /\ \E t \in Trans : resps' = Append(resps, t)
    <3>1. reqs = <<>>
      BY ZenonT(30), <1>1 DEF IInv, Shape
    <3> QED
      BY ZenonT(30), <1>1, <3>1, Polled DEF ProcessMessage, PollMessage, IInv
  <2>3. (\A u : u \in InUse' <=> u \in InUse) /\ Threads' /\ Sleepers'
    BY <1>1, <2>1, <2>2, OwnedSleep
  <2>4. Unique' /\ Transactions'
    BY ZenonT(30), <1>1, <2>3, PollPending
  <2> QED
    BY <2>3, <2>4 DEF Owned
<1>4. CASE ~ShouldYield(reqs', resps')
  <2>1. /\ UNCHANGED asleep
        /\ cur' = [cur EXCEPT !.count = IF Message.kind = "note" THEN @ ELSE @ + 1]
    BY ZenonT(30), <1>4 DEF WaitOther
  <2>2. /\ cur'.at = "wait" /\ Busy' /\ cur'.h = cur.h /\ cur'.trans = cur.trans
        /\ cur'.count = IF Message.kind = "note" THEN cur.count ELSE cur.count + 1
    BY <1>2, <2>1 DEF Waiting, Busy
  <2>3. \A u : u \in InUse' <=> u \in InUse
    BY <1>1, <2>1, <2>2, InUseKept
  <2>4. /\ Unique' /\ Transactions'
        /\ \/ Message.kind # "response" /\ UNCHANGED resps
           \/ \E t \in InUse \cap Trans :
                    /\ Message = Response(t) /\ resps' = Append(resps, t) /\ t \notin Pending
                    /\ \A u : u \in Range(resps') <=> u \in Range(resps) \/ u = t
    BY ZenonT(30), <1>1, <2>3, PollPending
  <2>5. Threads'
    BY <1>1, <2>1, <2>2 DEF IInv, Threads
  <2>6. reqs' = <<>>
    <3> SUFFICES ASSUME reqs' # <<>> PROVE FALSE
      OBVIOUS
    <3>1. reqs = <<>>
      BY <1>1 DEF IInv, Shape
    <3>2. From \in Clients /\ ring[From] # <<>>
      BY ZenonT(30), <1>1, <3>1, PollQueues DEF IInv
    <3>3. setup.running
      BY ZenonT(30), <3>2 DEF IInv, Shape
    <3> QED
      BY <1>4, <3>3 DEF ShouldYield
  <2>7. CASE Message.kind # "response"
    <3>1. UNCHANGED resps
      BY ZenonT(30), <2>4, <2>7, ResponseOf
    <3>2. Message.kind = "note"
      <4>1. Message.kind # "request"
        <5> SUFFICES ASSUME Message.kind = "request" PROVE FALSE
          OBVIOUS
        <5>1. reqs = <<>> /\ reqs' = Append(reqs, From)
          BY <1>1 DEF IInv, Shape, ProcessMessage
        <5> QED
          BY <2>6, <5>1, OneElement
      <4>2. Message \in Messages
        BY <1>1, Polled DEF IInv, PollMessage
      <4> QED
        BY <2>7, <4>1, <4>2 DEF Messages
    <3>3. Sleepers'
      BY <1>1, <2>1, <2>2, <2>6, <3>1, <3>2 DEF IInv, Sleepers, Pending
    <3> QED
      BY <2>4, <2>5, <3>3 DEF Owned
  <2>8. ASSUME NEW t \in InUse \cap Trans, Message = Response(t), resps' = Append(resps, t),
               t \notin Pending,
               \A u : u \in Range(resps') <=> u \in Range(resps) \/ u = t
        PROVE  Owned'
    <3>1. DOMAIN asleep = {}
      <4>1. resps' # <<>>
        BY SMTT(30), <2>8 DEF IInv, TypeOK
      <4> QED
        BY ZenonT(30), <1>4, <4>1 DEF ShouldYield, IInv, Shape
    <3>2. cur'.count = Len(resps')
      <4>1. cur.count = Len(resps)
        BY ZenonT(30), <1>1, <3>1 DEF IInv, Sleepers
      <4>2. Len(resps') = Len(resps) + 1
        BY SMTT(30), <2>8 DEF IInv, TypeOK
      <4>3. Message.kind # "note"
        BY <2>8, ResponseOf
      <4> QED
        BY ZenonT(30), <2>2, <4>1, <4>2, <4>3
    <3>3. cur'.trans \notin Pending'
      <4>1. t # cur.trans
        BY <2>8 DEF WaitOther, Own, Response
      <4>2. cur.trans \notin Pending
        BY ZenonT(30), <1>1 DEF IInv, Sleepers
      <4> QED
        BY ZenonT(30), <1>1, <2>2, <2>8, <4>1, <4>2 DEF Pending
    <3>4. Sleepers'
      BY <2>1, <2>2, <3>1, <3>2, <3>3 DEF Sleepers
    <3> QED
      BY ZenonT(30), <2>4, <2>5, <3>4 DEF Owned
  <2> QED
    BY ZenonT(30), <2>4, <2>7, <2>8
<1> QED
    BY <1>3, <1>4

LEMMA OwnedWaitOwn == ASSUME IInv, WaitOwn PROVE Owned'
<1> DEFINE t == cur.trans
<1>1. /\ cur.at = "wait" /\ Busy /\ PollMessage /\ Message = Response(t)
      /\ cur.h \in Handlers /\ t \in Trans /\ t \in cur.h.out /\ t \notin Pending
    BY ZenonT(30), CurKinds DEF WaitOwn, Own, Response, Busy, IInv, Threads, Sleepers
<1>2. /\ cur' = Received(cur.h, t) /\ UNCHANGED <<asleep, reqs>>
      /\ resps' = IF DOMAIN asleep = {} THEN <<>> ELSE resps
      /\ rmap' = IF DOMAIN asleep = {} THEN rmap \cup Range(resps) ELSE rmap
    BY OwnFacts DEF IInv
<1> HIDE DEF t
<1>3. cur'.at = "handler" /\ Busy' /\ cur'.h.out = cur.h.out \ {t}
    BY ZenonT(30), <1>1, <1>2, ReceivedFields
<1>4. From \in Backends
    BY ZenonT(30), <1>1, Polled, ResponseOf DEF PollMessage, IInv
<1>5. /\ Unique' /\ (\A u : Flying(u)' => Flying(u)) /\ \A u : u = t => ~Flying(u)'
      /\ \A u : Flying(u) => Flying(u)' \/ u = t
    BY ZenonT(30), <1>1, <1>4, FlightPolled, ResponseOf DEF IInv
<1>6. \A u \in DOMAIN asleep : t \notin asleep[u].out
    BY ZenonT(30), <1>1 DEF IInv, Threads
<1>7. \A u : u \in InUse' <=> u \in InUse /\ u # t
    BY ZenonT(30), <1>1, <1>2, <1>3, <1>6, InUseIs
<1>8. /\ \A u : u \in Pending' <=> u \in Pending
      /\ rmap' \cap Range(resps') = {}
      /\ \A i, j \in 1..Len(resps') : resps'[i] = resps'[j] => i = j
  <2>1. CASE DOMAIN asleep = {}
    <3>1. resps' = <<>> /\ Range(resps') = {} /\ rmap' = rmap \cup Range(resps)
      BY <1>2, <2>1 DEF Range
    <3> QED
      BY <3>1 DEF Pending
  <2>2. CASE DOMAIN asleep # {}
    BY <1>2, <2>2 DEF IInv, Transactions, Pending
  <2> QED
    BY ZenonT(30), <2>1, <2>2
<1>9. Transactions'
    BY ZenonT(30), <1>1, <1>5, <1>7, <1>8 DEF IInv, Transactions
<1>10. Threads'
    BY ZenonT(30), <1>1, <1>2, <1>3 DEF IInv, Threads
<1>11. Sleepers'
  <2>1. CASE DOMAIN asleep = {}
    <3>1. resps' = <<>> /\ Range(resps') = {} /\ DOMAIN asleep' = {}
      BY <1>2, <2>1 DEF Range
    <3> QED
      BY ZenonT(30), <1>3, <3>1 DEF Sleepers
  <2>2. CASE DOMAIN asleep # {}
    BY ZenonT(30), <1>1, <1>2, <1>3, <2>2 DEF IInv, Sleepers
  <2> QED
    BY ZenonT(30), <2>1, <2>2
<1> QED
    BY <1>5, <1>9, <1>10, <1>11 DEF Owned

LEMMA OwnedStep == ASSUME IInv, [Next]_vars PROVE Owned'
<1>1. ASSUME NEW c \in Clients, Ask(c) \/ Take(c) PROVE Owned'
  <2>1. \A b \in Backends : ring'[b] = ring[b]
    BY ZenonT(30), <1>1, DispatcherAssumption DEF Ask, Take, IInv, TypeOK, Peers
  <2> QED
    BY ZenonT(30), <1>1, <2>1, OwnedFrame DEF Ask, Take, queues
<1>2. CASE UNCHANGED vars
    BY <1>2, OwnedFrame DEF vars
<1> QED
    BY ZenonT(30), <1>1, <1>2,
       OwnedPeers, OwnedMainRequest, OwnedMainResponse, OwnedMainPoll, OwnedCall,
       OwnedReceive, OwnedReturn, OwnedDrain, OwnedWaitNothing, OwnedWaitOther, OwnedWaitOwn
       DEF Next, Process

-----------------------------------------------------------------------------
LEMMA InvInit == Init => IInv
<1> SUFFICES ASSUME Init PROVE IInv
    BY ZenonT(30)
<1>1. TypeOK
    BY ZenonT(30), TypeInit
<1>2. /\ \A p \in Peers : ring[p] = <<>>
      /\ \A b \in Backends : asked[b] = {}
      /\ reqs = <<>> /\ resps = <<>> /\ rmap = {} /\ Range(resps) = {} /\ DOMAIN asleep = {}
    BY DEF Init, Range
<1>3. /\ setup.running => ~Busy /\ cur.at = "main"
      /\ ~setup.running => Busy /\ cur.at = "handler" /\ cur.h.out = {}
    BY ZenonT(30) DEF Init, Busy, Main, InHandler, Application
<1>4. Rings /\ Unique /\ \A t : ~Flying(t)
  <2>1. \A b \in Backends : 1..Len(ring[b]) = {}
    BY <1>2 DEF Peers
  <2>2. \A t : ~InRing(t)
    BY ZenonT(30), <2>1 DEF InRing
  <2>3. \A t : ~Flying(t)
    BY ZenonT(30), <1>2, <2>2 DEF Flying
  <2>4. Rings
    BY <1>2, <2>1 DEF Rings, Peers
  <2>5. Unique
    BY ZenonT(30), <1>2, <2>1 DEF Unique, SentOnce
  <2> QED
    BY <2>3, <2>4, <2>5
<1>5. Shape
    BY ZenonT(30), <1>2, <1>3 DEF Shape, Peers
<1>6. Requests
    BY ZenonT(30), <1>2, <1>3, OneElement DEF Requests, Peers
<1>7. Threads /\ Sleepers
    BY ZenonT(30), <1>2, <1>3 DEF Threads, Sleepers
<1>8. Transactions
  <2>1. \A t : t \notin InUse
    BY ZenonT(30), <1>2, <1>3, InUseIs
  <2>2. Pending = {} /\ 1..Len(resps) = {}
    BY <1>2 DEF Pending
  <2> QED
    BY ZenonT(30), <1>2, <1>4, <2>1, <2>2 DEF Transactions
<1> QED
    BY <1>1, <1>4, <1>5, <1>6, <1>7, <1>8 DEF IInv

LEMMA InvStep == IInv /\ [Next]_vars => IInv'
<1> SUFFICES ASSUME IInv, [Next]_vars PROVE IInv'
    BY ZenonT(30)
<1>1. TypeOK' /\ Rings'
    BY TypeStep, RingsStep DEF IInv
<1>2. Shape' /\ Requests'
    BY RequestsStep
<1>3. Owned'
    BY OwnedStep
<1> QED
    BY <1>1, <1>2, <1>3 DEF IInv, Owned

LEMMA Invariant == Spec => []IInv
BY InvInit, InvStep, PTL DEF Spec

\* The variables of the dispatcher keep their types: what a thread goes on with after
\* a switch (dispatch.cpp:291, 471) is always a handler, and what is in the queues are
\* requests of clients and responses to transactions.
THEOREM TypeCorrect == Spec => []TypeOK
<1>1. IInv => TypeOK
    BY DEF IInv
<1> QED
    BY <1>1, Invariant, PTL

\* With any number of clients, backends and channels a request is taken from the queue
\* before the next message is received: the queue never fills (dispatch.cpp:208-213).
THEOREM QueueNeverFills == Spec => []PollsWithoutRequests
<1>1. IInv => PollsWithoutRequests
    BY DEF IInv, Shape, PollsWithoutRequests, Busy
<1> QED
    BY <1>1, Invariant, PTL

\* No thread waits, in its polling loop or asleep, for a response that has been taken
\* off its channel (dispatch.cpp:283-299, 458-488), however the threads of a server
\* overlap.
THEOREM ResponsesReachTheirThread == Spec => []NoMissedResponse
<1>1. IInv => NoMissedResponse
    BY ZenonT(30) DEF IInv, Sleepers, NoMissedResponse, Pending
<1> QED
    BY <1>1, Invariant, PTL

-----------------------------------------------------------------------------
(* The safety part of the refinement of Rpc.                                  *)

LEMMA KnownChanges ==
    ASSUME TypeOK, UNCHANGED setup, NEW c \in Clients, NEW v,
           client' = [client EXCEPT ![c] = v]
    PROVE  IF c \in setup.unknown THEN UNCHANGED Known
           ELSE Known' = [Known EXCEPT ![c] = v] /\ Known[c] = client[c]
<1>1. CASE c \in setup.unknown
    BY ZenonT(30), <1>1 DEF Known, TypeOK
<1>2. CASE c \notin setup.unknown
    BY ZenonT(30), <1>2 DEF Known, TypeOK
<1> QED
    BY ZenonT(30), <1>1, <1>2

LEMMA RpcStep == IInv /\ [Next]_vars => [R!Next]_Known
<1> SUFFICES ASSUME IInv, [Next]_vars PROVE R!Next \/ UNCHANGED Known
    OBVIOUS
<1>1. TypeOK
    BY DEF IInv
<1>2. ASSUME NEW c \in Clients, Ask(c) PROVE R!Next \/ UNCHANGED Known
    BY ZenonT(30), <1>1, <1>2, KnownChanges DEF Ask, R!Next, R!Ask
<1>3. ASSUME NEW c \in Clients, Take(c) PROVE R!Next \/ UNCHANGED Known
    BY ZenonT(30), <1>1, <1>3, KnownChanges DEF Take, R!Next, R!Take
<1>4. CASE MainRequest
  <2>1. CASE Head(reqs) \in setup.unknown
    <3>1. Head(reqs) \in Clients
      BY SMTT(30), <1>4 DEF MainRequest, IInv, TypeOK
    <3> QED
      BY ZenonT(30), <1>1, <1>4, <2>1, <3>1, KnownChanges DEF MainRequest
  <2>2. CASE Head(reqs) \notin setup.unknown
    BY <1>4, <2>2 DEF MainRequest, Known
  <2> QED
    BY <2>1, <2>2
<1>5. CASE Return
  <2>1. CASE setup.running
    <3>1. cur.h.from \in Clients /\ client[cur.h.from] = "asked"
      BY ZenonT(30), <1>5, <2>1 DEF Return, IInv, Requests, Held, Busy
    <3> QED
      BY ZenonT(30), <1>1, <1>5, <2>1, <3>1, KnownChanges DEF Return, R!Next, R!Answer
  <2>2. CASE ~setup.running
    BY ZenonT(30), <1>5, <2>2 DEF Return, Known
  <2> QED
    BY <2>1, <2>2
<1>6. CASE UNCHANGED <<setup, client>>
    BY <1>6 DEF Known
<1>7. \/ \E c \in Clients : Ask(c) \/ Take(c)
      \/ MainRequest \/ Return
      \/ UNCHANGED <<setup, client>>
    BY ZenonT(30)
       DEF Next, Process, vars, peers, MainResponse, MainPoll, PollNothing, PollMessage, Call,
       Receive, CheckNotifications, Drain, WaitNothing, WaitOther, WaitOwn, Notify, Answer
<1> QED
    BY <1>2, <1>3, <1>4, <1>5, <1>6, <1>7

\* A client whose requests have a handler gets an answer only to what it asked, and one
\* answer to each request (dispatch.h:121-142, dispatch.cpp:301): every step of the
\* dispatcher is one of Rpc or leaves the clients as they are.
THEOREM AnswersMatchRequests == Spec => R!Safety
<1>1. Init => R!Init
    BY ZenonT(30), DispatcherAssumption DEF Init, R!Init, Known
<1> QED
    BY <1>1, RpcStep, Invariant, PTL DEF Spec, R!Safety
=============================================================================
