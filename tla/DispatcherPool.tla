--------------------------- MODULE DispatcherPool ---------------------------
(***************************************************************************)
(* Proofs about Dispatcher that count: a transaction in use has exactly one  *)
(* place, and the entries of the pool of messages that are in use are the    *)
(* ones that something refers to.                                            *)
(***************************************************************************)
EXTENDS DispatcherProofs, FiniteSetTheorems

-----------------------------------------------------------------------------
(* One place for each transaction.                                            *)

LEMMA OncePlaced == ASSUME IInv PROVE ResponsesOnce
<1> SUFFICES ASSUME NEW t \in Trans
             PROVE  LET Sent(b) == {i \in 1..Len(ring[b]) : ring[b][i] = [kind |-> "response", trans |-> t]}
                        places == {<<b, 0>> : b \in {x \in Backends : t \in asked[x]}}
                            \cup (UNION {{b} \X Sent(b) : b \in Backends})
                            \cup {<<"pending", i>> : i \in {j \in 1..Len(resps) : resps[j] = t}}
                            \cup (IF t \in rmap THEN {<<"map", 0>>} ELSE {})
                    IN  Cardinality(places) = IF t \in InUse THEN 1 ELSE 0
    BY DEF ResponsesOnce
<1> DEFINE Sent(b) == {i \in 1..Len(ring[b]) : ring[b][i] = [kind |-> "response", trans |-> t]}
           A == {<<b, 0>> : b \in {x \in Backends : t \in asked[x]}}
           B == UNION {{b} \X Sent(b) : b \in Backends}
           C == {<<"pending", i>> : i \in {j \in 1..Len(resps) : resps[j] = t}}
           D == IF t \in rmap THEN {<<"map", 0>>} ELSE {}
<1>1. \A x : x \in A <=> \E b \in Backends : t \in asked[b] /\ x = <<b, 0>>
    BY ZenonT(30)
<1>2. \A x : x \in B <=> \E b \in Backends : \E i \in 1..Len(ring[b]) :
                             ring[b][i] = Response(t) /\ x = <<b, i>>
  <2>1. \A b, i : i \in Sent(b) <=> i \in 1..Len(ring[b]) /\ ring[b][i] = Response(t)
    BY DEF Response
  <2> HIDE DEF Sent
  <2>2. \A x, b : x \in {b} \X Sent(b) <=> \E i \in Sent(b) : x = <<b, i>>
    BY SMTT(30)
  <2>3. \A x : x \in B <=> \E b \in Backends : x \in {b} \X Sent(b)
    BY ZenonT(30)
  <2> HIDE DEF B
  <2> QED
    BY <2>1, <2>2, <2>3
<1>3. \A x : x \in C <=> \E i \in 1..Len(resps) : resps[i] = t /\ x = <<"pending", i>>
    BY ZenonT(30)
<1>4. D = IF t \in rmap THEN {<<"map", 0>>} ELSE {}
    OBVIOUS
<1>5. t \in Range(resps) <=> \E i \in 1..Len(resps) : resps[i] = t
  <2>1. resps \in Seq(Trans)
    BY DEF IInv, TypeOK
  <2> QED
    BY ZenonT(30), <2>1, RangeOf
<1> HIDE DEF A, B, C, D
<1>6. A = {} /\ B = {} <=> ~Flying(t)
    BY ZenonT(30), <1>1, <1>2 DEF Flying, InRing
<1>7. C = {} <=> t \notin Range(resps)
    BY ZenonT(30), <1>3, <1>5
<1>8. /\ t \in InUse <=> Flying(t) \/ t \in rmap \/ t \in Range(resps)
      /\ Flying(t) => t \notin rmap /\ t \notin Range(resps)
      /\ t \in rmap => t \notin Range(resps)
    BY DEF IInv, Transactions, Pending
<1>9. CASE t \notin InUse
  <2>1. A \cup B \cup C \cup D = {}
    BY <1>4, <1>6, <1>7, <1>8, <1>9
  <2> QED
    BY <1>9, <2>1, FS_EmptySet DEF A, B, C, D
<1>10. CASE t \in InUse
  <2> SUFFICES \E x : A \cup B \cup C \cup D = {x}
    BY <1>10, FS_Singleton DEF A, B, C, D
  <2>1. CASE t \in rmap
    <3>1. A \cup B \cup C \cup D = {<<"map", 0>>}
      BY <1>4, <1>6, <1>7, <1>8, <2>1
    <3> QED
      BY <3>1
  <2>2. CASE t \in Range(resps)
    <3>1. PICK i \in 1..Len(resps) : resps[i] = t
      BY <1>5, <2>2
    <3>2. \A j \in 1..Len(resps) : resps[j] = t => j = i
      BY <3>1 DEF IInv, Transactions
    <3>3. C = {<<"pending", i>>}
      BY ZenonT(30), <1>3, <3>1, <3>2
    <3>4. A \cup B \cup C \cup D = {<<"pending", i>>}
      BY <1>4, <1>6, <1>8, <2>2, <3>3
    <3> QED
      BY <3>4
  <2>3. CASE Flying(t)
    <3>1. A \cup B \cup C \cup D = A \cup B
      BY <1>4, <1>7, <1>8, <2>3
    <3>2. CASE \E b \in Backends : t \in asked[b]
      <4>1. PICK b \in Backends : t \in asked[b]
        BY <3>2
      <4>2. ~InRing(t) /\ \A d \in Backends : t \in asked[d] => d = b
        BY <4>1 DEF IInv, Unique
      <4>3. A = {<<b, 0>>}
        BY ZenonT(30), <1>1, <4>1, <4>2
      <4>4. B = {}
        BY ZenonT(30), <1>2, <4>2 DEF InRing
      <4> QED
        BY <3>1, <4>3, <4>4
    <3>3. CASE ~\E b \in Backends : t \in asked[b]
      <4>1. PICK b \in Backends : \E i \in 1..Len(ring[b]) : ring[b][i] = Response(t)
        BY <2>3, <3>3 DEF Flying, InRing
      <4>2. PICK i \in 1..Len(ring[b]) : ring[b][i] = Response(t)
        BY <4>1
      <4>3. \A d \in Backends : \A j \in 1..Len(ring[d]) : ring[d][j] = Response(t) => d = b /\ j = i
        BY <4>2 DEF IInv, Unique, SentOnce
      <4>4. B = {<<b, i>>}
        BY ZenonT(30), <1>2, <4>2, <4>3
      <4>5. A = {}
        BY ZenonT(30), <1>1, <3>3
      <4> QED
        BY <3>1, <4>4, <4>5
    <3> QED
      BY <3>2, <3>3
  <2> QED
    BY <1>8, <1>10, <2>1, <2>2, <2>3
<1> QED
    BY <1>9, <1>10

\* For any number of clients, backends and transactions: a response that a handler has
\* to receive is at exactly one place, and nothing is left over of a transaction that is
\* not in use.  So no switch between threads (dispatch.cpp:291, 471) loses a response
\* and none is delivered twice.
THEOREM ResponsesHaveOnePlace == Spec => []ResponsesOnce
<1>1. IInv => ResponsesOnce
    BY OncePlaced
<1> QED
    BY <1>1, Invariant, PTL

-----------------------------------------------------------------------------
(* The pool.                                                                  *)

Active == IF setup.running /\ cur.at # "main" THEN 1 ELSE 0
Kept == IF spare THEN 1 ELSE 0
Forgotten == {c \in Clients : client[c] = "forgotten"}

\* Entries of the pool that no message in a queue has, and what they are for.
Spent == used - Kept - Len(reqs) - Len(resps)
Owed == Cardinality(rmap) + Cardinality(DOMAIN asleep) + Active + Cardinality(Forgotten)

Finite == IsFiniteSet(rmap) /\ IsFiniteSet(DOMAIN asleep) /\ IsFiniteSet(Forgotten)

PoolInv == Finite /\ Spent = Owed

LEMMA CountTypes ==
    ASSUME TypeOK, Finite
    PROVE  /\ Cardinality(rmap) \in Int /\ Cardinality(DOMAIN asleep) \in Int
           /\ Active \in Int /\ Cardinality(Forgotten) \in Int
BY FS_CardinalityType DEF Finite, Active

LEMMA SpentTypes ==
    ASSUME TypeOK
    PROVE  used \in Int /\ Kept \in Int /\ Len(reqs) \in Int /\ Len(resps) \in Int
BY DEF TypeOK, Kept

LEMMA PoolIs == ASSUME TypeOK, PoolInv PROVE PoolExact
<1>1. /\ used \in Int /\ Kept \in Int /\ Len(reqs) \in Int /\ Len(resps) \in Int
      /\ Cardinality(rmap) \in Int /\ Cardinality(DOMAIN asleep) \in Int
      /\ Active \in Int /\ Cardinality(Forgotten) \in Int
    BY CountTypes, SpentTypes DEF PoolInv
<1>2. used = Len(reqs) + Len(resps) + Cardinality(rmap) + Cardinality(DOMAIN asleep)
               + Active + Kept + Cardinality(Forgotten)
  <2>1. used - Kept - Len(reqs) - Len(resps) = Owed
    BY DEF PoolInv, Spent
  <2>2. Owed \in Int
    BY <1>1 DEF Owed
  <2>3. used = Len(reqs) + Len(resps) + Owed + Kept
    BY <1>1, <2>1, <2>2
  <2> QED
    BY <1>1, <2>3 DEF Owed
<1> QED
    BY <1>2 DEF PoolExact, Active, Kept, Forgotten

\* A step that neither takes an entry nor frees one.
LEMMA PoolFrame ==
    ASSUME PoolInv, UNCHANGED <<queues, used, spare>>, UNCHANGED Active, UNCHANGED Forgotten
    PROVE  PoolInv'
BY DEF PoolInv, Finite, Spent, Owed, queues, Kept

LEMMA ForgottenKept ==
    ASSUME TypeOK, NEW c \in Clients, NEW v,
           client' = [client EXCEPT ![c] = v], client[c] # "forgotten", v # "forgotten"
    PROVE  UNCHANGED Forgotten
BY DEF TypeOK, Forgotten

LEMMA PoolPeers ==
    ASSUME TypeOK, PoolInv,
           \/ \E c \in Clients : Ask(c) \/ Take(c)
           \/ \E b \in Backends : Notify(b) \/ \E t \in Trans : Answer(b, t)
    PROVE  PoolInv'
<1>1. UNCHANGED <<queues, used, spare>> /\ UNCHANGED Active
    BY DEF Ask, Take, Notify, Answer, Active
<1>2. UNCHANGED Forgotten
  <2>1. ASSUME NEW c \in Clients, Ask(c) \/ Take(c) PROVE UNCHANGED Forgotten
    BY ZenonT(30), <2>1, ForgottenKept DEF Ask, Take
  <2>2. ASSUME NEW b \in Backends, Notify(b) \/ \E t \in Trans : Answer(b, t)
        PROVE  UNCHANGED Forgotten
    BY <2>2 DEF Notify, Answer, Forgotten
  <2> QED
    BY <2>1, <2>2
<1> QED
    BY <1>1, <1>2, PoolFrame

LEMMA PoolMainRequest == ASSUME IInv, PoolInv, MainRequest PROVE PoolInv'
<1>1. TypeOK /\ Finite /\ setup.running /\ cur.at = "main" /\ Active = 0
    BY DEF IInv, PoolInv, Shape, Busy, MainRequest, Active
<1>2. UNCHANGED <<setup, resps, rmap, asleep, used, spare>>
    BY DEF MainRequest
<1>3. Spent' = Spent + 1
  <2>1. Len(reqs') = Len(reqs) - 1
    BY <1>1 DEF MainRequest, TypeOK
  <2>2. UNCHANGED Kept
    BY <1>2 DEF Kept
  <2> QED
    BY <1>1, <1>2, <2>1, <2>2, SpentTypes DEF Spent
<1>4. Head(reqs) \in Clients /\ client[Head(reqs)] = "asked"
  <2>1. PICK c \in Clients : reqs = <<c>>
    BY DEF IInv, Shape, MainRequest
  <2>2. Held(c)
    BY <2>1 DEF IInv, Requests
  <2> QED
    BY <2>1, <2>2, OneElement DEF Held
<1>5. CASE Head(reqs) \in setup.unknown
  <2>1. client' = [client EXCEPT ![Head(reqs)] = "forgotten"] /\ UNCHANGED cur
    BY <1>5 DEF MainRequest
  <2>2. Head(reqs) \notin Forgotten
    BY <1>4 DEF Forgotten
  <2>3. Forgotten' = Forgotten \cup {Head(reqs)}
    BY <1>1, <1>4, <2>1 DEF TypeOK, Forgotten
  <2>4. IsFiniteSet(Forgotten') /\ Cardinality(Forgotten') = Cardinality(Forgotten) + 1
    BY ZenonT(30), <1>1, <2>2, <2>3, FS_AddElement DEF Finite
  <2>5. Active' = Active
    BY <1>2, <2>1 DEF Active
  <2>6. Owed' = Owed + 1
    BY <1>1, <1>2, <2>4, <2>5, CountTypes DEF Owed
  <2> QED
    BY <1>1, <1>2, <1>3, <2>4, <2>6 DEF PoolInv, Finite
<1>6. CASE Head(reqs) \notin setup.unknown
  <2>1. Active' = 1
    BY <1>1, <1>2, <1>6 DEF MainRequest, Active, InHandler
  <2>2. UNCHANGED Forgotten
    BY <1>6 DEF MainRequest, Forgotten
  <2>3. Owed' = Owed + 1
    BY <1>1, <1>2, <2>1, <2>2, CountTypes DEF Owed
  <2> QED
    BY <1>1, <1>2, <1>3, <2>2, <2>3 DEF PoolInv, Finite
<1> QED
    BY <1>5, <1>6

LEMMA PoolMainResponse == ASSUME IInv, PoolInv, MainResponse PROVE PoolInv'
<1>1. TypeOK /\ Finite /\ setup.running /\ cur.at = "main" /\ Active = 0
    BY DEF IInv, PoolInv, Shape, Busy, MainResponse, Active
<1>2. Len(resps') = Len(resps) - 1 /\ Head(resps) \in Range(resps)
  <2>1. resps \in Seq(Trans) /\ resps # <<>> /\ resps' = Tail(resps)
    BY <1>1 DEF TypeOK, MainResponse
  <2>2. 1 \in 1..Len(resps) /\ Head(resps) = resps[1] /\ Len(Tail(resps)) = Len(resps) - 1
    BY <2>1
  <2> QED
    BY ZenonT(30), <2>1, <2>2, RangeOf
<1>3. UNCHANGED <<setup, reqs, spare>> /\ UNCHANGED Forgotten /\ UNCHANGED Kept
    BY DEF MainResponse, peers, Forgotten, Kept
<1>4. CASE Head(resps) \in DOMAIN asleep
  <2>1. /\ DOMAIN asleep' = DOMAIN asleep \ {Head(resps)}
        /\ used' = used - 1 /\ UNCHANGED rmap /\ cur'.at = "handler"
    BY <1>4 DEF MainResponse, Restrict, Received, InHandler
  <2>2. IsFiniteSet(DOMAIN asleep') /\ Cardinality(DOMAIN asleep') = Cardinality(DOMAIN asleep) - 1
    BY ZenonT(30), <1>1, <1>4, <2>1, FS_RemoveElement DEF Finite
  <2>3. Active' = 1
    BY <1>1, <1>3, <2>1 DEF Active
  <2>4. Spent' = Spent
    BY <1>1, <1>2, <1>3, <2>1, SpentTypes DEF Spent
  <2>5. Owed' = Owed
    BY <1>1, <1>3, <2>1, <2>2, <2>3, CountTypes DEF Owed
  <2> QED
    BY <1>1, <1>3, <2>1, <2>2, <2>4, <2>5 DEF PoolInv, Finite
<1>5. CASE Head(resps) \notin DOMAIN asleep
  <2>1. rmap' = rmap \cup {Head(resps)} /\ UNCHANGED <<asleep, cur, used>>
    BY <1>5 DEF MainResponse
  <2>2. Head(resps) \notin rmap
    BY <1>2 DEF IInv, Transactions
  <2>3. IsFiniteSet(rmap') /\ Cardinality(rmap') = Cardinality(rmap) + 1
    BY ZenonT(30), <1>1, <2>1, <2>2, FS_AddElement DEF Finite
  <2>4. Active' = Active
    BY <1>3, <2>1 DEF Active
  <2>5. Spent' = Spent + 1
    BY <1>1, <1>2, <1>3, <2>1, SpentTypes DEF Spent
  <2>6. Owed' = Owed + 1
    BY <1>1, <1>3, <2>1, <2>3, <2>4, CountTypes DEF Owed
  <2> QED
    BY <1>1, <1>3, <2>1, <2>3, <2>5, <2>6 DEF PoolInv, Finite
<1> QED
    BY <1>4, <1>5

\* _dispatchPoll: the entry it holds for the next message counts, too.
LEMMA PollTakes ==
    ASSUME TypeOK
    PROVE  /\ Allocated \in Int /\ Allocated - 1 = used - Kept
           /\ PollNothing => used' - Kept' = used - Kept
           /\ PollMessage => Kept' = 0
BY DEF Allocated, Kept, PollNothing, PollMessage, TypeOK

\* What is received has an entry as long as it is pending.
LEMMA PollCounts ==
    ASSUME IInv, PollMessage, ProcessMessage
    PROVE  UNCHANGED Spent /\ UNCHANGED <<setup, rmap>> /\ UNCHANGED Forgotten
<1>1. TypeOK /\ reqs \in Seq(Clients) /\ resps \in Seq(Trans)
    BY DEF IInv, TypeOK
<1>2. /\ Allocated \in Int /\ Allocated - 1 = used - Kept /\ Kept' = 0
      /\ used \in Int /\ Kept \in Int /\ Len(reqs) \in Int /\ Len(resps) \in Int
    BY <1>1, PollTakes, SpentTypes
<1>3. Message.kind \in {"request", "response", "note"}
    BY Polled DEF IInv, PollMessage, Messages
<1>4. UNCHANGED <<setup, rmap>> /\ UNCHANGED Forgotten
    BY DEF PollMessage, ProcessMessage, Forgotten
<1>5. CASE Message.kind = "request"
  <2>1. reqs' = Append(reqs, From) /\ resps' = resps /\ used' = Allocated
    BY <1>5 DEF ProcessMessage
  <2>2. Len(reqs') = Len(reqs) + 1
    BY <1>1, <2>1
  <2> QED
    BY <1>2, <1>4, <2>1, <2>2 DEF Spent
<1>6. CASE Message.kind = "response"
  <2>1. reqs' = reqs /\ resps' = Append(resps, Message.trans) /\ used' = Allocated
    BY <1>6 DEF ProcessMessage
  <2>2. Len(resps') = Len(resps) + 1
    BY <1>1, <2>1
  <2> QED
    BY <1>2, <1>4, <2>1, <2>2 DEF Spent
<1>7. CASE Message.kind = "note"
  <2>1. reqs' = reqs /\ resps' = resps /\ used' = Allocated - 1
    BY <1>7 DEF ProcessMessage
  <2> QED
    BY <1>2, <1>4, <2>1 DEF Spent
<1> QED
    BY <1>3, <1>5, <1>6, <1>7

LEMMA NothingCounts ==
    ASSUME TypeOK, PollNothing, UNCHANGED <<reqs, resps>>
    PROVE  UNCHANGED Spent /\ UNCHANGED setup /\ UNCHANGED Forgotten
<1>1. used' - Kept' = used - Kept
    BY PollTakes
<1>2. Spent' = used' - Kept' - Len(reqs) - Len(resps)
    BY DEF Spent
<1> QED
    BY <1>1, <1>2 DEF Spent, PollNothing, peers, Forgotten

LEMMA PoolDrain == ASSUME IInv, PoolInv, MainPoll \/ Drain PROVE PoolInv'
<1>1. UNCHANGED <<setup, rmap, asleep>> /\ UNCHANGED Spent /\ UNCHANGED Forgotten
  <2>1. CASE PollNothing /\ UNCHANGED queues
    BY <2>1, NothingCounts DEF queues, IInv
  <2>2. CASE PollMessage /\ ProcessMessage /\ UNCHANGED asleep
    BY <2>2, PollCounts
  <2> QED
    BY <2>1, <2>2 DEF MainPoll, Drain
<1>2. UNCHANGED Active
    BY <1>1 DEF MainPoll, Drain, Active, InHandler
<1> QED
    BY <1>1, <1>2 DEF PoolInv, Finite, Owed

LEMMA PoolReceive == ASSUME IInv, PoolInv, NEW t \in Trans, Receive(t) PROVE PoolInv'
<1>1. TypeOK /\ Finite
    BY DEF IInv, PoolInv
<1>2. UNCHANGED <<setup, reqs, resps, asleep, spare>> /\ UNCHANGED Forgotten /\ UNCHANGED Kept
    BY DEF Receive, peers, Forgotten, Kept
<1>3. UNCHANGED Active
    BY <1>2 DEF Receive, Active, Received, InHandler, Waiting
<1>4. CASE t \in rmap
  <2>1. rmap' = rmap \ {t} /\ used' = used - 1
    BY <1>4 DEF Receive
  <2>2. IsFiniteSet(rmap') /\ Cardinality(rmap') = Cardinality(rmap) - 1
    BY ZenonT(30), <1>1, <1>4, <2>1, FS_RemoveElement DEF Finite
  <2>3. Spent' = Spent - 1
    BY <1>1, <1>2, <2>1, SpentTypes DEF Spent
  <2>4. Owed' = Owed - 1
    BY <1>1, <1>2, <1>3, <2>2, CountTypes DEF Owed
  <2> QED
    BY <1>1, <1>2, <2>2, <2>3, <2>4 DEF PoolInv, Finite
<1>5. CASE t \notin rmap
    BY <1>2, <1>3, <1>5, PoolFrame DEF Receive, queues
<1> QED
    BY <1>4, <1>5

LEMMA PoolReturn == ASSUME IInv, PoolInv, Return PROVE PoolInv'
<1>1. TypeOK /\ Finite /\ cur.at = "handler"
    BY DEF IInv, PoolInv, Return
<1>2. UNCHANGED <<setup, queues, spare>>
    BY DEF Return
<1>3. CASE setup.running
  <2>1. /\ client' = [client EXCEPT ![cur.h.from] = "answered"]
        /\ cur' = Main /\ used' = used - 1
    BY <1>3 DEF Return
  <2>2. cur.h.from \in Clients /\ client[cur.h.from] = "asked"
    BY <1>1, <1>3 DEF IInv, Requests, Held, Busy
  <2>3. UNCHANGED Forgotten
    BY <1>1, <2>1, <2>2, ForgottenKept
  <2>4. Active = 1 /\ Active' = 0
    BY <1>1, <1>3, <2>1 DEF Active, Main
  <2>5. UNCHANGED <<reqs, resps, rmap, asleep>> /\ UNCHANGED Kept
    BY <1>2 DEF queues, Kept
  <2>6. Spent' = Spent - 1
    BY <1>1, <2>1, <2>5, SpentTypes DEF Spent
  <2>7. Owed' = Owed - 1
    BY <1>1, <2>3, <2>4, <2>5, CountTypes DEF Owed
  <2> QED
    BY <2>3, <2>5, <2>6, <2>7 DEF PoolInv, Finite
<1>4. CASE ~setup.running
    BY <1>2, <1>4, PoolFrame DEF Return, Active, Forgotten
<1> QED
    BY <1>3, <1>4

\* The entry of the thread's request goes with it.
LEMMA PoolSleep ==
    ASSUME IInv, PoolInv, cur.at = "wait", setup.running, Sleep,
           UNCHANGED <<setup, rmap>>, UNCHANGED Spent, UNCHANGED Forgotten
    PROVE  PoolInv'
<1>1. TypeOK /\ Finite
    BY DEF IInv, PoolInv
<1>2. DOMAIN asleep' = DOMAIN asleep \cup {cur.trans} /\ cur' = Main
    BY DEF Sleep
<1>3. cur.trans \notin DOMAIN asleep
    BY DEF IInv, Threads, Busy
<1>4. IsFiniteSet(DOMAIN asleep') /\ Cardinality(DOMAIN asleep') = Cardinality(DOMAIN asleep) + 1
    BY ZenonT(30), <1>1, <1>2, <1>3, FS_AddElement DEF Finite
<1>5. Active = 1 /\ Active' = 0
    BY <1>2 DEF Active, Main
<1>6. Owed' = Owed
    BY <1>1, <1>4, <1>5, CountTypes DEF Owed
<1> QED
    BY <1>4, <1>6 DEF PoolInv, Finite

LEMMA PoolWait == ASSUME IInv, PoolInv, WaitNothing \/ WaitOther PROVE PoolInv'
<1>1. UNCHANGED <<setup, rmap>> /\ UNCHANGED Spent /\ UNCHANGED Forgotten
  <2>1. CASE WaitNothing
    BY <2>1, NothingCounts DEF WaitNothing, IInv
  <2>2. CASE WaitOther
    BY <2>2, PollCounts DEF WaitOther
  <2> QED
    BY <2>1, <2>2
<1>2. cur.at = "wait"
    BY DEF WaitNothing, WaitOther
<1>3. CASE UNCHANGED asleep /\ cur'.at = "wait"
  <2>1. UNCHANGED Active
    BY <1>1, <1>2, <1>3 DEF Active
  <2> QED
    BY <1>1, <1>3, <2>1 DEF PoolInv, Finite, Owed
<1>4. CASE Sleep /\ setup.running
    BY <1>1, <1>2, <1>4, PoolSleep
<1>5. \/ UNCHANGED asleep /\ cur'.at = "wait"
      \/ Sleep /\ setup.running
  <2>1. CASE WaitNothing
    BY <1>2, <2>1 DEF WaitNothing, ShouldYield
  <2>2. CASE WaitOther
    <3>1. cur = Waiting(cur.h, cur.trans, cur.count)
      BY <1>2, CurKinds DEF IInv
    <3>2. \A n : [cur EXCEPT !.count = n].at = cur.at
      BY <3>1 DEF Waiting
    <3> QED
      BY <1>2, <2>2, <3>2 DEF WaitOther, ShouldYield
  <2> QED
    BY <2>1, <2>2
<1> QED
    BY <1>3, <1>4, <1>5

LEMMA RangeCount ==
    ASSUME NEW S, NEW s \in Seq(S), \A i, j \in 1..Len(s) : s[i] = s[j] => i = j
    PROVE  IsFiniteSet(Range(s)) /\ Cardinality(Range(s)) = Len(s)
<1>1. DOMAIN s = 1..Len(s) /\ Len(s) \in Nat /\ s \in [1..Len(s) -> Range(s)]
    BY DEF Range
<1>2. s \in Surjection(1..Len(s), Range(s)) /\ s \in Injection(1..Len(s), Range(s))
    BY <1>1 DEF Surjection, Injection, IsInjective, Range
<1>3. IsFiniteSet(1..Len(s)) /\ Cardinality(1..Len(s)) = Len(s)
  <2>1. 1 \in Int /\ Len(s) \in Int /\ (IF 1 > Len(s) THEN 0 ELSE Len(s) - 1 + 1) = Len(s)
    BY <1>1
  <2>2. /\ IsFiniteSet(1..Len(s))
        /\ Cardinality(1..Len(s)) = IF 1 > Len(s) THEN 0 ELSE Len(s) - 1 + 1
    BY ONLY ZenonT(30), <2>1, FS_Interval
  <2> QED
    BY <2>1, <2>2
<1> QED
    BY <1>2, <1>3, FS_Surjection

\* Its own response is freed at once; what it has put off goes to the map.
LEMMA PoolWaitOwn == ASSUME IInv, PoolInv, WaitOwn PROVE PoolInv'
<1>1. TypeOK /\ Sleepers /\ Finite /\ resps \in Seq(Trans)
    BY DEF IInv, PoolInv, TypeOK
<1>2. /\ cur' = Received(cur.h, cur.trans)
      /\ resps' = IF DOMAIN asleep = {} THEN <<>> ELSE resps
      /\ rmap' = IF DOMAIN asleep = {} THEN rmap \cup Range(resps) ELSE rmap
      /\ UNCHANGED <<asleep, reqs>>
    BY <1>1, OwnFacts
<1>3. UNCHANGED Active /\ UNCHANGED Forgotten
    BY <1>2 DEF WaitOwn, PollMessage, Active, Forgotten, Received, InHandler
<1>4. /\ used' = used - Kept /\ Kept' = 0
      /\ used \in Int /\ Kept \in Int /\ Len(reqs) \in Int /\ Len(resps) \in Int
    BY <1>1, PollTakes, SpentTypes DEF WaitOwn
<1>5. CASE DOMAIN asleep = {}
  <2>1. resps' = <<>> /\ rmap' = rmap \cup Range(resps)
    BY <1>2, <1>5
  <2>2. IsFiniteSet(Range(resps)) /\ Cardinality(Range(resps)) = Len(resps)
    BY <1>1, RangeCount DEF IInv, Transactions
  <2>3. rmap \cap Range(resps) = {}
    BY DEF IInv, Transactions
  <2>4. Cardinality(rmap) \in Int
    BY <1>1, CountTypes
  <2>5. /\ IsFiniteSet(rmap')
        /\ Cardinality(rmap') = Cardinality(rmap) + Cardinality(Range(resps)) - Cardinality({})
    <3>1. IsFiniteSet(rmap)
      BY <1>1 DEF Finite
    <3>2. /\ IsFiniteSet(rmap \cup Range(resps))
          /\ Cardinality(rmap \cup Range(resps)) =
                 Cardinality(rmap) + Cardinality(Range(resps)) - Cardinality(rmap \cap Range(resps))
      BY ZenonT(30), <2>2, <3>1, FS_Union
    <3> QED
      BY <2>1, <2>3, <3>2
  <2>6. Cardinality(rmap') = Cardinality(rmap) + Len(resps)
    BY <1>4, <2>2, <2>4, <2>5, FS_EmptySet
  <2>7. Spent' = Spent + Len(resps)
    <3>1. Len(resps') = 0
      BY <2>1
    <3> QED
      BY <1>2, <1>4, <3>1 DEF Spent
  <2>8. Owed' = Owed + Len(resps)
    BY <1>1, <1>2, <1>3, <1>4, <2>6, CountTypes DEF Owed
  <2> QED
    BY <1>1, <1>2, <1>3, <2>5, <2>7, <2>8 DEF PoolInv, Finite
<1>6. CASE DOMAIN asleep # {}
  <2>1. UNCHANGED <<resps, rmap>>
    BY <1>2, <1>6
  <2>2. Spent' = Spent
    BY <1>2, <1>4, <2>1 DEF Spent
  <2> QED
    BY <1>2, <1>3, <2>1, <2>2 DEF PoolInv, Finite, Owed
<1> QED
    BY <1>5, <1>6

LEMMA PoolInit == Init => PoolInv
<1> SUFFICES ASSUME Init PROVE PoolInv
    OBVIOUS
<1>1. rmap = {} /\ DOMAIN asleep = {} /\ Forgotten = {}
    BY DEF Init, Forgotten
<1>2. Active = 0
    BY DEF Init, Active, Main
<1>3. Spent = 0
  <2>1. used = 0 /\ Kept = 0 /\ Len(reqs) = 0 /\ Len(resps) = 0
    BY DEF Init, Kept
  <2> QED
    BY <2>1 DEF Spent
<1> QED
    BY <1>1, <1>2, <1>3, FS_EmptySet DEF PoolInv, Finite, Owed

LEMMA PoolStep == IInv /\ PoolInv /\ [Next]_vars => PoolInv'
<1> SUFFICES ASSUME IInv, PoolInv, [Next]_vars PROVE PoolInv'
    OBVIOUS
<1>1. TypeOK
    BY DEF IInv
<1>2. ASSUME NEW b \in Backends, Call(b) PROVE PoolInv'
    BY <1>2, PoolFrame DEF Call, Active, Forgotten, InHandler
<1>3. CASE CheckNotifications
    BY <1>3, PoolFrame DEF CheckNotifications, peers, Active, Forgotten, Draining
<1>4. CASE UNCHANGED vars
    BY <1>4, PoolFrame DEF vars, queues, Active, Forgotten
<1> QED
    BY <1>1, <1>2, <1>3, <1>4, PoolPeers, PoolMainRequest, PoolMainResponse, PoolDrain, PoolReceive,
       PoolReturn, PoolWait, PoolWaitOwn
       DEF Next, Process

\* The entries of the pool of messages that are in use are, at every moment, the ones
\* of pending messages, of requests whose handler has not returned, the one that
\* _dispatchPoll keeps, and one for each request without a handler (dispatch.cpp:264):
\* no interleaving of threads loses an entry or frees one twice.
THEOREM PoolAccountedFor == Spec => []PoolExact
<1>1. TypeOK /\ PoolInv => PoolExact
    BY PoolIs
<1> QED
    BY <1>1, PoolInit, PoolStep, Invariant, TypeCorrect, PTL DEF Spec
=============================================================================
