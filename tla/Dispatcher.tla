----------------------------- MODULE Dispatcher -----------------------------
(***************************************************************************)
(* The dispatcher of one process (messaging/dispatch.cpp) with its           *)
(* cooperative threads (messaging/threading.cpp): a server that runs a       *)
(* handler per request, where a handler may itself ask other servers, or an  *)
(* application, which only asks.  A thread that waits for a response polls   *)
(* all channels, and sleeps when there is something else to do.              *)
(*                                                                           *)
(* Channels are queues here (see Channel and MsgQueue).  Requests have a     *)
(* registered handler unless their client is one of setup.unknown.           *)
(***************************************************************************)
EXTENDS Integers, Sequences, FiniteSets, Functions

CONSTANTS
    Clients,      \* processes that send requests to this one
    NoClient,     \* in the place of the client of an application
    Backends,     \* servers that this one sends requests to
    Chans,        \* dispatcher.channels: the peers, in the order of the vector
    Trans,        \* identifiers of transactions
    MaxCalls,     \* requests a handler makes before it has to return
    MaxRing,      \* notifications are sent while the ring is shorter than this
    Setups        \* the processes considered: [running, unknown]

ASSUME DispatcherAssumption ==
    /\ Clients \cap Backends = {}
    /\ NoClient \notin Clients
    /\ Chans \in Seq(Clients \cup Backends)
    /\ Trans \subseteq Nat \ {0}
    /\ MaxCalls \in Nat
    /\ MaxRing \in Nat
    /\ \A s \in Setups : s.running \in BOOLEAN /\ s.unknown \subseteq Clients

VARIABLES
    setup,        \* the kind of process, fixed
    client,       \* what each client is doing
    asked,        \* asked[b]: transactions that backend b has not answered
    ring,         \* ring[p]: messages from peer p that have not been received
    pos,          \* _dispatchPoll's pos, from 1; 0 stands for -1
    reqs,         \* dispatcher.pending_requests: the clients they are from
    resps,        \* dispatcher.pending_responses: their transactions
    rmap,         \* dispatcher.pending_response_map: its transactions
    asleep,       \* dispatcher.threads: the handler that sleeps for a transaction
    cur,          \* the current thread
    used,         \* entries of dispatcher.pending_pool in use
    spare         \* _dispatchPoll holds an entry for the next message

vars == <<setup, client, asked, ring, pos, reqs, resps, rmap, asleep, cur, used, spare>>
queues == <<reqs, resps, rmap, asleep>>
peers == <<client, asked, ring>>

Peers == Clients \cup Backends

\* A handler of client from, or the application: the transactions it has to
\* receive and how many requests it has made.
Handlers == [from : Clients \cup {NoClient}, out : SUBSET Trans, calls : 0..MaxCalls]
Application == [from |-> NoClient, out |-> {}, calls |-> 0]

\* The current thread is in _dispatchMain, in a handler, in the loop of
\* _dispatchWaitForMessage for trans, or in dispatchCheckNotifications.
\* count is other_response_count.
Main == [at |-> "main"]
InHandler(h) == [at |-> "handler", h |-> h]
Draining(h) == [at |-> "drain", h |-> h]
Waiting(h, t, n) == [at |-> "wait", h |-> h, trans |-> t, count |-> n]

Messages == [kind : {"request", "response", "note"}, trans : Trans \cup {0}]

Init ==
    /\ setup \in Setups
    /\ client = [c \in Clients |-> "idle"]
    /\ asked = [b \in Backends |-> {}]
    /\ ring = [p \in Peers |-> <<>>]
    /\ pos = 0
    /\ reqs = <<>>
    /\ resps = <<>>
    /\ rmap = {}
    /\ asleep = <<>>
    /\ cur = IF setup.running THEN Main ELSE InHandler(Application)
    /\ used = 0
    /\ spare = FALSE

-----------------------------------------------------------------------------
(* The peers.  A client has one request outstanding.  A backend answers what  *)
(* it has been asked in any order and sends notifications at any time.        *)

Ask(c) ==
    /\ setup.running
    /\ client[c] = "idle"
    /\ client' = [client EXCEPT ![c] = "asked"]
    /\ ring' = [ring EXCEPT ![c] = Append(@, [kind |-> "request", trans |-> 0])]
    /\ UNCHANGED <<setup, asked, pos, queues, cur, used, spare>>

Take(c) ==
    /\ client[c] = "answered"
    /\ client' = [client EXCEPT ![c] = "idle"]
    /\ UNCHANGED <<setup, asked, ring, pos, queues, cur, used, spare>>

Answer(b, t) ==
    /\ t \in asked[b]
    /\ asked' = [asked EXCEPT ![b] = @ \ {t}]
    /\ ring' = [ring EXCEPT ![b] = Append(@, [kind |-> "response", trans |-> t])]
    /\ UNCHANGED <<setup, client, pos, queues, cur, used, spare>>

Notify(b) ==
    /\ Len(ring[b]) < MaxRing
    /\ ring' = [ring EXCEPT ![b] = Append(@, [kind |-> "note", trans |-> 0])]
    /\ UNCHANGED <<setup, client, asked, pos, queues, cur, used, spare>>

-----------------------------------------------------------------------------
(* Receiving.  channel_select starts behind the channel it last returned.     *)

Ready == {j \in 1..Len(Chans) : ring[Chans[j]] # <<>>}

\* Mutant: the select does not go round.
FromTheStart(j) == j

Distance(j) == (j - pos - 1) % Len(Chans)

Selected == CHOOSE j \in Ready : \A k \in Ready : Distance(j) <= Distance(k)

\* _dispatchPoll takes an entry of the pool unless it still has one, and keeps
\* it when there is no message.
Allocated == IF spare THEN used ELSE used + 1

PollNothing ==
    /\ Ready = {}
    /\ used' = Allocated
    /\ spare' = TRUE
    /\ UNCHANGED <<setup, peers, pos>>

From == Chans[Selected]
Message == Head(ring[From])

PollMessage ==
    /\ Ready # {}
    /\ ring' = [ring EXCEPT ![From] = Tail(@)]
    /\ pos' = Selected
    /\ spare' = FALSE
    /\ UNCHANGED <<setup, client, asked>>

\* _dispatchProcessMessage: a notification is handled at once and freed.
ProcessMessage ==
    /\ reqs' = IF Message.kind = "request" THEN Append(reqs, From) ELSE reqs
    /\ resps' = IF Message.kind = "response" THEN Append(resps, Message.trans) ELSE resps
    /\ used' = IF Message.kind = "note" THEN Allocated - 1 ELSE Allocated
    /\ UNCHANGED rmap

\* dispatchReceive returns the response to t: its entry is freed.
Received(h, t) == InHandler([h EXCEPT !.out = @ \ {t}])

-----------------------------------------------------------------------------
(* _dispatchMain.                                                             *)

\* Without a handler for its type a request is forgotten, its entry with it.
MainRequest ==
    /\ cur.at = "main"
    /\ reqs # <<>>
    /\ reqs' = Tail(reqs)
    /\ IF Head(reqs) \in setup.unknown
       THEN /\ client' = [client EXCEPT ![Head(reqs)] = "forgotten"]
            /\ UNCHANGED cur
       ELSE /\ cur' = InHandler([Application EXCEPT !.from = Head(reqs)])
            /\ UNCHANGED client
    /\ UNCHANGED <<setup, asked, ring, pos, resps, rmap, asleep, used, spare>>

\* _dispatchProcessResponses: the thread that sleeps for it goes on, and the
\* current one, which is in main, ends.
MainResponse ==
    /\ cur.at = "main"
    /\ reqs = <<>>
    /\ resps # <<>>
    /\ resps' = Tail(resps)
    /\ LET t == Head(resps) IN
       IF t \in DOMAIN asleep
       THEN /\ asleep' = Restrict(asleep, DOMAIN asleep \ {t})
            /\ cur' = Received(asleep[t], t)
            /\ used' = used - 1
            /\ UNCHANGED rmap
       ELSE /\ rmap' = rmap \cup {t}
            /\ UNCHANGED <<asleep, cur, used>>
    /\ UNCHANGED <<setup, peers, pos, reqs, spare>>

MainPoll ==
    /\ cur.at = "main"
    /\ reqs = <<>>
    /\ resps = <<>>
    /\ \/ PollNothing /\ UNCHANGED queues
       \/ PollMessage /\ ProcessMessage /\ UNCHANGED asleep
    /\ UNCHANGED cur

-----------------------------------------------------------------------------
(* What a handler or the application does.                                    *)

\* No two transactions that are in use have the same identifier.
InUse ==
    (UNION {asleep[t].out : t \in DOMAIN asleep})
        \cup (IF cur.at = "main" THEN {} ELSE cur.h.out)

\* dispatchRequest
Call(b) ==
    /\ cur.at = "handler"
    /\ cur.h.calls < MaxCalls
    /\ Trans \ InUse # {}
    /\ LET t == CHOOSE u \in Trans \ InUse : \A v \in Trans \ InUse : u <= v IN
       /\ asked' = [asked EXCEPT ![b] = @ \cup {t}]
       /\ cur' = InHandler([cur.h EXCEPT !.out = @ \cup {t}, !.calls = @ + 1])
    /\ UNCHANGED <<setup, client, ring, pos, queues, used, spare>>

\* Mutant: the map is not looked at.
ReceiveFromChannels(t) ==
    /\ cur.at = "handler"
    /\ t \in cur.h.out
    /\ cur' = Waiting(cur.h, t, 0)
    /\ UNCHANGED <<setup, peers, pos, queues, used, spare>>

\* dispatchReceive: the response may have been put into the map before.
Receive(t) ==
    /\ cur.at = "handler"
    /\ t \in cur.h.out
    /\ IF t \in rmap
       THEN /\ rmap' = rmap \ {t}
            /\ used' = used - 1
            /\ cur' = Received(cur.h, t)
       ELSE /\ cur' = Waiting(cur.h, t, 0)
            /\ UNCHANGED <<rmap, used>>
    /\ UNCHANGED <<setup, peers, pos, reqs, resps, asleep, spare>>

\* The handler has responded and returns; the entry of the request is freed.
\* An application makes its next calls.
Return ==
    /\ cur.at = "handler"
    /\ cur.h.out = {}
    /\ IF setup.running
       THEN /\ client' = [client EXCEPT ![cur.h.from] = "answered"]
            /\ cur' = Main
            /\ used' = used - 1
       ELSE /\ cur.h.calls > 0
            /\ cur' = InHandler(Application)
            /\ UNCHANGED <<client, used>>
    /\ UNCHANGED <<setup, asked, ring, pos, queues, spare>>

\* dispatchCheckNotifications: the file system library calls it at the start
\* of an operation on a path, when no request is outstanding.
CheckNotifications ==
    /\ cur.at = "handler"
    /\ ~setup.running
    /\ cur.h.out = {}
    /\ cur' = Draining(cur.h)
    /\ UNCHANGED <<setup, peers, pos, queues, used, spare>>

Drain ==
    /\ cur.at = "drain"
    /\ \/ /\ PollNothing
          /\ cur' = InHandler(cur.h)
          /\ UNCHANGED queues
       \/ PollMessage /\ ProcessMessage /\ UNCHANGED <<asleep, cur>>

-----------------------------------------------------------------------------
(* _dispatchWaitForMessage and _dispatchSleepUntilMessage.                    *)

\* Mutant: requests that have arrived do not count.
YieldsToResponses(requests, responses) ==
    /\ setup.running
    /\ responses # <<>> /\ DOMAIN asleep # {}

\* Mutant: responses for sleeping threads do not count.
YieldsToRequests(requests, responses) == setup.running /\ requests # <<>>

\* _dispatchShouldYield after a step that leaves these queues.  Only full
\* queues make threads ready, so there is never more than the current one.
ShouldYield(requests, responses) ==
    /\ setup.running
    /\ \/ requests # <<>>
       \/ responses # <<>> /\ DOMAIN asleep # {}

\* The thread sleeps and a new one runs _dispatchMain.
Sleep ==
    /\ asleep' = [t \in DOMAIN asleep \cup {cur.trans} |->
                     IF t = cur.trans THEN cur.h ELSE asleep[t]]
    /\ cur' = Main

WaitNothing ==
    /\ cur.at = "wait"
    /\ PollNothing
    /\ IF ShouldYield(reqs, resps) THEN Sleep ELSE UNCHANGED <<asleep, cur>>
    /\ UNCHANGED <<reqs, resps, rmap>>

Own == Message = [kind |-> "response", trans |-> cur.trans]

WaitOther ==
    /\ cur.at = "wait"
    /\ PollMessage
    /\ ~Own
    /\ ProcessMessage
    /\ IF ShouldYield(reqs', resps')
       THEN Sleep
       ELSE /\ cur' = [cur EXCEPT !.count = IF Message.kind = "note" THEN @ ELSE @ + 1]
            /\ UNCHANGED asleep

\* Mutant: the responses put off are freed.
WaitOwnDrops ==
    /\ cur.at = "wait"
    /\ PollMessage
    /\ Own
    /\ resps' = SubSeq(resps, cur.count + 1, Len(resps))
    /\ cur' = Received(cur.h, cur.trans)
    /\ used' = Allocated - 1 - cur.count
    /\ UNCHANGED <<reqs, rmap, asleep>>

\* The response it waits for: before it returns it processes as many pending
\* responses as it has put off.  If one of them is for a thread that sleeps,
\* that thread goes on and this one, with its response, is lost.
WaitOwn ==
    /\ cur.at = "wait"
    /\ PollMessage
    /\ Own
    /\ LET Wakes == {i \in 1..cur.count : resps[i] \in DOMAIN asleep}
           last == IF Wakes = {} THEN cur.count
                   ELSE CHOOSE i \in Wakes : \A j \in Wakes : i <= j
       IN
       /\ resps' = SubSeq(resps, last + 1, Len(resps))
       /\ rmap' = rmap \cup {resps[i] : i \in 1..last \ Wakes}
       /\ IF Wakes = {}
          THEN /\ cur' = Received(cur.h, cur.trans)
               /\ UNCHANGED asleep
          ELSE /\ cur' = Received(asleep[resps[last]], resps[last])
               /\ asleep' = Restrict(asleep, DOMAIN asleep \ {resps[last]})
       /\ used' = Allocated - 1
    /\ UNCHANGED reqs

-----------------------------------------------------------------------------
Process ==
    \/ MainRequest \/ MainResponse \/ MainPoll
    \/ \E b \in Backends : Call(b)
    \/ \E t \in Trans : Receive(t)
    \/ Return
    \/ CheckNotifications \/ Drain
    \/ WaitNothing \/ WaitOther \/ WaitOwn

Next ==
    \/ Process
    \/ \E c \in Clients : Ask(c) \/ Take(c)
    \/ \E b \in Backends : Notify(b) \/ \E t \in Trans : Answer(b, t)

Spec ==
    /\ Init
    /\ [][Next]_vars
    /\ WF_vars(Process)
    /\ \A b \in Backends, t \in Trans : WF_vars(Answer(b, t))

-----------------------------------------------------------------------------
(* Properties.                                                                *)

CurType ==
    {Main} \cup [at : {"handler", "drain"}, h : Handlers]
        \cup [at : {"wait"}, h : Handlers, trans : Trans, count : Nat]

TypeOK ==
    /\ setup \in Setups
    /\ client \in [Clients -> {"idle", "asked", "answered", "forgotten"}]
    /\ asked \in [Backends -> SUBSET Trans]
    /\ ring \in [Peers -> Seq(Messages)]
    /\ pos \in 0..Len(Chans)
    /\ reqs \in Seq(Clients)
    /\ resps \in Seq(Trans)
    /\ rmap \subseteq Trans
    /\ DOMAIN asleep \subseteq Trans
    /\ \A t \in DOMAIN asleep : asleep[t] \in Handlers
    /\ cur \in CurType
    /\ used \in Int
    /\ spare \in BOOLEAN

\* A thread never waits in its polling loop for a response that has already
\* been taken off its channel (dispatch.cpp:458-488 looks at channels only), and
\* no sleeping thread's response has gone to the map, where nobody looks for it.
NoMissedResponse ==
    /\ cur.at = "wait" => cur.trans \notin rmap \cup Range(resps)
    /\ DOMAIN asleep \cap rmap = {}

\* Polling happens only with no request pending, so the queue of 64 requests never
\* fills and the path that makes room for it (dispatch.cpp:208-213) is never taken.
PollsWithoutRequests == cur.at \in {"wait", "drain"} => reqs = <<>>

\* Every transaction that a handler has to receive is in one place: asked of a
\* backend, in a ring, or pending, and nothing else is pending.  So no thread
\* that waits is dropped by the switch to another (dispatch.cpp:291, 471) and no
\* response is left for a later transaction with the same identifier.
ResponsesOnce ==
    \A t \in Trans :
        LET Sent(b) == {i \in 1..Len(ring[b]) : ring[b][i] = [kind |-> "response", trans |-> t]}
            places == {<<b, 0>> : b \in {x \in Backends : t \in asked[x]}}
                        \cup (UNION {{b} \X Sent(b) : b \in Backends})
                        \cup {<<"pending", i>> : i \in {j \in 1..Len(resps) : resps[j] = t}}
                        \cup (IF t \in rmap THEN {<<"map", 0>>} ELSE {})
        IN  Cardinality(places) = IF t \in InUse THEN 1 ELSE 0

\* The pool of 1024 entries: one per pending message, one per request whose handler
\* has not returned, one kept by _dispatchPoll, one lost per request without a
\* handler (dispatch.cpp:264).  Nothing else is ever kept.
PoolExact ==
    used = Len(reqs) + Len(resps) + Cardinality(rmap) + Cardinality(DOMAIN asleep)
             + (IF setup.running /\ cur.at # "main" THEN 1 ELSE 0)
             + (IF spare THEN 1 ELSE 0)
             + Cardinality({c \in Clients : client[c] = "forgotten"})

\* Every client whose requests have a handler gets one answer per request, and
\* gets it, whatever the other clients ask and however many notifications
\* arrive (dispatch.h:121-142, dispatch.cpp:301).
Known == [c \in Clients |-> IF c \in setup.unknown THEN "idle" ELSE client[c]]
R == INSTANCE Rpc WITH client <- Known
ImplementsRpc == R!Spec
=============================================================================
