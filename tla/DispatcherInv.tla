--------------------------- MODULE DispatcherInv ---------------------------
(***************************************************************************)
(* The inductive invariant of Dispatcher.                                     *)
(***************************************************************************)
EXTENDS Dispatcher

-----------------------------------------------------------------------------
(* The inductive invariant.                                                   *)

Question == [kind |-> "request", trans |-> 0]
Response(t) == [kind |-> "response", trans |-> t]
Busy == cur.at # "main"

\* Requests come from clients, one at a time; responses and notifications from
\* backends.
Rings ==
    /\ \A c \in Clients : ring[c] \in {<<>>, <<Question>>}
    /\ \A b \in Backends : \A i \in 1..Len(ring[b]) :
           \/ ring[b][i].kind = "note"
           \/ \E t \in Trans : ring[b][i] = Response(t)

\* A request is taken before the next message is received; an application has none.
Shape ==
    /\ reqs = <<>> \/ (~Busy /\ \E c \in Clients : reqs = <<c>>)
    /\ IF setup.running
       THEN /\ Busy => cur.h.from \in Clients /\ cur.at # "drain"
            /\ \A t \in DOMAIN asleep : asleep[t].from \in Clients
       ELSE /\ Busy /\ reqs = <<>> /\ DOMAIN asleep = {}
            /\ \A c \in Clients : ring[c] = <<>>
    /\ cur.at = "drain" => cur.h.out = {}

\* The request of a client is in its ring, pending, or with one thread.
Held(c) == c \in Clients /\ client[c] = "asked" /\ ring[c] = <<>>

Requests ==
    /\ \A c \in Clients : ring[c] # <<>> => client[c] = "asked"
    /\ \A c \in Clients : reqs = <<c>> => Held(c)
    /\ setup.running /\ Busy => Held(cur.h.from)
    /\ \A t \in DOMAIN asleep :
           /\ Held(asleep[t].from)
           /\ reqs # <<asleep[t].from>>
           /\ Busy => cur.h.from # asleep[t].from
           /\ \A u \in DOMAIN asleep : asleep[t].from = asleep[u].from => t = u

\* A transaction is in use by one thread.
Threads ==
    /\ cur.at = "wait" => cur.trans \in cur.h.out
    /\ \A t \in DOMAIN asleep :
           /\ t \in asleep[t].out
           /\ Busy => asleep[t].out \cap cur.h.out = {}
           /\ \A u \in DOMAIN asleep : asleep[t].out \cap asleep[u].out # {} => t = u

\* A response that has not been received is at one place.
InRing(t) == \E b \in Backends : \E i \in 1..Len(ring[b]) : ring[b][i] = Response(t)
Flying(t) == InRing(t) \/ \E b \in Backends : t \in asked[b]

SentOnce ==
    \A t \in Trans : \A b \in Backends : \A d \in Backends :
        \A i \in 1..Len(ring[b]) : \A j \in 1..Len(ring[d]) :
            ring[b][i] = Response(t) /\ ring[d][j] = Response(t) => b = d /\ i = j

Unique ==
    /\ \A b, d \in Backends : asked[b] \cap asked[d] # {} => b = d
    /\ \A b \in Backends : \A t \in asked[b] : ~InRing(t)
    /\ SentOnce

Pending == rmap \cup Range(resps)

\* What is in use is under way or pending, and what is pending has been received once.
Transactions ==
    /\ \A t \in InUse : Flying(t) \/ t \in Pending
    /\ \A t \in Trans : Flying(t) => t \in InUse \ Pending
    /\ Pending \subseteq InUse
    /\ rmap \cap Range(resps) = {}
    /\ \A i, j \in 1..Len(resps) : resps[i] = resps[j] => i = j

\* The response to a sleeping thread is the last that is pending, and is processed
\* before the next request.  A thread that waits has put off either nothing or,
\* when it is the only one, all that is pending.
Sleepers ==
    /\ DOMAIN asleep \cap rmap = {}
    /\ Busy \/ reqs # <<>> => Range(resps) \cap DOMAIN asleep = {}
    /\ \A i \in 1..Len(resps) : i # Len(resps) => resps[i] \notin DOMAIN asleep
    /\ cur.at \in {"handler", "drain"} => Range(resps) \cap cur.h.out = {}
    /\ cur.at = "wait" =>
           /\ cur.trans \notin Pending
           /\ IF DOMAIN asleep = {} THEN cur.count = Len(resps)
              ELSE cur.count = 0 /\ Range(resps) \cap cur.h.out = {}

IInv ==
    /\ TypeOK /\ Rings /\ Shape /\ Requests
    /\ Threads /\ Unique /\ Transactions /\ Sleepers
==============================================================================
