----------------------------- MODULE Endpoints ------------------------------
(***************************************************************************)
(* How processes come and go at a server: connecting through the server's    *)
(* endpoint (messaging/channel.cpp), the server's table of channels          *)
(* (messaging/dispatch.cpp), which moves a channel when another closes, and  *)
(* the file system server's table of who caches an entry, which is keyed by  *)
(* Channel pointers (sys/fs/server.cpp).                                     *)
(*                                                                           *)
(* A Channel object is a pointer to a ring, the pair of half channels in the *)
(* server's shared memory that connects one process.  Rings are reused, and  *)
(* objects are never deleted.  There is one entry that may be cached.        *)
(***************************************************************************)
EXTENDS Integers, Sequences, FiniteSets, Functions

CONSTANTS
    Processes,    \* each lives once
    Rings,        \* rings of the server's pool, a set of numbers
    Calls,        \* the calls that each process makes: "lookup", "remove"
    Twice,        \* processes that close their channel before they exit
    None

ASSUME EndpointsAssumption ==
    /\ IsFiniteSet(Processes)
    /\ Rings \subseteq Nat /\ IsFiniteSet(Rings)
    /\ Cardinality(Processes) <= Cardinality(Rings)
    /\ Calls \in [Processes -> SUBSET {"lookup", "remove"}]
    /\ Twice \subseteq Processes
    /\ None \notin Processes \cup Rings

VARIABLES
    proc,         \* proc[p]: what process p does, its ring, whether it caches
    public,       \* requests in the server's public channels
    ring,         \* ring[r]: the flag closed and the messages in both directions
    pool,         \* ep->local_chan_pool
    mapped,       \* ep->remote_ep_cache: the processes whose endpoint is mapped
    object,       \* the ring of each Channel object, by pointer
    channels,     \* dispatcher.channels: pointers
    pos,          \* _dispatchPoll's pos, from 1; 0 stands for -1
    cachers,      \* m_apps: the pointers under which the entry is cached
    at            \* the server is accepting or polling

vars == <<proc, public, ring, pool, mapped, object, channels, pos, cachers, at>>
server == <<pool, mapped, object, channels, pos, cachers, at>>

Live == {"idle", "lookup", "remove"}      \* uses its channel
States == Live \cup {"new", "connecting", "drained", "gone"}

Init ==
    /\ proc = [p \in Processes |-> [state |-> "new", ring |-> None, caches |-> FALSE]]
    /\ public = {}
    /\ ring = [r \in Rings |-> [closed |-> FALSE, requests |-> <<>>, answers |-> <<>>]]
    /\ pool = CHOOSE s \in Injection(1..Cardinality(Rings), Rings) : TRUE
    /\ mapped = {}
    /\ object = <<>>
    /\ channels = <<>>
    /\ pos = 0
    /\ cachers = {}
    /\ at = "accept"

Goto(p, state) == proc' = [proc EXCEPT ![p].state = state]

-----------------------------------------------------------------------------
(* A process.                                                                 *)

\* endpoint_connect sends its request and waits for the response.
Connect(p) ==
    /\ proc[p].state = "new"
    /\ Goto(p, "connecting")
    /\ public' = public \cup {<<"connect", p>>}
    /\ UNCHANGED <<ring, server>>

\* A call: notifications have been looked for, and the request is sent.
Request(p, call) ==
    /\ proc[p].state = "idle"
    /\ ring[proc[p].ring].answers = <<>>
    /\ Goto(p, call)
    /\ ring' = [ring EXCEPT ![proc[p].ring].requests = Append(@, call)]
    /\ UNCHANGED <<public, server>>

\* A notification or the response.  What the process removes it also takes out
\* of its cache.
Receive(p) ==
    LET r == proc[p].ring
    IN
    /\ proc[p].state \in Live
    /\ ring[r].answers # <<>>
    /\ ring' = [ring EXCEPT ![r].answers = Tail(@)]
    /\ proc' = [proc EXCEPT ![p] =
           IF Head(ring[r].answers) = "note" THEN [@ EXCEPT !.caches = FALSE]
           ELSE [@ EXCEPT !.state = "idle",
                          !.caches = proc[p].state = "lookup" \/ (proc[p].caches /\ proc[p].state # "remove")]]
    /\ UNCHANGED <<public, server>>

\* channel_close of a channel that this end does not own.
CloseRing(r) == [ring EXCEPT ![r].closed = ~@]

\* A process stops calling: dispatcherFree reads the notifications that have
\* arrived.  name_cleanup sends a last request and closes the channel before.
Leave(p) ==
    /\ proc[p].state = "idle"
    /\ IF p \in Twice
       THEN ring' = [CloseRing(proc[p].ring) EXCEPT ![proc[p].ring].requests = Append(@, "cleanup")]
       ELSE ring[proc[p].ring].answers = <<>> /\ UNCHANGED ring
    /\ Goto(p, "drained")
    /\ UNCHANGED <<public, server>>

\* dispatcherFree closes the channel and tells the server to unmap the endpoint.
Close(p) ==
    /\ proc[p].state = "drained"
    /\ ring' = CloseRing(proc[p].ring)
    /\ public' = public \cup {<<"disconnect", p>>}
    /\ Goto(p, "gone")
    /\ UNCHANGED server

-----------------------------------------------------------------------------
(* The server.  Each turn of its main loop accepts and then polls.            *)

\* endpoint_accept maps the endpoint that asks.  A ring from the pool is set up again: the message headers
\* in it stay, so what its last process has not read may still be there.
Accept(p) ==
    /\ at = "accept"
    /\ <<"connect", p>> \in public
    /\ public' = public \ {<<"connect", p>>}
    /\ pool # <<>>
    /\ LET r == Head(pool) IN
       /\ pool' = Tail(pool)
       /\ \E left \in {<<>>, ring[r].answers} :
            ring' = [ring EXCEPT ![r] = [closed |-> FALSE, requests |-> <<>>, answers |-> left]]
       /\ object' = Append(object, r)
       /\ proc' = [proc EXCEPT ![p].state = "idle", ![p].ring = r]
    /\ mapped' = mapped \cup {p}
    /\ channels' = Append(channels, Len(object) + 1)
    /\ UNCHANGED <<pos, cachers, at>>

\* A disconnect unmaps the endpoint.  It ends the turn's accepting, as does having
\* nothing to accept.
AcceptDisconnect(p) ==
    /\ at = "accept"
    /\ <<"disconnect", p>> \in public
    /\ public' = public \ {<<"disconnect", p>>}
    /\ mapped' = mapped \ {p}
    /\ at' = "poll"
    /\ UNCHANGED <<proc, ring, pool, object, channels, pos, cachers>>

AcceptNothing ==
    /\ at = "accept"
    /\ public = {}
    /\ at' = "poll"
    /\ UNCHANGED <<proc, public, ring, pool, mapped, object, channels, pos, cachers>>

\* __channel_poll: messages first, then whether the channel is closed.
RingAt(j) == object[channels[j]]
Polls(j) ==
    IF ring[RingAt(j)].requests # <<>> THEN "message"
    ELSE IF ring[RingAt(j)].closed THEN "closed" ELSE "nothing"

Ready == {j \in 1..Len(channels) : Polls(j) # "nothing"}
Distance(j) == (j - pos - 1) % Len(channels)
Selected == CHOOSE j \in Ready : \A k \in Ready : Distance(j) <= Distance(k)

PollNothing ==
    /\ at = "poll"
    /\ Ready = {}
    /\ at' = "accept"
    /\ UNCHANGED <<proc, public, ring, pool, mapped, object, channels, pos, cachers>>

\* The handler of a lookup records the pointer; that of a remove notifies
\* everybody else who has the entry, unless the channel is closed.
Handle ==
    /\ at = "poll"
    /\ Ready # {}
    /\ Polls(Selected) = "message"
    /\ LET me == channels[Selected]
           r == object[me]
           call == Head(ring[r].requests)
           Notified == {object[q] : q \in cachers \ {me}}
           Reached == {x \in Notified : ring[x].requests # <<>> \/ ~ring[x].closed}
           notes == [x \in Rings |-> Cardinality({q \in cachers \ {me} : object[q] = x})]
           Answers(x) ==
               (IF call = "remove" /\ x \in Reached THEN [i \in 1..notes[x] |-> "note"] ELSE <<>>)
                 \o (IF x = r /\ call # "cleanup" THEN <<"response">> ELSE <<>>)
       IN
       /\ ring' = [x \in Rings |->
              [ring[x] EXCEPT !.requests = IF x = r THEN Tail(@) ELSE @, !.answers = @ \o Answers(x)]]
       /\ cachers' = CASE call = "lookup" -> cachers \cup {me}
                       [] call = "remove" -> {}
                       [] OTHER -> cachers
    /\ pos' = Selected
    /\ at' = "accept"
    /\ UNCHANGED <<proc, public, pool, mapped, object, channels>>

\* Mutant: the ring is not put back.
Leaked(r) == pool

\* channel_close of a channel that this end owns: the ring goes to the pool's front.
GivenBack(r) == <<r>> \o pool

\* Mutant: the last channel stays in the table.
CloseChannelKeeps ==
    /\ at = "poll"
    /\ Ready # {}
    /\ Polls(Selected) = "closed"
    /\ LET from == channels[Len(channels)]
           to == channels[Selected]
       IN
       /\ cachers' = cachers \ {to}
       /\ pool' = GivenBack(object[to])
       /\ object' = [object EXCEPT ![to] = object[from]]
    /\ channels' = channels
    /\ pos' = Selected
    /\ at' = "accept"
    /\ UNCHANGED <<proc, public, ring, mapped>>

\* Mutant: the callback gets the channel that is moved.
CloseChannelMoved ==
    /\ at = "poll"
    /\ Ready # {}
    /\ Polls(Selected) = "closed"
    /\ LET from == channels[Len(channels)]
           to == channels[Selected]
       IN
       /\ cachers' = cachers \ {from}
       /\ pool' = GivenBack(object[to])
       /\ object' = [object EXCEPT ![to] = object[from]]
    /\ channels' = SubSeq(channels, 1, Len(channels) - 1)
    /\ pos' = Selected
    /\ at' = "accept"
    /\ UNCHANGED <<proc, public, ring, mapped>>

\* closeCallback, then _dispatchCloseChannel: the object of the last channel is
\* copied over the closed one, and its own pointer leaves the table.
CloseChannel ==
    /\ at = "poll"
    /\ Ready # {}
    /\ Polls(Selected) = "closed"
    /\ LET from == channels[Len(channels)]
           to == channels[Selected]
       IN
       /\ cachers' = cachers \ {to}
       /\ pool' = GivenBack(object[to])
       /\ object' = [object EXCEPT ![to] = object[from]]
    /\ channels' = SubSeq(channels, 1, Len(channels) - 1)
    /\ pos' = Selected
    /\ at' = "accept"
    /\ UNCHANGED <<proc, public, ring, mapped>>

-----------------------------------------------------------------------------
Server ==
    \/ \E p \in Processes : Accept(p) \/ AcceptDisconnect(p)
    \/ AcceptNothing \/ PollNothing \/ Handle \/ CloseChannel

Process(p) ==
    \/ Connect(p)
    \/ \E call \in Calls[p] : Request(p, call)
    \/ Receive(p)
    \/ Leave(p) \/ Close(p)

Next == Server \/ \E p \in Processes : Process(p)

\* The server's main loop never stops; a process that exits goes through with it.
Spec ==
    /\ Init
    /\ [][Next]_vars
    /\ WF_vars(Server)
    /\ \A p \in Processes : WF_vars(Receive(p)) /\ WF_vars(Close(p))

-----------------------------------------------------------------------------
(* Properties.                                                                *)

TypeOK ==
    /\ proc \in [Processes -> [state : States, ring : Rings \cup {None}, caches : BOOLEAN]]
    /\ public \subseteq {"connect", "disconnect"} \X Processes
    /\ ring \in [Rings -> [closed : BOOLEAN, requests : Seq({"lookup", "remove", "cleanup"}),
                           answers : Seq({"note", "response"})]]
    /\ pool \in Seq(Rings)
    /\ mapped \subseteq Processes
    /\ object \in Seq(Rings)
    /\ channels \in Seq(1..Len(object))
    /\ pos \in 0..Cardinality(Processes)
    /\ cachers \subseteq 1..Len(object)
    /\ at \in {"accept", "poll"}

\* Two processes that have not closed never share a ring, and no ring in use is
\* in the pool, however often rings have been given back and slots moved
\* (channel.cpp:255, 376; dispatch.cpp:119).
OneProcessPerRing ==
    \A p \in Processes : proc[p].state \in Live =>
        /\ \A q \in Processes \ {p} : proc[q].state \in Live => proc[q].ring # proc[p].ring
        /\ proc[p].ring \notin Range(pool)
        /\ Cardinality({j \in 1..Len(channels) : RingAt(j) = proc[p].ring}) = 1

\* The channel of a process that has not closed it is open (name.cpp:33 says that
\* closing it there "does nothing").
LiveChannelsOpen ==
    \A p \in Processes : proc[p].state \in Live => ~ring[proc[p].ring].closed

\* A process that has the entry cached hears of its removal, although its entry in
\* m_apps may be under the pointer its channel had before it was moved: the
\* pointer still leads to its ring, or the notification is on its way.
CachersReached ==
    \A p \in Processes : proc[p].state = "idle" /\ proc[p].caches =>
        \/ \E q \in cachers : object[q] = proc[p].ring
        \/ "note" \in Range(ring[proc[p].ring].answers)

\* What a process that has closed its channel held at the server is taken back: its
\* ring returns to the pool and its slot leaves the table, or another process has
\* got the ring since, and its endpoint is unmapped (channel.cpp:280-289, 376).
Reclaimed ==
    \A p \in Processes : proc[p].state = "gone" ~>
        /\ \/ /\ proc[p].ring \in Range(pool)
              /\ \A j \in 1..Len(channels) : RingAt(j) # proc[p].ring
           \/ \E q \in Processes : proc[q].state \in Live /\ proc[q].ring = proc[p].ring
        /\ p \notin mapped
=============================================================================
