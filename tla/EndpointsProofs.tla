--------------------------- MODULE EndpointsProofs ---------------------------
(***************************************************************************)
(* Proofs about Endpoints, for every number of processes and rings, when no  *)
(* process closes its channel twice.                                         *)
(***************************************************************************)
EXTENDS Endpoints, SequenceTheorems, FiniteSetTheorems, TLAPS

-----------------------------------------------------------------------------
(* The inductive invariant.                                                   *)

Attached(p) == proc[p].state \in Live \cup {"drained"}
Calling(p) == proc[p].state \in {"lookup", "remove"}

ProcType == [state : States, ring : Rings \cup {None}, caches : BOOLEAN]
RingType == [closed : BOOLEAN, requests : Seq({"lookup", "remove", "cleanup"}),
             answers : Seq({"note", "response"})]

Types ==
    /\ proc \in [Processes -> ProcType] /\ ring \in [Rings -> RingType]
    /\ pool \in Seq(Rings) /\ object \in Seq(Rings) /\ channels \in Seq(Nat)
    /\ \A j \in 1..Len(channels) : channels[j] \in 1..Len(object)
    /\ pos \in Nat /\ cachers \subseteq 1..Len(object)

\* No ring is twice in the pool or in the table, or in both.
InTable(r) == \E j \in 1..Len(channels) : RingAt(j) = r

Tables ==
    /\ IsInjective(channels) /\ IsInjective(pool)
    /\ \A j, k \in 1..Len(channels) : RingAt(j) = RingAt(k) => j = k
    /\ \A i \in 1..Len(pool) : ~InTable(pool[i])

\* A process has an open ring of the table for itself until it closes it.
Owners ==
    /\ \A p \in Processes : Attached(p) =>
           proc[p].ring \in Rings /\ InTable(proc[p].ring) /\ ~ring[proc[p].ring].closed
    /\ \A p, q \in Processes : Attached(p) /\ Attached(q) /\ proc[p].ring = proc[q].ring => p = q
    /\ \A p \in Processes : <<"connect", p>> \in public => proc[p].state = "connecting"
    /\ \A p \in Processes : proc[p].state \in {"new", "connecting"} => ~proc[p].caches

\* A process that calls has one request or one response in its ring; all else there
\* are notifications.
OnlyNotes(s) == \A i \in 1..Len(s) : s[i] = "note"
OneResponse(s) == \E i \in 1..Len(s) : s[i] = "response" /\ \A k \in 1..Len(s) : k # i => s[k] = "note"

Quiet(r) == ring[r].requests = <<>> /\ OnlyNotes(ring[r].answers)
Called(p) ==
    LET m == ring[proc[p].ring]
    IN  \/ m.requests = <<proc[p].state>> /\ OnlyNotes(m.answers)
        \/ m.requests = <<>> /\ OneResponse(m.answers)

Messages ==
    /\ \A r \in Rings : (\A p \in Processes : Calling(p) => proc[p].ring # r) => Quiet(r)
    /\ \A p \in Processes : Calling(p) => Called(p)

\* Who caches the entry, or will when it gets its response, is known to the server
\* or will still read a notification.
Known(r) == \E q \in cachers : object[q] = r

Reaches(p) ==
    LET s == ring[proc[p].ring].answers
    IN  /\ proc[p].state = "idle" /\ proc[p].caches =>
               Known(proc[p].ring) \/ \E i \in 1..Len(s) : s[i] = "note"
        /\ proc[p].state = "lookup" => \A i \in 1..Len(s) : s[i] = "response" =>
               Known(proc[p].ring) \/ \E k \in 1..Len(s) : k > i /\ s[k] = "note"

IInv == Types /\ Tables /\ Owners /\ Messages /\ \A p \in Processes : Reaches(p)

-----------------------------------------------------------------------------
(* Facts about sequences.                                                     *)

LEMMA Minimum ==
    ASSUME NEW S, S \subseteq Nat, S # {}
    PROVE  \E x \in S : \A y \in S : x <= y
<1> DEFINE Less == {e \in Nat \X Nat : e[1] < e[2]}
<1>1. IsWellFoundedOn(Less, Nat)
    BY NatLessThanWellFounded, Zenon DEF OpToRel
<1>2. PICK x \in S : \A y \in S : <<y, x>> \notin Less
  <2> HIDE DEF Less
  <2> QED
    BY <1>1, WFMin, ZenonT(30)
<1>3. \A y \in S : ~(y < x)
    BY <1>2, ZenonT(30)
<1> QED
    BY <1>3

Kinds == {"note", "response"}

LEMMA NotesJoined ==
    ASSUME NEW s \in Seq(Kinds), NEW t \in Seq(Kinds), OnlyNotes(t)
    PROVE  /\ s \o t \in Seq(Kinds)
           /\ OnlyNotes(s) => OnlyNotes(s \o t)
           /\ OneResponse(s) => OneResponse(s \o t)
           /\ \A i \in 1..Len(s) : i \in 1..Len(s \o t) /\ (s \o t)[i] = s[i]
           /\ \A i \in 1..Len(s \o t) : (s \o t)[i] = "response" => i \in 1..Len(s)
           /\ t # <<>> => \E k \in 1..Len(s \o t) : k > Len(s) /\ (s \o t)[k] = "note"
<1> DEFINE u == s \o t
<1>1. u \in Seq(Kinds) /\ Len(u) = Len(s) + Len(t)
      /\ \A i \in 1..Len(s) + Len(t) : u[i] = IF i <= Len(s) THEN s[i] ELSE t[i - Len(s)]
    BY ZenonT(30), ConcatProperties
<1>2. Len(s) \in Nat /\ Len(t) \in Nat
    BY ZenonT(30), LenProperties
<1> HIDE DEF u
<1>3. \A i \in 1..Len(s) : i \in 1..Len(u) /\ u[i] = s[i]
    BY <1>1, <1>2
<1>4. \A i \in 1..Len(u) : i \in 1..Len(s) \/ (i > Len(s) /\ u[i] = "note")
  <2> SUFFICES ASSUME NEW i \in 1..Len(u), ~(i \in 1..Len(s))
               PROVE  i > Len(s) /\ u[i] = "note"
    BY ZenonT(30)
  <2>1. i > Len(s) /\ i - Len(s) \in 1..Len(t)
    BY <1>1, <1>2
  <2>2. u[i] = t[i - Len(s)]
    BY <1>1, <1>2, <2>1
  <2> QED
    BY ZenonT(30), <2>1, <2>2 DEF OnlyNotes
<1>5. OnlyNotes(s) => OnlyNotes(u)
    BY ZenonT(30), <1>3, <1>4 DEF OnlyNotes
<1>6. ASSUME OneResponse(s)
      PROVE  OneResponse(u)
  <2>1. PICK i \in 1..Len(s) : s[i] = "response" /\ \A k \in 1..Len(s) : k # i => s[k] = "note"
    BY ZenonT(30), <1>6 DEF OneResponse
  <2>2. i \in 1..Len(u) /\ u[i] = "response" /\ \A k \in 1..Len(u) : k # i => u[k] = "note"
    BY ZenonT(30), <1>3, <1>4, <2>1
  <2> QED
    BY ZenonT(30), <2>2 DEF OneResponse
<1>7. ASSUME t # <<>>
      PROVE  \E k \in 1..Len(u) : k > Len(s) /\ u[k] = "note"
  <2>1. Len(t) > 0
    BY <1>7, <1>2, EmptySeq
  <2>2. Len(s) + 1 \in 1..Len(u) /\ ~(Len(s) + 1 \in 1..Len(s))
    BY <1>1, <1>2, <2>1
  <2> QED
    BY ZenonT(30), <1>4, <2>2
<1> QED
    BY ZenonT(30), <1>1, <1>3, <1>4, <1>5, <1>6, <1>7 DEF u

LEMMA ResponseJoined ==
    ASSUME NEW s \in Seq(Kinds), OnlyNotes(s)
    PROVE  s \o <<"response">> \in Seq(Kinds) /\ OneResponse(s \o <<"response">>)
<1> DEFINE t == <<"response">>
           u == s \o t
<1>1. t \in Seq(Kinds) /\ Len(t) = 1 /\ t[1] = "response"
    BY DEF Kinds
<1>2. u \in Seq(Kinds) /\ Len(u) = Len(s) + Len(t)
      /\ \A i \in 1..Len(s) + Len(t) : u[i] = IF i <= Len(s) THEN s[i] ELSE t[i - Len(s)]
    BY ZenonT(30), <1>1, ConcatProperties
<1>3. Len(s) \in Nat
    BY ZenonT(30), LenProperties
<1> HIDE DEF t, u
<1>4. Len(s) + 1 \in 1..Len(u) /\ u[Len(s) + 1] = "response"
  <2>1. Len(s) + 1 \in 1..Len(s) + Len(t) /\ ~(Len(s) + 1 <= Len(s)) /\ Len(s) + 1 - Len(s) = 1
    BY <1>1, <1>3
  <2> QED
    BY <1>1, <1>2, <2>1
<1>5. \A k \in 1..Len(u) : k # Len(s) + 1 => k \in 1..Len(s) /\ u[k] = s[k]
    BY <1>1, <1>2, <1>3
<1> QED
    BY ZenonT(30), <1>2, <1>4, <1>5 DEF OneResponse, OnlyNotes, t, u

LEMMA AnswerTaken ==
    ASSUME NEW s \in Seq(Kinds), s # <<>>
    PROVE  /\ Tail(s) \in Seq(Kinds) /\ Head(s) = s[1] /\ Head(s) \in Kinds
           /\ OnlyNotes(s) => Head(s) = "note" /\ OnlyNotes(Tail(s))
           /\ OneResponse(s) /\ Head(s) = "note" => OneResponse(Tail(s))
           /\ OneResponse(s) /\ Head(s) = "response" => OnlyNotes(Tail(s))
           /\ \A i \in 1..Len(Tail(s)) : i + 1 \in 1..Len(s) /\ Tail(s)[i] = s[i + 1]
           /\ \A k \in 1..Len(s) : k > 1 => k - 1 \in 1..Len(Tail(s)) /\ Tail(s)[k - 1] = s[k]
<1> DEFINE t == Tail(s)
<1>1. /\ t \in Seq(Kinds) /\ Len(t) = Len(s) - 1 /\ Head(s) \in Kinds
      /\ \A i \in 1..Len(t) : t[i] = s[i + 1]
    BY ZenonT(30), HeadTailProperties
<1>2. Len(s) \in Nat /\ Len(s) > 0
    BY LenProperties, EmptySeq
<1>3. Head(s) = s[1] /\ 1 \in 1..Len(s)
    BY <1>2
<1> HIDE DEF t
<1>4. \A i \in 1..Len(t) : i + 1 \in 1..Len(s) /\ t[i] = s[i + 1] /\ i + 1 > 1 /\ i \in Nat
    BY <1>1, <1>2
<1>5. \A k \in 1..Len(s) : k > 1 => k - 1 \in 1..Len(t) /\ k = (k - 1) + 1
    BY <1>1, <1>2
<1>6. \A k \in 1..Len(s) : k > 1 => t[k - 1] = s[k]
    BY ZenonT(30), <1>4, <1>5
<1>7. OnlyNotes(s) => Head(s) = "note" /\ OnlyNotes(t)
    BY ZenonT(30), <1>3, <1>4 DEF OnlyNotes
<1>8. ASSUME OneResponse(s), Head(s) = "note"
      PROVE  OneResponse(t)
  <2>1. PICK i \in 1..Len(s) : s[i] = "response" /\ \A k \in 1..Len(s) : k # i => s[k] = "note"
    BY ZenonT(30), <1>8 DEF OneResponse
  <2>2. i > 1
    BY <1>3, <1>8, <2>1
  <2>3. i - 1 \in 1..Len(t) /\ t[i - 1] = "response"
    BY ZenonT(30), <1>5, <1>6, <2>1, <2>2
  <2>4. \A k \in 1..Len(t) : k # i - 1 => k + 1 # i
    BY <1>2, <1>4
  <2> QED
    BY ZenonT(30), <1>4, <2>1, <2>3, <2>4 DEF OneResponse
<1>9. ASSUME OneResponse(s), Head(s) = "response"
      PROVE  OnlyNotes(t)
  <2>1. \A k \in 1..Len(s) : k > 1 => s[k] = "note"
    BY <1>3, <1>9 DEF OneResponse
  <2> QED
    BY ZenonT(30), <1>4, <2>1 DEF OnlyNotes
<1> QED
    BY ZenonT(30), <1>1, <1>3, <1>4, <1>5, <1>6, <1>7, <1>8, <1>9 DEF t

-----------------------------------------------------------------------------
(* The steps of processes.                                                    *)

(* Whoever keeps its state and its answers is reached as before, if the server has not
   forgotten its ring.                                                        *)
LEMMA ReachesKept ==
    ASSUME NEW p, NEW r, Reaches(p), proc[p].ring = r, proc'[p] = proc[p],
           ring'[r].answers = ring[r].answers, Known(r) => Known(r)'
    PROVE  Reaches(p)'
<1> DEFINE s == ring[r].answers
<1>1. proc'[p].state = "idle" /\ proc'[p].caches => Known(r)' \/ \E i \in 1..Len(s) : s[i] = "note"
    BY ZenonT(30) DEF Reaches
<1>2. proc'[p].state = "lookup" => \A i \in 1..Len(s) : s[i] = "response" =>
          Known(r)' \/ \E k \in 1..Len(s) : k > i /\ s[k] = "note"
    BY ZenonT(30) DEF Reaches
<1>3. proc'[p].ring = r /\ ring'[proc'[p].ring].answers = s
    BY ZenonT(30)
<1> QED
    BY <1>1, <1>2, <1>3 DEF Reaches, Known

LEMMA IdleInv ==
    ASSUME IInv, UNCHANGED <<proc, ring, pool, object, channels, pos, cachers>>, public' \subseteq public
    PROVE  IInv'
<1>1. Types' /\ Tables'
    BY ZenonT(30) DEF IInv, Types, Tables, InTable, RingAt
<1>2. Owners'
    BY ZenonT(30) DEF IInv, Owners, Attached, InTable, RingAt
<1>3. Messages'
    BY ZenonT(30) DEF IInv, Messages, Calling, Quiet, Called
<1>4. \A p \in Processes : Reaches(p)'
    BY ZenonT(30), ReachesKept DEF IInv, Known
<1> QED
    BY ZenonT(30), <1>1, <1>2, <1>3, <1>4 DEF IInv

\* What a step leaves alone that only changes one process and its ring.
LEMMA Aside ==
    ASSUME IInv, NEW p \in Processes, UNCHANGED server, NEW x \in ProcType,
           proc' = [proc EXCEPT ![p] = x]
    PROVE  /\ proc' \in [Processes -> ProcType] /\ proc'[p] = x
           /\ \A q \in Processes \ {p} : proc'[q] = proc[q]
           /\ Tables' /\ \A r \in Rings : (InTable(r)' <=> InTable(r)) /\ (Known(r)' <=> Known(r))
<1>1. Tables' /\ \A r \in Rings : (InTable(r)' <=> InTable(r)) /\ (Known(r)' <=> Known(r))
    BY ZenonT(30) DEF IInv, Tables, InTable, RingAt, Known, server
<1> QED
    BY ZenonT(30), <1>1 DEF IInv, Types

LEMMA ConnectInv ==
    ASSUME IInv, NEW p \in Processes, Connect(p)
    PROVE  IInv'
<1>0. Types /\ Tables /\ Owners /\ Messages /\ \A q \in Processes : Reaches(q)
    BY ZenonT(30) DEF IInv
<1> DEFINE x == [proc[p] EXCEPT !.state = "connecting"]
<1>1. proc[p].state = "new" /\ proc' = [proc EXCEPT ![p] = x] /\ UNCHANGED <<ring, server>>
      /\ public' = public \cup {<<"connect", p>>}
    BY ZenonT(30) DEF Connect, Goto
<1>2. x \in ProcType /\ x.state = "connecting" /\ x.caches = proc[p].caches
    BY ZenonT(30), <1>0 DEF Types, ProcType, States
<1> HIDE DEF x
<1>3. /\ proc' \in [Processes -> ProcType] /\ proc'[p] = x
      /\ \A q \in Processes \ {p} : proc'[q] = proc[q]
      /\ Tables' /\ \A r \in Rings : (InTable(r)' <=> InTable(r)) /\ (Known(r)' <=> Known(r))
    BY ZenonT(30), <1>1, <1>2, Aside
<1>4. \A q \in Processes : (Attached(q)' <=> Attached(q)) /\ (Attached(q) => proc'[q] = proc[q])
    BY ZenonT(30), <1>1, <1>2, <1>3 DEF Attached, Live
<1>5. \A q \in Processes : (Calling(q)' <=> Calling(q)) /\ (Calling(q) => Attached(q))
    BY ZenonT(30), <1>1, <1>2, <1>3 DEF Attached, Live, Calling
<1>6. Types'
    BY ZenonT(30), <1>0, <1>1, <1>3 DEF Types, server
<1>7. Owners'
  <2>1. \A q \in Processes : Attached(q)' =>
           (proc[q].ring \in Rings /\ InTable(proc[q].ring) /\ ~ring[proc[q].ring].closed)'
    BY <1>0, <1>1, <1>3, <1>4 DEF Owners, InTable, RingAt, server
  <2>2. \A q, u \in Processes : Attached(q)' /\ Attached(u)' /\ proc'[q].ring = proc'[u].ring => q = u
    BY ZenonT(30), <1>0, <1>4 DEF Owners
  <2>3. \A q \in Processes : <<"connect", q>> \in public' => proc'[q].state = "connecting"
    BY ZenonT(30), <1>0, <1>1, <1>2, <1>3 DEF Owners
  <2>4. \A q \in Processes : proc'[q].state \in {"new", "connecting"} => ~proc'[q].caches
    BY ZenonT(30), <1>0, <1>1, <1>2, <1>3 DEF Owners
  <2> QED
    BY ZenonT(30), <2>1, <2>2, <2>3, <2>4 DEF Owners
<1>8. Messages'
    BY ZenonT(30), <1>0, <1>1, <1>4, <1>5 DEF Messages, Quiet, Called
<1>9. \A q \in Processes : Reaches(q)'
  <2> SUFFICES ASSUME NEW q \in Processes
               PROVE  Reaches(q)'
    BY ZenonT(30)
  <2>1. CASE q = p
    BY ZenonT(30), <1>2, <1>3, <2>1 DEF Reaches
  <2>2. CASE q # p
    BY ZenonT(30), <1>0, <1>1, <1>3, <2>2, ReachesKept DEF Known, server
  <2> QED
    BY ZenonT(30), <2>1, <2>2
<1> QED
    BY ZenonT(30), <1>3, <1>6, <1>7, <1>8, <1>9 DEF IInv

\* A process with a ring takes a step of its own: the rest is as it was.
LEMMA TurnInv ==
    ASSUME IInv, NEW p \in Processes, Attached(p), UNCHANGED <<public, server>>,
           NEW x \in ProcType, x.ring = proc[p].ring, x.state \in Live \cup {"drained"},
           proc' = [proc EXCEPT ![p] = x],
           NEW m \in RingType, m.closed = ring[proc[p].ring].closed,
           ring' = [ring EXCEPT ![proc[p].ring] = m],
           IF x.state \in {"lookup", "remove"} THEN Called(p)'
           ELSE m.requests = <<>> /\ OnlyNotes(m.answers),
           Reaches(p)'
    PROVE  IInv'
<1> DEFINE r == proc[p].ring
<1>0. Types /\ Tables /\ Owners /\ Messages /\ \A q \in Processes : Reaches(q)
    BY ZenonT(30) DEF IInv
<1>1. r \in Rings
    BY ZenonT(30), <1>0 DEF Owners
<1>2. ring' \in [Rings -> RingType] /\ ring'[r] = m /\ \A y \in Rings \ {r} : ring'[y] = ring[y]
    BY ZenonT(30), <1>0, <1>1 DEF Types
<1>3. /\ proc' \in [Processes -> ProcType] /\ proc'[p] = x
      /\ \A q \in Processes \ {p} : proc'[q] = proc[q]
      /\ Tables' /\ \A y \in Rings : (InTable(y)' <=> InTable(y)) /\ (Known(y)' <=> Known(y))
    BY ZenonT(30), Aside
<1>4. \A q \in Processes : /\ (Attached(q)' <=> Attached(q)) /\ proc'[q].ring = proc[q].ring
                           /\ (q # p => (Calling(q)' <=> Calling(q))) /\ (Calling(q) => Attached(q))
    BY ZenonT(30), <1>3 DEF Attached, Live, Calling
<1>5. Types'
    BY ZenonT(30), <1>0, <1>2, <1>3 DEF Types, server
<1>6. \A y \in Rings : ring'[y].closed = ring[y].closed
    BY ZenonT(30), <1>1, <1>2
<1>7. Owners'
  <2>1. \A q \in Processes : Attached(q)' =>
           (proc[q].ring \in Rings /\ InTable(proc[q].ring) /\ ~ring[proc[q].ring].closed)'
    BY SMTT(30), <1>0, <1>3, <1>4, <1>6 DEF Owners, InTable, RingAt, server
  <2>2. \A q, u \in Processes : Attached(q)' /\ Attached(u)' /\ proc'[q].ring = proc'[u].ring => q = u
    BY ZenonT(30), <1>0, <1>4 DEF Owners
  <2>3. ~(<<"connect", p>> \in public)
    BY ZenonT(30), <1>0 DEF Owners, Attached, Live
  <2>4. \A q \in Processes : <<"connect", q>> \in public' => proc'[q].state = "connecting"
    BY ZenonT(30), <1>0, <1>3, <2>3 DEF Owners
  <2>5. \A q \in Processes : proc'[q].state \in {"new", "connecting"} => ~proc'[q].caches
    BY ZenonT(30), <1>0, <1>3 DEF Owners, Live
  <2> QED
    BY ZenonT(30), <2>1, <2>2, <2>4, <2>5 DEF Owners
<1>8. \A q \in Processes \ {p} : Attached(q) => proc[q].ring # r /\ proc[q].ring \in Rings
    BY ZenonT(30), <1>0 DEF Owners
<1>9. Calling(p)' <=> x.state \in {"lookup", "remove"}
    BY ZenonT(30), <1>3 DEF Calling
<1>10. Messages'
  <2>1. ASSUME NEW q \in Processes, Calling(q)'
        PROVE  Called(q)'
    <3>1. CASE q = p
      BY ZenonT(30), <1>9, <2>1, <3>1
    <3>2. CASE q # p
      BY ZenonT(30), <1>0, <1>2, <1>3, <1>4, <1>8, <2>1, <3>2 DEF Messages, Called
    <3> QED
      BY ZenonT(30), <3>1, <3>2
  <2>2. ASSUME NEW y \in Rings, \A q \in Processes : Calling(q)' => proc'[q].ring # y
        PROVE  Quiet(y)'
    <3>1. CASE y = r
      <4>1. ~(x.state \in {"lookup", "remove"})
        BY ZenonT(30), <1>4, <1>9, <2>2, <3>1
      <4> QED
        BY ZenonT(30), <1>2, <3>1, <4>1 DEF Quiet
    <3>2. CASE y # r
      <4>1. \A q \in Processes : Calling(q) => proc[q].ring # y
        BY ZenonT(30), <1>4, <2>2, <3>2
      <4> QED
        BY ZenonT(30), <1>0, <1>2, <3>2, <4>1 DEF Messages, Quiet
    <3> QED
      BY ZenonT(30), <3>1, <3>2
  <2> QED
    BY ZenonT(30), <2>1, <2>2 DEF Messages
<1>11. \A q \in Processes : Reaches(q)'
  <2> SUFFICES ASSUME NEW q \in Processes, q # p
               PROVE  Reaches(q)'
    BY ZenonT(30)
  <2>1. CASE Attached(q)
    <3>1. proc[q].ring \in Rings /\ proc[q].ring # r /\ Reaches(q)
      BY ZenonT(30), <1>0, <1>8, <2>1
    <3>2. proc'[q] = proc[q] /\ ring'[proc[q].ring] = ring[proc[q].ring]
      BY ZenonT(30), <1>2, <1>3, <3>1
    <3> QED
      BY ZenonT(30), <1>3, <3>1, <3>2, ReachesKept
  <2>2. CASE ~Attached(q)
    BY ZenonT(30), <1>3, <2>2 DEF Reaches, Attached, Live
  <2> QED
    BY ZenonT(30), <2>1, <2>2
<1> QED
    BY ZenonT(30), <1>3, <1>5, <1>7, <1>10, <1>11 DEF IInv

\* What the ring of an attached process holds.
LEMMA OwnRing ==
    ASSUME IInv, NEW p \in Processes, Attached(p)
    PROVE  /\ proc[p] \in ProcType /\ proc[p].ring \in Rings /\ ring[proc[p].ring] \in RingType
           /\ ~ring[proc[p].ring].closed
           /\ Calling(p) => Called(p)
           /\ ~Calling(p) => Quiet(proc[p].ring)
<1>1. proc[p] \in ProcType /\ proc[p].ring \in Rings /\ ring[proc[p].ring] \in RingType /\ ~ring[proc[p].ring].closed
    BY ZenonT(30) DEF IInv, Types, Owners
<1>2. ~Calling(p) => \A q \in Processes : Calling(q) => proc[q].ring # proc[p].ring
    BY ZenonT(30) DEF IInv, Owners, Calling, Attached, Live
<1> QED
    BY ZenonT(30), <1>1, <1>2 DEF IInv, Messages

LEMMA RequestInv ==
    ASSUME IInv, NEW p \in Processes, NEW call \in {"lookup", "remove"}, Request(p, call)
    PROVE  IInv'
<1> DEFINE x == [proc[p] EXCEPT !.state = call]
           r == proc[p].ring
           m == [ring[r] EXCEPT !.requests = Append(@, call)]
<1>1. proc[p].state = "idle" /\ proc' = [proc EXCEPT ![p] = x] /\ UNCHANGED <<public, server>>
      /\ ring' = [ring EXCEPT ![r] = m] /\ ring[r].answers = <<>>
    BY ZenonT(30) DEF Request, Goto
<1>2. Attached(p) /\ proc[p] \in ProcType /\ r \in Rings /\ ring[r] \in RingType /\ ring[r].requests = <<>>
    BY ZenonT(30), <1>1, OwnRing DEF Attached, Live, Calling, Quiet
<1>3. x \in ProcType /\ x.state = call /\ x.ring = r
    BY ZenonT(30), <1>2 DEF ProcType, States, Live
<1>4. m \in RingType /\ m.requests = <<call>> /\ m.answers = <<>> /\ m.closed = ring[r].closed
  <2>1. Append(<<>>, call) = <<call>> /\ <<call>> \in Seq({"lookup", "remove", "cleanup"})
    OBVIOUS
  <2> QED
    BY ZenonT(30), <1>1, <1>2, <2>1 DEF RingType
<1>5. proc'[p] = x /\ ring'[r] = m
    BY ZenonT(30), <1>1, <1>2 DEF IInv, Types
<1> HIDE DEF x, m
<1>6. Called(p)' /\ Reaches(p)'
    BY SMTT(30), <1>3, <1>4, <1>5 DEF Called, OnlyNotes, Reaches
<1> QED
    BY ZenonT(30), <1>1, <1>2, <1>3, <1>4, <1>6, TurnInv DEF Live

LEMMA ReceiveInv ==
    ASSUME IInv, NEW p \in Processes, Receive(p)
    PROVE  IInv'
<1> DEFINE r == proc[p].ring
           s == ring[r].answers
           m == [ring[r] EXCEPT !.answers = Tail(@)]
           x == IF Head(s) = "note" THEN [proc[p] EXCEPT !.caches = FALSE]
                ELSE [proc[p] EXCEPT !.state = "idle",
                                     !.caches = proc[p].state = "lookup" \/ (proc[p].caches /\ proc[p].state # "remove")]
<1>1. proc[p].state \in Live /\ proc' = [proc EXCEPT ![p] = x] /\ UNCHANGED <<public, server>>
      /\ ring' = [ring EXCEPT ![r] = m] /\ s # <<>>
    BY ZenonT(30) DEF Receive
<1>2. Attached(p) /\ proc[p] \in ProcType /\ r \in Rings /\ ring[r] \in RingType
      /\ (Calling(p) => Called(p)) /\ (~Calling(p) => Quiet(r))
    BY ZenonT(30), <1>1, OwnRing DEF Attached
<1>3. s \in Seq(Kinds)
    BY ZenonT(30), <1>2 DEF RingType, Kinds
<1>4. /\ Tail(s) \in Seq(Kinds) /\ Head(s) = s[1] /\ Head(s) \in Kinds
      /\ OnlyNotes(s) => Head(s) = "note" /\ OnlyNotes(Tail(s))
      /\ OneResponse(s) /\ Head(s) = "note" => OneResponse(Tail(s))
      /\ OneResponse(s) /\ Head(s) = "response" => OnlyNotes(Tail(s))
      /\ \A i \in 1..Len(Tail(s)) : i + 1 \in 1..Len(s) /\ Tail(s)[i] = s[i + 1]
      /\ \A k \in 1..Len(s) : k > 1 => k - 1 \in 1..Len(Tail(s)) /\ Tail(s)[k - 1] = s[k]
    BY ZenonT(30), <1>1, <1>3, AnswerTaken
<1>5. m \in RingType /\ m.requests = ring[r].requests /\ m.answers = Tail(s) /\ m.closed = ring[r].closed
    BY ZenonT(30), <1>2, <1>4 DEF RingType, Kinds
<1>6. x \in ProcType /\ x.ring = r
    BY ZenonT(30), <1>2 DEF ProcType, States, Live
<1>7. /\ Head(s) = "note" => x.state = proc[p].state /\ x.caches = FALSE
      /\ Head(s) = "response" => x.state = "idle" /\ (proc[p].state = "remove" => x.caches = FALSE)
    BY ZenonT(30), <1>2 DEF ProcType
<1>8. proc'[p] = x /\ ring'[r] = m
    BY ZenonT(30), <1>1, <1>2 DEF IInv, Types
<1> HIDE DEF x, m, s
<1>9. CASE Head(s) = "note"
  <2>1. x.state \in Live \cup {"drained"}
    BY ZenonT(30), <1>1, <1>7, <1>9
  <2>2. IF x.state \in {"lookup", "remove"} THEN Called(p)' ELSE m.requests = <<>> /\ OnlyNotes(m.answers)
    BY ZenonT(30), <1>2, <1>4, <1>5, <1>6, <1>7, <1>8, <1>9 DEF Called, Calling, Quiet, s
  <2>3. ASSUME proc[p].state = "lookup", NEW i \in 1..Len(Tail(s)), Tail(s)[i] = "response"
        PROVE  Known(r) \/ \E k \in 1..Len(Tail(s)) : k > i /\ Tail(s)[k] = "note"
    <3>1. i + 1 \in 1..Len(s) /\ s[i + 1] = "response" /\ i + 1 > 1
      BY <1>4, <2>3
    <3>2. Known(r) \/ \E k \in 1..Len(s) : k > i + 1 /\ s[k] = "note"
      BY ZenonT(30), <2>3, <3>1 DEF IInv, Reaches, s
    <3>3. ASSUME NEW k \in 1..Len(s), k > i + 1, s[k] = "note"
          PROVE  k - 1 \in 1..Len(Tail(s)) /\ k - 1 > i /\ Tail(s)[k - 1] = "note"
      BY <1>4, <3>1, <3>3
    <3> QED
      BY ZenonT(30), <3>2, <3>3
  <2>4. Reaches(p)'
    <3>1. cachers' = cachers /\ object' = object
      BY ZenonT(30), <1>1 DEF server
    <3>2. proc'[p].caches = FALSE /\ proc'[p].state = proc[p].state /\ proc'[p].ring = r /\ ring'[r].answers = Tail(s)
      BY ZenonT(30), <1>5, <1>6, <1>7, <1>8, <1>9
    <3> QED
      BY <2>3, <3>1, <3>2 DEF Reaches, Known
  <2> QED
    BY ZenonT(30), <1>1, <1>2, <1>5, <1>6, <2>1, <2>2, <2>4, TurnInv
<1>10. CASE Head(s) = "response"
  <2>1. x.state = "idle" /\ Calling(p)
    BY ZenonT(30), <1>2, <1>4, <1>7, <1>10 DEF Quiet, s
  <2>2. m.requests = <<>> /\ OnlyNotes(m.answers)
    BY ZenonT(30), <1>2, <1>4, <1>5, <1>10, <2>1 DEF Called, s
  <2>3. proc[p].state = "lookup" => Known(r) \/ \E k \in 1..Len(Tail(s)) : Tail(s)[k] = "note"
    <3>1. 1 \in 1..Len(s)
      BY <1>1, <1>3, EmptySeq, LenProperties DEF s
    <3>2. proc[p].state = "lookup" => Known(r) \/ \E k \in 1..Len(s) : k > 1 /\ s[k] = "note"
      <4>1. s[1] = "response" /\ Reaches(p)
        BY ZenonT(30), <1>4, <1>10 DEF IInv
      <4> QED
        BY ZenonT(30), <3>1, <4>1 DEF Reaches, s
    <3> QED
      BY ZenonT(30), <1>4, <3>2
  <2>4. Reaches(p)'
    BY ZenonT(30), <1>1, <1>5, <1>6, <1>7, <1>8, <1>10, <2>1, <2>3 DEF Reaches, Known, server, Calling
  <2> QED
    BY ZenonT(30), <1>1, <1>2, <1>5, <1>6, <2>1, <2>2, <2>4, TurnInv DEF Live
<1> QED
    BY ZenonT(30), <1>4, <1>9, <1>10 DEF Kinds

\* dispatcherFree, when the process does not close its channel before.
LEMMA LeaveInv ==
    ASSUME IInv, Twice = {}, NEW p \in Processes, Leave(p)
    PROVE  IInv'
<1> DEFINE r == proc[p].ring
           x == [proc[p] EXCEPT !.state = "drained"]
<1>1. proc[p].state = "idle" /\ proc' = [proc EXCEPT ![p] = x] /\ UNCHANGED <<public, server, ring>>
    BY ZenonT(30) DEF Leave, Goto
<1>2. Attached(p) /\ proc[p] \in ProcType /\ r \in Rings /\ ring[r] \in RingType /\ Quiet(r)
    BY ZenonT(30), <1>1, OwnRing DEF Attached, Live, Calling
<1>3. x \in ProcType /\ x.ring = r /\ x.state = "drained"
    BY ZenonT(30), <1>2 DEF ProcType, States
<1>4. ring' = [ring EXCEPT ![r] = ring[r]]
    BY ZenonT(30), <1>1, <1>2 DEF IInv, Types
<1>5. proc'[p] = x
    BY ZenonT(30), <1>1 DEF IInv, Types
<1> HIDE DEF x
<1>6. Reaches(p)'
    BY <1>3, <1>5 DEF Reaches
<1> QED
    BY ZenonT(30), <1>1, <1>2, <1>3, <1>4, <1>6, TurnInv DEF Quiet

LEMMA CloseInv ==
    ASSUME IInv, NEW p \in Processes, Close(p)
    PROVE  IInv'
<1> DEFINE r == proc[p].ring
           x == [proc[p] EXCEPT !.state = "gone"]
           m == [ring[r] EXCEPT !.closed = ~@]
<1>0. Types /\ Tables /\ Owners /\ Messages /\ \A q \in Processes : Reaches(q)
    BY ZenonT(30) DEF IInv
<1>1. proc[p].state = "drained" /\ proc' = [proc EXCEPT ![p] = x] /\ UNCHANGED server
      /\ ring' = [ring EXCEPT ![r] = m] /\ public' = public \cup {<<"disconnect", p>>}
    BY ZenonT(30) DEF Close, CloseRing, Goto
<1>2. Attached(p) /\ proc[p] \in ProcType /\ r \in Rings /\ ring[r] \in RingType
    BY ZenonT(30), <1>1, OwnRing DEF Attached, Live, Calling
<1>3. x \in ProcType /\ x.ring = r /\ x.state = "gone"
    BY ZenonT(30), <1>2 DEF ProcType, States
<1>4. m \in RingType /\ m.requests = ring[r].requests /\ m.answers = ring[r].answers
    BY ZenonT(30), <1>2 DEF RingType
<1>5. ring' \in [Rings -> RingType] /\ ring'[r] = m /\ \A y \in Rings \ {r} : ring'[y] = ring[y]
    BY ZenonT(30), <1>0, <1>1, <1>2, <1>4 DEF Types
<1> HIDE DEF x, m
<1>6. /\ proc' \in [Processes -> ProcType] /\ proc'[p] = x
      /\ \A q \in Processes \ {p} : proc'[q] = proc[q]
      /\ Tables' /\ \A y \in Rings : (InTable(y)' <=> InTable(y)) /\ (Known(y)' <=> Known(y))
    BY ZenonT(30), <1>1, <1>3, Aside
<1>7. /\ ~Attached(p)' /\ ~Calling(p)' /\ ~Calling(p)
      /\ \A q \in Processes \ {p} : (Attached(q)' <=> Attached(q)) /\ (Calling(q)' <=> Calling(q))
      /\ \A q \in Processes : Calling(q) => Attached(q)
    BY ZenonT(30), <1>1, <1>3, <1>6 DEF Attached, Live, Calling
<1>8. \A q \in Processes \ {p} : Attached(q) => proc[q].ring # r /\ proc[q].ring \in Rings
    BY ZenonT(30), <1>0, <1>2 DEF Owners
<1>9. Types'
    BY ZenonT(30), <1>0, <1>1, <1>5, <1>6 DEF Types, server
<1>10. Owners'
  <2>1. ASSUME NEW q \in Processes, Attached(q)'
        PROVE  (proc[q].ring \in Rings /\ InTable(proc[q].ring) /\ ~ring[proc[q].ring].closed)'
    <3>1. q # p /\ Attached(q) /\ proc'[q] = proc[q]
      BY ZenonT(30), <1>6, <1>7, <2>1
    <3> QED
      BY SMTT(30), <1>0, <1>1, <1>5, <1>8, <3>1 DEF Owners, InTable, RingAt, server
  <2>2. \A q, u \in Processes : Attached(q)' /\ Attached(u)' /\ proc'[q].ring = proc'[u].ring => q = u
    BY ZenonT(30), <1>0, <1>6, <1>7 DEF Owners
  <2>3. \A q \in Processes : <<"connect", q>> \in public' => proc'[q].state = "connecting"
    <3>1. \A q \in Processes : <<"connect", q>> \in public' => <<"connect", q>> \in public
      BY ZenonT(30), <1>1
    <3> QED
      BY ZenonT(30), <1>0, <1>1, <1>6, <3>1 DEF Owners
  <2>4. \A q \in Processes : proc'[q].state \in {"new", "connecting"} => ~proc'[q].caches
    BY ZenonT(30), <1>0, <1>3, <1>6 DEF Owners
  <2> QED
    BY ZenonT(30), <2>1, <2>2, <2>3, <2>4 DEF Owners
<1>11. Messages'
  <2>1. ASSUME NEW q \in Processes, Calling(q)'
        PROVE  Called(q)'
    BY ZenonT(30), <1>0, <1>5, <1>6, <1>7, <1>8, <2>1 DEF Messages, Called
  <2>2. ASSUME NEW y \in Rings, \A q \in Processes : Calling(q)' => proc'[q].ring # y
        PROVE  Quiet(y)'
    <3>1. Quiet(y)
      BY ZenonT(30), <1>0, <1>6, <1>7, <2>2 DEF Messages
    <3> QED
      BY ZenonT(30), <1>4, <1>5, <3>1 DEF Quiet
  <2> QED
    BY ZenonT(30), <2>1, <2>2 DEF Messages
<1>12. \A q \in Processes : Reaches(q)'
  <2> SUFFICES ASSUME NEW q \in Processes
               PROVE  Reaches(q)'
    BY ZenonT(30)
  <2>1. CASE q # p /\ Attached(q)
    BY ZenonT(30), <1>0, <1>5, <1>6, <1>8, <2>1, ReachesKept
  <2>2. CASE ~Attached(q)'
    BY ZenonT(30), <2>2 DEF Reaches, Attached, Live
  <2> QED
    BY ZenonT(30), <1>7, <2>1, <2>2
<1> QED
    BY ZenonT(30), <1>6, <1>9, <1>10, <1>11, <1>12 DEF IInv

-----------------------------------------------------------------------------
(* The steps of the server.                                                   *)

LEMMA AcceptInv ==
    ASSUME IInv, NEW p \in Processes, Accept(p)
    PROVE  IInv'
<1> DEFINE r == Head(pool)
           n == Len(object) + 1
<1>0. Types /\ Tables /\ Owners /\ Messages /\ \A q \in Processes : Reaches(q)
    BY ZenonT(30) DEF IInv
<1>1. PICK left \in {<<>>, ring[r].answers} :
          ring' = [ring EXCEPT ![r] = [closed |-> FALSE, requests |-> <<>>, answers |-> left]]
    BY ZenonT(30) DEF Accept
<1>2. /\ <<"connect", p>> \in public /\ public' = public \ {<<"connect", p>>}
      /\ pool # <<>> /\ pool' = Tail(pool) /\ object' = Append(object, r) /\ channels' = Append(channels, n)
      /\ proc' = [proc EXCEPT ![p].state = "idle", ![p].ring = r] /\ pos' = pos /\ cachers' = cachers
    BY ZenonT(30) DEF Accept
<1>3. /\ r \in Rings /\ r = pool[1] /\ 1 \in 1..Len(pool) /\ pool' \in Seq(Rings)
      /\ \A i \in 1..Len(pool') : i + 1 \in 1..Len(pool) /\ pool'[i] = pool[i + 1] /\ i + 1 # 1
  <2>1. pool \in Seq(Rings)
    BY ZenonT(30), <1>0 DEF Types
  <2>2. r \in Rings /\ pool' \in Seq(Rings) /\ Len(pool') = Len(pool) - 1
        /\ \A i \in 1..Len(pool') : pool'[i] = pool[i + 1]
    BY ZenonT(30), <1>2, <2>1, HeadTailProperties
  <2>3. Len(pool) \in Nat /\ Len(pool) > 0 /\ r = pool[1]
    BY <1>2, <2>1, LenProperties, EmptySeq
  <2> QED
    BY <2>2, <2>3
<1>4. ~InTable(r) /\ \A i \in 1..Len(pool') : ~InTable(pool'[i]) /\ pool'[i] # r
    BY <1>0, <1>3 DEF Tables, IsInjective
<1>5. Quiet(r) /\ \A q \in Processes : Attached(q) => proc[q].ring # r /\ proc[q].ring \in Rings
  <2>1. \A q \in Processes : Attached(q) => proc[q].ring # r /\ proc[q].ring \in Rings
    BY ZenonT(30), <1>0, <1>4 DEF Owners
  <2>2. \A q \in Processes : Calling(q) => Attached(q)
    BY ZenonT(30) DEF Calling, Attached, Live
  <2> QED
    BY ZenonT(30), <1>0, <1>3, <2>1, <2>2 DEF Messages
<1> DEFINE m == [closed |-> FALSE, requests |-> <<>>, answers |-> left]
<1>6. m \in RingType /\ m.closed = FALSE /\ m.requests = <<>> /\ OnlyNotes(m.answers)
  <2>1. left \in Seq({"note", "response"}) /\ OnlyNotes(left)
    BY SMTT(30), <1>0, <1>3, <1>5 DEF Quiet, OnlyNotes, Types, RingType
  <2> QED
    BY <2>1 DEF RingType
<1>7. ring' \in [Rings -> RingType] /\ ring'[r] = m /\ \A y \in Rings \ {r} : ring'[y] = ring[y]
    BY ZenonT(30), <1>0, <1>1, <1>3, <1>6 DEF Types
<1> HIDE DEF m
<1>8. proc[p].state = "connecting" /\ proc[p].caches = FALSE
    BY ZenonT(30), <1>0, <1>2 DEF Owners, Types, ProcType
<1>9. /\ proc' \in [Processes -> ProcType]
      /\ proc'[p].state = "idle" /\ proc'[p].ring = r /\ proc'[p].caches = FALSE
      /\ \A q \in Processes \ {p} : proc'[q] = proc[q]
  <2> DEFINE x == [proc[p] EXCEPT !.state = "idle"]
             y == [x EXCEPT !.ring = r]
             f == [proc EXCEPT ![p] = x]
  <2>1. x \in ProcType /\ x.state = "idle" /\ x.caches = FALSE
    BY ZenonT(30), <1>0, <1>8 DEF Types, ProcType, States, Live
  <2>2. f \in [Processes -> ProcType] /\ f[p] = x /\ \A q \in Processes \ {p} : f[q] = proc[q]
    BY ZenonT(30), <1>0, <2>1 DEF Types
  <2>3. proc' = [f EXCEPT ![p] = [f[p] EXCEPT !.ring = r]]
    BY ZenonT(30), <1>2
  <2> HIDE DEF x, f
  <2>4. proc' = [f EXCEPT ![p] = y]
    BY ZenonT(30), <2>2, <2>3
  <2>5. y \in ProcType /\ y.state = "idle" /\ y.caches = FALSE /\ y.ring = r
    BY ZenonT(30), <1>3, <2>1 DEF ProcType
  <2> HIDE DEF y
  <2> QED
    BY ZenonT(30), <2>2, <2>4, <2>5
<1>10. /\ Len(object) \in Nat /\ object' \in Seq(Rings) /\ Len(object') = n /\ object'[n] = r
       /\ \A k \in 1..Len(object) : object'[k] = object[k] /\ k \in 1..n /\ k # n
       /\ n \in 1..n
  <2>1. object \in Seq(Rings) /\ Len(object) \in Nat
    BY ZenonT(30), <1>0, LenProperties DEF Types
  <2>2. object' \in Seq(Rings) /\ Len(object') = n /\ object'[n] = r
        /\ \A k \in 1..Len(object) : object'[k] = object[k]
    BY <1>2, <1>3, <2>1, AppendProperties
  <2> QED
    BY <2>1, <2>2
<1>11. /\ Len(channels) \in Nat /\ channels' \in Seq(Nat) /\ Len(channels') = Len(channels) + 1
       /\ channels'[Len(channels) + 1] = n
       /\ \A k \in 1..Len(channels) : channels'[k] = channels[k] /\ channels[k] \in 1..Len(object)
  <2>1. channels \in Seq(Nat) /\ Len(channels) \in Nat /\ n \in Nat
    BY ZenonT(30), <1>0, <1>10, LenProperties DEF Types
  <2>2. channels' \in Seq(Nat) /\ Len(channels') = Len(channels) + 1 /\ channels'[Len(channels) + 1] = n
        /\ \A k \in 1..Len(channels) : channels'[k] = channels[k]
    BY <1>2, <2>1, AppendProperties
  <2> QED
    BY ZenonT(30), <1>0, <2>1, <2>2 DEF Types
<1>12. \A j \in 1..Len(channels') : j \in 1..Len(channels) \/ j = Len(channels) + 1
    BY <1>11
<1>13. Len(channels) + 1 \in 1..Len(channels') /\ \A j \in 1..Len(channels) : j \in 1..Len(channels')
    BY <1>11
<1> HIDE DEF n, r
<1>14. Types'
  <2>1. \A j \in 1..Len(channels') : channels'[j] \in 1..Len(object')
    BY ZenonT(30), <1>10, <1>11, <1>12
  <2>2. cachers' \subseteq 1..Len(object')
    BY ZenonT(30), <1>0, <1>2, <1>10 DEF Types
  <2> QED
    BY ZenonT(30), <1>0, <1>2, <1>3, <1>7, <1>9, <1>10, <1>11, <2>1, <2>2 DEF Types
<1>15. /\ \A j \in 1..Len(channels) : RingAt(j)' = RingAt(j)
       /\ object'[channels'[Len(channels) + 1]] = r
    BY ZenonT(30), <1>10, <1>11 DEF RingAt
<1>16. \A y \in Rings : InTable(y)' <=> InTable(y) \/ y = r
    BY ZenonT(30), <1>12, <1>13, <1>15 DEF InTable, RingAt
<1>17. \A y \in Rings : Known(y)' <=> Known(y)
    BY ZenonT(30), <1>0, <1>2, <1>10 DEF Known, Types
<1>18. Tables'
  <2>1. IsInjective(channels')
    <3>1. IsInjective(channels)
      BY ZenonT(30), <1>0 DEF Tables
    <3>2. DOMAIN channels = 1..Len(channels) /\ DOMAIN channels' = 1..Len(channels')
      BY ZenonT(30), <1>0, <1>11, LenProperties DEF Types
    <3>3. \A j \in 1..Len(channels) : channels'[j] # n
      BY ZenonT(30), <1>10, <1>11
    <3> QED
      BY ZenonT(30), <1>11, <1>12, <3>1, <3>2, <3>3 DEF IsInjective
  <2>2. IsInjective(pool')
    <3>1. IsInjective(pool)
      BY ZenonT(30), <1>0 DEF Tables
    <3>2. DOMAIN pool = 1..Len(pool) /\ DOMAIN pool' = 1..Len(pool')
      BY ZenonT(30), <1>0, <1>3, LenProperties DEF Types
    <3>3. \A i, j \in 1..Len(pool') : i + 1 = j + 1 => i = j
      BY <1>3, LenProperties
    <3> QED
      BY <1>3, <3>1, <3>2, <3>3 DEF IsInjective
  <2>3. \A j, k \in 1..Len(channels') : object'[channels'[j]] = object'[channels'[k]] => j = k
    <3>1. \A j \in 1..Len(channels) : RingAt(j) # r
      BY ZenonT(30), <1>4 DEF InTable
    <3> QED
      BY ZenonT(30), <1>0, <1>12, <1>15, <3>1 DEF Tables, RingAt
  <2>4. \A i \in 1..Len(pool') : pool'[i] \in Rings /\ ~(\E j \in 1..Len(channels') : object'[channels'[j]] = pool'[i])
    <3>1. \A i \in 1..Len(pool') : pool'[i] \in Rings
      BY <1>0, <1>3 DEF Types
    <3> QED
      BY ZenonT(30), <1>4, <1>12, <1>15, <3>1 DEF InTable, RingAt
  <2> QED
    BY ZenonT(30), <2>1, <2>2, <2>3, <2>4 DEF Tables, InTable, RingAt
<1>19. /\ Attached(p)' /\ ~Attached(p) /\ ~Calling(p)' /\ ~Calling(p)
       /\ \A q \in Processes \ {p} : (Attached(q)' <=> Attached(q)) /\ (Calling(q)' <=> Calling(q))
       /\ \A q \in Processes : Calling(q) => Attached(q)
    BY ZenonT(30), <1>8, <1>9 DEF Attached, Live, Calling
<1>20. Owners'
  <2>1. ASSUME NEW q \in Processes, Attached(q)'
        PROVE  (proc[q].ring \in Rings /\ InTable(proc[q].ring) /\ ~ring[proc[q].ring].closed)'
    <3>1. proc'[q].ring \in Rings /\ (InTable(proc'[q].ring) \/ proc'[q].ring = r) /\ ~ring'[proc'[q].ring].closed
      <4>1. CASE q = p
        BY ZenonT(30), <1>3, <1>6, <1>7, <1>9, <4>1
      <4>2. CASE q # p
        BY SMTT(30), <1>0, <1>5, <1>7, <1>9, <1>19, <2>1, <4>2 DEF Owners
      <4> QED
        BY ZenonT(30), <4>1, <4>2
    <3>2. \E j \in 1..Len(channels') : object'[channels'[j]] = proc'[q].ring
      BY ZenonT(30), <1>13, <1>15, <3>1 DEF InTable, RingAt
    <3> QED
      BY ZenonT(30), <3>1, <3>2 DEF InTable, RingAt
  <2>2. \A q, u \in Processes : Attached(q)' /\ Attached(u)' /\ proc'[q].ring = proc'[u].ring => q = u
    BY SMTT(30), <1>0, <1>5, <1>9, <1>19 DEF Owners
  <2>3. \A q \in Processes : <<"connect", q>> \in public' => proc'[q].state = "connecting"
    BY ZenonT(30), <1>0, <1>2, <1>9 DEF Owners
  <2>4. \A q \in Processes : proc'[q].state \in {"new", "connecting"} => ~proc'[q].caches
    BY ZenonT(30), <1>0, <1>9 DEF Owners
  <2> QED
    BY ZenonT(30), <2>1, <2>2, <2>3, <2>4 DEF Owners
<1>21. Messages'
  <2>1. ASSUME NEW q \in Processes, Calling(q)'
        PROVE  Called(q)'
    BY SMTT(30), <1>0, <1>5, <1>7, <1>9, <1>19, <2>1 DEF Messages, Called
  <2>2. ASSUME NEW y \in Rings, \A q \in Processes : Calling(q)' => proc'[q].ring # y
        PROVE  Quiet(y)'
    <3>1. CASE y = r
      BY ZenonT(30), <1>6, <1>7, <3>1 DEF Quiet
    <3>2. CASE y # r
      BY SMTT(30), <1>0, <1>7, <1>9, <1>19, <2>2, <3>2 DEF Messages, Quiet
    <3> QED
      BY ZenonT(30), <3>1, <3>2
  <2> QED
    BY ZenonT(30), <2>1, <2>2 DEF Messages
<1>22. \A q \in Processes : Reaches(q)'
  <2> SUFFICES ASSUME NEW q \in Processes
               PROVE  Reaches(q)'
    BY ZenonT(30)
  <2>1. CASE q = p
    BY ZenonT(30), <1>9, <2>1 DEF Reaches
  <2>2. CASE q # p /\ Attached(q)
    <3>1. proc'[q] = proc[q] /\ ring'[proc[q].ring] = ring[proc[q].ring]
          /\ (Known(proc[q].ring) => \E k \in cachers' : object'[k] = proc'[q].ring)
      BY ZenonT(30), <1>0, <1>2, <1>5, <1>7, <1>9, <1>10, <2>2 DEF Known, Types
    <3>2. Reaches(q)
      BY ZenonT(30), <1>0
    <3> QED
      BY ZenonT(30), <3>1, <3>2, ReachesKept DEF Known
  <2>3. CASE ~Attached(q)'
    BY ZenonT(30), <2>3 DEF Reaches, Attached, Live
  <2> QED
    BY ZenonT(30), <1>19, <2>1, <2>2, <2>3
<1> QED
    BY ZenonT(30), <1>14, <1>18, <1>20, <1>21, <1>22 DEF IInv

\* The select finds one of the channels that are ready.
LEMMA Selects ==
    ASSUME IInv, Ready # {}
    PROVE  Selected \in Ready /\ Selected \in 1..Len(channels) /\ Selected \in Nat
<1> DEFINE D == {Distance(j) : j \in Ready}
<1>1. channels \in Seq(Nat) /\ pos \in Nat /\ Len(channels) \in Nat
    BY ZenonT(30), LenProperties DEF IInv, Types
<1>2. Ready \subseteq 1..Len(channels)
    BY ZenonT(30) DEF Ready
<1>3. \A b \in Nat : b > 0 => \A a \in Int : a % b \in Nat
    OBVIOUS
<1>4. D \subseteq Nat /\ D # {}
  <2>1. \A j \in Ready : Len(channels) > 0 /\ j - pos - 1 \in Int
    BY <1>1, <1>2
  <2>2. \A j \in Ready : Distance(j) \in Nat
    BY ZenonT(30), <1>1, <1>3, <2>1 DEF Distance
  <2> QED
    BY ZenonT(30), <2>2
<1>5. PICK d \in D : \A e \in D : d <= e
  <2> HIDE DEF D
  <2> QED
    BY ZenonT(30), <1>4, Minimum
<1>6. PICK j \in Ready : d = Distance(j)
    BY ZenonT(30), <1>5
<1>7. \A k \in Ready : Distance(j) <= Distance(k)
    BY ZenonT(30), <1>5, <1>6
<1>8. Selected \in Ready
    BY <1>7, ZenonT(30) DEF Selected
<1> QED
    BY <1>1, <1>2, <1>8

\* The handlers answer the caller and only notify others: whoever is notified and
\* still has a channel gets at least one notification for its pointer.
LEMMA Handled ==
    ASSUME IInv, Handle
    PROVE  \E c \in Processes : LET r == proc[c].ring IN
             /\ Calling(c) /\ ring' \in [Rings -> RingType]
             /\ ring'[r].closed = ring[r].closed /\ ring'[r].requests = <<>> /\ OneResponse(ring'[r].answers)
             /\ proc[c].state = "lookup" => \E q \in cachers' : object[q] = r
             /\ cachers' \subseteq 1..Len(object) /\ pos' \in Nat
             /\ \A x \in Rings \ {r} :
                  /\ ring'[x].closed = ring[x].closed /\ ring'[x].requests = ring[x].requests
                  /\ \E t \in Seq(Kinds) : /\ OnlyNotes(t) /\ ring'[x].answers = ring[x].answers \o t
                                           /\ Known(x) /\ ~ring[x].closed => t # <<>> \/ \E q \in cachers' : object[q] = x
<1> DEFINE me == channels[Selected]
           r == object[me]
           call == Head(ring[r].requests)
           Notified == {object[q] : q \in cachers \ {me}}
           Reached == {x \in Notified : ring[x].requests # <<>> \/ ~ring[x].closed}
           notes == [x \in Rings |-> Cardinality({q \in cachers \ {me} : object[q] = x})]
           Notes(x) == IF call = "remove" /\ x \in Reached THEN [i \in 1..notes[x] |-> "note"] ELSE <<>>
           Response(x) == IF x = r /\ call # "cleanup" THEN <<"response">> ELSE <<>>
<1>1. /\ Ready # {} /\ Polls(Selected) = "message" /\ pos' = Selected
      /\ ring' = [x \in Rings |-> [ring[x] EXCEPT !.requests = IF x = r THEN Tail(@) ELSE @,
                                                  !.answers = @ \o (Notes(x) \o Response(x))]]
      /\ cachers' = CASE call = "lookup" -> cachers \cup {me}
                      [] call = "remove" -> {}
                      [] OTHER -> cachers
    BY ZenonT(30) DEF Handle
<1>2. Selected \in Ready /\ Selected \in 1..Len(channels) /\ Selected \in Nat
    BY ZenonT(30), <1>1, Selects
<1>3. me \in 1..Len(object) /\ r \in Rings /\ ring \in [Rings -> RingType] /\ object \in Seq(Rings)
      /\ cachers \subseteq 1..Len(object) /\ Len(object) \in Nat
  <2>1. me \in 1..Len(object) /\ ring \in [Rings -> RingType] /\ object \in Seq(Rings)
        /\ cachers \subseteq 1..Len(object)
    BY ZenonT(30), <1>2 DEF IInv, Types
  <2> QED
    BY ZenonT(30), <2>1, ElementOfSeq, LenProperties
<1>4. ring[r].requests # <<>>
    BY ZenonT(30), <1>1 DEF Polls, RingAt
<1>5. PICK c \in Processes : Calling(c) /\ proc[c].ring = r
    BY ZenonT(30), <1>3, <1>4 DEF IInv, Messages, Quiet
<1>6. ring[r].requests = <<proc[c].state>> /\ OnlyNotes(ring[r].answers)
    BY ZenonT(30), <1>4, <1>5 DEF IInv, Messages, Called
<1>7. call = proc[c].state /\ call \in {"lookup", "remove"} /\ Tail(ring[r].requests) = <<>>
    BY SMTT(30), <1>5, <1>6 DEF Calling
<1>8. \A x \in Rings : Cardinality({q \in cachers \ {me} : object[q] = x}) \in Nat
  <2> SUFFICES ASSUME NEW x \in Rings
               PROVE  Cardinality({q \in cachers \ {me} : object[q] = x}) \in Nat
    BY ZenonT(30)
  <2>1. IsFiniteSet(1..Len(object))
    BY <1>3, FS_Interval
  <2>2. {q \in cachers \ {me} : object[q] = x} \subseteq 1..Len(object)
    BY ZenonT(30), <1>3
  <2> QED
    BY ZenonT(30), <2>1, <2>2, FS_Subset, FS_CardinalityType
<1>9. \A x \in Rings : Notes(x) \in Seq(Kinds) /\ OnlyNotes(Notes(x))
  <2> SUFFICES ASSUME NEW x \in Rings
               PROVE  Notes(x) \in Seq(Kinds) /\ OnlyNotes(Notes(x))
    BY ZenonT(30)
  <2>1. notes[x] \in Nat
    BY ZenonT(30), <1>8
  <2>2. \A n \in Nat : LET t == [i \in 1..n |-> "note"] IN t \in Seq(Kinds) /\ OnlyNotes(t)
    BY DEF Kinds, OnlyNotes
  <2>3. <<>> \in Seq(Kinds) /\ OnlyNotes(<<>>)
    BY DEF OnlyNotes
  <2> HIDE DEF notes, Reached, call
  <2> QED
    BY ZenonT(30), <2>1, <2>2, <2>3
<1>10. ASSUME NEW x \in Rings, x # r, Known(x), ~ring[x].closed, call = "remove"
       PROVE  Notes(x) # <<>>
  <2>1. PICK q \in cachers : object[q] = x
    BY ZenonT(30), <1>10 DEF Known
  <2>2. q # me /\ x \in Reached
    BY ZenonT(30), <1>10, <2>1
  <2>3. IsFiniteSet({k \in cachers \ {me} : object[k] = x})
    <3>1. IsFiniteSet(1..Len(object))
      BY <1>3, FS_Interval
    <3>2. {k \in cachers \ {me} : object[k] = x} \subseteq 1..Len(object)
      BY ZenonT(30), <1>3
    <3> QED
      BY ZenonT(30), <3>1, <3>2, FS_Subset
  <2>4. notes[x] # 0
    BY ZenonT(30), <1>10, <2>1, <2>2, <2>3, FS_EmptySet
  <2>5. notes[x] \in Nat
    BY ZenonT(30), <1>8
  <2>6. Notes(x) = [i \in 1..notes[x] |-> "note"]
    BY ZenonT(30), <1>10, <2>2
  <2>7. \A n \in Nat : n # 0 => [i \in 1..n |-> "note"] # <<>>
    OBVIOUS
  <2> HIDE DEF notes, Notes
  <2> QED
    BY ZenonT(30), <2>4, <2>5, <2>6, <2>7
<1>11. \A x \in Rings : Response(x) = IF x = r THEN <<"response">> ELSE <<>>
    BY ZenonT(30), <1>7
<1>12. ASSUME NEW x \in Rings
       PROVE  /\ ring'[x].closed = ring[x].closed
              /\ ring'[x].requests = IF x = r THEN <<>> ELSE ring[x].requests
              /\ ring'[x].answers = ring[x].answers \o (Notes(x) \o Response(x))
  <2> HIDE DEF Notes, Response, r
  <2> QED
    BY ZenonT(30), <1>1, <1>3, <1>7 DEF RingType
<1>13. cachers' = IF call = "lookup" THEN cachers \cup {me} ELSE {}
    BY ZenonT(30), <1>1, <1>7
<1> HIDE DEF Notes, Response, r, me, call
<1>14. \A x \in Rings : ring[x].answers \in Seq(Kinds)
    BY ZenonT(30), <1>3 DEF RingType, Kinds
<1>15. ring'[r].answers \in Seq(Kinds) /\ OneResponse(ring'[r].answers)
  <2> DEFINE s == ring[r].answers
             t == Notes(r)
             u == <<"response">>
  <2>1. s \in Seq(Kinds) /\ t \in Seq(Kinds) /\ OnlyNotes(t) /\ OnlyNotes(s) /\ u \in Seq(Kinds)
    BY SMTT(30), <1>3, <1>6, <1>9, <1>14 DEF Kinds
  <2>2. ring'[r].answers = s \o (t \o u)
    BY ZenonT(30), <1>3, <1>11, <1>12
  <2> HIDE DEF s, t, u
  <2>3. s \o (t \o u) = (s \o t) \o u
    BY SMTT(30), <2>1, ConcatAssociative
  <2>4. s \o t \in Seq(Kinds) /\ OnlyNotes(s \o t)
    BY ZenonT(30), <2>1, NotesJoined
  <2>5. (s \o t) \o u \in Seq(Kinds) /\ OneResponse((s \o t) \o u)
    BY ZenonT(30), <2>4, ResponseJoined DEF u
  <2> QED
    BY ZenonT(30), <2>2, <2>3, <2>5
<1>16. \A x \in Rings \ {r} : ring'[x].answers = ring[x].answers \o Notes(x)
    BY ZenonT(30), <1>9, <1>11, <1>12, ConcatEmptySeq
<1>17. ring' \in [Rings -> RingType]
  <2>1. ASSUME NEW x \in Rings
        PROVE  ring'[x].answers \in Seq(Kinds)
    <3>1. ring[x].answers \in Seq(Kinds) /\ Notes(x) \in Seq(Kinds)
      BY ZenonT(30), <1>9, <1>14
    <3>2. ring[x].answers \o Notes(x) \in Seq(Kinds)
      BY ZenonT(30), <3>1, ConcatProperties
    <3> QED
      BY ZenonT(30), <1>15, <1>16, <3>2
  <2>2. \A x \in Rings : ring'[x] \in RingType
    <3> SUFFICES ASSUME NEW x \in Rings
                 PROVE  ring'[x] \in RingType
      BY ZenonT(30)
    <3> DEFINE a == ring[x].answers \o (Notes(x) \o Response(x))
               e == IF x = r THEN Tail(ring[x].requests) ELSE ring[x].requests
    <3>1. ring'[x] = [ring[x] EXCEPT !.requests = e, !.answers = a]
      BY ZenonT(30), <1>1 DEF r
    <3>2. a \in Seq(Kinds)
      BY ZenonT(30), <1>12, <2>1
    <3>3. e \in Seq({"lookup", "remove", "cleanup"})
      <4>1. ring[x].requests \in Seq({"lookup", "remove", "cleanup"})
        BY ZenonT(30), <1>3 DEF RingType
      <4>2. x = r => Tail(ring[x].requests) = <<>>
        BY ZenonT(30), <1>7
      <4>3. <<>> \in Seq({"lookup", "remove", "cleanup"})
        OBVIOUS
      <4> QED
        BY ZenonT(30), <4>1, <4>2, <4>3
    <3> HIDE DEF a, e
    <3> QED
      BY ZenonT(30), <1>3, <3>1, <3>2, <3>3 DEF RingType, Kinds
  <2> QED
    BY ZenonT(30), <1>1, <2>2
<1>18. cachers' \subseteq 1..Len(object) /\ pos' \in Nat
    BY ZenonT(30), <1>1, <1>2, <1>3, <1>13
<1>19. proc[c].state = "lookup" => \E q \in cachers' : object[q] = r
    BY ZenonT(30), <1>7, <1>13 DEF r
<1>20. ASSUME NEW x \in Rings \ {r}
       PROVE  /\ ring'[x].closed = ring[x].closed /\ ring'[x].requests = ring[x].requests
              /\ \E t \in Seq(Kinds) : /\ OnlyNotes(t) /\ ring'[x].answers = ring[x].answers \o t
                                       /\ Known(x) /\ ~ring[x].closed => t # <<>> \/ \E q \in cachers' : object[q] = x
  <2>1. Known(x) /\ call = "lookup" => \E q \in cachers' : object[q] = x
    BY ZenonT(30), <1>13 DEF Known
  <2>2. Known(x) /\ ~ring[x].closed => Notes(x) # <<>> \/ \E q \in cachers' : object[q] = x
    BY ZenonT(30), <1>7, <1>10, <2>1
  <2> QED
    BY ZenonT(30), <1>9, <1>12, <1>16, <2>2
<1> QED
    BY ZenonT(30), <1>3, <1>5, <1>12, <1>15, <1>17, <1>18, <1>19, <1>20

LEMMA HandleInv ==
    ASSUME IInv, Handle
    PROVE  IInv'
<1>0. Types /\ Tables /\ Owners /\ Messages /\ \A q \in Processes : Reaches(q)
    BY ZenonT(30) DEF IInv
<1>1. PICK c \in Processes : LET r == proc[c].ring IN
             /\ Calling(c) /\ ring' \in [Rings -> RingType]
             /\ ring'[r].closed = ring[r].closed /\ ring'[r].requests = <<>> /\ OneResponse(ring'[r].answers)
             /\ proc[c].state = "lookup" => \E q \in cachers' : object[q] = r
             /\ cachers' \subseteq 1..Len(object) /\ pos' \in Nat
             /\ \A x \in Rings \ {r} :
                  /\ ring'[x].closed = ring[x].closed /\ ring'[x].requests = ring[x].requests
                  /\ \E t \in Seq(Kinds) : /\ OnlyNotes(t) /\ ring'[x].answers = ring[x].answers \o t
                                           /\ Known(x) /\ ~ring[x].closed => t # <<>> \/ \E q \in cachers' : object[q] = x
    BY ZenonT(30), Handled
<1> DEFINE r == proc[c].ring
<1>2. UNCHANGED <<proc, public, pool, object, channels>>
    BY ZenonT(30) DEF Handle
<1>3. r \in Rings /\ \A q \in Processes : (Calling(q) => Attached(q)) /\ (q # c /\ Attached(q) => proc[q].ring \in Rings \ {r})
    BY ZenonT(30), <1>0, <1>1 DEF Owners, Calling, Attached, Live
<1>4. \A q \in Processes : (Attached(q)' <=> Attached(q)) /\ (Calling(q)' <=> Calling(q))
    BY ZenonT(30), <1>2 DEF Attached, Calling
<1>5. \A x \in Rings : ring'[x].closed = ring[x].closed
    BY ZenonT(30), <1>1
<1>6. Types' /\ Tables'
    BY ZenonT(30), <1>0, <1>1, <1>2 DEF Types, Tables, InTable, RingAt
<1>7. Owners'
    BY ZenonT(30), <1>0, <1>2, <1>4, <1>5 DEF Owners, InTable, RingAt
<1>8. \A x \in Rings : ring[x].answers \in Seq(Kinds)
    BY ZenonT(30), <1>0 DEF Types, RingType, Kinds
<1>9. ASSUME NEW x \in Rings \ {r}
      PROVE  /\ OnlyNotes(ring[x].answers) => OnlyNotes(ring'[x].answers)
             /\ OneResponse(ring[x].answers) => OneResponse(ring'[x].answers)
  <2>1. PICK t \in Seq(Kinds) : OnlyNotes(t) /\ ring'[x].answers = ring[x].answers \o t
    BY ZenonT(30), <1>1
  <2>2. ring[x].answers \in Seq(Kinds)
    BY ZenonT(30), <1>8
  <2> QED
    BY ZenonT(30), <2>1, <2>2, NotesJoined
<1>10. Messages'
  <2>1. ASSUME NEW q \in Processes, Calling(q)'
        PROVE  Called(q)'
    <3>1. CASE q = c
      BY ZenonT(30), <1>1, <1>2, <3>1 DEF Called
    <3>2. CASE q # c
      <4>1. proc[q].ring \in Rings \ {r} /\ Called(q)
        BY ZenonT(30), <1>0, <1>3, <1>4, <2>1, <3>2 DEF Messages
      <4> QED
        BY ZenonT(30), <1>1, <1>2, <1>9, <4>1 DEF Called
    <3> QED
      BY ZenonT(30), <3>1, <3>2
  <2>2. ASSUME NEW y \in Rings, \A q \in Processes : Calling(q)' => proc'[q].ring # y
        PROVE  Quiet(y)'
    <3>1. y # r /\ Quiet(y)
      BY ZenonT(30), <1>0, <1>1, <1>2, <1>4, <2>2 DEF Messages
    <3> QED
      BY ZenonT(30), <1>1, <1>9, <3>1 DEF Quiet
  <2> QED
    BY ZenonT(30), <2>1, <2>2 DEF Messages
<1>11. \A q \in Processes : Reaches(q)'
  <2> SUFFICES ASSUME NEW q \in Processes
               PROVE  Reaches(q)'
    BY ZenonT(30)
  <2>1. CASE q = c
    BY ZenonT(30), <1>1, <1>2, <2>1 DEF Reaches, Known, Calling
  <2>2. CASE q # c /\ Attached(q)
    <3> DEFINE x == proc[q].ring
               s == ring[x].answers
    <3>1. x \in Rings \ {r} /\ ~ring[x].closed /\ s \in Seq(Kinds)
      BY ZenonT(30), <1>0, <1>3, <1>8, <2>2 DEF Owners
    <3>2. PICK t \in Seq(Kinds) : /\ OnlyNotes(t) /\ ring'[x].answers = s \o t
                                  /\ Known(x) => t # <<>> \/ \E k \in cachers' : object[k] = x
      BY ZenonT(30), <1>1, <3>1
    <3> DEFINE u == s \o t
    <3>3. /\ \A i \in 1..Len(s) : i \in 1..Len(u) /\ u[i] = s[i]
          /\ \A i \in 1..Len(u) : u[i] = "response" => i \in 1..Len(s)
          /\ t # <<>> => \E k \in 1..Len(u) : k > Len(s) /\ u[k] = "note"
      BY ZenonT(30), <3>1, <3>2, NotesJoined
    <3>4. proc'[q] = proc[q] /\ ring'[proc'[q].ring].answers = u /\ object' = object
      BY ZenonT(30), <1>2, <3>2
    <3>5. Len(s) \in Nat
      BY ZenonT(30), <3>1, LenProperties
    <3> HIDE DEF s, u
    <3>6. ASSUME proc[q].state = "idle", proc[q].caches
          PROVE  (\E k \in cachers' : object[k] = x) \/ \E i \in 1..Len(u) : u[i] = "note"
      <4>1. Known(x) \/ \E i \in 1..Len(s) : s[i] = "note"
        BY ZenonT(30), <1>0, <3>6 DEF Reaches, s
      <4> QED
        BY ZenonT(30), <3>2, <3>3, <4>1
    <3>7. ASSUME proc[q].state = "lookup", NEW i \in 1..Len(u), u[i] = "response"
          PROVE  (\E k \in cachers' : object[k] = x) \/ \E k \in 1..Len(u) : k > i /\ u[k] = "note"
      <4>1. i \in 1..Len(s) /\ s[i] = "response"
        BY ZenonT(30), <3>3, <3>7
      <4>2. Known(x) \/ \E k \in 1..Len(s) : k > i /\ s[k] = "note"
        BY ZenonT(30), <1>0, <3>7, <4>1 DEF Reaches, s
      <4>3. \A k \in 1..Len(u) : k > Len(s) => k > i
        BY <3>5, <4>1
      <4> QED
        BY ZenonT(30), <3>2, <3>3, <4>2, <4>3
    <3> HIDE DEF x
    <3> QED
      BY ZenonT(30), <3>4, <3>6, <3>7 DEF Reaches, Known, x
  <2>3. CASE ~Attached(q)'
    BY ZenonT(30), <2>3 DEF Reaches, Attached, Live
  <2> QED
    BY ZenonT(30), <1>4, <2>1, <2>2, <2>3
<1> QED
    BY ZenonT(30), <1>6, <1>7, <1>10, <1>11 DEF IInv

\* The close: the ring of the last channel takes the closed one's place, and the
\* others keep theirs.
LEMMA CloseChannelInv ==
    ASSUME IInv, CloseChannel
    PROVE  IInv'
<1> DEFINE j == Selected
           n == Len(channels)
           from == channels[n]
           to == channels[j]
           c == object[to]
           Moved(i) == IF i = j THEN n ELSE i
<1>0. Types /\ Tables /\ Owners /\ Messages /\ \A q \in Processes : Reaches(q)
    BY ZenonT(30) DEF IInv
<1>1. /\ Ready # {} /\ Polls(j) = "closed" /\ cachers' = cachers \ {to} /\ pool' = <<c>> \o pool
      /\ object' = [object EXCEPT ![to] = object[from]] /\ channels' = SubSeq(channels, 1, n - 1) /\ pos' = j
      /\ UNCHANGED <<proc, public, ring>>
    BY ZenonT(30) DEF CloseChannel, GivenBack
<1>2. /\ j \in 1..n /\ j \in Nat /\ n \in Nat /\ n \in 1..n
      /\ channels \in Seq(Nat) /\ object \in Seq(Rings) /\ pool \in Seq(Rings)
  <2>1. channels \in Seq(Nat) /\ object \in Seq(Rings) /\ pool \in Seq(Rings)
    BY ZenonT(30), <1>0 DEF Types
  <2>2. j \in 1..n /\ j \in Nat /\ n \in Nat
    BY ZenonT(30), <1>1, <2>1, Selects, LenProperties
  <2> QED
    BY <2>1, <2>2
<1>3. to \in 1..Len(object) /\ from \in 1..Len(object) /\ c \in Rings /\ object[from] \in Rings
  <2>1. to \in 1..Len(object) /\ from \in 1..Len(object)
    BY ZenonT(30), <1>0, <1>2 DEF Types
  <2> QED
    BY ZenonT(30), <1>2, <2>1, ElementOfSeq
<1>4. ring[c].closed
    BY ZenonT(30), <1>1 DEF Polls, RingAt
<1>5. \A q \in Processes : Attached(q) => proc[q].ring # c /\ proc[q].ring \in Rings
    BY ZenonT(30), <1>0, <1>4 DEF Owners
<1>6. /\ object' \in Seq(Rings) /\ Len(object') = Len(object)
      /\ \A k \in 1..Len(object) : object'[k] = IF k = to THEN object[from] ELSE object[k]
    BY SMTT(30), <1>1, <1>2, <1>3, ExceptSeq
<1>7. channels' \in Seq(Nat) /\ Len(channels') = n - 1 /\ \A i \in 1..n - 1 : channels'[i] = channels[i]
  <2>1. \A i \in 1..n - 1 : channels[i] \in Nat
    BY <1>2, ElementOfSeq
  <2>2. 1 \in Int /\ n - 1 \in Int
    BY <1>2
  <2> DEFINE t == SubSeq(channels, 1, n - 1)
  <2>3. /\ t \in Seq(Nat) /\ Len(t) = IF 1 <= n - 1 THEN n - 1 - 1 + 1 ELSE 0
        /\ \A i \in 1..n - 1 - 1 + 1 : t[i] = channels[1 + i - 1]
    BY <2>1, <2>2, SubSeqProperties
  <2>4. channels' = t
    BY ZenonT(30), <1>1
  <2> HIDE DEF t
  <2> QED
    BY <1>2, <2>3, <2>4
<1>8. \A i \in 1..n - 1 : i \in 1..n /\ Moved(i) \in 1..n \ {j}
    BY <1>2
<1>9. \A k \in 1..n \ {j} : \E i \in 1..n - 1 : Moved(i) = k
  <2> SUFFICES ASSUME NEW k \in 1..n \ {j}
               PROVE  \E i \in 1..n - 1 : Moved(i) = k
    BY ZenonT(30)
  <2>1. CASE k = n
    BY SMTT(30), <1>2, <2>1
  <2>2. CASE k # n
    BY <1>2, <2>2
  <2> QED
    BY ZenonT(30), <2>1, <2>2
<1>10. \A i, k \in 1..n - 1 : Moved(i) = Moved(k) => i = k
    BY SMTT(30), <1>2
<1>11. \A i \in 1..n - 1 : object'[channels'[i]] = RingAt(Moved(i))
  <2>1. IsInjective(channels) /\ DOMAIN channels = 1..n
    BY ZenonT(30), <1>0, <1>2, LenProperties DEF Tables
  <2>2. \A i \in 1..n - 1 : channels[i] \in 1..Len(object) /\ (channels[i] = to <=> i = j)
    BY ZenonT(30), <1>0, <1>2, <1>8, <2>1 DEF IsInjective, Types
  <2> QED
    BY ZenonT(30), <1>6, <1>7, <2>2 DEF RingAt
<1>12. \A k \in 1..n : RingAt(k) = c => k = j
    BY ZenonT(30), <1>0, <1>2 DEF Tables, RingAt
<1> HIDE DEF Moved
<1>13. \A y : (\E i \in 1..Len(channels') : object'[channels'[i]] = y) <=> InTable(y) /\ y # c
  <2>1. ASSUME NEW y, NEW i \in 1..Len(channels'), object'[channels'[i]] = y
        PROVE  InTable(y) /\ y # c
    BY SMTT(30), <1>7, <1>8, <1>11, <1>12, <2>1 DEF InTable
  <2>2. ASSUME NEW y, InTable(y), y # c
        PROVE  \E i \in 1..Len(channels') : object'[channels'[i]] = y
    <3>1. PICK k \in 1..n : RingAt(k) = y
      BY ZenonT(30), <2>2 DEF InTable
    <3>2. k # j
      BY ZenonT(30), <2>2, <3>1 DEF RingAt
    <3> QED
      BY ZenonT(30), <1>7, <1>9, <1>11, <3>1, <3>2
  <2> QED
    BY ZenonT(30), <2>1, <2>2
<1>14. /\ pool' \in Seq(Rings) /\ Len(pool) \in Nat /\ Len(pool') = Len(pool) + 1 /\ pool'[1] = c
       /\ \A i \in 1..Len(pool') : i # 1 => i - 1 \in 1..Len(pool) /\ pool'[i] = pool[i - 1]
  <2>1. <<c>> \in Seq(Rings) /\ Len(<<c>>) = 1 /\ <<c>>[1] = c
    BY <1>3
  <2> DEFINE t == <<c>>
  <2>2. pool' \in Seq(Rings) /\ Len(pool') = Len(t) + Len(pool)
        /\ \A i \in 1..Len(t) + Len(pool) : pool'[i] = IF i <= Len(t) THEN t[i] ELSE pool[i - Len(t)]
    BY <1>1, <1>2, <2>1, ConcatProperties
  <2>3. Len(pool) \in Nat
    BY ZenonT(30), <1>2, LenProperties
  <2> HIDE DEF t
  <2>4. Len(t) = 1 /\ t[1] = c
    BY ZenonT(30), <2>1 DEF t
  <2> QED
    BY <2>2, <2>3, <2>4
<1>15. InTable(c)
    BY ZenonT(30), <1>2 DEF InTable, RingAt
<1> HIDE DEF c, to, from, j, n
<1>16. Types'
  <2>1. \A i \in 1..Len(channels') : channels'[i] \in 1..Len(object')
    BY ZenonT(30), <1>0, <1>6, <1>7, <1>8 DEF Types, n
  <2>2. cachers' \subseteq 1..Len(object')
    BY ZenonT(30), <1>0, <1>1, <1>6 DEF Types
  <2> QED
    BY ZenonT(30), <1>0, <1>1, <1>2, <1>6, <1>7, <1>14, <2>1, <2>2 DEF Types
<1>17. Tables'
  <2>1. IsInjective(channels')
    <3>1. IsInjective(channels) /\ DOMAIN channels = 1..n /\ DOMAIN channels' = 1..n - 1
      BY ZenonT(30), <1>0, <1>2, <1>7, LenProperties DEF Tables, n
    <3> QED
      BY ZenonT(30), <1>7, <1>8, <3>1 DEF IsInjective
  <2>2. IsInjective(pool')
    <3>1. IsInjective(pool) /\ DOMAIN pool = 1..Len(pool) /\ DOMAIN pool' = 1..Len(pool')
      BY ZenonT(30), <1>0, <1>2, <1>14, LenProperties DEF Tables
    <3>2. \A i \in 1..Len(pool) : pool[i] # c
      BY ZenonT(30), <1>0, <1>15 DEF Tables
    <3>3. \A i, k \in 1..Len(pool') : i - 1 = k - 1 => i = k
      BY <1>14
    <3> QED
      BY SMTT(30), <1>14, <3>1, <3>2, <3>3 DEF IsInjective
  <2>3. \A i, k \in 1..Len(channels') : object'[channels'[i]] = object'[channels'[k]] => i = k
    <3>1. \A i, k \in 1..n : RingAt(i) = RingAt(k) => i = k
      BY ZenonT(30), <1>0 DEF Tables, n
    <3> QED
      BY <1>7, <1>8, <1>10, <1>11, <3>1
  <2>4. \A i \in 1..Len(pool') : ~(\E k \in 1..Len(channels') : object'[channels'[k]] = pool'[i])
    <3>1. \A i \in 1..Len(pool') : pool'[i] = c \/ ~InTable(pool'[i])
      BY ZenonT(30), <1>0, <1>14 DEF Tables
    <3> QED
      BY ZenonT(30), <1>13, <3>1
  <2> QED
    BY ZenonT(30), <2>1, <2>2, <2>3, <2>4 DEF Tables, InTable, RingAt
<1>18. Owners'
  <2>1. ASSUME NEW q \in Processes, Attached(q)'
        PROVE  (proc[q].ring \in Rings /\ InTable(proc[q].ring) /\ ~ring[proc[q].ring].closed)'
    <3>1. proc' = proc /\ ring' = ring /\ Attached(q)
      BY ZenonT(30), <1>1, <2>1 DEF Attached
    <3>2. proc[q].ring \in Rings /\ InTable(proc[q].ring) /\ ~ring[proc[q].ring].closed /\ proc[q].ring # c
      BY ZenonT(30), <1>0, <1>5, <3>1 DEF Owners
    <3>3. \E i \in 1..Len(channels') : object'[channels'[i]] = proc[q].ring
      BY ZenonT(30), <1>13, <3>2
    <3> QED
      BY ZenonT(30), <3>1, <3>2, <3>3 DEF InTable, RingAt
  <2>2. /\ \A q, u \in Processes : Attached(q)' /\ Attached(u)' /\ proc'[q].ring = proc'[u].ring => q = u
        /\ \A q \in Processes : <<"connect", q>> \in public' => proc'[q].state = "connecting"
        /\ \A q \in Processes : proc'[q].state \in {"new", "connecting"} => ~proc'[q].caches
    BY ZenonT(30), <1>0, <1>1 DEF Owners, Attached
  <2> QED
    BY ZenonT(30), <2>1, <2>2 DEF Owners
<1>19. Messages'
    BY ZenonT(30), <1>0, <1>1 DEF Messages, Calling, Quiet, Called
<1>20. \A q \in Processes : Reaches(q)'
  <2> SUFFICES ASSUME NEW q \in Processes
               PROVE  Reaches(q)'
    BY ZenonT(30)
  <2>1. proc' = proc /\ ring' = ring
    BY ZenonT(30), <1>1
  <2>2. CASE Attached(q)
    <3>1. ASSUME Known(proc[q].ring)
          PROVE  \E k \in cachers' : object'[k] = proc[q].ring
      <4>1. PICK k \in cachers : object[k] = proc[q].ring
        BY ZenonT(30), <3>1 DEF Known
      <4>2. k # to /\ k \in 1..Len(object)
        BY ZenonT(30), <1>0, <1>5, <2>2, <4>1 DEF Types, c
      <4> QED
        BY ZenonT(30), <1>1, <1>6, <4>1, <4>2
    <3>2. Reaches(q)
      BY ZenonT(30), <1>0
    <3> QED
      BY ZenonT(30), <2>1, <3>1, <3>2 DEF Reaches, Known
  <2>3. CASE ~Attached(q)
    BY ZenonT(30), <2>1, <2>3 DEF Reaches, Attached, Live
  <2> QED
    BY ZenonT(30), <2>2, <2>3
<1> QED
    BY ZenonT(30), <1>16, <1>17, <1>18, <1>19, <1>20 DEF IInv

-----------------------------------------------------------------------------
(* The theorems.                                                              *)

LEMMA InvInit ==
    ASSUME Init
    PROVE  IInv
<1> DEFINE n == Cardinality(Rings)
<1>1. IsFiniteSet(Rings) /\ n \in Nat
    BY ZenonT(30), EndpointsAssumption, FS_CardinalityType
<1>2. \E g \in Injection(1..n, Rings) : TRUE
    BY ZenonT(30), <1>1, FS_CardinalityType DEF ExistsBijection, Bijection
<1>3. pool \in [1..n -> Rings] /\ IsInjective(pool)
    BY ZenonT(30), <1>2 DEF Injection, Init
<1>4. pool \in Seq(Rings)
    BY <1>1, <1>3
<1>5. /\ object = <<>> /\ channels = <<>> /\ Len(channels) = 0 /\ pos = 0 /\ cachers = {} /\ public = {}
      /\ \A r \in Rings : ring[r].requests = <<>> /\ ring[r].answers = <<>>
      /\ \A p \in Processes : proc[p].state = "new" /\ proc[p].caches = FALSE
    BY ZenonT(30) DEF Init
<1>6. Types
    BY SMTT(30), <1>4, <1>5 DEF Init, Types, ProcType, RingType, States
<1>7. Tables
    BY SMTT(30), <1>3, <1>5 DEF Tables, InTable, IsInjective
<1>8. Owners /\ Messages /\ \A p \in Processes : Reaches(p)
    BY SMTT(30), <1>5 DEF Owners, Messages, Reaches, Attached, Calling, Live, Quiet, OnlyNotes
<1> QED
    BY ZenonT(30), <1>6, <1>7, <1>8 DEF IInv

LEMMA InvStep ==
    ASSUME Twice = {}, IInv, [Next]_vars
    PROVE  IInv'
<1>1. CASE UNCHANGED vars
    BY ZenonT(30), <1>1, IdleInv DEF vars
<1>2. ASSUME NEW p \in Processes, Accept(p)
      PROVE  IInv'
    BY ZenonT(30), <1>2, AcceptInv
<1>3. ASSUME NEW p \in Processes, AcceptDisconnect(p)
      PROVE  IInv'
    BY ZenonT(30), <1>3, IdleInv DEF AcceptDisconnect
<1>4. CASE AcceptNothing
    BY ZenonT(30), <1>4, IdleInv DEF AcceptNothing
<1>5. CASE PollNothing
    BY ZenonT(30), <1>5, IdleInv DEF PollNothing
<1>6. CASE Handle
    BY ZenonT(30), <1>6, HandleInv
<1>7. CASE CloseChannel
    BY ZenonT(30), <1>7, CloseChannelInv
<1>8. ASSUME NEW p \in Processes, Process(p)
      PROVE  IInv'
  <2>1. CASE Connect(p)
    BY ZenonT(30), <2>1, ConnectInv
  <2>2. ASSUME NEW call \in Calls[p], Request(p, call)
        PROVE  IInv'
    <3>1. call \in {"lookup", "remove"}
      BY ZenonT(30), EndpointsAssumption
    <3> QED
      BY ZenonT(30), <2>2, <3>1, RequestInv
  <2>3. CASE Receive(p)
    BY ZenonT(30), <2>3, ReceiveInv
  <2>4. CASE Leave(p)
    BY ZenonT(30), <2>4, LeaveInv
  <2>5. CASE Close(p)
    BY ZenonT(30), <2>5, CloseInv
  <2> QED
    BY ZenonT(30), <1>8, <2>1, <2>2, <2>3, <2>4, <2>5 DEF Process
<1> QED
    BY ZenonT(30), <1>1, <1>2, <1>3, <1>4, <1>5, <1>6, <1>7, <1>8 DEF Next, Server

LEMMA Invariant ==
    ASSUME Twice = {}
    PROVE  Spec => []IInv
<1>1. Init => IInv
    BY ZenonT(30), InvInit
<1>2. IInv /\ [Next]_vars => IInv'
    BY ZenonT(30), InvStep
<1> QED
    BY <1>1, <1>2, PTL DEF Spec

\* Processes that have not closed their channels never share a ring: endpoint_accept
\* takes one from the pool that no channel of the dispatcher's table has, however
\* often _dispatchCloseChannel has moved the last channel and given a ring back
\* (channel.cpp:255, 376; dispatch.cpp:119).  For any number of processes and rings,
\* when no process closes twice.
THEOREM RingsNotShared ==
    ASSUME Twice = {}
    PROVE  Spec => []OneProcessPerRing
<1>1. IInv => OneProcessPerRing
  <2> SUFFICES ASSUME IInv, NEW p \in Processes, proc[p].state \in Live
               PROVE  /\ \A q \in Processes \ {p} : proc[q].state \in Live => proc[q].ring # proc[p].ring
                      /\ proc[p].ring \notin Range(pool)
                      /\ Cardinality({j \in 1..Len(channels) : RingAt(j) = proc[p].ring}) = 1
    BY ZenonT(30) DEF OneProcessPerRing
  <2>1. \A q \in Processes \ {p} : proc[q].state \in Live => proc[q].ring # proc[p].ring
    BY ZenonT(30) DEF IInv, Owners, Attached
  <2>2. InTable(proc[p].ring)
    BY ZenonT(30) DEF IInv, Owners, Attached
  <2>3. proc[p].ring \notin Range(pool)
    <3>1. DOMAIN pool = 1..Len(pool)
      BY ZenonT(30), LenProperties DEF IInv, Types
    <3> QED
      BY ZenonT(30), <2>2, <3>1 DEF IInv, Tables, Range
  <2>4. PICK k \in 1..Len(channels) : RingAt(k) = proc[p].ring
    BY ZenonT(30), <2>2 DEF InTable
  <2>5. {j \in 1..Len(channels) : RingAt(j) = proc[p].ring} = {k}
    BY ZenonT(30), <2>4 DEF IInv, Tables
  <2>6. Cardinality({k}) = 1
    BY ZenonT(30), FS_Singleton
  <2> QED
    BY ZenonT(30), <2>1, <2>3, <2>5, <2>6
<1> QED
    BY <1>1, Invariant, PTL

\* A process that has the entry cached is known to the server under a pointer that
\* leads to its ring, or has a notification of the removal to read, although m_apps
\* is keyed by Channel pointers and the objects move (server.cpp, the handler of a
\* remove and closeCallback; dispatch.cpp:119).
THEOREM CachersHear ==
    ASSUME Twice = {}
    PROVE  Spec => []CachersReached
<1>1. IInv => CachersReached
  <2> SUFFICES ASSUME IInv, NEW p \in Processes, proc[p].state = "idle", proc[p].caches
               PROVE  Known(proc[p].ring) \/ "note" \in Range(ring[proc[p].ring].answers)
    BY ZenonT(30) DEF CachersReached, Known
  <2> DEFINE s == ring[proc[p].ring].answers
  <2>1. s \in Seq(Kinds)
    BY ZenonT(30), OwnRing DEF Attached, Live, RingType, Kinds
  <2>2. DOMAIN s = 1..Len(s)
    BY ZenonT(30), <2>1, LenProperties
  <2>3. Known(proc[p].ring) \/ \E i \in 1..Len(s) : s[i] = "note"
    BY ZenonT(30) DEF IInv, Reaches
  <2> HIDE DEF s
  <2> QED
    BY ZenonT(30), <2>2, <2>3 DEF Range, s
<1> QED
    BY <1>1, Invariant, PTL

\* The channel of a process that has not closed it is open: dispatcherFree's close is
\* the only one when name_cleanup does not close before (name.cpp:33).
THEOREM ChannelsOpen ==
    ASSUME Twice = {}
    PROVE  Spec => []LiveChannelsOpen
<1>1. IInv => LiveChannelsOpen
    BY ZenonT(30) DEF IInv, Owners, Attached, LiveChannelsOpen
<1> QED
    BY <1>1, Invariant, PTL
==============================================================================
