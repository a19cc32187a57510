----------------------------- MODULE ExecProofs -----------------------------
(***************************************************************************)
(* Proofs about Exec, for every set of jobs and every behaviour of them.     *)
(***************************************************************************)
EXTENDS Exec, TLAPS

-----------------------------------------------------------------------------
(* The inductive invariant.                                                   *)

Early == {"new", "control", "stdout", "stderr", "reading"}
Late == {"stdin", "relay", "done"}
Execs == {"wait", "execve", "running", "exited", "reaped"}
Open == <<"open", 0>>
Reply(j) == <<"reply", WEXITSTATUS(child[j].status)>>

\* Before the server has forked for a job nothing has happened for it.
Fresh(j) ==
    /\ relay[j].at = "new" => j \notin requests /\ child[j].at = "none"
    /\ j \in requests => child[j].at = "none"
    /\ child[j].at = "none" => j \notin started.parent /\ j \notin children

\* The server tells each relay once.  The child it has forked does not execute the
\* program before that, and has the control pipes of the other jobs until then: also
\* when the server aborts.
Serving ==
    /\ server.at \in {"control", "wait", "open", "aborted"} =>
           /\ server.job \notin started.parent
           /\ child[server.job].at \in {"stdout", "stderr", "started", "stdin", "wait"}
    /\ server.at \in {"wait", "open"} => server.job \in children
    /\ server.at \in {"control", "wait", "open"} =>
           children \subseteq inherited[server.job] \cup {server.job}
    /\ server.at = "aborted" => relay[server.job].cut

\* Somebody has the control pipe open for writing.
Held(j) == j \in children \/ (server.at = "aborted" /\ j \in inherited[server.job])

\* The control pipe is held until the server has sent the reply.
Kept(j) == j \in started.parent => Held(j) \/ child[j].at = "reaped"

\* A program runs only when its relay has read "open".
Ordered(j) == child[j].at \in Execs => relay[j].at \in Late \cup {"aborted"}

\* A relay aborts, or lacks a pipe, only when a signal has cut a call short.
Blamed(j) == relay[j].at = "aborted" \/ relay[j].lost # {} => relay[j].cut

\* What is in the control pipe: "open" until it is read, the reply from when the
\* child is reaped until it is read.
Control(j) ==
    /\ relay[j].at \in Early =>
           /\ control[j] = IF j \in started.parent THEN <<Open>> ELSE <<>>
           /\ ~relay[j].replied /\ relay[j].control
    /\ relay[j].at \in Late =>
           /\ j \in started.parent
           /\ control[j] = IF child[j].at = "reaped" /\ ~relay[j].replied THEN <<Reply(j)>> ELSE <<>>
    /\ relay[j].replied => child[j].at = "reaped" /\ relay[j].code = WEXITSTATUS(child[j].status)
    /\ ~relay[j].control \/ relay[j].at = "done" => relay[j].replied

JobInv(j) == Fresh(j) /\ Kept(j) /\ Ordered(j) /\ Blamed(j) /\ Control(j)

IInv == TypeOK /\ Serving /\ \A j \in Jobs : JobInv(j)

-----------------------------------------------------------------------------
LEMMA RelayStateSet ==
    Values(RelayStates) = {"new", "control", "stdout", "stderr", "reading", "stdin", "relay",
                           "done", "aborted"}
<1>1. DOMAIN RelayStates = 1..9
    BY DEF RelayStates
<1> QED
    BY <1>1 DEF Values, RelayStates

LEMMA ChildStateSet ==
    Values(ChildStates) = {"none", "stdout", "stderr", "started", "stdin", "wait", "execve",
                           "running", "exited", "reaped"}
<1>1. DOMAIN ChildStates = 1..10
    BY DEF ChildStates
<1> QED
    BY <1>1 DEF Values, ChildStates

LEMMA RelayReached ==
    ASSUME NEW j \in Jobs
    PROVE  RelayAt(j, "stdin") => relay[j].at \in {"stdin", "relay", "done", "aborted"}
<1>1. DOMAIN RelayStates = 1..9
    BY DEF RelayStates
<1> QED
    BY <1>1 DEF RelayAt, Reached, RelayStates

LEMMA StatusDecoded ==
    ASSUME NEW c \in Nat
    PROVE  WEXITSTATUS(WaitStatus(c)) = c
BY DEF WEXITSTATUS, WaitStatus

\* A status that waitpid gives is one of the exit statuses when it is decoded.
LEMMA StatusIsCode ==
    ASSUME TypeOK, NEW j \in Jobs
    PROVE  WEXITSTATUS(child[j].status) \in Codes
<1>1. CASE child[j].status = Killed
    BY <1>1, ExecAssumption DEF Killed, WEXITSTATUS
<1>2. CASE \E c \in Codes : child[j].status = WaitStatus(c)
    BY <1>2, StatusDecoded, ExecAssumption
<1> QED
    BY <1>1, <1>2 DEF TypeOK, ChildType

-----------------------------------------------------------------------------
(* Type correctness.                                                          *)

LEMMA RelayMoves ==
    ASSUME relay \in [Jobs -> RelayType], NEW j \in Jobs,
           NEW at \in Values(RelayStates), RelayGo(j, at)
    PROVE  relay' \in [Jobs -> RelayType]
<1>1. [relay[j] EXCEPT !.at = at] \in RelayType
    BY DEF RelayType
<1> QED
    BY <1>1 DEF RelayGo

LEMMA RelayLoses ==
    ASSUME relay \in [Jobs -> RelayType], NEW j \in Jobs,
           NEW at \in Values(RelayStates), NEW lost \in SUBSET Pipes,
           relay' = [relay EXCEPT ![j].at = at, ![j].lost = @ \cup lost]
    PROVE  relay' \in [Jobs -> RelayType]
<1> DEFINE r == [relay[j] EXCEPT !.at = at, !.lost = @ \cup lost]
<1>1. r \in RelayType
    BY DEF RelayType
<1>2. relay'[j] = r
    BY DEF RelayType
<1>3. relay' = [i \in Jobs |-> relay'[i]] /\ \A i \in Jobs \ {j} : relay'[i] = relay[i]
    OBVIOUS
<1> HIDE DEF r
<1> QED
    BY <1>1, <1>2, <1>3

LEMMA RelayInterrupted ==
    ASSUME relay \in [Jobs -> RelayType], NEW j \in Jobs,
           NEW at \in Values(RelayStates), NEW lost \in SUBSET Pipes, Interrupted(j, at, lost)
    PROVE  relay' \in [Jobs -> RelayType]
<1> DEFINE r == [relay[j] EXCEPT !.at = at, !.cut = TRUE, !.lost = @ \cup lost]
<1>1. r \in RelayType
    BY DEF RelayType
<1>2. relay'[j] = r
    BY DEF Interrupted, RelayType
<1>3. relay' = [i \in Jobs |-> relay'[i]] /\ \A i \in Jobs \ {j} : relay'[i] = relay[i]
    BY DEF Interrupted
<1> HIDE DEF r
<1> QED
    BY <1>1, <1>2, <1>3

\* The relay that InterruptOpen leaves behind is at the place after the open.
LEMMA AfterOpen ==
    ASSUME NEW j \in Jobs, InterruptOpen(j)
    PROVE  \/ relay[j].at = "control" /\ Interrupted(j, "stdout", {"control"})
           \/ relay[j].at = "stdout" /\ Interrupted(j, "stderr", {"stdout"})
           \/ relay[j].at = "stderr" /\ Interrupted(j, "reading", {"stderr"})
           \/ relay[j].at = "stdin" /\ Interrupted(j, "relay", {"stdin"})
<1>1. PICK i \in 1..9 : /\ RelayStates[i] = relay[j].at
                        /\ Interrupted(j, RelayStates[i + 1], {relay[j].at})
    BY DEF InterruptOpen, RelayStates
<1>2. i \in {2, 3, 4, 6}
    BY <1>1 DEF InterruptOpen, Pipes, RelayStates
<1>3. /\ i = 2 => relay[j].at = "control" /\ RelayStates[i + 1] = "stdout"
      /\ i = 3 => relay[j].at = "stdout" /\ RelayStates[i + 1] = "stderr"
      /\ i = 4 => relay[j].at = "stderr" /\ RelayStates[i + 1] = "reading"
      /\ i = 6 => relay[j].at = "stdin" /\ RelayStates[i + 1] = "relay"
    BY <1>1 DEF RelayStates
<1> QED
    BY <1>1, <1>2, <1>3, ZenonT(30)

LEMMA ChildMoves ==
    ASSUME child \in [Jobs -> ChildType], NEW j \in Jobs,
           NEW at \in Values(ChildStates), ChildGo(j, at)
    PROVE  child' \in [Jobs -> ChildType]
<1>1. [child[j] EXCEPT !.at = at] \in ChildType
    BY DEF ChildType
<1> QED
    BY <1>1 DEF ChildGo

LEMMA TypeInit == Init => TypeOK
<1> SUFFICES ASSUME Init
             PROVE  TypeOK
    OBVIOUS
<1>1. relay \in [Jobs -> RelayType]
    BY RelayStateSet, ExecAssumption DEF Init, RelayType
<1>2. child \in [Jobs -> ChildType]
  <2>1. 0 = WaitStatus(0)
    BY DEF WaitStatus
  <2> QED
    BY <2>1, ChildStateSet, ExecAssumption DEF Init, ChildType
<1>3. control \in [Jobs -> Seq({"open", "reply"} \X Codes)]
    BY DEF Init
<1>4. server \in [at : ServerStates, job : Jobs]
    BY DEF Init, ServerStates
<1>5. out \in [Jobs -> 0..MaxChunks] /\ err \in [Jobs -> 0..MaxChunks]
    BY ExecAssumption DEF Init
<1>6. started \in [child : SUBSET Jobs, parent : SUBSET Jobs]
    BY DEF Init
<1> QED
    BY <1>1, <1>2, <1>3, <1>4, <1>5, <1>6, ZenonT(30) DEF Init, TypeOK

LEMMA TypeStep == TypeOK /\ [Next]_vars => TypeOK'
<1> SUFFICES ASSUME TypeOK, [Next]_vars
             PROVE  TypeOK'
    OBVIOUS
<1> USE RelayStateSet, ChildStateSet, ExecAssumption
<1>1. ASSUME NEW j \in Jobs, Request(j)
      PROVE  TypeOK'
  <2>1. RelayGo(j, "control")
    BY <1>1 DEF Request
  <2> QED
    BY <1>1, <2>1, RelayMoves DEF TypeOK, Request, pipes
<1>2. ASSUME NEW j \in Jobs, OpenControl(j)
      PROVE  TypeOK'
  <2>1. RelayGo(j, "stdout")
    BY <1>2 DEF OpenControl
  <2> QED
    BY <1>2, <2>1, RelayMoves DEF TypeOK, OpenControl, pipes
<1>3. ASSUME NEW j \in Jobs, OpenStdout(j)
      PROVE  TypeOK'
  <2>1. RelayGo(j, "stderr")
    BY <1>3 DEF OpenStdout
  <2> QED
    BY <1>3, <2>1, RelayMoves DEF TypeOK, OpenStdout, pipes
<1>4. ASSUME NEW j \in Jobs, OpenStderr(j)
      PROVE  TypeOK'
  <2>1. RelayGo(j, "reading")
    BY <1>4 DEF OpenStderr
  <2> QED
    BY <1>4, <2>1, RelayMoves DEF TypeOK, OpenStderr, pipes
<1>5. ASSUME NEW j \in Jobs, OpenStdin(j)
      PROVE  TypeOK'
  <2>1. RelayGo(j, "relay")
    BY <1>5 DEF OpenStdin
  <2> QED
    BY <1>5, <2>1, RelayMoves DEF TypeOK, OpenStdin, pipes
<1>6. ASSUME NEW j \in Jobs, ReadOpen(j)
      PROVE  TypeOK'
  <2>1. relay' \in [Jobs -> RelayType]
    <3>1. relay \in [Jobs -> RelayType]
      BY DEF TypeOK
    <3>2. CASE RelayGo(j, "stdin")
      BY <3>1, <3>2, RelayMoves
    <3>3. CASE relay' = [relay EXCEPT ![j].at = "aborted", ![j].lost = @ \cup {"stdin"}]
      <4>1. "aborted" \in Values(RelayStates) /\ {"stdin"} \in SUBSET Pipes
        BY DEF Pipes
      <4> QED
        BY <3>1, <3>3, <4>1, RelayLoses, Zenon
    <3> QED
      BY <1>6, <3>2, <3>3 DEF ReadOpen
  <2>2. control' \in [Jobs -> Seq({"open", "reply"} \X Codes)]
    BY <1>6 DEF TypeOK, ReadOpen
  <2> QED
    BY <1>6, <2>1, <2>2 DEF TypeOK, ReadOpen
<1>7. ASSUME NEW j \in Jobs, Relay(j)
      PROVE  TypeOK'
  <2>1. control[j] # <<>> => Head(control[j])[2] \in Codes
    BY DEF TypeOK
  <2>2. relay'[j] \in RelayType
    <3> DEFINE r == relay[j]
               o == r.out /\ ~(out[j] = 0 /\ Ended(j))
               e == r.err /\ ~(err[j] = 0 /\ Ended(j))
               c == r.control /\ ~(control[j] = <<>> /\ ControlEnded(j))
               p == r.replied \/ control[j] # <<>>
               code == IF control[j] # <<>> THEN Head(control[j])[2] ELSE r.code
               at == IF Len(control[j]) > 1 THEN "aborted"
                     ELSE IF o \/ c THEN "relay" ELSE IF p THEN "done" ELSE "aborted"
    <3>1. o \in BOOLEAN /\ e \in BOOLEAN /\ c \in BOOLEAN /\ p \in BOOLEAN
      OBVIOUS
    <3>2. code \in Codes
      BY <2>1 DEF TypeOK, RelayType
    <3>3. at \in Values(RelayStates) /\ r.cut \in BOOLEAN /\ r.lost \in SUBSET Pipes
      BY DEF TypeOK, RelayType
    <3>4. r = [at |-> r.at, out |-> r.out, err |-> r.err, control |-> r.control,
               replied |-> r.replied, code |-> r.code, cut |-> r.cut, lost |-> r.lost]
      BY DEF TypeOK, RelayType
    <3>5. relay'[j] = [at |-> at, out |-> o, err |-> e, control |-> c, replied |-> p, code |-> code,
                       cut |-> r.cut, lost |-> r.lost]
      BY <1>7, <3>4, ZenonT(30) DEF TypeOK, Relay, Relaying
    <3> HIDE DEF o, e, c, p, code, at
    <3> QED
      BY <3>1, <3>2, <3>3, <3>5 DEF RelayType
  <2>3. relay' \in [Jobs -> RelayType]
    BY <1>7, <2>2 DEF TypeOK, Relay
  <2>4. control' \in [Jobs -> Seq({"open", "reply"} \X Codes)]
    BY <1>7 DEF TypeOK, Relay
  <2> QED
    BY <1>7, <2>3, <2>4 DEF TypeOK, Relay
<1>8. ASSUME NEW j \in Jobs, ReopenStdout(j)
      PROVE  TypeOK'
  <2>1. ChildGo(j, "stderr")
    BY <1>8 DEF ReopenStdout
  <2> QED
    BY <1>8, <2>1, ChildMoves DEF TypeOK, ReopenStdout, pipes
<1>9. ASSUME NEW j \in Jobs, ReopenStderr(j)
      PROVE  TypeOK'
  <2>1. ChildGo(j, "started")
    BY <1>9 DEF ReopenStderr
  <2> QED
    BY <1>9, <2>1, ChildMoves DEF TypeOK, ReopenStderr, pipes
<1>10. ASSUME NEW j \in Jobs, Started(j)
      PROVE  TypeOK'
  <2>1. ChildGo(j, "stdin")
    BY <1>10 DEF Started
  <2> QED
    BY <1>10, <2>1, ChildMoves, ZenonT(30) DEF TypeOK, Started, pipes
<1>11. ASSUME NEW j \in Jobs, ReopenStdin(j)
      PROVE  TypeOK'
  <2>1. ChildGo(j, "wait")
    BY <1>11 DEF ReopenStdin
  <2> QED
    BY <1>11, <2>1, ChildMoves DEF TypeOK, ReopenStdin, pipes
<1>12. ASSUME NEW j \in Jobs, WaitForParent(j)
      PROVE  TypeOK'
  <2>1. ChildGo(j, "execve")
    BY <1>12 DEF WaitForParent
  <2> QED
    BY <1>12, <2>1, ChildMoves DEF TypeOK, WaitForParent, pipes
<1>13. ASSUME NEW j \in Jobs, Execve(j)
      PROVE  TypeOK'
  <2>1. child' \in [Jobs -> ChildType]
    <3>1. CASE ChildGo(j, "running")
      BY <3>1, ChildMoves DEF TypeOK
    <3>2. CASE child' = [child EXCEPT ![j] = [at |-> "exited", status |-> Killed, heirs |-> FALSE]]
      BY <3>2 DEF TypeOK, ChildType
    <3> QED
      BY <1>13, <3>1, <3>2 DEF Execve
  <2> QED
    BY <1>13, <2>1, ZenonT(30) DEF TypeOK, Execve, ExitSignal, ServerStates
<1>14. ASSUME NEW j \in Jobs, WriteOut(j)
      PROVE  TypeOK'
    BY <1>14 DEF TypeOK, WriteOut, Writes
<1>15. ASSUME NEW j \in Jobs, WriteErr(j)
      PROVE  TypeOK'
    BY SMTT(30), <1>15 DEF TypeOK, WriteErr, Writes
<1>16. ASSUME NEW j \in Jobs, NEW code \in Codes, NEW heirs \in BOOLEAN, Exit(j, code, heirs)
      PROVE  TypeOK'
  <2>1. child' \in [Jobs -> ChildType]
    BY <1>16 DEF TypeOK, Exit, ChildType
  <2> QED
    BY <1>16, <2>1, ZenonT(30) DEF TypeOK, Exit, ExitSignal, ServerStates, pipes
<1>17. ASSUME NEW j \in Jobs, Fork(j)
      PROVE  TypeOK'
  <2>1. child' \in [Jobs -> ChildType]
    BY <1>17, ChildMoves DEF TypeOK, Fork
  <2> QED
    BY <1>17, <2>1, ZenonT(30) DEF TypeOK, Fork, ServerStates
<1>18. ASSUME NEW j \in Jobs, Reap(j)
      PROVE  TypeOK'
  <2>1. child' \in [Jobs -> ChildType]
    BY <1>18, ChildMoves DEF TypeOK, Reap
  <2>2. control' \in [Jobs -> Seq({"open", "reply"} \X Codes)]
    <3>1. WEXITSTATUS(child[j].status) \in Codes
      BY ZenonT(30), StatusIsCode
    <3> QED
      BY <1>18, <3>1 DEF TypeOK, Reap
  <2> QED
    BY <1>18, <2>1, <2>2 DEF TypeOK, Reap
<1>19. ASSUME TellRelay
      PROVE  TypeOK'
  <2>1. control' \in [Jobs -> Seq({"open", "reply"} \X Codes)]
    BY <1>19 DEF TypeOK, TellRelay
  <2> QED
    BY <1>19, <2>1, ZenonT(30) DEF TypeOK, TellRelay, ServerStates
<1>20. CASE ServerOpens
    BY <1>20, ZenonT(30) DEF TypeOK, ServerOpens, ServerStates, pipes
<1>21. CASE WaitForChild
    BY <1>21, ZenonT(30) DEF TypeOK, WaitForChild, ServerStates, pipes
<1>22. CASE Idle
    BY <1>22, ZenonT(30) DEF TypeOK, Idle, ServerStates, pipes
<1>23. CASE ReapNothing
    BY <1>23, ZenonT(30) DEF TypeOK, ReapNothing, ServerStates, pipes
<1>24. CASE UNCHANGED vars
    BY <1>24 DEF TypeOK, vars
<1>25. ASSUME NEW j \in Jobs, SetLost(j)
      PROVE  TypeOK'
  <2>1. RelayGo(j, "aborted")
    BY <1>25 DEF SetLost
  <2> QED
    BY <1>25, <2>1, RelayMoves DEF TypeOK, SetLost, pipes
<1>26. ASSUME NEW j \in Jobs, Interrupt(j)
      PROVE  TypeOK'
  <2>1. PICK at \in Values(RelayStates), lost \in SUBSET Pipes : Interrupted(j, at, lost)
    BY <1>26, AfterOpen DEF Interrupt, InterruptRead, InterruptSelect, Pipes
  <2> QED
    BY <2>1, RelayInterrupted DEF TypeOK, Interrupted, pipes
<1>27. ASSUME NEW j \in Jobs, HeirsExit(j)
      PROVE  TypeOK'
  <2>1. child' \in [Jobs -> ChildType]
    <3>1. child \in [Jobs -> ChildType]
      BY DEF TypeOK
    <3>2. [child[j] EXCEPT !.heirs = FALSE] \in ChildType
      BY <3>1 DEF ChildType
    <3> QED
      BY <1>27, <3>1, <3>2 DEF HeirsExit
  <2> QED
    BY <1>27, <2>1 DEF TypeOK, HeirsExit, pipes
<1>28. CASE TellNobody
    BY <1>28, ZenonT(30) DEF TypeOK, TellNobody, ServerStates, pipes
<1> QED
    BY <1>1, <1>2, <1>3, <1>4, <1>5, <1>6, <1>7, <1>8, <1>9, <1>10, <1>11, <1>12, <1>13,
       <1>14, <1>15, <1>16, <1>17, <1>18, <1>19, <1>20, <1>21, <1>22, <1>23, <1>24, <1>25,
       <1>26, <1>27, <1>28
       DEF Next, ServerStep, RelayStep, ChildStep, ProgramStep
-----------------------------------------------------------------------------
(* The invariant.                                                             *)

\* A job that a step does not touch keeps its invariant.
LEMMA Frame ==
    ASSUME NEW i \in Jobs, JobInv(i),
           relay'[i] = relay[i], child'[i] = child[i], control'[i] = control[i],
           i \in requests' <=> i \in requests, i \in children' => i \in children,
           Held(i) => Held(i)',
           i \in started'.parent <=> i \in started.parent
    PROVE  JobInv(i)'
<1>1. Fresh(i)' /\ Ordered(i)' /\ Blamed(i)'
    BY DEF JobInv, Fresh, Ordered, Blamed
<1>2. Kept(i)'
    BY DEF JobInv, Kept
<1>3. Control(i)'
    BY DEF JobInv, Control, Reply
<1> QED
    BY <1>1, <1>2, <1>3 DEF JobInv

LEMMA HeldStays ==
    ASSUME server' = server, children' = children, inherited' = inherited
    PROVE  \A i \in Jobs : Held(i) <=> Held(i)'
BY DEF Held

LEMMA OneMessage ==
    ASSUME NEW m
    PROVE  <<m>> # <<>> /\ Len(<<m>>) = 1 /\ Head(<<m>>) = m /\ Append(<<>>, m) = <<m>>
OBVIOUS

\* A step moves the relay of one job, or its child, and changes nothing else there.
RelayMoved(j, at) ==
    /\ relay'[j].at = at
    /\ relay'[j].control = relay[j].control
    /\ relay'[j].replied = relay[j].replied
    /\ relay'[j].code = relay[j].code
    /\ relay'[j].cut = relay[j].cut
    /\ relay'[j].lost = relay[j].lost
    /\ \A i \in Jobs \ {j} : relay'[i] = relay[i]

RelayCut(j, at) ==
    /\ relay'[j].at = at
    /\ relay'[j].control = relay[j].control
    /\ relay'[j].replied = relay[j].replied
    /\ relay'[j].code = relay[j].code
    /\ relay'[j].cut
    /\ \A i \in Jobs \ {j} : relay'[i] = relay[i]

ChildMoved(j, at) ==
    /\ child'[j].at = at
    /\ child'[j].status = child[j].status
    /\ \A i \in Jobs \ {j} : child'[i] = child[i]

LEMMA RelayGoes ==
    ASSUME TypeOK, NEW j \in Jobs, NEW at, RelayGo(j, at)
    PROVE  RelayMoved(j, at)
BY DEF TypeOK, RelayType, RelayGo, RelayMoved

LEMMA RelayInterrupts ==
    ASSUME TypeOK, NEW j \in Jobs, NEW at, NEW lost, Interrupted(j, at, lost)
    PROVE  RelayCut(j, at)
BY DEF TypeOK, RelayType, Interrupted, RelayCut

LEMMA ChildGoes ==
    ASSUME TypeOK, NEW j \in Jobs, NEW at, ChildGo(j, at)
    PROVE  ChildMoved(j, at)
BY DEF TypeOK, ChildType, ChildGo, ChildMoved

LEMMA InvInit == Init => IInv
<1> SUFFICES ASSUME Init
             PROVE  IInv
    OBVIOUS
<1>1. TypeOK
    BY TypeInit
<1>2. Serving
    BY DEF Init, Serving
<1>3. ASSUME NEW j \in Jobs
      PROVE  JobInv(j)
    BY DEF Init, JobInv, Fresh, Kept, Ordered, Blamed, Control, Execs, Early, Late
<1> QED
    BY <1>1, <1>2, <1>3 DEF IInv

LEMMA InvStep == IInv /\ [Next]_vars => IInv'
<1> SUFFICES ASSUME IInv, [Next]_vars
             PROVE  Serving' /\ \A i \in Jobs : JobInv(i)'
    BY TypeStep DEF IInv
<1> USE RelayStateSet, ChildStateSet
<1>0. TypeOK /\ Serving /\ \A i \in Jobs : JobInv(i)
    BY DEF IInv
<1>1. ASSUME NEW j \in Jobs, Request(j)
      PROVE  Serving' /\ \A i \in Jobs : JobInv(i)'
  <2>1. RelayMoved(j, "control")
    BY <1>0, <1>1, RelayGoes DEF Request
  <2>2. \A i \in Jobs : Held(i) <=> Held(i)'
    BY <1>1, HeldStays DEF Request, pipes
  <2>3. Serving'
    BY <1>0, <1>1, <2>1 DEF Serving, TypeOK, RelayMoved, Request, pipes
  <2>4. ASSUME NEW i \in Jobs, i # j
        PROVE  JobInv(i)'
    BY <1>0, <1>1, <2>1, <2>2, <2>4, Frame, ZenonT(30) DEF TypeOK, RelayMoved, Request, pipes
  <2>5. JobInv(j)'
    BY <1>0, <1>1, <2>1, <2>2
       DEF TypeOK, JobInv, Fresh, Kept, Ordered, Blamed, Control, RelayMoved, Request, Early, Late,
           Execs, Reply, pipes
  <2> QED
    BY <2>3, <2>4, <2>5
<1>2. ASSUME NEW j \in Jobs, OpenControl(j)
      PROVE  Serving' /\ \A i \in Jobs : JobInv(i)'
  <2>1. RelayMoved(j, "stdout")
    BY <1>0, <1>2, RelayGoes DEF OpenControl
  <2>2. \A i \in Jobs : Held(i) <=> Held(i)'
    BY <1>2, HeldStays DEF OpenControl, pipes
  <2>3. Serving'
    BY <1>0, <1>2, <2>1 DEF Serving, TypeOK, RelayMoved, OpenControl, pipes
  <2>4. ASSUME NEW i \in Jobs, i # j
        PROVE  JobInv(i)'
    BY <1>0, <1>2, <2>1, <2>2, <2>4, Frame, ZenonT(30) DEF TypeOK, RelayMoved, OpenControl, pipes
  <2>5. JobInv(j)'
    BY <1>0, <1>2, <2>1, <2>2
       DEF TypeOK, JobInv, Fresh, Kept, Ordered, Blamed, Control, RelayMoved, OpenControl, Early, Late,
           Execs, Reply, pipes
  <2> QED
    BY <2>3, <2>4, <2>5
<1>3. ASSUME NEW j \in Jobs, OpenStdout(j)
      PROVE  Serving' /\ \A i \in Jobs : JobInv(i)'
  <2>1. RelayMoved(j, "stderr")
    BY <1>0, <1>3, RelayGoes DEF OpenStdout
  <2>2. \A i \in Jobs : Held(i) <=> Held(i)'
    BY <1>3, HeldStays DEF OpenStdout, pipes
  <2>3. Serving'
    BY <1>0, <1>3, <2>1 DEF Serving, TypeOK, RelayMoved, OpenStdout, pipes
  <2>4. ASSUME NEW i \in Jobs, i # j
        PROVE  JobInv(i)'
    BY <1>0, <1>3, <2>1, <2>2, <2>4, Frame, ZenonT(30) DEF TypeOK, RelayMoved, OpenStdout, pipes
  <2>5. JobInv(j)'
    BY <1>0, <1>3, <2>1, <2>2
       DEF TypeOK, JobInv, Fresh, Kept, Ordered, Blamed, Control, RelayMoved, OpenStdout, Early, Late,
           Execs, Reply, pipes
  <2> QED
    BY <2>3, <2>4, <2>5
<1>4. ASSUME NEW j \in Jobs, OpenStderr(j)
      PROVE  Serving' /\ \A i \in Jobs : JobInv(i)'
  <2>1. RelayMoved(j, "reading")
    BY <1>0, <1>4, RelayGoes DEF OpenStderr
  <2>2. \A i \in Jobs : Held(i) <=> Held(i)'
    BY <1>4, HeldStays DEF OpenStderr, pipes
  <2>3. Serving'
    BY <1>0, <1>4, <2>1 DEF Serving, TypeOK, RelayMoved, OpenStderr, pipes
  <2>4. ASSUME NEW i \in Jobs, i # j
        PROVE  JobInv(i)'
    BY <1>0, <1>4, <2>1, <2>2, <2>4, Frame, ZenonT(30) DEF TypeOK, RelayMoved, OpenStderr, pipes
  <2>5. JobInv(j)'
    BY <1>0, <1>4, <2>1, <2>2
       DEF TypeOK, JobInv, Fresh, Kept, Ordered, Blamed, Control, RelayMoved, OpenStderr, Early, Late,
           Execs, Reply, pipes
  <2> QED
    BY <2>3, <2>4, <2>5
<1>5. ASSUME NEW j \in Jobs, OpenStdin(j)
      PROVE  Serving' /\ \A i \in Jobs : JobInv(i)'
  <2>1. RelayMoved(j, "relay")
    BY <1>0, <1>5, RelayGoes DEF OpenStdin
  <2>2. \A i \in Jobs : Held(i) <=> Held(i)'
    BY <1>5, HeldStays DEF OpenStdin, pipes
  <2>3. Serving'
    BY <1>0, <1>5, <2>1 DEF Serving, TypeOK, RelayMoved, OpenStdin, pipes
  <2>4. ASSUME NEW i \in Jobs, i # j
        PROVE  JobInv(i)'
    BY <1>0, <1>5, <2>1, <2>2, <2>4, Frame, ZenonT(30) DEF TypeOK, RelayMoved, OpenStdin, pipes
  <2>5. JobInv(j)'
    BY <1>0, <1>5, <2>1, <2>2
       DEF TypeOK, JobInv, Fresh, Kept, Ordered, Blamed, Control, RelayMoved, OpenStdin, Early, Late,
           Execs, Reply, pipes
  <2> QED
    BY <2>3, <2>4, <2>5
<1>6. ASSUME NEW j \in Jobs, SetLost(j)
      PROVE  Serving' /\ \A i \in Jobs : JobInv(i)'
  <2>1. RelayMoved(j, "aborted")
    BY <1>0, <1>6, RelayGoes DEF SetLost
  <2>2. \A i \in Jobs : Held(i) <=> Held(i)'
    BY <1>6, HeldStays DEF SetLost, pipes
  <2>3. Serving'
    BY <1>0, <1>6, <2>1 DEF Serving, TypeOK, RelayMoved, SetLost, pipes
  <2>4. ASSUME NEW i \in Jobs, i # j
        PROVE  JobInv(i)'
    BY <1>0, <1>6, <2>1, <2>2, <2>4, Frame, ZenonT(30) DEF TypeOK, RelayMoved, SetLost, pipes
  <2>5. JobInv(j)'
    BY <1>0, <1>6, <2>1, <2>2
       DEF TypeOK, JobInv, Fresh, Kept, Ordered, Blamed, Control, RelayMoved, SetLost, Early, Late,
           Execs, Reply, pipes
  <2> QED
    BY <2>3, <2>4, <2>5
<1>7. ASSUME NEW j \in Jobs, ReopenStdout(j)
      PROVE  Serving' /\ \A i \in Jobs : JobInv(i)'
  <2>1. ChildMoved(j, "stderr")
    BY <1>0, <1>7, ChildGoes DEF ReopenStdout
  <2>2. \A i \in Jobs : Held(i) <=> Held(i)'
    BY <1>7, HeldStays DEF ReopenStdout, pipes
  <2>3. Serving'
    BY <1>0, <1>7, <2>1, ZenonT(30) DEF Serving, TypeOK, ChildMoved, ReopenStdout, pipes
  <2>4. ASSUME NEW i \in Jobs, i # j
        PROVE  JobInv(i)'
    BY <1>0, <1>7, <2>1, <2>2, <2>4, Frame, ZenonT(30) DEF TypeOK, ChildMoved, ReopenStdout, pipes
  <2>5. JobInv(j)'
    BY <1>0, <1>7, <2>1, <2>2
       DEF TypeOK, JobInv, Fresh, Kept, Ordered, Blamed, Control, ChildMoved, ReopenStdout, Early, Late,
           Execs, Reply, pipes
  <2> QED
    BY <2>3, <2>4, <2>5
<1>8. ASSUME NEW j \in Jobs, ReopenStderr(j)
      PROVE  Serving' /\ \A i \in Jobs : JobInv(i)'
  <2>1. ChildMoved(j, "started")
    BY <1>0, <1>8, ChildGoes DEF ReopenStderr
  <2>2. \A i \in Jobs : Held(i) <=> Held(i)'
    BY <1>8, HeldStays DEF ReopenStderr, pipes
  <2>3. Serving'
    BY <1>0, <1>8, <2>1, ZenonT(30) DEF Serving, TypeOK, ChildMoved, ReopenStderr, pipes
  <2>4. ASSUME NEW i \in Jobs, i # j
        PROVE  JobInv(i)'
    BY <1>0, <1>8, <2>1, <2>2, <2>4, Frame, ZenonT(30) DEF TypeOK, ChildMoved, ReopenStderr, pipes
  <2>5. JobInv(j)'
    BY <1>0, <1>8, <2>1, <2>2
       DEF TypeOK, JobInv, Fresh, Kept, Ordered, Blamed, Control, ChildMoved, ReopenStderr, Early, Late,
           Execs, Reply, pipes
  <2> QED
    BY <2>3, <2>4, <2>5
<1>9. ASSUME NEW j \in Jobs, Started(j)
      PROVE  Serving' /\ \A i \in Jobs : JobInv(i)'
  <2>1. ChildMoved(j, "stdin")
    BY <1>0, <1>9, ChildGoes DEF Started
  <2>2. \A i \in Jobs : Held(i) <=> Held(i)'
    BY <1>9, HeldStays DEF Started, pipes
  <2>3. Serving'
    BY <1>0, <1>9, <2>1, ZenonT(30) DEF Serving, TypeOK, ChildMoved, Started, pipes
  <2>4. ASSUME NEW i \in Jobs, i # j
        PROVE  JobInv(i)'
    BY <1>0, <1>9, <2>1, <2>2, <2>4, Frame, ZenonT(30) DEF TypeOK, ChildMoved, Started, pipes
  <2>5. JobInv(j)'
    BY <1>0, <1>9, <2>1, <2>2
       DEF TypeOK, JobInv, Fresh, Kept, Ordered, Blamed, Control, ChildMoved, Started, Early, Late,
           Execs, Reply, pipes
  <2> QED
    BY <2>3, <2>4, <2>5
<1>10. ASSUME NEW j \in Jobs, WaitForParent(j)
      PROVE  Serving' /\ \A i \in Jobs : JobInv(i)'
  <2>1. ChildMoved(j, "execve")
    BY <1>0, <1>10, ChildGoes DEF WaitForParent
  <2>2. \A i \in Jobs : Held(i) <=> Held(i)'
    BY <1>10, HeldStays DEF WaitForParent, pipes
  <2>3. Serving'
    BY <1>0, <1>10, <2>1, ZenonT(30) DEF Serving, TypeOK, ChildMoved, WaitForParent, pipes
  <2>4. ASSUME NEW i \in Jobs, i # j
        PROVE  JobInv(i)'
    BY <1>0, <1>10, <2>1, <2>2, <2>4, Frame, ZenonT(30) DEF TypeOK, ChildMoved, WaitForParent, pipes
  <2>5. JobInv(j)'
    BY <1>0, <1>10, <2>1, <2>2
       DEF TypeOK, JobInv, Fresh, Kept, Ordered, Blamed, Control, ChildMoved, WaitForParent, Early, Late,
           Execs, Reply, pipes
  <2> QED
    BY <2>3, <2>4, <2>5
<1>11. ASSUME NEW j \in Jobs, ReadOpen(j)
      PROVE  Serving' /\ \A i \in Jobs : JobInv(i)'
  <2>1. control[j] \in {<<Open>>, <<>>} /\ (control[j] = <<Open>> => j \in started.parent)
    BY <1>0, <1>11, OneMessage, ZenonT(30) DEF JobInv, Control, ReadOpen, Early
  <2>2. /\ relay'[j].at = IF control[j] = <<Open>> THEN "stdin" ELSE "aborted"
        /\ relay'[j].control = relay[j].control
        /\ relay'[j].replied = relay[j].replied
        /\ relay'[j].code = relay[j].code
        /\ relay'[j].cut = relay[j].cut
        /\ \A i \in Jobs \ {j} : relay'[i] = relay[i]
    BY <1>0, <1>11 DEF TypeOK, RelayType, ReadOpen, RelayGo, Open
  <2>3. /\ control[j] # <<Open>> => relay[j].cut
        /\ relay'[j].lost # {} => relay[j].cut
    <3>1. control[j] # <<Open>> => "control" \in relay[j].lost
      BY <1>11, <2>1 DEF ReadOpen
    <3>2. relay[j].lost # {} => relay[j].cut
      BY <1>0, ZenonT(30) DEF JobInv, Blamed
    <3>3. control[j] = <<Open>> => relay'[j].lost = relay[j].lost
      BY <1>0, <1>11 DEF TypeOK, RelayType, ReadOpen, RelayGo, Open
    <3> QED
      BY <3>1, <3>2, <3>3
  <2>4. \A i \in Jobs : Held(i) <=> Held(i)'
    BY <1>11, HeldStays DEF ReadOpen
  <2>5. /\ control'[j] = <<>> /\ \A i \in Jobs \ {j} : control'[i] = control[i]
        /\ child' = child /\ server' = server /\ requests' = requests /\ children' = children
        /\ started' = started /\ inherited' = inherited /\ relay[j].at = "reading"
    BY <1>0, <1>11 DEF TypeOK, ReadOpen
  <2>6. Serving'
    BY <1>0, <2>2, <2>5 DEF Serving, TypeOK
  <2>7. ASSUME NEW i \in Jobs, i # j
        PROVE  JobInv(i)'
    BY <1>0, <2>2, <2>4, <2>5, <2>7, Frame, ZenonT(30)
  <2>8. Fresh(j)' /\ Kept(j)' /\ Ordered(j)' /\ Blamed(j)'
    BY <1>0, <2>2, <2>3, <2>4, <2>5 DEF JobInv, Fresh, Kept, Ordered, Blamed, Early, Late, Execs
  <2>9. Control(j)'
    BY <1>0, <2>1, <2>2, <2>5, ZenonT(30) DEF JobInv, Ordered, Control, Early, Late, Execs, Reply
  <2> QED
    BY <2>6, <2>7, <2>8, <2>9 DEF JobInv
<1>12. ASSUME NEW j \in Jobs, Interrupt(j)
      PROVE  Serving' /\ \A i \in Jobs : JobInv(i)'
  <2>1. PICK at, lost :
            /\ Interrupted(j, at, lost)
            /\ \/ relay[j].at \in Early \ {"new"} /\ at \in Early \ {"new"}
               \/ relay[j].at = "stdin" /\ at = "relay"
               \/ relay[j].at \in {"reading", "relay"} /\ at = "aborted"
               \/ relay[j].at = "relay" /\ at = "done" /\ relay[j].replied
    BY <1>12, AfterOpen DEF Interrupt, InterruptRead, InterruptSelect, Early
  <2>2. RelayCut(j, at)
    BY <1>0, <2>1, RelayInterrupts, ZenonT(30)
  <2>3. /\ child' = child /\ server' = server /\ requests' = requests /\ children' = children
        /\ started' = started /\ inherited' = inherited /\ control' = control
    BY <2>1 DEF Interrupted, pipes
  <2>4. \A i \in Jobs : Held(i) <=> Held(i)'
    BY <2>3, HeldStays
  <2>5. Serving'
    BY <1>0, <2>2, <2>3 DEF Serving, TypeOK, RelayCut
  <2>6. ASSUME NEW i \in Jobs, i # j
        PROVE  JobInv(i)'
    BY <1>0, <2>2, <2>3, <2>4, <2>6, Frame, ZenonT(30) DEF RelayCut
  <2>7. Fresh(j)' /\ Kept(j)' /\ Ordered(j)' /\ Blamed(j)'
    BY <1>0, <2>1, <2>2, <2>3, <2>4
       DEF JobInv, Fresh, Kept, Ordered, Blamed, RelayCut, Early, Late, Execs
  <2>8. Control(j)'
    BY <1>0, <2>1, <2>2, <2>3 DEF JobInv, Control, RelayCut, Early, Late, Reply
  <2> QED
    BY <2>5, <2>6, <2>7, <2>8 DEF JobInv
<1>13. ASSUME NEW j \in Jobs, ReopenStdin(j)
      PROVE  Serving' /\ \A i \in Jobs : JobInv(i)'
  <2>1. ChildMoved(j, "wait")
    BY <1>0, <1>13, ChildGoes DEF ReopenStdin
  <2>2. relay[j].at \in Late \cup {"aborted"}
    BY <1>13, RelayReached, ZenonT(30) DEF ReopenStdin, RelayHas, Late
  <2>3. \A i \in Jobs : Held(i) <=> Held(i)'
    BY <1>13, HeldStays DEF ReopenStdin, pipes
  <2>4. Serving'
    BY <1>0, <1>13, <2>1, ZenonT(30) DEF Serving, TypeOK, ChildMoved, ReopenStdin, pipes
  <2>5. ASSUME NEW i \in Jobs, i # j
        PROVE  JobInv(i)'
    BY <1>0, <1>13, <2>1, <2>3, <2>5, Frame, ZenonT(30) DEF TypeOK, ChildMoved, ReopenStdin, pipes
  <2>6. JobInv(j)'
    BY <1>0, <1>13, <2>1, <2>2, <2>3
       DEF TypeOK, JobInv, Fresh, Kept, Ordered, Blamed, Control, ChildMoved, ReopenStdin, Early,
           Late, Execs, Reply, pipes
  <2> QED
    BY <2>4, <2>5, <2>6
<1>14. ASSUME NEW j \in Jobs, Fork(j)
      PROVE  Serving' /\ \A i \in Jobs : JobInv(i)'
  <2>1. ChildMoved(j, "stdout")
    BY <1>0, <1>14, ChildGoes DEF Fork
  <2>2. \A i \in Jobs : Held(i) <=> Held(i)'
    BY <1>14 DEF Held, Fork
  <2>3. Serving'
    <3>1. j \notin started.parent
      BY <1>0, <1>14, ZenonT(30) DEF Fork, JobInv, Fresh
    <3>2. /\ server'.at = "control" /\ server'.job = j /\ started' = started /\ children' = children
          /\ inherited'[j] = children /\ child'[j].at = "stdout"
      BY <1>0, <1>14, <2>1 DEF TypeOK, Fork, ChildMoved
    <3> QED
      BY <3>1, <3>2 DEF Serving
  <2>4. ASSUME NEW i \in Jobs, i # j
        PROVE  JobInv(i)'
    BY <1>0, <1>14, <2>1, <2>2, <2>4, Frame, ZenonT(30) DEF TypeOK, ChildMoved, Fork
  <2>5. JobInv(j)'
    BY <1>0, <1>14, <2>1, <2>2
       DEF TypeOK, JobInv, Fresh, Kept, Ordered, Blamed, Control, ChildMoved, Fork, Early, Late,
           Execs, Reply
  <2> QED
    BY <2>3, <2>4, <2>5
<1>15. ASSUME NEW j \in Jobs, WriteOut(j) \/ WriteErr(j)
      PROVE  Serving' /\ \A i \in Jobs : JobInv(i)'
  <2>1. /\ relay' = relay /\ child' = child /\ server' = server /\ requests' = requests
        /\ children' = children /\ started' = started /\ inherited' = inherited
        /\ control' = control
    BY <1>15 DEF WriteOut, WriteErr
  <2>2. Serving'
    BY <1>0, <2>1 DEF Serving
  <2>3. ASSUME NEW i \in Jobs
        PROVE  JobInv(i)'
    BY <1>0, <2>1, HeldStays, Frame, ZenonT(30)
  <2> QED
    BY <2>2, <2>3
<1>16. ASSUME NEW j \in Jobs, HeirsExit(j)
      PROVE  Serving' /\ \A i \in Jobs : JobInv(i)'
  <2>1. ChildMoved(j, child[j].at)
    BY <1>0, <1>16 DEF TypeOK, ChildType, HeirsExit, ChildMoved
  <2>2. \A i \in Jobs : Held(i) <=> Held(i)'
    BY <1>16, HeldStays DEF HeirsExit, pipes
  <2>3. Serving'
    BY <1>0, <1>16, <2>1, ZenonT(30) DEF Serving, TypeOK, ChildMoved, HeirsExit, pipes
  <2>4. ASSUME NEW i \in Jobs, i # j
        PROVE  JobInv(i)'
    BY <1>0, <1>16, <2>1, <2>2, <2>4, Frame, ZenonT(30) DEF TypeOK, ChildMoved, HeirsExit, pipes
  <2>5. JobInv(j)'
    BY <1>0, <1>16, <2>1, <2>2
       DEF TypeOK, JobInv, Fresh, Kept, Ordered, Blamed, Control, ChildMoved, HeirsExit, Early, Late,
           Execs, Reply, pipes
  <2> QED
    BY <2>3, <2>4, <2>5
<1>17. ASSUME NEW j \in Jobs, Execve(j) \/ \E code \in Codes, heirs \in BOOLEAN : Exit(j, code, heirs)
      PROVE  Serving' /\ \A i \in Jobs : JobInv(i)'
  <2>1. /\ child[j].at \in {"execve", "running"}
        /\ child'[j].at \in {"running", "exited"}
        /\ \A i \in Jobs \ {j} : child'[i] = child[i]
    <3>1. CASE ChildGo(j, "running") /\ child[j].at = "execve"
      BY ZenonT(30), <1>0, <3>1, ChildGoes DEF ChildMoved
    <3>2. CASE /\ child' = [child EXCEPT ![j] = [at |-> "exited", status |-> Killed, heirs |-> FALSE]]
               /\ child[j].at = "execve"
      BY <1>0, <3>2 DEF TypeOK
    <3>3. ASSUME NEW code \in Codes, NEW heirs \in BOOLEAN, Exit(j, code, heirs)
          PROVE  /\ child[j].at \in {"execve", "running"}
                 /\ child'[j].at \in {"running", "exited"}
                 /\ \A i \in Jobs \ {j} : child'[i] = child[i]
      BY <1>0, <3>3 DEF TypeOK, Exit
    <3> QED
      BY ZenonT(30), <1>17, <3>1, <3>2, <3>3 DEF Execve
  <2>2. /\ relay' = relay /\ requests' = requests /\ children' = children /\ started' = started
        /\ control' = control
        /\ \A i \in Jobs \ {j} : inherited'[i] = inherited[i]
        /\ server' = server \/ (server.at = "wait" /\ server' = [server EXCEPT !.at = "open"])
    BY <1>0, <1>17 DEF TypeOK, Execve, Exit, ExitSignal, pipes
  <2>3. server.at \in {"control", "wait", "open", "aborted"} => server.job # j
    BY <1>0, <2>1 DEF Serving
  <2>4. server'.job = server.job /\ (server'.at = server.at \/ (server.at = "wait" /\ server'.at = "open"))
    BY <1>0, <2>2 DEF TypeOK
  <2>5. server.job \in Jobs
    BY <1>0 DEF TypeOK
  <2>6. \A i \in Jobs : Held(i) <=> Held(i)'
    BY <2>2, <2>3, <2>4, <2>5 DEF Held
  <2>7. Serving'
    BY <1>0, <2>1, <2>2, <2>3, <2>4, <2>5, ZenonT(30) DEF Serving
  <2>8. ASSUME NEW i \in Jobs, i # j
        PROVE  JobInv(i)'
    BY <1>0, <2>1, <2>2, <2>6, <2>8, Frame, ZenonT(30)
  <2>9. JobInv(j)'
    BY <1>0, <2>1, <2>2, <2>6
       DEF JobInv, Fresh, Kept, Ordered, Blamed, Control, Early, Late, Execs, Reply
  <2> QED
    BY <2>7, <2>8, <2>9
<1>18. ASSUME NEW j \in Jobs, Reap(j)
      PROVE  Serving' /\ \A i \in Jobs : JobInv(i)'
  <2>1. ChildMoved(j, "reaped")
    BY <1>0, <1>18, ChildGoes DEF Reap
  <2>2. relay[j].at \in Late => control[j] = <<>>
    BY <1>0, <1>18, ZenonT(30) DEF JobInv, Control, Reap
  <2>3. relay[j].at \in Late => control'[j] = <<Reply(j)>>
    BY <1>0, <1>18, <2>2, OneMessage DEF TypeOK, Reap, Reply
  <2>4. \A i \in Jobs \ {j} : control'[i] = control[i]
    BY <1>0, <1>18 DEF TypeOK, Reap
  <2>5. relay[j].at \in Late \cup {"aborted"}
    BY <1>0, <1>18, ZenonT(30) DEF JobInv, Ordered, Execs, Reap
  <2>6. \A i \in Jobs \ {j} : Held(i) <=> Held(i)'
    BY <1>18 DEF Held, Reap
  <2>7. Serving'
    BY <1>0, <1>18 DEF Serving, TypeOK, Reap
  <2>8. ASSUME NEW i \in Jobs, i # j
        PROVE  JobInv(i)'
    BY <1>0, <1>18, <2>1, <2>4, <2>6, <2>8, Frame, ZenonT(30) DEF TypeOK, ChildMoved, Reap
  <2>9. JobInv(j)'
    BY <1>0, <1>18, <2>1, <2>3, <2>5
       DEF TypeOK, JobInv, Fresh, Kept, Ordered, Blamed, Control, ChildMoved, Reap, Early, Late,
           Execs, Reply
  <2> QED
    BY <2>7, <2>8, <2>9
<1>19. ASSUME NEW j \in Jobs, Relay(j)
      PROVE  Serving' /\ \A i \in Jobs : JobInv(i)'
  <2> DEFINE r == relay[j]
             o == r.out /\ ~(out[j] = 0 /\ Ended(j))
             c == r.control /\ ~(control[j] = <<>> /\ ControlEnded(j))
             p == r.replied \/ control[j] # <<>>
  <2>1. control[j] = <<>> \/ control[j] = <<Reply(j)>>
    BY <1>0, <1>19, ZenonT(30) DEF JobInv, Control, Relay, Late
  <2>2. ~c => p
    <3>1. CASE ~r.control
      BY <1>0, <3>1, ZenonT(30) DEF JobInv, Control
    <3>2. CASE control[j] = <<>> /\ ControlEnded(j)
      <4>1. ~Held(j)
        BY <1>0, <3>2 DEF TypeOK, Held, ControlEnded
      <4>2. child[j].at = "reaped"
        BY <1>0, <1>19, <4>1, ZenonT(30) DEF JobInv, Kept, Control, Relay, Late
      <4>3. r.replied
        BY <1>0, <1>19, <3>2, <4>2, OneMessage, ZenonT(30) DEF JobInv, Control, Relay, Late
      <4> QED
        BY <4>3
    <3> QED
      BY <3>1, <3>2
  <2>3. /\ relay'[j].at = IF o \/ c THEN "relay" ELSE "done"
        /\ relay'[j].control = c
        /\ relay'[j].replied = p
        /\ relay'[j].code = IF control[j] # <<>> THEN WEXITSTATUS(child[j].status) ELSE r.code
        /\ relay'[j].cut = r.cut
        /\ relay'[j].lost = r.lost
        /\ \A i \in Jobs \ {j} : relay'[i] = relay[i]
    <3>1. r = [at |-> r.at, out |-> r.out, err |-> r.err, control |-> r.control,
               replied |-> r.replied, code |-> r.code, cut |-> r.cut, lost |-> r.lost]
      BY <1>0 DEF TypeOK, RelayType
    <3>2. ~(Len(control[j]) > 1)
      <4>1. CASE control[j] = <<>>
        BY <4>1
      <4>2. CASE control[j] = <<Reply(j)>>
        BY <4>2, OneMessage
      <4> QED
        BY <2>1, <4>1, <4>2
    <3>3. control[j] # <<>> => Head(control[j])[2] = WEXITSTATUS(child[j].status)
      BY <2>1 DEF Reply
    <3>4. relay'[j] = [at |-> IF o \/ c THEN "relay" ELSE "done", out |-> o,
                       err |-> r.err /\ ~(err[j] = 0 /\ Ended(j)), control |-> c, replied |-> p,
                       code |-> IF control[j] # <<>> THEN Head(control[j])[2] ELSE r.code,
                       cut |-> r.cut, lost |-> r.lost]
      BY <1>0, <1>19, <2>2, <3>1, <3>2, ZenonT(30) DEF TypeOK, Relay, Relaying
    <3>5. \A i \in Jobs \ {j} : relay'[i] = relay[i]
      BY <1>0, <1>19 DEF TypeOK, Relay
    <3>6. /\ relay'[j].at = IF o \/ c THEN "relay" ELSE "done"
          /\ relay'[j].control = c /\ relay'[j].replied = p
          /\ relay'[j].code = IF control[j] # <<>> THEN Head(control[j])[2] ELSE r.code
          /\ relay'[j].cut = r.cut /\ relay'[j].lost = r.lost
      <4> HIDE DEF r, o, c, p
      <4> QED
        BY ONLY <3>4, SMTT(30)
    <3> QED
      BY <3>3, <3>5, <3>6, ZenonT(30)
  <2>4. \A i \in Jobs : Held(i) <=> Held(i)'
    BY <1>19, HeldStays DEF Relay
  <2>5. Serving'
    BY <1>0, <1>19, <2>3 DEF Serving, TypeOK, Relay
  <2>6. ASSUME NEW i \in Jobs, i # j
        PROVE  JobInv(i)'
    BY <1>0, <1>19, <2>3, <2>4, <2>6, Frame DEF TypeOK, Relay
  <2>7. JobInv(j)'
    <3>1. /\ child'[j] = child[j] /\ control'[j] = <<>>
          /\ requests' = requests /\ children' = children /\ started' = started
      BY <1>0, <1>19 DEF TypeOK, Relay
    <3>2. relay[j].at = "relay" /\ relay'[j].at \in {"relay", "done"}
      BY <1>19, <2>3 DEF Relay
    <3>3. Fresh(j)' /\ Kept(j)' /\ Ordered(j)' /\ Blamed(j)'
      <4>1. relay'[j].cut = relay[j].cut /\ relay'[j].lost = relay[j].lost
        BY <2>3, Zenon
      <4>2. JobInv(j) /\ (Held(j) <=> Held(j)')
        BY <1>0, <2>4
      <4> QED
        BY <3>1, <3>2, <4>1, <4>2 DEF JobInv, Fresh, Kept, Ordered, Blamed, Late
    <3>4. p => child[j].at = "reaped"
      BY <1>0, <2>1, <3>2, ZenonT(30) DEF JobInv, Control, Late
    <3>5. p => relay'[j].code = WEXITSTATUS(child[j].status)
      BY <1>0, <2>3, ZenonT(30) DEF JobInv, Control
    <3>6. child[j].at = "reaped" => p
      BY <1>0, <2>1, <3>2, OneMessage, ZenonT(30) DEF JobInv, Control, Late
    <3>7. relay'[j].at = "done" => p
      BY <2>2, <2>3
    <3>8. j \in started.parent
      BY <1>0, <3>2, ZenonT(30) DEF JobInv, Control, Late
    <3> HIDE DEF o, c, p
    <3>9. Control(j)'
      BY <2>2, <2>3, <3>1, <3>2, <3>4, <3>5, <3>6, <3>7, <3>8 DEF Control, Early, Late, Reply
    <3> QED
      BY <3>3, <3>9 DEF JobInv
  <2> QED
    BY <2>5, <2>6, <2>7
<1>20. ASSUME NEW j \in Jobs, j = server.job, ServerOpens
      PROVE  Serving' /\ \A i \in Jobs : JobInv(i)'
  <2>1. child[j].at # "none" /\ j \notin started.parent
    BY <1>0, <1>20 DEF Serving, ServerOpens
  <2>2. \A i \in Jobs \ {j} : Held(i) <=> Held(i)'
    BY <1>0, <1>20 DEF TypeOK, Held, ServerOpens
  <2>3. Serving'
    BY <1>0, <1>20, <2>1 DEF Serving, TypeOK, ServerOpens, pipes
  <2>4. ASSUME NEW i \in Jobs, i # j
        PROVE  JobInv(i)'
    BY <1>0, <1>20, <2>2, <2>4, Frame, ZenonT(30) DEF TypeOK, ServerOpens, pipes
  <2>5. JobInv(j)'
    BY <1>0, <1>20, <2>1
       DEF TypeOK, JobInv, Fresh, Kept, Ordered, Blamed, Control, ServerOpens, Early, Late, Execs,
           Reply, pipes
  <2> QED
    BY <2>3, <2>4, <2>5
<1>21. ASSUME NEW j \in Jobs, j = server.job, TellRelay
      PROVE  Serving' /\ \A i \in Jobs : JobInv(i)'
  <2>1. child[j].at # "none" /\ j \notin started.parent /\ j \in children
    BY <1>0, <1>21 DEF Serving, TellRelay
  <2>2. relay[j].at \in Early /\ control[j] = <<>>
    BY <1>0, <1>21, <2>1 DEF TypeOK, RelayType, JobInv, Control, TellRelay, Early, Late
  <2>3. control'[j] = <<Open>> /\ started'.parent = started.parent \cup {j}
    BY <1>0, <1>21, <2>2, OneMessage DEF TypeOK, TellRelay, Open
  <2>4. \A i \in Jobs : Held(i) <=> Held(i)'
    BY <1>0, <1>21 DEF TypeOK, Held, TellRelay
  <2>5. Serving'
    BY <1>0, <1>21 DEF Serving, TypeOK, TellRelay
  <2>6. ASSUME NEW i \in Jobs, i # j
        PROVE  JobInv(i)'
    BY <1>0, <1>21, <2>3, <2>4, <2>6, Frame, ZenonT(30) DEF TypeOK, TellRelay
  <2>7. JobInv(j)'
    BY <1>0, <1>21, <2>1, <2>2, <2>3
       DEF TypeOK, JobInv, Fresh, Kept, Held, Ordered, Blamed, Control, TellRelay, Early, Late,
           Execs, Reply
  <2> QED
    BY <2>5, <2>6, <2>7
<1>22. ASSUME NEW j \in Jobs, j = server.job, TellNobody
      PROVE  Serving' /\ \A i \in Jobs : JobInv(i)'
  <2>1. j \notin started.parent /\ children \subseteq inherited[j] \cup {j} /\ relay[j].cut
    BY <1>0, <1>22 DEF Serving, TellNobody, JobInv, Blamed
  <2>2. /\ relay' = relay /\ child' = child /\ requests' = requests /\ started' = started
        /\ inherited' = inherited /\ control' = control /\ children' = {}
        /\ server'.at = "aborted" /\ server'.job = j /\ server.at = "open"
    BY <1>0, <1>22 DEF TypeOK, TellNobody, pipes
  <2>3. Serving'
    BY <1>0, <1>22, <2>1, <2>2 DEF Serving
  <2>4. ASSUME NEW i \in Jobs, i # j
        PROVE  JobInv(i)'
    <3>1. Held(i) => Held(i)'
      BY <2>1, <2>2, <2>4 DEF Held
    <3> QED
      BY <1>0, <2>2, <3>1, Frame, ZenonT(30)
  <2>5. JobInv(j)'
    BY <1>0, <2>1, <2>2 DEF JobInv, Fresh, Kept, Ordered, Blamed, Control, Reply
  <2> QED
    BY <2>3, <2>4, <2>5
<1>23. ASSUME WaitForChild \/ Idle \/ ReapNothing \/ UNCHANGED vars
      PROVE  Serving' /\ \A i \in Jobs : JobInv(i)'
  <2>1. /\ relay' = relay /\ child' = child /\ requests' = requests /\ started' = started
        /\ children' = children /\ inherited' = inherited /\ control' = control
    BY <1>23 DEF WaitForChild, Idle, ReapNothing, vars, pipes
  <2>2. /\ server'.job = server.job
        /\ \/ server'.at = server.at
           \/ server.at = "wait" /\ server'.at = "open"
           \/ server.at \in {"idle", "reap"} /\ server'.at \in {"idle", "reap"}
    BY <1>0, <1>23 DEF TypeOK, WaitForChild, Idle, ReapNothing, vars
  <2>3. Serving'
    BY <1>0, <2>1, <2>2 DEF Serving
  <2>4. \A i \in Jobs : Held(i) <=> Held(i)'
    BY <2>1, <2>2 DEF Held
  <2>5. ASSUME NEW i \in Jobs
        PROVE  JobInv(i)'
    BY <1>0, <2>1, <2>4, Frame, ZenonT(30)
  <2> QED
    BY <2>3, <2>5
<1>24. server.job \in Jobs
    BY <1>0 DEF TypeOK
<1> QED
    BY <1>1, <1>2, <1>3, <1>4, <1>5, <1>6, <1>7, <1>8, <1>9, <1>10, <1>11, <1>12, <1>13, <1>14,
       <1>15, <1>16, <1>17, <1>18, <1>19, <1>20, <1>21, <1>22, <1>23, <1>24
       DEF Next, ServerStep, RelayStep, ChildStep, ProgramStep

-----------------------------------------------------------------------------
LEMMA Invariant == Spec => []IInv
<1> QED
    BY InvInit, InvStep, PTL DEF Spec

\* The variables of relay, child and server keep their types.
THEOREM TypeCorrect == Spec => []TypeOK
<1>1. IInv => TypeOK
    BY DEF IInv
<1> QED
    BY <1>1, Invariant, PTL

\* What the relay reads from the control pipe is what it asserts, for any number of
\* jobs on a core, whether or not SIGCHLD ends the server's wait for a child early
\* (lib.cpp:185, 318, 339): only a signal that cuts short a call of the relay itself
\* makes it abort, whatever that does to the server.
THEOREM AssertionsHold == Spec => []NoAssertionFails
<1>1. IInv => NoAssertionFails
    BY ZenonT(30) DEF IInv, Serving, JobInv, Blamed, NoAssertionFails
<1> QED
    BY <1>1, Invariant, PTL

\* A relay that exits does so with the status its own program exited with
\* (server.cpp:119, lib.cpp:358).
THEOREM StatusArrives == Spec => []StatusRelayed
<1>1. IInv => StatusRelayed
    BY ZenonT(30) DEF IInv, JobInv, Control, StatusRelayed
<1> QED
    BY <1>1, Invariant, PTL

-----------------------------------------------------------------------------
(* Standard output.                                                           *)

Gone == {"exited", "reaped"}

\* Nobody is left to write to the streams of the program.
Silent(j) == child[j].at \in Gone /\ ~child[j].heirs

\* The relay stops reading standard output when the pipe is empty and nobody is left
\* to write to it, or it never reads it; and it exits with the pipe empty.
Drained(j) ==
    /\ ~relay[j].out => out[j] = 0 /\ (j \in Redirected \/ Silent(j))
    /\ relay[j].at = "done" => out[j] = 0 /\ (~relay[j].out \/ relay[j].cut)

LEMMA EndedSilent ==
    ASSUME NEW j \in Jobs
    PROVE  Ended(j) <=> Silent(j)
<1>1. DOMAIN ChildStates = 1..10
    BY DEF ChildStates
<1>2. ChildAt(j, "exited") => child[j].at \in Gone
    BY <1>1 DEF ChildAt, Reached, ChildStates, Gone
<1>3. ChildStates[9] = "exited" /\ ChildStates[10] = "reaped"
    BY DEF ChildStates
<1>4. child[j].at \in Gone => ChildAt(j, "exited")
    BY <1>1, <1>3 DEF ChildAt, Reached, Gone
<1> QED
    BY <1>2, <1>4 DEF Ended, Silent

LEMMA DrainedInit ==
    ASSUME Init, NEW j \in Jobs
    PROVE  Drained(j)
BY DEF Init, Drained

LEMMA DrainedFrame ==
    ASSUME NEW j \in Jobs, Drained(j), relay'[j].out = relay[j].out, out'[j] = out[j],
           relay'[j].at = "done" => relay[j].at = "done", relay[j].cut => relay'[j].cut,
           Silent(j) => Silent(j)'
    PROVE  Drained(j)'
BY DEF Drained

LEMMA DrainedStep ==
    ASSUME IInv, [Next]_vars, \A j \in Jobs : Drained(j)
    PROVE  \A j \in Jobs : Drained(j)'
<1>0. TypeOK
    BY DEF IInv
<1>1. ASSUME NEW i \in Jobs, NEW j \in Jobs,
             \/ Request(j) \/ OpenControl(j) \/ OpenStdout(j) \/ OpenStderr(j) \/ ReadOpen(j)
             \/ OpenStdin(j) \/ SetLost(j) \/ InterruptOpen(j) \/ InterruptRead(j)
      PROVE  Drained(i)'
  <2>1. /\ relay'[i].out = relay[i].out
        /\ relay'[i].at = "done" => relay[i].at = "done"
        /\ relay[i].cut => relay'[i].cut
    <3>1. CASE \E at \in {"control", "stdout", "stderr", "reading", "aborted", "relay"} : RelayGo(j, at)
      BY <1>0, <3>1 DEF TypeOK, RelayType, RelayGo
    <3>2. CASE ReadOpen(j)
      <4>1. CASE RelayGo(j, "stdin")
        BY <1>0, <4>1 DEF TypeOK, RelayType, RelayGo
      <4>2. CASE relay' = [relay EXCEPT ![j].at = "aborted", ![j].lost = @ \cup {"stdin"}]
        BY <1>0, <4>2 DEF TypeOK, RelayType
      <4> QED
        BY <3>2, <4>1, <4>2 DEF ReadOpen
    <3>3. CASE \E at \in {"stdout", "stderr", "reading", "aborted", "relay"}, lost \in SUBSET Pipes :
                 Interrupted(j, at, lost)
      BY <1>0, <3>3 DEF TypeOK, RelayType, Interrupted
    <3> QED
      BY <1>1, <3>1, <3>2, <3>3, AfterOpen
         DEF Request, OpenControl, OpenStdout, OpenStderr, OpenStdin, SetLost, InterruptRead, Pipes
  <2>2. out' = out /\ child' = child
    BY <1>1 DEF Request, OpenControl, OpenStdout, OpenStderr, ReadOpen, OpenStdin, SetLost, InterruptOpen,
                InterruptRead, Interrupted, pipes
  <2> QED
    BY <2>1, <2>2, DrainedFrame DEF Silent
<1>2. ASSUME NEW i \in Jobs, NEW j \in Jobs,
             \/ ChildStep(j) \/ WriteErr(j) \/ HeirsExit(j) \/ Reap(j)
             \/ \E code \in Codes, heirs \in BOOLEAN : Exit(j, code, heirs)
      PROVE  Drained(i)'
  <2>1. relay' = relay /\ out' = out
    BY <1>2 DEF ChildStep, ReopenStdout, ReopenStderr, Started, ReopenStdin, WaitForParent, Execve,
                WriteErr, HeirsExit, Reap, Exit, pipes
  <2>2. Silent(i) => Silent(i)'
    <3>1. CASE ChildStep(j)
      BY <1>0, <3>1 DEF TypeOK, ChildType, ChildStep, ReopenStdout, ReopenStderr, Started, ReopenStdin,
                        WaitForParent, Execve, ChildGo, Silent, Gone
    <3>2. CASE WriteErr(j)
      BY <3>2 DEF WriteErr, Silent
    <3>3. CASE HeirsExit(j)
      BY <1>0, <3>3 DEF TypeOK, ChildType, HeirsExit, Silent, Gone
    <3>5. CASE Reap(j)
      BY <1>0, <3>5 DEF TypeOK, ChildType, Reap, ChildGo, Silent, Gone
    <3>4. ASSUME NEW code \in Codes, NEW heirs \in BOOLEAN, Exit(j, code, heirs)
          PROVE  Silent(i) => Silent(i)'
      BY <1>0, <3>4 DEF TypeOK, Exit, Silent, Gone
    <3> QED
      BY <1>2, <3>1, <3>2, <3>3, <3>4, <3>5
  <2> QED
    BY <2>1, <2>2, DrainedFrame
<1>3. ASSUME NEW i \in Jobs, NEW j \in Jobs, Fork(j)
      PROVE  Drained(i)'
  <2>1. relay' = relay /\ out' = out
    BY <1>3 DEF Fork
  <2>2. child[j].at = "none"
    BY <1>3 DEF IInv, JobInv, Fresh, Fork
  <2>3. Silent(i) => Silent(i)'
    BY <1>0, <1>3, <2>2 DEF TypeOK, ChildType, Fork, ChildGo, Silent, Gone
  <2> QED
    BY <2>1, <2>3, DrainedFrame
<1>4. ASSUME NEW i \in Jobs,
             \/ ServerOpens \/ WaitForChild \/ TellRelay \/ TellNobody \/ Idle \/ ReapNothing
             \/ UNCHANGED vars
      PROVE  Drained(i)'
  <2>1. relay' = relay /\ out' = out /\ child' = child
    BY <1>4 DEF ServerOpens, WaitForChild, TellRelay, TellNobody, Idle, ReapNothing, vars, pipes
  <2> QED
    BY <2>1, DrainedFrame DEF Silent
<1>5. ASSUME NEW i \in Jobs, NEW j \in Jobs, WriteOut(j)
      PROVE  Drained(i)'
  <2>1. relay' = relay /\ child' = child
    BY <1>5 DEF WriteOut
  <2>2. i # j => out'[i] = out[i]
    BY <1>0, <1>5 DEF TypeOK, WriteOut
  <2>3. relay[j].out /\ relay[j].at # "done"
    BY <1>5 DEF WriteOut, Writes, Drained, Silent, Gone
  <2>4. CASE i = j
    BY <2>1, <2>3, <2>4 DEF Drained
  <2>5. CASE i # j
    BY <2>1, <2>2, <2>5, DrainedFrame DEF Silent
  <2> QED
    BY <2>4, <2>5
<1>6. ASSUME NEW i \in Jobs, NEW j \in Jobs, i # j, Relay(j) \/ InterruptSelect(j)
      PROVE  Drained(i)'
  <2>1. relay'[i] = relay[i] /\ out'[i] = out[i] /\ child' = child
    BY <1>0, <1>6 DEF TypeOK, Relay, InterruptSelect, Interrupted, pipes
  <2> QED
    BY <2>1, DrainedFrame DEF Silent
<1>7. ASSUME NEW j \in Jobs, Relay(j)
      PROVE  Drained(j)'
  <2>1. /\ relay'[j].out = (relay[j].out /\ ~(out[j] = 0 /\ Ended(j)))
        /\ relay'[j].at = "done" => ~relay'[j].out
    BY <1>0, <1>7 DEF TypeOK, RelayType, Relay, Relaying
  <2>2. out'[j] = (IF relay[j].out /\ out[j] > 0 THEN out[j] - 1 ELSE out[j]) /\ child' = child
    BY <1>0, <1>7 DEF TypeOK, Relay
  <2>3. CASE relay'[j].out
    BY <2>1, <2>3 DEF Drained
  <2>4. CASE ~relay'[j].out /\ relay[j].out
    <3>1. out[j] = 0 /\ Silent(j)
      BY <2>1, <2>4, EndedSilent
    <3>2. out'[j] = 0 /\ Silent(j)'
      BY <2>2, <3>1 DEF Silent
    <3> QED
      BY <2>4, <3>2 DEF Drained
  <2>5. CASE ~relay'[j].out /\ ~relay[j].out
    BY <2>1, <2>2, <2>5 DEF Drained, Silent
  <2> QED
    BY <2>3, <2>4, <2>5
<1>8. ASSUME NEW j \in Jobs, InterruptSelect(j)
      PROVE  Drained(j)'
  <2>1. out' = out /\ child' = child /\ relay'[j].out = relay[j].out /\ relay'[j].cut
    BY <1>0, <1>8 DEF TypeOK, RelayType, InterruptSelect, Interrupted, pipes
  <2>2. out[j] = 0
    <3>1. CASE relay[j].out
      BY <1>0, <1>8, <3>1 DEF TypeOK, InterruptSelect, Ready
    <3>2. CASE ~relay[j].out
      BY <3>2 DEF Drained
    <3> QED
      BY <3>1, <3>2
  <2> QED
    BY <2>1, <2>2 DEF Drained, Silent
<1> QED
    BY <1>1, <1>2, <1>3, <1>4, <1>5, <1>6, <1>7, <1>8, ZenonT(30)
       DEF Next, ServerStep, RelayStep, Interrupt, ProgramStep

\* A relay that exits has read everything that its program, and those it has left
\* behind, wrote to standard output, however the program's exit and the reply on the
\* control pipe are ordered (lib.cpp:233); and unless a signal has ended its loop
\* nobody is left to write more.
THEOREM OutputArrives == Spec => []OutputRelayed
<1> DEFINE OutInv == \A j \in Jobs : Drained(j)
<1>1. Init => OutInv
    BY DrainedInit
<1>2. IInv /\ OutInv /\ [Next]_vars => OutInv'
    BY DrainedStep
<1>3. OutInv => OutputRelayed
    BY EndedSilent DEF Drained, OutputRelayed
<1> HIDE DEF OutInv
<1> QED
    BY <1>1, <1>2, <1>3, Invariant, PTL DEF Spec
=============================================================================
