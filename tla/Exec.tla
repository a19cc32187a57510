-------------------------------- MODULE Exec --------------------------------
(***************************************************************************)
(* A program is executed on another core: a process asks the scheduler's     *)
(* server there (sys/sched/server.cpp) for it and becomes a relay between    *)
(* its own streams and those of the program (fosExec in                      *)
(* sys/sched/lib/lib.cpp).  Server, child and relay meet over four named     *)
(* pipes of the host, opening which blocks until the other end is opened,    *)
(* two futexes, SIGCHLD and waitpid.                                         *)
(*                                                                           *)
(* A job is a relay with the child that is forked for it.  Host calls are    *)
(* atomic.  The relay's own output can always be written.                    *)
(*                                                                           *)
(* A relay never leaves the program that asked for the execution, so that    *)
(* the signal handlers of that program stay installed.  A signal that one of *)
(* them handles cuts short the host call in which the relay blocks.          *)
(***************************************************************************)
EXTENDS Naturals, Sequences, FiniteSets

CONSTANTS
    Jobs,
    Bad,          \* jobs whose execve may fail
    Redirected,   \* jobs whose standard output is a file of the file system
    Leaving,      \* jobs whose program may leave processes behind
    Handling,     \* jobs whose relay handles signals
    Codes,        \* exit statuses
    MaxChunks     \* PIPE_CHUNK_SIZE pieces that fit into a pipe

ASSUME ExecAssumption ==
    /\ Bad \subseteq Jobs /\ Redirected \subseteq Jobs
    /\ Leaving \subseteq Jobs /\ Handling \subseteq Jobs
    /\ 0 \in Codes /\ Codes \subseteq Nat
    /\ MaxChunks \in Nat

VARIABLES
    relay,        \* relay[j]: where fosExec is, and what it has seen
    child,        \* child[j]: where the child is, its exit status, whether
                  \* processes that it has left behind have its streams
    server,       \* where the server is, and for which job
    requests,     \* EXEC requests that the server has not taken
    children,     \* m_children: jobs whose control pipe the server has open
    exited,       \* g_child_exited
    started,      \* exec_shared->child_started, parent_started
    control,      \* control[j]: what is in the control pipe
    inherited,    \* control pipes the child has from the server until it executes
    out, err      \* pieces in the pipes of standard output and error

vars == <<relay, child, server, requests, children, exited, started, control, inherited, out, err>>
pipes == <<control, inherited, out, err>>

RelayStates == <<"new", "control", "stdout", "stderr", "reading", "stdin", "relay", "done", "aborted">>
ChildStates == <<"none", "stdout", "stderr", "started", "stdin", "wait", "execve", "running", "exited", "reaped">>
ServerStates == {"idle", "control", "wait", "open", "reap", "aborted"}
Pipes == {"control", "stdout", "stderr", "stdin"}

\* Statuses as waitpid gives them: the exit status in the second byte, or SIGABRT.
Killed == 6
WaitStatus(code) == 256 * code
WEXITSTATUS(status) == status \div 256

Reached(states, state, goal) ==
    \E i, k \in DOMAIN states : states[i] = goal /\ states[k] = state /\ i <= k
RelayAt(j, goal) == Reached(RelayStates, relay[j].at, goal)
ChildAt(j, goal) == Reached(ChildStates, child[j].at, goal)

\* The relay has opened the pipe or is opening it.
RelayHas(j, pipe) == RelayAt(j, pipe) /\ pipe \notin relay[j].lost

Init ==
    /\ relay = [j \in Jobs |-> [at |-> "new", out |-> j \notin Redirected, err |-> TRUE,
                                control |-> TRUE, replied |-> FALSE, code |-> 0,
                                cut |-> FALSE, lost |-> {}]]
    /\ child = [j \in Jobs |-> [at |-> "none", status |-> 0, heirs |-> FALSE]]
    /\ server \in {[at |-> "idle", job |-> j] : j \in Jobs}
    /\ requests = {}
    /\ children = {}
    /\ exited = FALSE
    /\ started = [child |-> {}, parent |-> {}]
    /\ control = [j \in Jobs |-> <<>>]
    /\ inherited = [j \in Jobs |-> {}]
    /\ out = [j \in Jobs |-> 0]
    /\ err = [j \in Jobs |-> 0]

-----------------------------------------------------------------------------
(* The relay: fosExec.                                                        *)

RelayGo(j, at) == relay' = [relay EXCEPT ![j].at = at]

Request(j) ==
    /\ relay[j].at = "new"
    /\ RelayGo(j, "control")
    /\ requests' = requests \cup {j}
    /\ UNCHANGED <<child, server, children, exited, started, pipes>>

\* Opening a pipe returns when its other end has been opened, or is being opened.
OtherEnd(j, pipe) ==
    IF pipe = "control" THEN server = [at |-> "control", job |-> j] \/ j \in children
    ELSE ChildAt(j, pipe)

OpenControl(j) ==
    /\ relay[j].at = "control"
    /\ OtherEnd(j, "control")
    /\ RelayGo(j, "stdout")
    /\ UNCHANGED <<child, server, requests, children, exited, started, pipes>>

OpenStdout(j) ==
    /\ relay[j].at = "stdout"
    /\ OtherEnd(j, "stdout")
    /\ RelayGo(j, "stderr")
    /\ UNCHANGED <<child, server, requests, children, exited, started, pipes>>

OpenStderr(j) ==
    /\ relay[j].at = "stderr"
    /\ OtherEnd(j, "stderr")
    /\ RelayGo(j, "reading")
    /\ UNCHANGED <<child, server, requests, children, exited, started, pipes>>

\* A read returns all that is in the pipe, and fails when the pipe has not been
\* opened; the assertions are on what it has read.
ReadOpen(j) ==
    /\ relay[j].at = "reading"
    /\ control[j] # <<>> \/ "control" \in relay[j].lost
    /\ IF control[j] = <<<<"open", 0>>>> THEN RelayGo(j, "stdin")
       ELSE relay' = [relay EXCEPT ![j].at = "aborted", ![j].lost = @ \cup {"stdin"}]
    /\ control' = [control EXCEPT ![j] = <<>>]
    /\ UNCHANGED <<child, server, requests, children, exited, started, inherited, out, err>>

OpenStdin(j) ==
    /\ relay[j].at = "stdin"
    /\ OtherEnd(j, "stdin")
    /\ RelayGo(j, "relay")
    /\ UNCHANGED <<child, server, requests, children, exited, started, pipes>>

\* No process has the other end open for writing.
Ended(j) == ChildAt(j, "exited") /\ ~child[j].heirs
ControlEnded(j) == j \notin children /\ \A k \in Jobs : j \notin inherited[k]

\* The select of the loop returns.  In a pipe that the relay has failed to open
\* there is never anything, for the child still waits to open it.
Ready(j) ==
    \/ relay[j].out /\ (out[j] > 0 \/ Ended(j))
    \/ relay[j].err /\ (err[j] > 0 \/ Ended(j))
    \/ relay[j].control /\ (control[j] # <<>> \/ ControlEnded(j))

\* Mutant: the loop ends with the reply, whatever is left to read.
RelayingUntilReply(r) == ~r.replied

\* One turn of the loop: of every pipe that has something, one piece is read.
Relaying(r) == r.out \/ r.control

Relay(j) ==
    LET r == relay[j]
        reads == [r EXCEPT
            !.out = @ /\ ~(out[j] = 0 /\ Ended(j)),
            !.err = @ /\ ~(err[j] = 0 /\ Ended(j)),
            !.control = @ /\ ~(control[j] = <<>> /\ ControlEnded(j)),
            !.replied = @ \/ control[j] # <<>>,
            !.code = IF control[j] # <<>> THEN Head(control[j])[2] ELSE @]
    IN
    /\ r.at = "relay"
    /\ Relaying(r)
    /\ Ready(j)
    /\ relay' = [relay EXCEPT ![j] = [reads EXCEPT
           !.at = IF Len(control[j]) > 1 THEN "aborted"
                  ELSE IF Relaying(reads) THEN "relay"
                  ELSE IF reads.replied THEN "done" ELSE "aborted"]]
    /\ out' = [out EXCEPT ![j] = IF r.out /\ @ > 0 THEN @ - 1 ELSE @]
    /\ err' = [err EXCEPT ![j] = IF r.err /\ @ > 0 THEN @ - 1 ELSE @]
    /\ control' = [control EXCEPT ![j] = <<>>]
    /\ UNCHANGED <<child, server, requests, children, exited, started, inherited>>

\* FD_SET of a descriptor that an open has failed to return is undefined.  It does
\* nothing, or the C library's check of it aborts the relay.
SetLost(j) ==
    /\ relay[j].at = "relay"
    /\ \/ relay[j].out /\ "stdout" \in relay[j].lost
       \/ relay[j].err /\ "stderr" \in relay[j].lost
    /\ RelayGo(j, "aborted")
    /\ UNCHANGED <<child, server, requests, children, exited, started, pipes>>

\* A signal cuts short what blocks the relay: no call is tried again.  A pipe whose
\* opening fails stays closed.
Interrupted(j, at, lost) ==
    /\ j \in Handling
    /\ relay' = [relay EXCEPT ![j].at = at, ![j].cut = TRUE, ![j].lost = @ \cup lost]
    /\ UNCHANGED <<child, server, requests, children, exited, started, pipes>>

InterruptOpen(j) ==
    /\ relay[j].at \in Pipes
    /\ ~OtherEnd(j, relay[j].at)
    /\ \E i \in DOMAIN RelayStates :
         /\ RelayStates[i] = relay[j].at
         /\ Interrupted(j, RelayStates[i + 1], {relay[j].at})

\* The assertion behind the read of "open" fails, and standard input is not opened.
InterruptRead(j) ==
    /\ relay[j].at = "reading"
    /\ control[j] = <<>> /\ "control" \notin relay[j].lost
    /\ Interrupted(j, "aborted", {"stdin"})

\* An error of select ends the loop, and the assertion behind it is on the reply.
InterruptSelect(j) ==
    /\ relay[j].at = "relay"
    /\ ~Ready(j)
    /\ Interrupted(j, IF relay[j].replied THEN "done" ELSE "aborted", {})

-----------------------------------------------------------------------------
(* The child, from fork to exit.                                              *)

ChildGo(j, at) == child' = [child EXCEPT ![j].at = at]

ReopenStdout(j) ==
    /\ child[j].at = "stdout"
    /\ RelayHas(j, "stdout")
    /\ ChildGo(j, "stderr")
    /\ UNCHANGED <<relay, server, requests, children, exited, started, pipes>>

ReopenStderr(j) ==
    /\ child[j].at = "stderr"
    /\ RelayHas(j, "stderr")
    /\ ChildGo(j, "started")
    /\ UNCHANGED <<relay, server, requests, children, exited, started, pipes>>

Started(j) ==
    /\ child[j].at = "started"
    /\ ChildGo(j, "stdin")
    /\ started' = [started EXCEPT !.child = @ \cup {j}]
    /\ UNCHANGED <<relay, server, requests, children, exited, pipes>>

\* Mutant: standard input is not opened before the program runs.
ReopenStdinLater(j) ==
    /\ child[j].at = "stdin"
    /\ ChildGo(j, "wait")
    /\ UNCHANGED <<relay, server, requests, children, exited, started, pipes>>

ReopenStdin(j) ==
    /\ child[j].at = "stdin"
    /\ RelayHas(j, "stdin")
    /\ ChildGo(j, "wait")
    /\ UNCHANGED <<relay, server, requests, children, exited, started, pipes>>

\* FUTEX_WAIT returns at once when the flag is set already.
WaitForParent(j) ==
    /\ child[j].at = "wait"
    /\ j \in started.parent
    /\ ChildGo(j, "execve")
    /\ UNCHANGED <<relay, server, requests, children, exited, started, pipes>>

\* SIGCHLD sets the flag, and may interrupt the server's FUTEX_WAIT: whether it
\* is restarted depends on sa_flags, which is never set (server.cpp:80).
ExitSignal ==
    /\ exited' = TRUE
    /\ \/ server.at = "wait" /\ server' = [server EXCEPT !.at = "open"]
       \/ UNCHANGED server

\* The control pipes are opened with O_CLOEXEC.  When execve fails, the assertion
\* behind it kills the child.
Execve(j) ==
    /\ child[j].at = "execve"
    /\ inherited' = [inherited EXCEPT ![j] = {}]
    /\ \/ ChildGo(j, "running") /\ UNCHANGED <<server, exited>>
       \/ /\ j \in Bad
          /\ child' = [child EXCEPT ![j] = [at |-> "exited", status |-> Killed, heirs |-> FALSE]]
          /\ ExitSignal
    /\ UNCHANGED <<relay, requests, children, started, control, out, err>>

\* The program and those it has left behind write while there is a relay to read.
Writes(j) ==
    /\ child[j].at = "running" \/ child[j].heirs
    /\ relay[j].at \notin {"done", "aborted"}

WriteOut(j) ==
    /\ Writes(j)
    /\ j \notin Redirected
    /\ out[j] < MaxChunks
    /\ out' = [out EXCEPT ![j] = @ + 1]
    /\ UNCHANGED <<relay, child, server, requests, children, exited, started, control, inherited, err>>

WriteErr(j) ==
    /\ Writes(j)
    /\ err[j] < MaxChunks
    /\ err' = [err EXCEPT ![j] = @ + 1]
    /\ UNCHANGED <<relay, child, server, requests, children, exited, started, control, inherited, out>>

Exit(j, code, heirs) ==
    /\ child[j].at = "running"
    /\ heirs => j \in Leaving
    /\ child' = [child EXCEPT ![j] = [at |-> "exited", status |-> WaitStatus(code), heirs |-> heirs]]
    /\ ExitSignal
    /\ UNCHANGED <<relay, requests, children, started, pipes>>

HeirsExit(j) ==
    /\ child[j].heirs
    /\ child' = [child EXCEPT ![j].heirs = FALSE]
    /\ UNCHANGED <<relay, server, requests, children, exited, started, pipes>>

-----------------------------------------------------------------------------
(* The server: SchedServer::exec and idle.                                    *)

\* fork: the child has copies of the control pipes that the server has open.
Fork(j) ==
    /\ server.at = "idle"
    /\ j \in requests
    /\ requests' = requests \ {j}
    /\ ChildGo(j, "stdout")
    /\ inherited' = [inherited EXCEPT ![j] = children]
    /\ server' = [at |-> "control", job |-> j]
    /\ UNCHANGED <<relay, children, exited, started, control, out, err>>

ServerOpens ==
    /\ server.at = "control"
    /\ RelayHas(server.job, "control")
    /\ children' = children \cup {server.job}
    /\ server' = [server EXCEPT !.at = "wait"]
    /\ UNCHANGED <<relay, child, requests, exited, started, pipes>>

WaitForChild ==
    /\ server.at = "wait"
    /\ server.job \in started.child
    /\ server' = [server EXCEPT !.at = "open"]
    /\ UNCHANGED <<relay, child, requests, children, exited, started, pipes>>

TellRelay ==
    /\ server.at = "open"
    /\ relay[server.job].at # "aborted"
    /\ control' = [control EXCEPT ![server.job] = Append(@, <<"open", 0>>)]
    /\ started' = [started EXCEPT !.parent = @ \cup {server.job}]
    /\ server' = [server EXCEPT !.at = "idle"]
    /\ UNCHANGED <<relay, child, requests, children, exited, inherited, out, err>>

\* The write fails when the relay has gone, and so does the server's assertion: the
\* control pipes that it has are closed.
TellNobody ==
    /\ server.at = "open"
    /\ relay[server.job].at = "aborted"
    /\ server' = [server EXCEPT !.at = "aborted"]
    /\ children' = {}
    /\ UNCHANGED <<relay, child, requests, exited, started, pipes>>

\* idle clears the flag and then reaps until there is nothing to reap.
Idle ==
    /\ server.at = "idle"
    /\ children # {} /\ exited
    /\ exited' = FALSE
    /\ server' = [server EXCEPT !.at = "reap"]
    /\ UNCHANGED <<relay, child, requests, children, started, pipes>>

\* Mutant: exec_rc is sent also when it is not set.
ReapUnset(j) ==
    /\ server.at = "reap"
    /\ child[j].at = "exited"
    /\ ChildGo(j, "reaped")
    /\ control' = [control EXCEPT ![j] = Append(@, <<"reply", 0>>)]
    /\ children' = children \ {j}
    /\ UNCHANGED <<relay, server, requests, exited, started, inherited, out, err>>

\* Mutant: one child is reaped for a signal.
ReapOnce(j) ==
    /\ server.at = "reap"
    /\ child[j].at = "exited"
    /\ ChildGo(j, "reaped")
    /\ control' = [control EXCEPT ![j] = Append(@, <<"reply", WEXITSTATUS(child[j].status)>>)]
    /\ children' = children \ {j}
    /\ server' = [server EXCEPT !.at = "idle"]
    /\ UNCHANGED <<relay, requests, exited, started, inherited, out, err>>

\* cleanup_child: exec_rc is never set, so the reply is always CHILD_EXIT.
Reap(j) ==
    /\ server.at = "reap"
    /\ child[j].at = "exited"
    /\ ChildGo(j, "reaped")
    /\ control' = [control EXCEPT ![j] = Append(@, <<"reply", WEXITSTATUS(child[j].status)>>)]
    /\ children' = children \ {j}
    /\ UNCHANGED <<relay, server, requests, exited, started, inherited, out, err>>

ReapNothing ==
    /\ server.at = "reap"
    /\ \A j \in Jobs : child[j].at # "exited"
    /\ server' = [server EXCEPT !.at = "idle"]
    /\ UNCHANGED <<relay, child, requests, children, exited, started, pipes>>

-----------------------------------------------------------------------------
RelayStep(j) ==
    \/ OpenControl(j) \/ OpenStdout(j) \/ OpenStderr(j) \/ ReadOpen(j) \/ OpenStdin(j)
    \/ Relay(j) \/ SetLost(j)

Interrupt(j) == InterruptOpen(j) \/ InterruptRead(j) \/ InterruptSelect(j)

ChildStep(j) ==
    \/ ReopenStdout(j) \/ ReopenStderr(j) \/ Started(j) \/ ReopenStdin(j)
    \/ WaitForParent(j) \/ Execve(j)

ProgramStep(j) ==
    \/ WriteOut(j) \/ WriteErr(j)
    \/ \E code \in Codes, heirs \in BOOLEAN : Exit(j, code, heirs)
    \/ HeirsExit(j)

ServerStep ==
    \/ ServerOpens \/ WaitForChild \/ TellRelay \/ TellNobody
    \/ Idle \/ ReapNothing
    \/ \E j \in Jobs : Fork(j) \/ Reap(j)

Next ==
    \/ ServerStep
    \/ \E j \in Jobs :
         Request(j) \/ RelayStep(j) \/ Interrupt(j) \/ ChildStep(j) \/ ProgramStep(j)

\* The server's loop and the code of relay and child go on when they can; how
\* long a program runs is open.
Spec ==
    /\ Init
    /\ [][Next]_vars
    /\ WF_vars(ServerStep)
    /\ \A j \in Jobs : WF_vars(RelayStep(j)) /\ WF_vars(ChildStep(j))

-----------------------------------------------------------------------------
(* Properties.                                                                *)

Values(s) == {s[i] : i \in DOMAIN s}

RelayType ==
    [at : Values(RelayStates), out : BOOLEAN, err : BOOLEAN, control : BOOLEAN,
     replied : BOOLEAN, code : Codes, cut : BOOLEAN, lost : SUBSET Pipes]
ChildType ==
    [at : Values(ChildStates), status : {WaitStatus(c) : c \in Codes} \cup {Killed}, heirs : BOOLEAN]

TypeOK ==
    /\ relay \in [Jobs -> RelayType]
    /\ child \in [Jobs -> ChildType]
    /\ server \in [at : ServerStates, job : Jobs]
    /\ requests \subseteq Jobs
    /\ children \subseteq Jobs
    /\ exited \in BOOLEAN
    /\ started \in [child : SUBSET Jobs, parent : SUBSET Jobs]
    /\ control \in [Jobs -> Seq({"open", "reply"} \X Codes)]
    /\ inherited \in [Jobs -> SUBSET Jobs]
    /\ out \in [Jobs -> 0..MaxChunks]
    /\ err \in [Jobs -> 0..MaxChunks]

\* The relay's assertions on what it reads from the control pipe hold: first "open"
\* alone, then one reply, and a reply before the end (lib.cpp:185, 318, 339),
\* although the server may go on before the child has started.  They fail only in
\* a relay one of whose own calls a signal has cut short.  The server's assertion
\* that it can tell the relay (server.cpp:268) fails only when a signal has cut
\* short a call of the relay that it tells; the other relays do not abort with it.
NoAssertionFails ==
    /\ \A j \in Jobs : relay[j].at = "aborted" => relay[j].cut
    /\ server.at = "aborted" => relay[server.job].cut

\* No assertion fails, whatever signals the relays handle.  The code does not have
\* this property: an interrupted select leaves the loop (lib.cpp:326) for the
\* assertion that there has been a reply (lib.cpp:339).
SignalsSurvived == \A j \in Jobs : relay[j].at # "aborted"

\* The relay exits with the status the program exited with, also when a signal has
\* ended its loop (server.cpp:119, lib.cpp:358).
StatusRelayed == \A j \in Jobs : relay[j].at = "done" => relay[j].code = WEXITSTATUS(child[j].status)

\* "execve must have failed, now cleanup" (server.cpp:234): no relay exits normally
\* for a program that could not be executed.
ErrorReported == \A j \in Jobs : relay[j].at = "done" => child[j].status # Killed

\* When the relay exits it has read all that the program, and those it has left
\* behind, have written to standard output, and nobody is left to write more
\* (lib.cpp:233).  A signal may end the loop before those left behind have gone,
\* but not with pieces unread.  The loop does not wait for standard error, of which
\* pieces may be lost.
OutputRelayed ==
    \A j \in Jobs : relay[j].at = "done" =>
        /\ out[j] = 0
        /\ relay[j].cut \/ j \in Redirected \/ Ended(j)

\* The same of standard error.  The code does not have this property: the condition
\* of the loop (lib.cpp:233) leaves standard error out.
StderrRelayed == \A j \in Jobs : relay[j].at = "done" => err[j] = 0

\* A signal has cut short a call of this relay, or the opening of a pipe of some
\* relay: with that the server, or a child that has inherited control pipes, may
\* wait for ever.
Disturbed(j) == relay[j].cut \/ \E k \in Jobs : relay[k].lost # {}

\* A program that is asked for is started, and when it and those it has left behind
\* have exited its relay exits, whatever the other programs on that core do and
\* whenever signals end the loops of their relays.
ExecReturns ==
    \A j \in Jobs :
        /\ relay[j].at = "control" ~> ChildAt(j, "running") \/ Disturbed(j)
        /\ Ended(j) ~> relay[j].at = "done" \/ Disturbed(j)
=============================================================================
