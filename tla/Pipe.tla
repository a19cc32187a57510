-------------------------------- MODULE Pipe --------------------------------
(***************************************************************************)
(* A pipe of the file system, made by pipe2 with O_EXCL: the server keeps    *)
(* only how many bytes are in it (Pipe in sys/fs/file.cpp), and the          *)
(* processes that share it (sys/fs/lib/pipe.cpp) ask for bytes until they    *)
(* come.  It is used as a pool of tokens, as the one of a parallel make: a   *)
(* process reads a token before a job and writes it back after it.           *)
(*                                                                           *)
(* A request with its handler and its answer is one step.  Closing an end    *)
(* tells the server nothing (pipe.cpp:115), so the server has both ends open *)
(* for ever.                                                                 *)
(***************************************************************************)
EXTENDS Integers, FiniteSetsExt

CONSTANTS
    Procs,
    Tokens,       \* bytes that are in the pipe at first
    Reads,        \* Reads[p]: byte counts that the process reads and
    Writes,       \* byte counts that processes write
    Handled,      \* Handled[p]: signals for which the process has a handler
    Chunk,        \* FS_CHUNK_SIZE
    Slots         \* descriptors of a process that share the entry of the read end

Signals == {"SIGCHLD", "SIGALRM", "SIGTERM"}

ASSUME PipeAssumption ==
    /\ Tokens \in Nat
    /\ Chunk \in Nat \ {0} /\ Slots \in Nat \ {0}
    /\ Handled \in [Procs -> SUBSET Signals]
    /\ Reads \in [Procs -> SUBSET (Nat \ {0})] /\ Writes \subseteq Nat \ {0}

VARIABLES
    size,         \* Pipe::m_size at the server
    proc          \* proc[p]: where the process is, and its pipe object

vars == <<size, proc>>

EAGAIN == -11

Lesser(a, b) == IF a < b THEN a ELSE b

\* The signals whose handlers __rt_sigaction replaces.  SIGTERM stands for the others,
\* and for handlers with flags, which it leaves alone.
Trampoline == {"SIGCHLD", "SIGALRM"}

Init ==
    /\ size = Tokens
    /\ proc = [p \in Procs |->
                  [at |-> "idle",         \* "idle", "read", "write", "undefined", "aborted"
                   count |-> 0,           \* what it asked for and
                   done |-> 0,            \* read_count, written
                   held |-> 0,            \* tokens it has
                   num_fd |-> Slots,      \* descriptors of the entry
                   deleted |-> FALSE,     \* the entry's Pipe has been deleted
                   interrupted |-> FALSE, \* g_interrupted
                   signalled |-> FALSE]]  \* a handler has run during the call

-----------------------------------------------------------------------------
(* The server: Pipe::read, with FilesystemServer::read around it.             *)

\* Mutant: the server waits until it has all that is asked for.
ServerReadWhole(count) ==
    IF size >= count THEN count ELSE EAGAIN

ServerRead(count) ==
    IF size > 0 THEN Lesser(count, size) ELSE EAGAIN

-----------------------------------------------------------------------------
(* The processes.                                                             *)

ReadBegin(p, count) ==
    /\ proc[p].at = "idle"
    /\ proc[p].num_fd > 0
    /\ proc' = [proc EXCEPT ![p].at = "read", ![p].count = count, ![p].done = 0]
    /\ UNCHANGED size

Returns(p) == [proc[p] EXCEPT !.at = "idle", !.count = 0, !.done = 0, !.signalled = FALSE]

\* Mutant: the read is tried again also after a signal.
RetryAlways(p) == proc' = proc

\* Mutant: the read starts again.
RetryFromStart(p) ==
    proc' = [proc EXCEPT ![p] =
                IF ~@.interrupted THEN [@ EXCEPT !.done = 0]
                ELSE IF @.done # 0 THEN [@ EXCEPT !.at = "aborted"]
                ELSE [Returns(p) EXCEPT !.interrupted = FALSE]]

\* -EAGAIN: ask again, unless a signal has come.
Retry(p) ==
    proc' = [proc EXCEPT ![p] =
                IF ~@.interrupted THEN @
                ELSE IF @.done # 0 THEN [@ EXCEPT !.at = "aborted"]
                ELSE [Returns(p) EXCEPT !.interrupted = FALSE]]

\* One turn of Pipe::read.  The members of a deleted Pipe can be anything.
Read(p) ==
    LET r == proc[p]
        answer == ServerRead(Lesser(r.count - r.done, Chunk))
        done == r.done + answer
    IN
    /\ r.at = "read"
    /\ IF r.deleted THEN proc' = [proc EXCEPT ![p].at = "undefined"] /\ UNCHANGED size
       ELSE IF answer = EAGAIN THEN Retry(p) /\ UNCHANGED size
       ELSE /\ proc' = [proc EXCEPT ![p] = IF done < r.count THEN [@ EXCEPT !.done = done]
                                          ELSE [Returns(p) EXCEPT !.held = @ + done]]
            /\ size' = size - answer

WriteBegin(p, count) ==
    /\ proc[p].at = "idle"
    /\ proc[p].held >= count
    /\ proc' = [proc EXCEPT ![p].at = "write", ![p].count = count, ![p].done = 0]
    /\ UNCHANGED size

\* One turn of Pipe::write; the server takes all that is sent.
Write(p) ==
    LET r == proc[p]
        sent == Lesser(r.count - r.done, Chunk)
        done == r.done + sent
    IN
    /\ r.at = "write"
    /\ size' = size + sent
    /\ proc' = [proc EXCEPT ![p] =
                   IF done < r.count THEN [@ EXCEPT !.done = done, !.held = @ - sent]
                   ELSE [Returns(p) EXCEPT !.held = @ - sent]]

\* close: the Pipe is deleted with the last descriptor of its entry.
Close(r) == [r EXCEPT !.num_fd = @ - 1, !.deleted = r.num_fd = 1]

\* A signal between two instructions of the process.  Its handler, which runs
\* before g_interrupted is set, may close a descriptor of the read end.
Signal(p, sig, closes) ==
    LET r == [proc[p] EXCEPT !.interrupted = @ \/ sig \in Trampoline,
                             !.signalled = @ \/ proc[p].at # "idle"]
    IN
    /\ sig \in Handled[p]
    /\ proc[p].at \in {"idle", "read", "write"}
    /\ closes => proc[p].num_fd > 0
    /\ proc' = [proc EXCEPT ![p] = IF closes THEN Close(r) ELSE r]
    /\ UNCHANGED size

-----------------------------------------------------------------------------
ProcStep(p) == Read(p) \/ Write(p)

Next ==
    \E p \in Procs :
        \/ ProcStep(p)
        \/ \E count \in Reads[p] : ReadBegin(p, count)
        \/ \E count \in Writes : WriteBegin(p, count)
        \/ \E sig \in Signals, closes \in BOOLEAN : Signal(p, sig, closes)

\* A call goes on, and servers answer; when processes read, write and are
\* interrupted is open.
Spec == Init /\ [][Next]_vars /\ \A p \in Procs : WF_vars(ProcStep(p))

-----------------------------------------------------------------------------
(* Properties.                                                                *)

TypeOK ==
    /\ size \in 0..Tokens
    /\ proc \in [Procs -> [at : {"idle", "read", "write", "undefined", "aborted"},
                           count : 0..Tokens, done : 0..Tokens, held : 0..Tokens,
                           num_fd : 0..Slots, deleted : BOOLEAN, interrupted : BOOLEAN,
                           signalled : BOOLEAN]]
    /\ \A p \in Procs : proc[p].done <= proc[p].count

Taken(p) == proc[p].held + IF proc[p].at = "write" THEN 0 ELSE proc[p].done

\* A token is in the pipe, with a process that has read it, or with one that is
\* still reading: two readers of one byte do not both get it, and an interrupted read
\* loses none (pipe.cpp:56-80, file.cpp:360-371).  Tokens are lost only with a
\* process that aborts, and it does so only in the middle of a read of several bytes,
\* when a signal has come during the read or before it: the assertion fails that it
\* has read nothing (pipe.cpp:69).
TokensConserved ==
    /\ size + MapThenSumSet(Taken, Procs) = Tokens
    /\ \A p \in Procs : proc[p].at = "aborted" => proc[p].count > 1 /\ proc[p].done > 0

\* "That close call needs to turn this read into an EBADF" (pipe.cpp:37-44): a read
\* goes on with a pipe that exists, also when a handler has closed it.  The code does
\* not have this property: with the last descriptor the pipe is deleted
\* (close.c:26, file_wrapper.cpp:82), and the read then looks into it.
NoUseAfterDelete == \A p \in Procs : proc[p].at # "undefined"

\* A signal that comes while bytes are being read does not fail the assertion that
\* there are none.  The code does not have this property (pipe.cpp:69).
NoAbort == \A p \in Procs : proc[p].at # "aborted"

\* A signal whose handler is wrapped ends a read, one that waits as one that is being
\* answered (signal.c:13, pipe.cpp:65).
InterruptEndsRead ==
    \A p \in Procs : proc[p].at = "read" /\ proc[p].interrupted ~> proc[p].at # "read"

\* Any signal that is handled ends a read, as tests/signals.cpp:38-39 asserts of SIGTERM.
\* The code does not have this property: it wraps the handlers of two signals only.
SignalEndsRead ==
    \A p \in Procs : proc[p].at = "read" /\ proc[p].signalled ~> proc[p].at # "read"

\* No process reads for ever while there are tokens, however many bytes it wants and
\* whoever else reads: bytes are handed out one request at a time (file.cpp:360).
ReadersProgress == \A p \in Procs : []<>(proc[p].at # "read" \/ size = 0)
=============================================================================
