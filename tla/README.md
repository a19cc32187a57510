# Verification of faux

faux ("Hare") is a file system and a set of system services for a many-core
machine without shared kernel state. Its parts are user-level processes, pinned
to cores, that exchange messages over rings in shared memory. This directory
holds TLA+ models of those parts, TLC runs that check them on small instances,
and TLAPS proofs that hold for every instance. Paths below are relative to
`src/`; `PROJECT.json` gives, for every definition, the lines it models.

## 1. The system

| part | sources | state | operations |
|---|---|---|---|
| channel ring | `messaging/include/channel.h` | head, tail, next, message headers | allocate, collect, send, poll, receive, free |
| endpoints | `messaging/channel.cpp` | endpoint tables, public channels | connect, accept, close |
| dispatcher, threads | `messaging/dispatch.cpp`, `messaging/threading.cpp` | channels, pending requests and responses, waiting threads | poll, process, request, receive, respond, notify |
| FS server | `sys/fs/server.cpp`, `marshall.cpp`, `file.cpp`, `buffer_cache.cpp` | inodes, entries, descriptors, orphans, who caches what, blocks | create, destroy, addmap, removemap, resolve, open, close, dup, read, write, lseek, truncate, blocks, flush, unlink, rmdir, symlink, pipe, direntry, attributes |
| FS client library | `sys/fs/lib/*.cpp` | directory cache, open files and their blocks, directory offsets | open, mkdir, unlink, rmdir, rename, symlink, lookup, read, write, getdents |
| process wrappers | `libs/basicp/*.c`, `libs/fd/fd.c` | descriptor slots and entries | open, dup, dup2, close, fork, exec, exit |
| pipes | `sys/fs/lib/pipe.cpp`, `sys/fs/file.cpp` | bytes in the pipe, reads in progress | read, write, close |
| directory listing | `sys/fs/lib/dir.cpp`, `sys/fs/server.cpp` | servers still to ask, offset | getdents, getdents64 |
| scheduler | `sys/sched/server.cpp`, `sys/sched/lib/lib.cpp` | children of a core, control pipes | exec, relay, exit |
| name server | `name/*.cpp` | endpoint lists per name and socket | register, unregister, lookup |
| core server | `coreserv/*.cpp` | free cores, cores per process | get a core, reclaim |
| network | `sys/net`, `link`, `lwip`, `netmap` | | |

How they interact. A client sends a request over its channel to a server and
waits for the response; a server is one thread that runs one handler at a time.
An operation on a path is a sequence of such requests to different servers:
the entries of a *shared* directory are spread over all servers by a hash of
directory and name, and a file's inode may be at another server than its entry.
Servers also send notifications that nobody waits for, which take names out of
the clients' directory caches. With `ENABLE_BUFFER_CACHE` clients read and write
the blocks of a file in shared memory themselves and tell the server the size
when they close.

What makes it hard, and what should hold:

* sender and receiver of a ring share it without locks: no message is
  overwritten, none is lost, repeated or reordered, an allocation that should
  succeed does, and garbage collection ends;
* an operation that is several requests is interleaved with everyone else's: a
  rename never leaves a file without a name, clients that race to create a file get the same one,
  no entry refers to an inode that is gone and no inode is left without an entry;
* removing a shared directory takes a lock at every server and a second phase
  that commits or goes back: it looks atomic, no lock stays, every remover returns;
* a file lives while it has a name or a descriptor, across dup, fork, exec and
  exit, and its descriptor counts are exact;
* a cached name or a cached block may be stale: cached names are current or about
  to be invalidated, cached blocks stay with their file, a read sees the last write;
* a server that waits for another server goes on receiving: every response reaches
  the thread it is for, no request is left lying, no entry of the pool is lost;
* processes come and go while a server moves channels in its table and reuses their
  rings: no two processes share a ring, who caches an entry is still reached, and what a
  process held is taken back;
* server, child and relay of a remote exec meet over pipes, futexes and signals:
  nobody waits for ever, and every relay gets its own program's output and status;
* a listing goes on by a count of entries that change meanwhile, and a pipe's reader
  asks again and again while signals arrive.

The places in the code where each of these could go wrong are the hazards of
`PROJECT.json`, with the properties that cover them or the reason why none does.

## 2. Modules

```
MsgQueue  <-refines-  Channel --- ChannelInv --- ChannelProofs
Rpc       <-refines-  Dispatcher --- DispatcherInv --- DispatcherProofs --- DispatcherPool
AtomicDir <-refines-  Rmdir --- RmdirLocks --- RmdirProofs
                      Endpoints --- EndpointsProofs
                      FileData --- FileDataProofs
                      Exec --- ExecProofs
FsServer ---          Rmdir, OpenFiles, Namespace
                      Pipe, Listing
```

Every component has an `MC` module with the instances TLC checks.

**Channel** is one direction of a channel. Offsets are counted in cache lines.
The sender's steps are `Allocate`, `GcStep` (one header of `_channel_gc`),
`GcReturn` and `Send`; the receiver's are `Receive`, `SkipSentinel`, `FreeBegin`
and `FreeLine`, which clears one ready byte, because `channel_free` clears them
one by one while the sender may collect. `Window` is how many lines the users
keep in flight and `InOrder` whether they free in order: neither is enforced by
the ring. `starts`, `owned`, `inflight`, `skipAt` and `clobbered` are history
that the code does not have. `MsgQueue` is the queue a channel promises.

**Dispatcher** is the dispatcher of one process with its cooperative threads, over
channels that are queues, as `MsgQueue` has them. The current thread is in
`_dispatchMain`, in a handler, in the polling loop of `_dispatchWaitForMessage` or
in `dispatchCheckNotifications`; `reqs`, `resps`, `rmap` and `asleep` are the two
queues, the map of early responses and the sleeping threads. A poll, what it does with
the message and the yield that follows are one action. Clients have one
request outstanding, backends answer in any order and send notifications.
`Rpc` is what a server promises: one answer per request, eventually.

**Endpoints** is how processes connect to and leave one server: `endpoint_connect`,
`endpoint_accept` and `channel_close` over the pool of rings, the dispatcher's table of
channels, whose last one moves into the slot of one that closes, and the file system
server's table of who caches an entry, keyed by pointers into that table. `mapped` is
the set of endpoints that the server has mapped.

**FsServer** has the handlers of a file system server as operators from a server
state to a server state, an answer and, when an assertion fails, the failure. A
request, its handler and its answer are one step of the modules that use it: a
server runs one handler at a time and the client waits, so no other step can tell.

* **Rmdir**: `fosRmdir` of a shared directory in both build variants, scatter-gather
  (requests to all servers are sent before any answer is read, and are served in
  any order) and serial, against clients that create and unlink. `maker` is the client
  that has made the directory and still makes the files in it (`MakeFile`, a step each)
  before the others look it up.
  `AtomicDir` is a directory whose removal is one step.
* **OpenFiles**: processes with descriptor slots that share entries (dup) and
  counted server descriptors (fork, exec). Fork and exec go through the slots one
  request at a time.
* **Namespace**: open with `O_CREAT` and `O_EXCL`, unlink, rename, mkdir, rmdir and
  symlink, one step per request, with the directory cache and notifications.
  A setup says which calls each client makes and whether the directory is distributed.

**FileData** is what files contain: `grow`, `shrink`, `truncate` and deletion
over the server's free blocks, reads and writes through the server in chunks, and
clients that use the blocks themselves. `content` is what was last written at each
position, the reference that `Contents` compares memory with.

**Pipe** is a pipe of the file system used as a pool of tokens: the server keeps a
count, and readers ask until they have something (`Retry`). `Handled` says which signals
a process handles. `__rt_sigaction` wraps the handlers of `SIGCHLD` and `SIGALRM` only
(`Trampoline`), so a read notices these and no other. A handler may close a descriptor
in the middle of a read.

**Listing** has the three ways of listing a directory (`getdents`, `getdents64` with
and without `dents_snapshot`) against clients that add and remove names.
A server keeps no cursor: a request says how many entries have been seen. `past`
records what was in the directory all the while. `Config.in:343` calls the cached
variant a "snapshot of dents when first readdir() is called"; since it
is gathered in several answers, it is not one, and the properties claim no more than holds
of all three ways.

**Exec** is a remote exec: the process that asks (`relay`), the child forked for it
and the scheduler's server, one action per blocking call. Opening a named pipe waits
for the other end, a `FUTEX_WAIT` may return early, and `SIGCHLD` sets a flag that the
server's idle loop clears before it reaps. The process that asks becomes the relay and
keeps its signal handlers. A signal that it handles cuts short the call in which it
blocks (`InterruptOpen`, `InterruptRead`, `InterruptSelect`): a pipe is then not open
(`lost`), an assertion fails, or the loop ends. A program may leave processes behind
(`heirs`), which have its standard output and error.

Rmdir, FileData, Namespace, Dispatcher and Listing choose one of several `Setups` in the
initial state, so that one run covers the variants of the build and the kinds of clients.

## 3. Runs

| run | checks | states |
|---|---|---|
| `channel` | `NoOverwrite AllocationSucceeds ImplementsQueue`, users within their window | 461,933 |
| `channel_big` | `ReceivedOnce ReceiverAdvances GcTerminates`, messages longer than half the ring | 6,530 |
| `dispatcher` | `PollsWithoutRequests NoMissedResponse ResponsesOnce PoolExact ImplementsRpc`, servers and an application | 217,380 |
| `endpoints` | `OneProcessPerRing CachersReached Reclaimed` | 112,432 |
| `rmdir` | `NoAssertionFails NoRemains ImplementsAtomicDir RemoversReturn` | 10,396 |
| `open_files` | `OpenFilesStay NoFileLeaks RefCountExact` | 70,468 |
| `names` | `NoAssertionFails CacheCoherent NoDangling NothingLost CreatorsAgree`, directories distributed and not | 574,846 |
| `files` | `NoBad BlocksOnce CachedOwned Contents` | 313,234 |
| `pipe` | `TokensConserved InterruptEndsRead ReadersProgress` | 32,180 |
| `listing` | `StaysListed ListedOnce ListingEnds` | 118,781 |
| `exec` | `NoAssertionFails StatusRelayed OutputRelayed ExecReturns` | 54,485 |

Every module also states its type invariant, `TypeOK`. The runs leave it to the proofs of
Channel, Dispatcher, FileData and Exec, and spend their properties on what could be wrong; to check
it, add it to the invariants of a `.cfg`; it holds on all of these instances. So does
`NoAssertionFails` on that of `open_files`, where it is left to the run below.

One run ends in a violation of what the code says of itself; the finding in
`PROJECT.json` quotes it. `open_files_orphan`: an unlinked file with two descriptors
is deleted by the first close, and the second fails an assertion of the server.

More instances are kept whose property TLC violates. The passing runs stay clear of them
by the choice named last:

| instance | what TLC shows | the passing runs |
|---|---|---|
| `MCChannelFull.cfg`, `NoOverwrite` | a full ring with nothing to collect is taken for a free one (`channel.h:227`): the next allocation overwrites a message that is "set => receiver owns message" (`channel_interface.h:28`) | keep a window |
| `MCRmdirTwo.cfg`, `NoAssertionFails` | two removers that scatter their requests make a server fail `assert(c_d->locked() == true)` (`server.cpp:772`) | one remover at a time, or serial |
| `MCRmdirCreate.cfg`, `ImplementsAtomicDir` | the lock of the first phase is looked at by rmdir only: a file created between the phases is in a directory whose removal is decided | create where a file stays |
| `MCNamespaceExclRoot.cfg`, `ExclOnce` | in a directory that is not distributed `O_EXCL` lets two creators in, although it is okay that the file exists only "as long as we weren't trying to create it" exclusively (`lib.cpp:405`) | `CreatorsAgree` says that both have the same file |
| `MCFileDataReader.cfg`, `ReadersKeepSize` | a client that only read a file flushes the size it saw at open (`lib/file.cpp:35`) | one client at a time caches a file |
| `MCEndpointsTwice.cfg`, `LiveChannelsOpen` | `name_cleanup` closes a channel, which "does nothing" (`name.cpp:33`), and the dispatcher closes it again at exit: the ring of another process may be closed | close once |
| `MCExecFailed.cfg`, `ErrorReported` | a program that cannot be executed is reported as one that exited with 0: `assert(false)` comes before "execve must have failed, now cleanup" (`server.cpp:232`) | `StatusRelayed` says only that the status is passed on |
| `OrderSetups` in MCRmdir, `ResultHolds` | the serial rmdir reports OK for a directory that is not empty (`lib.cpp:782`) | results of refused removals are left open |
| `RenamingCached` in MCNamespace, `CacheCoherent` | a rename over a name that the renamer has cached (`dir_cache.cpp:74`) | `CacheCoherent` is about setups without renames |
| `MCExecSignal.cfg`, `SignalsSurvived` | a signal that the relay handles ends its select, and the assertion that there was a reply fails (`lib.cpp:326`, 339) | the properties say which relays and programs such a signal can harm |
| `MCExecStderr.cfg`, `StderrRelayed` | the relay exits with pieces of standard error unread (`lib.cpp:233`) | `OutputRelayed` is about standard output |
| `MCPipeClose.cfg`, `NoUseAfterDelete` | a handler that closes the only descriptor deletes the pipe being read (`pipe.cpp:37`) | what such a reader does afterwards is left open |
| `MCPipeAbort.cfg`, `NoAbort` | a wrapped signal meets a read that has some of its bytes: `assert(read_count == 0)` fails (`pipe.cpp:69`) | `TokensConserved` says that only a read of several bytes loses tokens so |
| `MCPipeTerm.cfg`, `SignalEndsRead` | `SIGTERM` does not end a read, as `tests/signals.cpp:38` asserts: its handler is not wrapped (`signal.c:37`) | `InterruptEndsRead` is about the signals that are wrapped |

**Bounds.** A ring of 5 lines with messages of 1 and 2 wraps, leaves a sentinel and
collects across the end; with 4 lines and messages of 2 and 3 an allocation can
also fail. Two payloads suffice to see a mix-up and are symmetric. Three servers
give rmdir a server before and one after the home server. Two servers and names
that hash to both give every placement of entry and inode. `MaxCalls` is per
client in Namespace and for all clients in FileData, where six calls are enough to
write a file, cut it, give its blocks to another file and read both. Blocks
have 2 units and files up to 3, so the last block may be partly used. `IdLimit`
(100) is never reached; in Rmdir that is a guard, because the proofs are about any `IdLimit`. In Dispatcher two backends and three transactions
let a handler have two requests outstanding while another sleeps; a ring
takes a notification beside the responses. Three processes and three rings in
Endpoints are enough to move a channel and to reuse its ring. Two jobs in Exec suffice
for a `SIGCHLD` of one in the handshake of the other, and for a signal that stops one while the other
goes on; a pipe holds one piece, so that a writer meets a full pipe and a relay an empty one, and in
`MCExecStderr.cfg` two. In Pipe a read of three bytes is two requests (`Chunk` is 2), and the
three processes handle no signal, a wrapped one, and a wrapped and another one. In Listing two entries
fit an answer, so five names take several, and two changes fall between any of them.

**Fairness.** `channel_big`: garbage collection, a send of what has been
allocated, polling and freeing are weakly fair; the code does each in a loop or
straight after another, without waiting. `rmdir`: the making of the files, each remover's own
steps and each server's handling of a request are weakly fair; servers poll their channels for ever.
`dispatcher`: the process takes steps, and every backend answers what
it was asked. Which channel is polled is not left to fairness: it follows from
`channel_select`. `endpoints`: the server's loop, and processes that wait for a response or
exit. `pipe`: a read or write that has begun goes on; when processes begin one, and signals, are open. `listing`: the lister and each server. `exec`:
server, relay and child each take steps; nothing is assumed of the programs that are
executed, of those they leave behind, or of signals. Nothing is assumed of how often users allocate, unlink, create, ask or change
a directory.

**Deadlock** is checked for the channel, the dispatcher and the pipe. The other models
may stop: clients make a bounded number of calls, and processes and jobs live once.

## 4. Proofs

**Channel.** For every `NLINES`, every set of message lengths and every payload, `ChannelProofs`
proves of a `Disciplined` channel (the receiver frees in order, and a longest
message fits beside what may be in flight):

* `TypeCorrect`: `TypeOK`;
* `Safety`: `NoOverwrite`;
* `Allocation`: `AllocationSucceeds`, so `dispatchAllocate`'s assertion holds;
* `Delivery`: `ReceivedOnce`.

They follow from the inductive invariant `IInv` of `ChannelInv`. None of the
properties is inductive: that a line is free to claim rests on tail, on what
the headers behind it say and on which ready bytes are clear. The invariant says that
the lines in use form one arc of the ring, from the oldest message not freed to
head (`Arc`), with at most one sentinel in it (`Skip`); that headers tile the ring,
so garbage collection always lands on one (`Tiling`, `Collectable`); that a ready byte
is set only inside the arc and on every message not yet received (`Flags`);
and that received messages are the start of the arc in order, with a
prefix of the first cleared (`Holding`). `freed` never exceeds what is free
(`Sending`). `ChannelProofs` has the geometry of the arc, one lemma per action of the
receiver, one per action of the sender, and the results.

`Disciplined` is what requests and answers do: a client has one request outstanding
per server and frees the answer before the next. Notifications are not answered,
so how many a server may have in flight to a client is not bounded by the protocol;
the proofs cover them only while they fit the window. Under it `NoOverwrite` rests mainly on the window;
collection is what `Allocation` needs. `channel_big` is outside `Disciplined`: there
`ReceivedOnce` is checked although allocations fail.

**Dispatcher.** For any sets of clients, backends and transactions and any table of
channels, for servers and applications, `DispatcherProofs` proves

* `TypeCorrect`: `TypeOK`;
* `QueueNeverFills`: `PollsWithoutRequests`, so the path for a full queue of requests
  (`dispatch.cpp:208`) is dead code;
* `ResponsesReachTheirThread`: `NoMissedResponse`;
* `AnswersMatchRequests`: `R!Safety`, the refinement of Rpc without its fairness;

and `DispatcherPool` proves

* `ResponsesHaveOnePlace`: `ResponsesOnce`;
* `PoolAccountedFor`: `PoolExact`, so no interleaving of threads loses an entry of the pool
  of 1024 or frees one twice; what it does lose is one entry per request without a handler.

The assumption on the constants is that clients and backends are different, that the
table has peers only and that transactions are positive numbers. The invariant `IInv` of
`DispatcherInv` is needed because what could go wrong at one thread depends on all others.
`Requests` has each client's request at one place: its ring, the queue, or one
thread. `Threads`, `Unique` and `Transactions` say that a transaction is in use by one
thread and that its response is at one place: `ResponsesOnce`, which counts places, follows
from them. `Sleepers` is the heart of it: a response
for a sleeping thread is the last that is pending and is processed before the next
request, and a thread that has put responses off is the only one. So the loop
that processes them (`dispatch.cpp:471`) never switches away from a thread that holds its
response. `TypeStep`, `RingsStep` and `RequestsStep` preserve the first half; one lemma
per action (`Owned...`) preserves the other. `PoolExact` is preserved beside it once the
sets that it counts are known to be finite (`PoolInv`): that a response enters the map once
(`Transactions`), that a thread which goes to sleep takes a new place (`Threads`), and that
a client forgotten is not forgotten again (`Requests`) are what each step needs.

**Endpoints.** For any set of processes and any set of rings, when no process closes its
channel twice (`Twice = {}`; `MCEndpointsTwice.cfg` shows what happens otherwise),
`EndpointsProofs` proves

* `RingsNotShared`: `OneProcessPerRing`;
* `CachersHear`: `CachersReached`;
* `ChannelsOpen`: `LiveChannelsOpen`.

The invariant says that a ring is in the pool or in the table, once (`Tables`), and that a
process has an open ring of the table for itself from the moment it is accepted until it
closes (`Owners`): closing moves the last channel of the table, so both are needed to see that
the one that moves is not lost. `CachersReached` also needs what is in the rings: a process
that calls has one request or one response there and otherwise notifications (`Messages`),
and a response that will make it cache the entry is followed by a notification unless the
server still knows it (`Reaches`).

**Rmdir.** For any number of servers, any clients, names and hash, any home server and both build
variants, `RmdirProofs` proves

* `NoAssertion`: `NoAssertionFails`;
* `NothingRemains`: `NoRemains`;
* `RemovalIsAtomic`: `ImplementsAtomicDir`, the refinement of AtomicDir;

for setups that are `Orderly`: at most one remover scatters its requests (any number go server by
server), and clients create only beside a file that nobody unlinks. Both limits are the code's:
`MCRmdirTwo.cfg` and `MCRmdirCreate.cfg` violate the properties without them. `RmdirAssumption` says
that setups are of their type, that a hash is a server and that there are inode numbers for the
root, the directory and one file.

`RmdirLocks` has a lemma per handler of FsServer that the clients use (what it does to the part of
the directory, to its entries and to the entry in the parent) and the inductive invariant `IInv`;
`RmdirProofs` has the remaining steps and the results. At which servers a remover holds the lock
is a function of where it is in `fosRmdir` (`HeldBy`), different for the two variants. `Locking`
says that a part is locked just when one remover holds it so, and that a locked part is empty: so a
decision finds the lock, and the last decision leaves none. That is not enough once a removal is
decided, because a server makes a part anew when it gets a request for one that it has removed
(`server.cpp:743`): `AfterDecision` says that every part then left or made is empty and locked, and that
no remover has to go back, so that the late one finds each server either locked or free for good.
The refinement has the directory linked until a removal is decided (`Decided`), not until
its entry goes: only `TriedAll` and the successful `GatherTry` map to a step of `Atomic!Rmdir`.

**FileData.** For any finite sets of clients and blocks, any files and any block size, with
and without `ENABLE_BUFFER_CACHE`, `FileDataProofs` proves

* `TypeCorrect`: `TypeOK`;
* `BlocksPlacedOnce`: `BlocksOnce`, which counts the places of a block;
* `CachedBlocksOwned`: `CachedOwned` for setups that are `Alone`.

`Alone` leaves out one case, that of a cached file which is unlinked while several clients have
it open: the first close deletes it (the finding of `open_files_orphan`), and `CachedOwned` is then
false. `Memory` says that free list and files partition the blocks, through grow, shrink
(which sets blocks aside while clients cache them), truncate and delete; `Attached` and
`Sole` follow clients that cache a file.

**Exec.** For any set of jobs, any of which may fail, be redirected, leave processes behind or
have a relay that handles signals, `ExecProofs` proves

* `TypeCorrect`: `TypeOK`;
* `AssertionsHold`: `NoAssertionFails`;
* `StatusArrives`: `StatusRelayed`;
* `OutputArrives`: `OutputRelayed`.

The invariant follows each job: the child starts its program only after its
relay has read "open" (`Ordered`), so that "open" and the reply are never in the
control pipe together (`Control`); the pipe is held until the reply has been sent
(`Kept`), and each relay is told once (`Serving`). That the server may go on before its
child has started does no harm, because "open" is ordered by the pipe for standard
input, not by the flag. A relay aborts or lacks a pipe only after a signal (`Blamed`).
When the server aborts with it, the other relays must not read the end of their control
pipes without a reply: `Serving` says that the child forked last has not executed yet and has
inherited those pipes, so they wait, which `ExecReturns` excepts. For the output,
`Drained` says that a relay which no longer reads standard output has read it to its end,
with everybody who could write to it gone (`Silent`). An interrupted
select leaves no piece unread, because it fails only when nothing is ready.

**Only model-checked.** Liveness (`GcTerminates`, `ReceiverAdvances`, `Reclaimed`,
`RemoversReturn`, `InterruptEndsRead`, `ReadersProgress`, `ListingEnds`, `ExecReturns` and the fairness part of Rpc), which
is outside the prover. The refinement of MsgQueue: its mapping walks the ring recursively. Of FileData, `NoBad` and
`Contents`, which would need an invariant on sizes, offsets and every unit of every block.
The invariants of Namespace and OpenFiles: they use more of FsServer's handlers than Rmdir does,
and an inductive invariant has to relate the points that all clients have reached in their calls. Those of Pipe and Listing, which count over sets.
None of these has a proof; their runs are what is known of them.

## 5. Not modelled

The modules cover the messaging layer, the file system and remote exec, which is where the
repository's own concurrency is. That is a small share of the lines in `src/`: most
are lwIP, netmap with its drivers, and kconfig, which are kept there unchanged and are not part of
this system. Of the rest these parts are left out:

* the name server and the core server: tables whose handlers each run alone and share
  nothing with the modelled parts;
* the growth of the descriptor table and the search for its lowest unused number
  (`libs/fd/fd.c`, `libs/utilities/space_alloc.c`);
* renames of directories, with the walk to the root and the `..` entry
  (`lib.cpp:1193`);
* where the file offset must be after fork (`misc.cpp:44`), which the code leaves open;
* attributes: single fields nothing else depends on;
* system call wrappers that only forward, start-up and main loops;
* the network stack and link server: their logic is in lwIP, netmap and hardware queues;
* condition variables and `ENABLE_MSG_YIELD` of the dispatcher;
* of remote exec, a relay that is killed or whose own standard output fails, the data of
  standard input, and what a program does whose relay has gone (it writes no more; that
  `SIGPIPE` ends it is one of its exits);
* programs, examples, tests and benchmarks.

The memory model is sequentially consistent: the ring is modelled as the x86 code
orders its accesses, and weaker orders are not.
