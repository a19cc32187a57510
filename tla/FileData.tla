------------------------------ MODULE FileData ------------------------------
(***************************************************************************)
(* The contents of files: the blocks a file system server gives to its     *)
(* files (file.cpp, buffer_cache.cpp), reads and writes through a server   *)
(* descriptor, and, in builds with ENABLE_BUFFER_CACHE, the clients that   *)
(* access the blocks in shared memory themselves and tell the server the   *)
(* new size when they close (lib/file.cpp).                                *)
(*                                                                         *)
(* Positions in a file are counted in units, of which a block has BLOCK.   *)
(* A client has at most one file open.  One server has all files; a        *)
(* request and its handler are one step.                                   *)
(***************************************************************************)
EXTENDS Integers, Sequences, FiniteSets, Functions

CONSTANTS
  Clients, Files,
  Blocks,      \* the blocks of the server's part of the memory
  BLOCK,       \* BufferCache::block_size
  CHUNK,       \* FS_CHUNK_SIZE
  Values,      \* what clients write
  MaxSize,     \* bound on the size of a file
  MaxOrphans,  \* bound on how often a file is made shorter, in blocks
  MaxCalls,    \* bound on the calls of all clients
  Setups       \* how the build and the clients are set up; see SetupType

Zero == "zero"   \* what memory is filled with
Hole == "hole"   \* where nothing was written

SetupType == [cached : BOOLEAN,      \* ENABLE_BUFFER_CACHE
              openers : 1 .. Cardinality(Clients),   \* that a file has at a time
              unlinks : BOOLEAN, extends : BOOLEAN]  \* whether clients unlink; ftruncate to a greater size

ASSUME FileDataAssumption ==
  /\ IsFiniteSet(Clients) /\ IsFiniteSet(Blocks) /\ BLOCK \in Nat \ {0} /\ CHUNK \in Nat \ {0}
  /\ MaxSize \in Nat /\ MaxOrphans \in Nat /\ MaxCalls \in Nat
  /\ Setups \subseteq SetupType
  /\ {Zero, Hole} \cap Values = {}

VARIABLES
  setup,    \* the member of Setups that this behaviour is about
  calls,    \* the number of calls made
  free,     \* m_blocks of the buffer cache
  file,     \* [named, live, size, blocks, orphans] of each file
  mem,      \* what is in each block
  cl,       \* the clients, with their descriptors
  bad,      \* "", or the assertion that failed or the undefined access made
  content   \* what was last written at each position, or Hole; see Contents

vars == <<setup, calls, free, file, mem, cl, bad, content>>

Units == 0 .. BLOCK - 1
Offsets == 0 .. MaxSize
None == [named |-> FALSE, live |-> FALSE, size |-> 0, blocks |-> <<>>, orphans |-> <<>>]
Closed == [pc |-> "closed", f |-> "none", offset |-> 0, state |-> "INVALID",
           size |-> 0, pos |-> 0, blocks |-> <<>>, n |-> 0, v |-> Zero, from |-> 0, more |-> 0,
           wrote |-> FALSE]

Init ==
  /\ setup \in Setups /\ calls = 0
  /\ free = CHOOSE s \in Injection(1..Cardinality(Blocks), Blocks) : TRUE
  /\ file = [f \in Files |-> None]
  /\ mem = [b \in Blocks |-> [u \in Units |-> Zero]]
  /\ cl = [c \in Clients |-> Closed]
  /\ bad = ""
  /\ content = [f \in Files |-> <<>>]

-----------------------------------------------------------------------------
(* The server's files.  These return the free blocks and the file.          *)

BlocksFor(n) == (n + BLOCK - 1) \div BLOCK

Result(fr, fl, ret) == [free |-> fr, file |-> fl, ret |-> ret]

(* File::grow with BufferCache::get.  The number of blocks to add is        *)
(* unsigned: when the file has more than it needs it is larger than any     *)
(* number of free blocks.                                                   *)
Grow(fr, fl, n) ==
  LET more == BlocksFor(n) - Len(fl.blocks)
  IN IF more = 0 THEN Result(fr, fl, "OK")
     ELSE IF more < 0 \/ more > Len(fr) THEN Result(fr, fl, "ENOSPC")
     ELSE Result(SubSeq(fr, more + 1, Len(fr)), [fl EXCEPT !.blocks = @ \o SubSeq(fr, 1, more)], "OK")

(* File::shrink: the blocks stay with the file, as clients may use them.    *)
Shrink(fl, n) ==
  LET keep == BlocksFor(n)
  IN [fl EXCEPT !.blocks = SubSeq(@, 1, keep),
                !.orphans = @ \o SubSeq(fl.blocks, keep + 1, Len(fl.blocks))]

\* Mutant: the blocks of a file that is made shorter are free at once.
TruncateFileFrees(fr, fl, n) ==
  LET grown == Grow(fr, fl, n)
      shrunk == Shrink(fl, n)
  IN IF fl.size < n
       THEN IF grown.ret = "OK" THEN [grown EXCEPT !.file.size = n] ELSE grown
     ELSE Result(shrunk.orphans \o fr, [shrunk EXCEPT !.size = n, !.orphans = <<>>], "OK")

(* File::truncate *)
TruncateFile(fr, fl, n) ==
  LET grown == Grow(fr, fl, n)
  IN IF fl.size < n
       THEN IF grown.ret = "OK" THEN [grown EXCEPT !.file.size = n] ELSE grown
     ELSE IF fl.size > n THEN Result(fr, [Shrink(fl, n) EXCEPT !.size = n], "OK")
     ELSE Result(fr, fl, "OK")

(* File::shrink takes blocks off a list that is too short. *)
Underflows(fl, n) == fl.size > n /\ BlocksFor(n) > Len(fl.blocks)

\* Mutant: the orphaned blocks are forgotten.
DeletedForgets(fr, fl) == fl.blocks \o fr

(* File::~File with BufferCache::put *)
Deleted(fr, fl) == fl.orphans \o fl.blocks \o fr

(* File::blocks: n blocks from the one at from, or <<>> where the code      *)
(* reads outside a list or does not find enough.                            *)
BlockList(fl, from, n) ==
  LET all == fl.blocks \o fl.orphans
  IN IF from + n <= Len(fl.blocks) \/ (from = Len(fl.blocks) /\ from + n <= Len(all))
       THEN SubSeq(all, from + 1, from + n) ELSE <<>>

(* The block of a list and the unit in it at a position; a copy of a value  *)
(* to n positions from p.                                                   *)
BlockAt(list, p) == list[p \div BLOCK + 1]
UnitAt(p) == p % BLOCK
HasBlocks(list, n) == BlocksFor(n) <= Len(list)
Copied(m, list, p, n, v) ==
  [b \in Blocks |-> [u \in Units |->
     IF \E q \in p .. p + n - 1 : BlockAt(list, q) = b /\ UnitAt(q) = u THEN v ELSE m[b][u]]]

(* What a file holds after a write or a change of its size.                 *)
Written(s, p, n, v) ==
  [i \in 1 .. IF p + n > Len(s) THEN p + n ELSE Len(s) |->
     IF i \in p + 1 .. p + n THEN v ELSE IF i <= Len(s) THEN s[i] ELSE Hole]
Resized(s, n) == [i \in 1 .. n |-> IF i <= Len(s) THEN s[i] ELSE Hole]

-----------------------------------------------------------------------------
(* The clients. *)

At(c, pc) == cl[c].pc = pc /\ bad = ""
Become(c, r) == cl' = [cl EXCEPT ![c] = r]
Fails(what) == bad' = what /\ UNCHANGED <<free, file, mem, cl, content>>

Openers(f) == {c \in Clients : cl[c].pc # "closed" /\ cl[c].f = f}

(* Whether a client uses the blocks itself: m_state # CACHE_INVALID.        *)
Caches(c) == setup.cached /\ cl[c].state # "INVALID"

(* The server takes the file for what r says it is. *)
Serve(f, r) == free' = r.free /\ file' = [file EXCEPT ![f] = r.file]

Create(f) ==
  /\ bad = "" /\ ~file[f].live
  /\ file' = [file EXCEPT ![f] = [None EXCEPT !.named = TRUE, !.live = TRUE]]
  /\ content' = [content EXCEPT ![f] = <<>>]
  /\ UNCHANGED <<free, mem, cl, bad>>

(* FilesystemServer::open, and what fosFileOpen makes of the answer.        *)
OpenFile(c, f, trunc, append) ==
  LET r == IF trunc THEN TruncateFile(free, file[f], 0) ELSE Result(free, file[f], "OK")
      start == IF append THEN r.file.size ELSE 0
  IN /\ At(c, "closed") /\ file[f].named
     /\ Cardinality(Openers(f)) < setup.openers
     /\ Len(r.file.orphans) <= MaxOrphans
     /\ Serve(f, r)   \* an empty file takes no blocks off
     /\ content' = IF trunc THEN [content EXCEPT ![f] = <<>>] ELSE content
     /\ Become(c, [Closed EXCEPT !.pc = IF setup.cached /\ r.file.size > 0 THEN "caching" ELSE "open",
                                 !.f = f, !.offset = start, !.pos = start, !.size = r.file.size,
                                 !.state = "SHARED", !.wrote = trunc])
     /\ UNCHANGED <<mem, bad>>

(* File::cache_blocks *)
CacheBlocks(c) ==
  LET f == cl[c].f
      list == BlockList(file[f], 0, BlocksFor(cl[c].size))
  IN /\ At(c, "caching")
     /\ IF ~file[f].live \/ list = <<>> THEN Fails("blocks")
        ELSE Become(c, [cl[c] EXCEPT !.pc = "open", !.blocks = list])
             /\ UNCHANGED <<free, file, mem, bad, content>>

(* The end of a write to the blocks: m is the memory and bs are the blocks. *)
CopyIn(c, m, bs, n, v) ==
  LET end == cl[c].pos + n
  IN IF ~HasBlocks(bs, end) THEN Fails("write: block_nr")
     ELSE /\ mem' = Copied(m, bs, cl[c].pos, n, v)
          /\ content' = [content EXCEPT ![cl[c].f] = Written(@, cl[c].pos, n, v)]
          /\ Become(c, [cl[c] EXCEPT !.pc = "open", !.blocks = bs, !.pos = end, !.state = "EXCLUSIVE",
                                     !.size = IF end > @ THEN end ELSE @, !.n = 0, !.more = 0, !.from = 0,
                                     !.v = Zero, !.wrote = TRUE])
          /\ UNCHANGED <<free, file, bad>>

\* Mutant: a block that is only partly used is not asked for.
WriteShort(c, n, v) ==
  LET end == cl[c].pos + n
      room == BlocksFor(cl[c].size) * BLOCK
  IN /\ At(c, "open") /\ Caches(c) /\ end <= MaxSize
     /\ end - room < BLOCK
     /\ CopyIn(c, mem, cl[c].blocks, n, v)

(* File::write to cached blocks: first the file gets the blocks it lacks.   *)
Write(c, n, v) ==
  LET end == cl[c].pos + n
      room == BlocksFor(cl[c].size) * BLOCK
      more == IF end > room THEN BlocksFor(end - room) ELSE 0
      f == cl[c].f
  IN /\ At(c, "open") /\ Caches(c) /\ end <= MaxSize
     /\ IF more = 0 THEN CopyIn(c, mem, cl[c].blocks, n, v)
        ELSE IF file[f].live /\ Underflows(file[f], end) THEN Fails("shrink")
        ELSE /\ IF file[f].live THEN Serve(f, TruncateFile(free, file[f], end)) ELSE UNCHANGED <<free, file>>
             /\ Become(c, [cl[c] EXCEPT !.pc = "growing", !.state = "EXCLUSIVE", !.size = end,
                                        !.from = BlocksFor(cl[c].size), !.more = more, !.n = n, !.v = v,
                                        !.wrote = TRUE])
             /\ UNCHANGED <<mem, bad, content>>

(* Then it asks for them, fills them with zeros and copies.                 *)
GetBlocks(c) ==
  LET f == cl[c].f
      old == cl[c].blocks
      from == cl[c].from
      list == BlockList(file[f], from, cl[c].more)
      bs == IF from > Len(old) THEN old \o list
            ELSE SubSeq(old, 1, from) \o list \o SubSeq(old, from + Len(list) + 1, Len(old))
      cleared == [b \in Blocks |-> IF b \in Range(list) THEN [u \in Units |-> Zero] ELSE mem[b]]
  IN /\ At(c, "growing")
     /\ IF ~file[f].live \/ list = <<>> THEN Fails("blocks") ELSE CopyIn(c, cleared, bs, cl[c].n, cl[c].v)

(* File::read of cached blocks. *)
Read(c, n) ==
  LET got == IF cl[c].pos >= cl[c].size THEN 0
             ELSE IF cl[c].pos + n > cl[c].size THEN cl[c].size - cl[c].pos ELSE n
  IN /\ At(c, "open") /\ Caches(c)
     /\ IF got > 0 /\ ~HasBlocks(cl[c].blocks, cl[c].pos + got) THEN Fails("read: m_blocks")
        ELSE /\ Become(c, [cl[c] EXCEPT !.pos = @ + got, !.state = "EXCLUSIVE"])
             /\ UNCHANGED <<free, file, mem, bad, content>>

(* File::read and File::write through the server, a chunk at a time.        *)
StartTransfer(c, pc, n, v) ==
  /\ At(c, "open") /\ ~Caches(c) /\ cl[c].offset + n <= MaxSize
  /\ Become(c, [cl[c] EXCEPT !.pc = pc, !.n = n, !.v = v])
  /\ UNCHANGED <<free, file, mem, bad, content>>

Least(m, n) == IF m < n THEN m ELSE n
Rest(c, done) ==
  IF done = 0 \/ done = cl[c].n
    THEN [cl[c] EXCEPT !.pc = "open", !.n = 0, !.v = Zero, !.offset = @ + done]
    ELSE [cl[c] EXCEPT !.n = @ - done, !.offset = @ + done]

ReadChunk(c) ==
  LET fl == file[cl[c].f]
      k == IF ~fl.live \/ cl[c].offset >= fl.size THEN 0
           ELSE Least(Least(cl[c].n, CHUNK), fl.size - cl[c].offset)
  IN /\ At(c, "reading")
     /\ IF k > 0 /\ ~HasBlocks(fl.blocks, cl[c].offset + k) THEN Fails("read: m_memory_blocks")
        ELSE Become(c, Rest(c, k)) /\ UNCHANGED <<free, file, mem, bad, content>>

WriteChunk(c) ==
  LET f == cl[c].f
      fl == file[f]
      from == cl[c].offset
      k == Least(cl[c].n, CHUNK)
      r == IF fl.size < from + k THEN Grow(free, fl, from + k) ELSE Result(free, fl, "OK")
      grown == [r.file EXCEPT !.size = IF @ < from + k THEN from + k ELSE @]
  IN /\ At(c, "writing")
     /\ CASE ~fl.live -> Become(c, [Rest(c, 0) EXCEPT !.offset = @ + k]) /\ UNCHANGED <<free, file, mem, bad, content>>
          [] fl.live /\ r.ret # "OK" ->
               /\ Serve(f, Result(r.free, grown, r.ret))
               /\ Become(c, Rest(c, 0))
               /\ UNCHANGED <<mem, bad, content>>
          [] fl.live /\ r.ret = "OK" /\ ~HasBlocks(grown.blocks, from + k) -> Fails("write: m_memory_blocks")
          [] OTHER ->
               /\ Serve(f, Result(r.free, grown, r.ret))
               /\ mem' = Copied(mem, grown.blocks, from, k, cl[c].v)
               /\ content' = [content EXCEPT ![f] = Written(@, from, k, cl[c].v)]
               /\ Become(c, [Rest(c, k) EXCEPT !.wrote = TRUE])
               /\ UNCHANGED bad

(* lseek *)
Seek(c, p) ==
  /\ At(c, "open")
  /\ IF Caches(c) THEN Become(c, [cl[c] EXCEPT !.pos = p]) /\ UNCHANGED <<free, file, mem, bad, content>>
     ELSE IF ~file[cl[c].f].live THEN Fails("lseek")
     ELSE Become(c, [cl[c] EXCEPT !.offset = p]) /\ UNCHANGED <<free, file, mem, bad, content>>

(* ftruncate *)
Truncate(c, n) ==
  LET f == cl[c].f
      r == TruncateFile(free, file[f], n)
  IN /\ At(c, "open")
     /\ n > Len(content[f]) => setup.extends
     /\ IF file[f].live /\ Underflows(file[f], n) THEN Fails("shrink")
        ELSE /\ Len(r.file.orphans) <= MaxOrphans
             /\ IF file[f].live
                  THEN /\ Serve(f, r)
                       /\ content' = [content EXCEPT ![f] = IF r.ret = "OK" THEN Resized(@, n) ELSE @]
                  ELSE UNCHANGED <<free, file, content>>
             /\ Become(c, IF setup.cached THEN [cl[c] EXCEPT !.size = n, !.pos = Least(@, n), !.wrote = TRUE]
                          ELSE [cl[c] EXCEPT !.wrote = TRUE])
             /\ UNCHANGED <<mem, bad>>

\* Mutant: the cache is dropped without a flush.
FlushForgets(c, pc) ==
  /\ Become(c, [cl[c] EXCEPT !.pc = pc, !.state = "INVALID", !.offset = cl[c].pos])
  /\ UNCHANGED <<free, file, mem, bad, content>>

(* File::state(CACHE_INVALID), on fork and before close: what a client that *)
(* cached the file knows of it goes to the server.                          *)
Flush(c, pc) ==
  LET f == cl[c].f
      flushed == [cl[c] EXCEPT !.pc = pc, !.state = "INVALID"]
  IN IF ~setup.cached \/ cl[c].state # "EXCLUSIVE"
       THEN Become(c, flushed) /\ UNCHANGED <<free, file, mem, bad, content>>
     ELSE IF ~file[f].live THEN Fails("flush")
     ELSE /\ file' = [file EXCEPT ![f].size = cl[c].size]
          /\ Become(c, [flushed EXCEPT !.offset = cl[c].pos])
          /\ UNCHANGED <<free, mem, bad, content>>

Share(c) == At(c, "open") /\ Caches(c) /\ Flush(c, "open")
StartClose(c) == At(c, "open") /\ Flush(c, "closing")

(* FilesystemServer::close: the file goes when it has been unlinked.        *)
CloseFile(c) ==
  LET f == cl[c].f
  IN /\ At(c, "closing")
     /\ IF ~file[f].live THEN Fails("close")
        ELSE /\ IF file[f].named THEN UNCHANGED <<free, file>> ELSE Serve(f, Result(Deleted(free, file[f]), None, "OK"))
             /\ Become(c, Closed)
             /\ UNCHANGED <<mem, bad, content>>

(* FilesystemServer::unlink: a file that is open stays, without a name.     *)
Unlink(f) ==
  /\ bad = "" /\ setup.unlinks /\ file[f].named
  /\ IF Openers(f) # {} THEN file' = [file EXCEPT ![f].named = FALSE] /\ UNCHANGED free
     ELSE Serve(f, Result(Deleted(free, file[f]), None, "OK"))
  /\ UNCHANGED <<mem, cl, bad, content>>

Call(c) ==
  \/ \E f \in Files, trunc, append \in BOOLEAN : OpenFile(c, f, trunc, append)
  \/ \E n \in 1 .. MaxSize, v \in Values : Write(c, n, v) \/ StartTransfer(c, "writing", n, v)
  \/ \E n \in 1 .. MaxSize : Read(c, n) \/ StartTransfer(c, "reading", n, Zero)
  \/ \E p \in Offsets : Seek(c, p) \/ Truncate(c, p)
  \/ Share(c)

Continue(c) ==
  \/ CacheBlocks(c) \/ GetBlocks(c) \/ ReadChunk(c) \/ WriteChunk(c)
  \/ StartClose(c) \/ CloseFile(c)

Next ==
  /\ \/ /\ calls < MaxCalls /\ calls' = calls + 1
        /\ \/ \E f \in Files : Create(f) \/ Unlink(f)
           \/ \E c \in Clients : Call(c)
     \/ UNCHANGED calls /\ \E c \in Clients : Continue(c)
  /\ UNCHANGED setup

Spec == Init /\ [][Next]_vars

-----------------------------------------------------------------------------
FileType == [named : BOOLEAN, live : BOOLEAN, size : Nat, blocks : Seq(Blocks), orphans : Seq(Blocks)]

TypeOK ==
  /\ setup \in Setups /\ free \in Seq(Blocks)
  /\ file \in [Files -> FileType]
  /\ mem \in [Blocks -> [Units -> Values \cup {Zero}]]
  /\ \A c \in Clients : cl[c].pc # "closed" => cl[c].f \in Files /\ cl[c].blocks \in Seq(Blocks)

(* No file is open twice by clients that cache it. *)
Exclusive == setup.cached => setup.openers = 1

(* Neither an assertion of the library or the server fails nor is a list of *)
(* blocks read outside its bounds, when no file is cached by two clients:   *)
(* a size is never greater than the blocks behind it.                       *)
NoBad == Exclusive => bad = ""

(* A block is free or belongs to one file, once, in the file or among its   *)
(* orphaned blocks: none is lost and none is given to two files.            *)
Places(b) ==
  {<<"free", i>> : i \in {j \in DOMAIN free : free[j] = b}}
    \cup UNION {{<<f, i>> : i \in {j \in DOMAIN (file[f].blocks \o file[f].orphans) :
                                     (file[f].blocks \o file[f].orphans)[j] = b}} : f \in Files}
BlocksOnce == \A b \in Blocks : Cardinality(Places(b)) = 1

(* What a client that caches a file reads and writes are blocks of that     *)
(* file, also when another client has made the file shorter meanwhile: this *)
(* is what File::shrink keeps them for.                                     *)
CachedOwned ==
  \A c \in Clients : cl[c].pc = "open" /\ Caches(c) =>
    Range(cl[c].blocks) \subseteq Range(file[cl[c].f].blocks \o file[cl[c].f].orphans)

(* list holds what was written to f. *)
Holds(list, n, f) ==
  /\ n = Len(content[f]) /\ HasBlocks(list, n)
  /\ \A i \in 1 .. n : content[f][i] \in {Hole, mem[BlockAt(list, i - 1)][UnitAt(i - 1)]}

(* A read returns what was last written, whoever answers it: the client     *)
(* that caches the file, else the server, also after the blocks have been   *)
(* given back, taken again, shared on fork and flushed on close.            *)
Contents ==
  Exclusive /\ bad = "" =>
    \A f \in Files : file[f].live =>
      IF \E c \in Openers(f) : Caches(c)
        THEN \A c \in Openers(f) : cl[c].pc = "open" => Holds(cl[c].blocks, cl[c].size, f)
        ELSE Holds(file[f].blocks, file[f].size, f)

(* A client that has only read a file does not change its size: "if the     *)
(* file is ever modified it moves to an CACHE_EXCLUSIVE state that it will  *)
(* have to flush" (server.cpp:346).                                         *)
ReadersKeepSize ==
  [][\A c \in Clients : cl[c].pc = "open" /\ cl'[c].pc = "closing" /\ ~cl[c].wrote =>
       file'[cl[c].f].size = file[cl[c].f].size]_vars
=============================================================================
