------------------------------ MODULE OpenFiles ------------------------------
(***************************************************************************)
(* Open files and the processes that share them.  A server descriptor is   *)
(* counted at the file server; a process has a table of slots that refer   *)
(* to entries (FosFDEntry), several slots to one entry after a dup.  Fork  *)
(* and exec first give every slot an entry of its own (fsFlattenFds), and  *)
(* fork then takes a reference for the child per slot (fsCloneFds).  Files *)
(* may be unlinked while they are open.                                    *)
(*                                                                         *)
(* One server, whose handlers are those of FsServer; a process takes one   *)
(* step per request.                                                       *)
(***************************************************************************)
EXTENDS FsServer, FiniteSetsExt

CONSTANTS
  FD_COUNT,         \* slots of a process
  Unlinkers,        \* processes that unlink files
  MaxOpens,         \* bound: opens in a behaviour
  MaxDescriptors    \* bound: descriptors open on one inode at a time

ASSUME OpenFilesAssumption ==
  /\ FS_SERVER_COUNT = 1
  /\ FD_COUNT \in Nat \ {0}
  /\ Unlinkers \subseteq Clients
  /\ MaxOpens \in Nat /\ MaxDescriptors \in Nat

VARIABLES
  sv,    \* the file server
  tab,   \* of each process: slot -> <<descriptor, entry>>, or Free
  pr     \* of each process: what it is doing

vars == <<sv, tab, pr>>

Slots == 0 .. FD_COUNT - 1
Free == <<0, 0>>
Run == [pc |-> "run", i |-> 0, inode |-> RootId, name |-> "", child |-> "none"]
Unused == [Run EXCEPT !.pc = "unused"]

Init ==
  /\ sv = NewServer(0)
  /\ tab = [p \in Clients |-> [k \in Slots |-> Free]]
  /\ \E p \in Clients : pr = [q \in Clients |-> IF q = p THEN Run ELSE Unused]

-----------------------------------------------------------------------------
At(p, pc) == pr[p].pc = pc /\ sv.failed = ""
FreeSlots(p) == {k \in Slots : tab[p][k] = Free}
UsedFrom(p, i) == {k \in Slots : k >= i /\ tab[p][k] # Free}
NumFd(p, e) == Cardinality({k \in Slots : tab[p][k] = e})
Set(p, k, e) == tab' = [tab EXCEPT ![p][k] = e]
Entry(p, fd) == <<fd, Min({g \in 1 .. FD_COUNT + 1 : \A k \in Slots : tab[p][k][2] # g})>>
Bounded(s) == \A i \in DOMAIN s.files : Cardinality({fd \in DOMAIN s.fds : s.fds[fd].id = i}) <= MaxDescriptors

Become(p, state) == pr' = [pr EXCEPT ![p] = state]
Abort(p) == Become(p, [Run EXCEPT !.pc = "aborted"])

(* A new descriptor goes to the lowest free slot (fdCreate, fdAddInternal). *)
Install1(p, fd) == Set(p, Min(FreeSlots(p)), Entry(p, fd))

(* open(O_CREAT): one request creates, maps and opens. *)
CreateOpen(p, name) ==
  LET r == CreateOpenRequest(sv, p, RootId, name, FALSE)
  IN /\ At(p, "run") /\ FreeSlots(p) # {} /\ sv.nextFd <= MaxOpens
     /\ Bounded(r.sv)
     /\ sv' = r.sv
     /\ Install1(p, r.fd)
     /\ UNCHANGED pr

(* open without O_CREAT: resolve the name, then open the inode. *)
Find(p, name, next) ==
  LET r == Resolve(sv, p, RootId, name)
  IN /\ At(p, "run")
     /\ sv' = r.sv
     /\ IF r.ret = OK THEN Become(p, [Run EXCEPT !.pc = next, !.inode = r.inode.id, !.name = name])
        ELSE UNCHANGED pr
     /\ UNCHANGED tab

OpenInode(p) ==
  LET r == Open(sv, pr[p].inode, FALSE, TRUE)
  IN /\ At(p, "opening") /\ FreeSlots(p) # {} /\ sv.nextFd <= MaxOpens
     /\ Bounded(r.sv)
     /\ sv' = r.sv
     /\ IF r.ret = OK THEN Install1(p, r.fd) ELSE UNCHANGED tab
     /\ Become(p, Run)

(* dup: another slot for the same entry, without a request. *)
DupSlot(p, k) ==
  /\ At(p, "run") /\ tab[p][k] # Free /\ FreeSlots(p) # {}
  /\ Set(p, Min(FreeSlots(p)), tab[p][k])
  /\ UNCHANGED <<sv, pr>>

(* The request that closing slot k sends: only for the last slot of an      *)
(* entry.                                                                   *)
CloseEntry(p, k) ==
  IF NumFd(p, tab[p][k]) = 1 THEN Close(sv, tab[p][k][1]).sv ELSE sv

CloseSlot(p, k) ==
  /\ At(p, "run") /\ tab[p][k] # Free
  /\ sv' = CloseEntry(p, k)
  /\ Set(p, k, Free)
  /\ UNCHANGED pr

(* dup2(k, l): what was in slot l is closed. *)
Dup2(p, k, l) ==
  /\ At(p, "run") /\ tab[p][k] # Free /\ k # l
  /\ sv' = IF tab[p][l] # Free THEN CloseEntry(p, l) ELSE sv
  /\ Set(p, l, tab[p][k])
  /\ UNCHANGED pr

UnlinkName(p) ==
  /\ At(p, "unlinking")
  /\ sv' = UnlinkRequest(sv, p, RootId, pr[p].name, pr[p].inode).sv
  /\ Become(p, Run)
  /\ UNCHANGED tab

-----------------------------------------------------------------------------
(* fork and exec.                                                           *)

StartFork(p, q) ==
  /\ At(p, "run") /\ pr[q].pc = "unused"
  /\ \A r \in Clients : pr[r].child # q
  /\ Become(p, [Run EXCEPT !.pc = "flatten", !.child = q])
  /\ UNCHANGED <<sv, tab>>

StartExec(p) ==
  /\ At(p, "run")
  /\ Become(p, [Run EXCEPT !.pc = "flatten"])
  /\ UNCHANGED <<sv, tab>>

Shared(p, i) == {k \in UsedFrom(p, i) : NumFd(p, tab[p][k]) > 1}

(* fsFlattenFds: a slot that shares its entry gets its own, with a          *)
(* reference of its own at the server.                                      *)
FlattenSlot(p) ==
  LET k == Min(Shared(p, pr[p].i))
      fd == tab[p][k][1]
      r == Dup(sv, fd)
  IN /\ At(p, "flatten") /\ Shared(p, pr[p].i) # {}
     /\ sv' = r.sv
     /\ IF r.ret = OK THEN Set(p, k, Entry(p, fd)) /\ Become(p, [pr[p] EXCEPT !.i = k + 1])
        ELSE Abort(p) /\ UNCHANGED tab

\* Mutant: fork without flattening first.
FlattenedEarly(p) ==
  /\ At(p, "flatten")
  /\ Become(p, IF pr[p].child = "none" THEN Run ELSE [pr[p] EXCEPT !.pc = "clone", !.i = 0])
  /\ UNCHANGED <<sv, tab>>

(* All slots flat: an exec starts the new image with the same slots. *)
Flattened(p) ==
  /\ At(p, "flatten") /\ Shared(p, pr[p].i) = {}
  /\ Become(p, IF pr[p].child = "none" THEN Run ELSE [pr[p] EXCEPT !.pc = "clone", !.i = 0])
  /\ UNCHANGED <<sv, tab>>

(* fsCloneFds: the child's reference to each slot. *)
CloneSlot(p) ==
  LET k == Min(UsedFrom(p, pr[p].i))
      r == Dup(sv, tab[p][k][1])
  IN /\ At(p, "clone") /\ UsedFrom(p, pr[p].i) # {}
     /\ sv' = r.sv
     /\ IF r.ret = OK THEN Become(p, [pr[p] EXCEPT !.i = k + 1]) ELSE Abort(p)
     /\ UNCHANGED tab

(* real_clone: the child has a copy of the table, and a new channel. *)
Fork(p) ==
  LET q == pr[p].child
  IN /\ At(p, "clone") /\ UsedFrom(p, pr[p].i) = {}
     /\ tab' = [tab EXCEPT ![q] = tab[p]]
     /\ pr' = [pr EXCEPT ![p] = Run, ![q] = Run]
     /\ UNCHANGED sv

(* fsCloseFds, then the end of the process and of its channel. *)
StartExit(p) ==
  /\ At(p, "run")
  /\ Become(p, [Run EXCEPT !.pc = "exiting"])
  /\ UNCHANGED <<sv, tab>>

ExitSlot(p) ==
  LET k == Min(UsedFrom(p, 0))
  IN /\ At(p, "exiting") /\ UsedFrom(p, 0) # {}
     /\ sv' = CloseEntry(p, k)
     /\ Set(p, k, Free)
     /\ UNCHANGED pr

Exit(p) ==
  /\ At(p, "exiting") /\ UsedFrom(p, 0) = {}
  /\ sv' = AppClose(sv, p)
  /\ Become(p, Unused)
  /\ UNCHANGED tab

Step(p) ==
  \/ \E name \in Names : CreateOpen(p, name) \/ Find(p, name, "opening")
  \/ p \in Unlinkers /\ \E name \in Names : Find(p, name, "unlinking")
  \/ OpenInode(p) \/ UnlinkName(p)
  \/ \E k \in Slots : DupSlot(p, k) \/ CloseSlot(p, k)
  \/ \E k, l \in Slots : Dup2(p, k, l)
  \/ \E q \in Clients \ {p} : StartFork(p, q)
  \/ StartExec(p) \/ FlattenSlot(p) \/ Flattened(p) \/ CloneSlot(p) \/ Fork(p)
  \/ StartExit(p) \/ ExitSlot(p) \/ Exit(p)

Next == \E p \in Clients : Step(p)

Spec == Init /\ [][Next]_vars

-----------------------------------------------------------------------------
TypeOK ==
  /\ \A p \in Clients : \A k \in Slots : tab[p][k] \in {Free} \cup ((1 .. MaxOpens) \X (1 .. FD_COUNT + 1))
  /\ sv.orphans \subseteq DOMAIN sv.files
  /\ \A fd \in DOMAIN sv.fds : sv.fds[fd].count \in 1 .. 2 * FD_COUNT * Cardinality(Clients)

(* No assertion fails: every descriptor a process closes or dups is open at *)
(* the server, and so is its inode (server.cpp, close; misc.cpp, fsCloneFds *)
(* and fsFlattenFdInternal).                                                *)
NoAssertionFails == sv.failed = "" /\ \A p \in Clients : pr[p].pc # "aborted"

Entries(p, fd) == {tab[p][k] : k \in Slots} \cap ({fd} \X (1 .. FD_COUNT + 1))
Cloned(p, fd) == IF pr[p].pc = "clone" THEN {k \in Slots : k < pr[p].i /\ tab[p][k][1] = fd} ELSE {}

(* The count of a descriptor is the number of entries that refer to it in   *)
(* all processes, and what a fork under way has taken for its child: it is  *)
(* never closed under a process, nor kept open for no one.                  *)
RefCountExact ==
  /\ \A p \in Clients : \A k \in Slots : tab[p][k] # Free => tab[p][k][1] \in DOMAIN sv.fds
  /\ \A fd \in DOMAIN sv.fds :
       sv.fds[fd].count = MapThenSumSet(LAMBDA p : Cardinality(Entries(p, fd)) + Cardinality(Cloned(p, fd)), Clients)

(* A file stays while it is open, unlinked or not. *)
OpenFilesStay == \A fd \in DOMAIN sv.fds : sv.fds[fd].id \in DOMAIN sv.files

(* The inode of a file is deleted with the last of its entry and its        *)
(* descriptors: no file is kept that no one can reach.                      *)
NoFileLeaks ==
  \A i \in DOMAIN sv.files \ {RootId} :
    \/ \E n \in Names : HasEntry(sv, RootId, n) /\ Children(sv, RootId)[n].id = i
    \/ InUse(sv, i)
==============================================================================
