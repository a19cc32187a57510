-------------------------------- MODULE Rmdir --------------------------------
(***************************************************************************)
(* Removing a shared directory, whose entries are spread over all servers  *)
(* (fosRmdir in sys/fs/lib/lib.cpp and the RMDIR handler of the servers).  *)
(* A remover locks the directory's part at its home server, then the parts *)
(* at the others; if all were empty it removes every part and then the     *)
(* entry in the parent, else it unlocks those it locked.  Meanwhile other  *)
(* clients unlink and create files in the directory.                       *)
(*                                                                         *)
(* A request to one server blocks its client, so request, handler and      *)
(* reply are one step; the requests that a remover scatters to all servers *)
(* are handled one by one, in any order.                                   *)
(***************************************************************************)
EXTENDS FsServer, FiniteSetsExt

CONSTANT Setups   \* what the clients do, once each; see SetupType

SetupType ==
  [scatter : BOOLEAN,            \* CONFIG_RM_SCATTER_GATHER
   removers : SUBSET Clients, unlinkers : SUBSET Clients, creators : SUBSET Clients,
   files : SUBSET Names,         \* names in the directory at the start
   creates : SUBSET Names]       \* names that creators use

VARIABLES
  setup,   \* the member of Setups that this behaviour is about
  server,  \* the state of each server
  maker,   \* who makes the directory, and the files it still has to make
  cl       \* the state of each client

vars == <<setup, server, maker, cl>>

Removers == setup.removers

DirName == "d"
Home == PathHashDirect(DirName)
Dir == Create(NewServer(Home), Root.id, DirName, TYPE_DIR_SHARED).inode

ASSUME RmdirAssumption ==
  /\ Setups \subseteq SetupType
  /\ IdLimit > 3
  /\ Home \in Servers
  /\ \A n \in Names \cup {".."} : PathOwner(Dir, n) \in Servers

Idle == [pc |-> "start", i |-> 0, contacted |-> 0, got |-> [s \in Servers |-> "none"],
         wait |-> [s \in Servers |-> "none"], action |-> "none", ret |-> "none",
         file |-> <<>>]

(* fosMkdir: the inode and its maps, wherever they live.                    *)
Mkdir(sv, c) ==
  LET made == IF sv.id = Home THEN CreateRequest(sv, c, Root, DirName, TYPE_DIR_SHARED).sv ELSE sv
      dotted == IF sv.id # Home /\ sv.id = PathOwner(Dir, "..")
                  THEN AddMap(made, c, Dir.id, "..", Root, FALSE).sv ELSE made
  IN IF sv.id # Home /\ sv.id = Root.server
       THEN AddMap(dotted, c, Root.id, DirName, Dir, FALSE).sv ELSE dotted

(* Some client has made the directory.                                      *)
Init ==
  \E c \in Clients :
    /\ setup \in Setups
    /\ server = [s \in Servers |-> Mkdir(NewServer(s), c)]
    /\ maker = [client |-> c, todo |-> setup.files]
    /\ cl = [d \in Clients |-> Idle]

-----------------------------------------------------------------------------
Up(s) == server[s].failed = ""
At(c, p) == cl[c].pc = p
Goto(c, p) == cl' = [cl EXCEPT ![c].pc = p]
Done(c, r) == cl' = [cl EXCEPT ![c] = [Idle EXCEPT !.pc = "done", !.ret = r]]
Assert(c) == cl' = [cl EXCEPT ![c] = [Idle EXCEPT !.pc = "aborted"]]

(* The servers other than the home, in the order they are contacted.        *)
Others == Servers \ {Home}
NextAfter(i) == IF i + 1 = Home THEN i + 2 ELSE i + 1

(* The files that are in the directory at the start.  (No server makes so   *)
(* many inodes that their numbers, up to IdLimit, start again.)             *)
MakeFile(f) ==
  LET s == PathOwner(Dir, f)
      r == CreateOpenRequest(server[s], maker.client, Dir.id, f, TRUE)
  IN /\ f \in maker.todo
     /\ Up(s) /\ server[s].seq < IdLimit
     /\ server' = [server EXCEPT ![s] = r.sv]
     /\ maker' = [maker EXCEPT !.todo = @ \ {f}]
     /\ UNCHANGED cl

(* fosLookup of the directory, here for every kind of client. *)
Lookup(c, p) ==
  LET r == Resolve(server[Root.server], c, Root.id, DirName)
  IN /\ At(c, "start") /\ maker.todo = {} /\ Up(Root.server)
     /\ server' = [server EXCEPT ![Root.server] = r.sv]
     /\ IF r.ret = OK THEN Goto(c, p) ELSE Done(c, r.ret)

(* Phase 1, the home server first: RMDIR_TRY until it is not locked.        *)
TryHome(c) ==
  LET r == Rmdir(server[Home], Dir.id, "try")
  IN /\ At(c, "tryHome") /\ Up(Home)
     /\ server' = [server EXCEPT ![Home] = r.sv]
     /\ CASE r.ret = EAGAIN -> UNCHANGED cl
          [] r.ret = OK ->
               cl' = [cl EXCEPT ![c].got[Home] = OK,
                                ![c].pc = IF setup.scatter THEN "scatter" ELSE "serial",
                                ![c].i = NextAfter(-1)]
          [] OTHER -> Done(c, r.ret)

(* A server handles a scattered request. *)
Serve(c, s) ==
  LET r == Rmdir(server[s], Dir.id, cl[c].wait[s])
  IN /\ cl[c].wait[s] # "none"
     /\ Up(s)
     /\ server' = [server EXCEPT ![s] = r.sv]
     /\ cl' = [cl EXCEPT ![c].wait[s] = "none", ![c].got[s] = r.ret]

Gathered(c) == \A s \in Servers : cl[c].wait[s] = "none"

ScatterTry(c) ==
  /\ At(c, "scatter")
  /\ cl' = [cl EXCEPT ![c].pc = "gather",
                      ![c].wait = [s \in Servers |-> IF s = Home THEN "none" ELSE "try"]]
  /\ UNCHANGED server

\* Mutant: the decision is also sent where the part was not empty.
GatherTryToAll(c) ==
  LET refused == {s \in Servers : cl[c].got[s] # OK}
      action == IF refused = {} THEN "success" ELSE "fail"
  IN /\ At(c, "gather") /\ Gathered(c)
     /\ cl' = [cl EXCEPT ![c].pc = "commit", ![c].action = action,
                         ![c].ret = IF refused = {} THEN OK ELSE cl[c].got[Max(refused)],
                         ![c].got = [s \in Servers |-> "none"],
                         ![c].wait = [s \in Servers |-> action]]
     /\ UNCHANGED server

(* All have answered: commit, or go back where the part was locked (as the  *)
(* code sees it: wherever the answer was not NOT_EMPTY).                    *)
GatherTry(c) ==
  LET refused == {s \in Servers : cl[c].got[s] # OK}
      action == IF refused = {} THEN "success" ELSE "fail"
  IN /\ At(c, "gather") /\ Gathered(c)
     /\ cl' = [cl EXCEPT ![c].pc = "commit", ![c].action = action,
                         ![c].ret = IF refused = {} THEN OK ELSE cl[c].got[Max(refused)],
                         ![c].got = [s \in Servers |-> "none"],
                         ![c].wait = [s \in Servers |->
                                        IF cl[c].got[s] = NOT_EMPTY THEN "none" ELSE action]]
     /\ UNCHANGED server

GatherCommit(c) ==
  /\ At(c, "commit") /\ Gathered(c)
  /\ IF \E s \in Servers : cl[c].got[s] \notin {OK, "none"} THEN Assert(c)
     ELSE IF cl[c].action = "success" THEN Goto(c, "removeMap")
     ELSE Done(c, cl[c].ret)
  /\ UNCHANGED server

\* Mutant: also tries again what is refused because it is not empty.
TryNextForever(c) ==
  LET s == cl[c].i
      r == Rmdir(server[s], Dir.id, "try")
  IN /\ At(c, "serial") /\ s \in Servers /\ Up(s)
     /\ server' = [server EXCEPT ![s] = r.sv]
     /\ IF r.ret = OK THEN cl' = [cl EXCEPT ![c].i = NextAfter(s)] ELSE UNCHANGED cl

(* The same without scatter-gather: the servers in order, each until it is  *)
(* not locked, up to the first that refuses.                                *)
TryNext(c) ==
  LET s == cl[c].i
      r == Rmdir(server[s], Dir.id, "try")
  IN /\ At(c, "serial") /\ s \in Servers /\ Up(s)
     /\ server' = [server EXCEPT ![s] = r.sv]
     /\ CASE r.ret = EAGAIN -> UNCHANGED cl
          [] r.ret = OK -> cl' = [cl EXCEPT ![c].i = NextAfter(s)]
          [] OTHER -> cl' = [cl EXCEPT ![c].pc = "serialCommit", ![c].action = "fail", ![c].ret = r.ret,
                                       ![c].contacted = s, ![c].i = 0]

TriedAll(c) ==
  /\ At(c, "serial") /\ cl[c].i \notin Servers
  /\ cl' = [cl EXCEPT ![c].pc = "serialCommit", ![c].action = "success", ![c].ret = OK,
                      ![c].contacted = FS_SERVER_COUNT, ![c].i = 0]
  /\ UNCHANGED server

CommitNext(c) ==
  LET s == cl[c].i
      r == Rmdir(server[s], Dir.id, cl[c].action)
  IN /\ At(c, "serialCommit") /\ s < cl[c].contacted /\ Up(s)
     /\ server' = [server EXCEPT ![s] = r.sv]
     /\ IF r.ret = OK THEN cl' = [cl EXCEPT ![c].i = s + 1] ELSE Assert(c)

\* Mutant: the home server is forgotten when the loop did not reach it.
CommitHomeForgets(c) ==
  /\ At(c, "serialCommit") /\ cl[c].i = cl[c].contacted
  /\ cl[c].action = "fail" /\ cl[c].contacted < Home
  /\ Done(c, cl[c].ret)
  /\ UNCHANGED server

(* The home server is unlocked last when the loop did not reach it; what    *)
(* it answers becomes the result.                                           *)
CommitHome(c) ==
  LET r == Rmdir(server[Home], Dir.id, "fail")
  IN /\ At(c, "serialCommit") /\ cl[c].i = cl[c].contacted
     /\ cl[c].action = "fail" /\ cl[c].contacted < Home /\ Up(Home)
     /\ server' = [server EXCEPT ![Home] = r.sv]
     /\ IF r.ret = OK THEN Done(c, r.ret) ELSE Assert(c)

CommittedAll(c) ==
  /\ At(c, "serialCommit") /\ cl[c].i = cl[c].contacted
  /\ ~(cl[c].action = "fail" /\ cl[c].contacted < Home)
  /\ IF cl[c].action = "success" THEN Goto(c, "removeMap") ELSE Done(c, cl[c].ret)
  /\ UNCHANGED server

(* Last, the entry in the parent directory. *)
RemoveEntry(c) ==
  LET r == RemoveMap(server[Root.server], c, Root.id, DirName)
  IN /\ At(c, "removeMap") /\ Up(Root.server)
     /\ server' = [server EXCEPT ![Root.server] = r.sv]
     /\ Done(c, r.ret)

-----------------------------------------------------------------------------
(* The other clients.  In a shared directory a file's inode is made where   *)
(* its entry is, so both take one request.                                  *)

FindFile(c, f) ==
  LET s == PathOwner(Dir, f)
      r == Resolve(server[s], c, Dir.id, f)
  IN /\ At(c, "find") /\ Up(s)
     /\ server' = [server EXCEPT ![s] = r.sv]
     /\ IF r.ret = OK THEN cl' = [cl EXCEPT ![c].pc = "unlink", ![c].file = <<f, r.inode.id>>]
        ELSE Done(c, r.ret)

UnlinkFile(c) ==
  LET f == cl[c].file[1]
      s == PathOwner(Dir, f)
      r == UnlinkRequest(server[s], c, Dir.id, f, cl[c].file[2])
  IN /\ At(c, "unlink") /\ Up(s)
     /\ server' = [server EXCEPT ![s] = r.sv]
     /\ Done(c, r.ret)

CreateFile(c, f) ==
  LET s == PathOwner(Dir, f)
      r == CreateOpenRequest(server[s], c, Dir.id, f, TRUE)
  IN /\ At(c, "create") /\ Up(s) /\ server[s].seq < IdLimit
     /\ server' = [server EXCEPT ![s] = r.sv]
     /\ Done(c, r.ret)

RemoverStep(c) ==
  \/ Lookup(c, "tryHome")
  \/ TryHome(c)
  \/ ScatterTry(c) \/ GatherTry(c) \/ GatherCommit(c)
  \/ TryNext(c) \/ TriedAll(c) \/ CommitNext(c) \/ CommitHome(c) \/ CommittedAll(c)
  \/ RemoveEntry(c)

UnlinkerStep(c) == Lookup(c, "find") \/ (\E f \in Names : FindFile(c, f)) \/ UnlinkFile(c)
CreatorStep(c) == Lookup(c, "create") \/ \E f \in setup.creates : CreateFile(c, f)

Next ==
  /\ \/ /\ \/ \E c \in Removers : RemoverStep(c)
           \/ \E c \in Removers, s \in Servers : Serve(c, s)
           \/ \E c \in setup.unlinkers : UnlinkerStep(c)
           \/ \E c \in setup.creators : CreatorStep(c)
        /\ UNCHANGED maker
     \/ \E f \in Names : MakeFile(f)
  /\ UNCHANGED setup

Spec == Init /\ [][Next]_vars

(* Servers answer, and a client's thread goes on when it is answered.       *)
FairSpec ==
  /\ Spec
  /\ WF_vars(\E f \in Names : MakeFile(f) /\ UNCHANGED setup)
  /\ \A c \in Clients : WF_vars(c \in Removers /\ RemoverStep(c) /\ UNCHANGED <<setup, maker>>)
  /\ \A c \in Clients : \A s \in Servers : WF_vars(Serve(c, s) /\ UNCHANGED <<setup, maker>>)

-----------------------------------------------------------------------------
Parts(s) == IF Dir.id \in DOMAIN server[s].files THEN {server[s].files[Dir.id]} ELSE {}
Entries == {f \in Names : \E s \in Servers : HasEntry(server[s], Dir.id, f)}
Linked == HasEntry(server[Root.server], Root.id, DirName)
LockedParts == {s \in Servers : \E p \in Parts(s) : p.locked}
Finished == \A c \in Removers : At(c, "done")

TypeOK ==
  /\ \A c \in Clients : cl[c].i \in 0 .. FS_SERVER_COUNT /\ cl[c].contacted \in 0 .. FS_SERVER_COUNT
  /\ \A s \in Servers :
       /\ server[s].orphans \subseteq DOMAIN server[s].files
       /\ \A i \in DOMAIN server[s].files : DOMAIN server[s].files[i].children \subseteq Names \cup {"..", DirName}

(* No assertion fails: a part is locked when its remover commits or goes    *)
(* back (server.cpp, rmdir), and commits are never refused (fosRmdir).      *)
NoAssertionFails ==
  /\ \A s \in Servers : server[s].failed = ""
  /\ \A c \in Removers : ~At(c, "aborted")

(* rmdir tells the truth: if it returned OK, the directory was unlinked; if *)
(* no rmdir returned OK, it is still there.                                 *)
ResultHolds ==
  /\ \A c \in Removers : At(c, "done") /\ cl[c].ret = OK => ~Linked
  /\ Finished /\ (\A c \in Removers : cl[c].ret # OK) => Linked

(* Nothing is left behind once no remover is at work: no part is locked     *)
(* (RMDIR_FAIL and RMDIR_SUCCESS unlock what RMDIR_TRY locked), and if the  *)
(* directory was removed no server has a part of it, also none made later.  *)
NoRemains ==
  Finished => LockedParts = {} /\ (~Linked => \A s \in Servers : Parts(s) = {})

(* The two phases look like one step, taken when the remover has all locks: *)
(* the directory is empty then, and gone for everyone afterwards.           *)
Atomic == INSTANCE AtomicDir WITH
            linked <- Linked /\ \A c \in Removers : cl[c].action # "success",
            entries <- Entries

ImplementsAtomicDir == Atomic!Spec

(* Every rmdir returns: the wait for a locked directory (EAGAIN) ends.      *)
RemoversReturn == <>(\A c \in Removers : At(c, "done"))
==============================================================================
