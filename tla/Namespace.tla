------------------------------ MODULE Namespace ------------------------------
(***************************************************************************)
(* The names of one directory, used by several clients of several servers  *)
(* (sys/fs/lib/lib.cpp).  The entry of a name, and the inode it refers to, *)
(* may be at different servers, so making, removing or renaming a file     *)
(* takes several requests that other clients' requests come between.  A    *)
(* client caches the entries it has seen (sys/fs/lib/dir_cache.cpp), and a *)
(* server notifies it when one of them goes.                               *)
(*                                                                         *)
(* A request, its handler and its reply are one step; the handlers are     *)
(* those of FsServer.                                                      *)
(***************************************************************************)
EXTENDS FsServer

CONSTANTS
  Setups,          \* kinds of directories and clients; see SetupType
  MaxCalls,        \* bound: calls of one client
  MaxDescriptors   \* bound: descriptors open on one inode at a time

Ops == {"open", "creat", "excl", "symlink", "mkdir", "unlink", "rmdir", "rename"}

SetupType ==
  [shared : BOOLEAN,    \* the directory is distributed over the servers
   programs : [Clients -> SUBSET (Ops \X Names \X Names)]]   \* calls <<op, name, new name>>

ASSUME NamespaceAssumption ==
  /\ Setups \subseteq SetupType
  /\ MaxCalls \in Nat /\ MaxDescriptors \in Nat

VARIABLES
  setup,   \* the member of Setups that this behaviour is about
  server,  \* the state of each server
  cl       \* the state of each client

vars == <<setup, server, cl>>

(* The root, or a shared directory in it. *)
MkdirShared(c) == CreateRequest(NewServer(0), c, Root, "d", TYPE_DIR_SHARED)
Dir == IF setup.shared THEN InodeType(0, FreshId(NewServer(0)), TYPE_DIR_SHARED) ELSE Root

Idle == [pc |-> "idle", call |-> <<"none", "none", "none">>, calls |-> 0, hit |-> FALSE,
         inode |-> NoInode, exist |-> NoInode, fd |-> 0, ret |-> "none", cache |-> NoEntries]

Init ==
  /\ setup \in Setups
  /\ \E c \in Clients :
       server = [s \in Servers |-> IF setup.shared /\ s = 0 THEN MkdirShared(c).sv ELSE NewServer(s)]
  /\ cl = [c \in Clients |-> Idle]

-----------------------------------------------------------------------------
At(c, pc) == cl[c].pc = pc
Op(c) == cl[c].call[1]
Name(c) == cl[c].call[2]
NewName(c) == cl[c].call[3]
Become(c, state) == cl' = [cl EXCEPT ![c] = state]
Goto(c, pc) == Become(c, [cl[c] EXCEPT !.pc = pc])
ReturnWith(state, r) ==
  [state EXCEPT !.pc = "idle", !.hit = FALSE, !.inode = NoInode, !.exist = NoInode, !.fd = 0, !.ret = r]
Return(c, r) == Become(c, ReturnWith(cl[c], r))
Abort(c) == Goto(c, "aborted")

EntryServer(n) == PathOwner(Dir, n)
InodeServer(n) == IF Dir.type = TYPE_DIR_SHARED THEN EntryServer(n) ELSE PathHashDirect(n)

(* The request for which server s gives reply r: notifications that s sent  *)
(* before the reply arrive before it.                                       *)
Call(c, s, r) ==
  /\ server[s].failed = "" /\ server[s].notes[c] = <<>>
  /\ server' = [server EXCEPT ![s] = r.sv]
  /\ \A i \in DOMAIN r.sv.files :
       Cardinality({fd \in DOMAIN r.sv.fds : r.sv.fds[fd].id = i}) <= MaxDescriptors

NoNotifications(c) == \A s \in Servers : server[s].notes[c] = <<>>

(* DirCache::add does not replace what is there. *)
CacheAdd(cache, n, i) == IF n \in DOMAIN cache THEN cache ELSE With(cache, n, i)

(* fosNotifications: one of the cached entries that refer to the inode goes. *)
Notified(c, s) ==
  LET i == Head(server[s].notes[c])
      stale == {n \in DOMAIN cl[c].cache : cl[c].cache[n].id = i.id /\ cl[c].cache[n].server = i.server}
  IN /\ server[s].notes[c] # <<>>
     /\ server' = [server EXCEPT ![s].notes[c] = Tail(@)]
     /\ IF stale = {} THEN UNCHANGED cl
        ELSE \E n \in stale : Become(c, [cl[c] EXCEPT !.cache = Without(@, n)])

-----------------------------------------------------------------------------
(* A call begins; fosLookupParent has looked for notifications. *)
Begin(c, call) ==
  /\ At(c, "idle") /\ cl[c].calls < MaxCalls
  /\ NoNotifications(c)
  /\ Become(c, [cl[c] EXCEPT !.call = call, !.calls = @ + 1, !.ret = "none",
       !.pc = IF call[1] \in {"open", "unlink", "rmdir", "rename"} THEN "lookup"
              ELSE IF call[1] \in {"mkdir", "symlink"} THEN call[1]
              ELSE IF InodeServer(call[2]) = EntryServer(call[2]) THEN "createOpen"
              ELSE "create"])
  /\ UNCHANGED server

(* What the caller of fosLookup does with inode i. *)
Found(c, i) ==
  CASE Op(c) = "open" -> "open"
    [] Op(c) = "unlink" -> IF i.server # EntryServer(Name(c)) THEN "removeMap" ELSE "unlink"
    [] Op(c) = "rmdir" -> IF i.server # EntryServer(Name(c)) THEN "rmdir" ELSE "rmdirAndMap"
    [] Op(c) = "rename" -> IF EntryServer(Name(c)) # EntryServer(NewName(c)) THEN "mapNew" ELSE "updateMap"

(* fosLookup: from the cache, or from the server. *)
LookupCached(c) ==
  LET i == cl[c].cache[Name(c)]
  IN /\ At(c, "lookup") /\ NoNotifications(c)
     /\ Name(c) \in DOMAIN cl[c].cache
     /\ Become(c, [cl[c] EXCEPT !.inode = i, !.hit = TRUE, !.pc = Found(c, i)])
     /\ UNCHANGED server

LookupLive(c) ==
  LET s == EntryServer(Name(c))
      r == Resolve(server[s], c, Dir.id, Name(c))
  IN /\ At(c, "lookup") /\ NoNotifications(c)
     /\ Name(c) \notin DOMAIN cl[c].cache
     /\ Call(c, s, r)
     /\ IF r.ret = OK
          THEN Become(c, [cl[c] EXCEPT !.inode = r.inode, !.pc = Found(c, r.inode),
                                       !.cache = CacheAdd(@, Name(c), r.inode)])
          ELSE Return(c, r.ret)

-----------------------------------------------------------------------------
(* fosFileOpen.                                                             *)

(* A name found in the cache may be stale: look it up once more. *)
OpenInode(c) ==
  LET s == cl[c].inode.server
      r == Open(server[s], cl[c].inode.id, FALSE, FALSE)
  IN /\ At(c, "open")
     /\ Call(c, s, r)
     /\ CASE r.ret = OK /\ r.fd # 0 -> Become(c, [cl[c] EXCEPT !.fd = r.fd, !.pc = "close"])
          [] r.ret = OK /\ r.fd = 0 -> Abort(c)
          [] r.ret = NOT_FOUND /\ cl[c].hit ->
               Become(c, [cl[c] EXCEPT !.cache = Without(@, Name(c)), !.hit = FALSE, !.pc = "lookup"])
          [] OTHER -> Return(c, r.ret)

\* Mutant: close goes to the server of the entry.
CloseFileAtEntry(c) ==
  LET s == EntryServer(Name(c))
  IN /\ At(c, "close")
     /\ Call(c, s, Close(server[s], cl[c].fd))
     /\ Return(c, OK)

CloseFile(c) ==
  LET s == cl[c].inode.server
  IN /\ At(c, "close")
     /\ Call(c, s, Close(server[s], cl[c].fd))
     /\ Return(c, OK)

(* O_CREAT where the inode goes to the server of the entry. *)
CreateOpen(c) ==
  LET s == InodeServer(Name(c))
      r == CreateOpenRequest(server[s], c, Dir.id, Name(c), Op(c) = "excl")
  IN /\ At(c, "createOpen")
     /\ Call(c, s, r)
     /\ CASE r.ret = OK -> Become(c, [cl[c] EXCEPT !.inode = r.inode, !.fd = r.fd, !.pc = "close",
                                                   !.cache = CacheAdd(@, Name(c), r.inode)])
          [] r.ret = EXIST /\ Op(c) = "creat" -> Become(c, [cl[c] EXCEPT !.inode = r.inode, !.pc = "open"])
          [] OTHER -> Return(c, r.ret)

(* O_CREAT where it goes to another: make the inode, add the entry, and     *)
(* destroy the inode if there is one already.                               *)
CreateInode(c) ==
  LET s == InodeServer(Name(c))
      r == CreateRequest(server[s], c, Dir, Name(c), TYPE_FILE)
  IN /\ At(c, "create")
     /\ Call(c, s, r)
     /\ IF r.ret = OK THEN Become(c, [cl[c] EXCEPT !.inode = r.inode, !.pc = "map"])
        ELSE IF r.ret = EXIST /\ Op(c) = "creat" THEN Become(c, [cl[c] EXCEPT !.inode = r.inode, !.pc = "open"])
        ELSE Return(c, r.ret)

\* Mutant: the inode that lost the race for the name stays.
MapInodeKeeps(c) ==
  LET s == EntryServer(Name(c))
      r == AddMap(server[s], c, Dir.id, Name(c), cl[c].inode, FALSE)
  IN /\ At(c, "map")
     /\ Call(c, s, r)
     /\ Become(c, [cl[c] EXCEPT !.inode = r.inode, !.pc = "open"])

MapInode(c) ==
  LET s == EntryServer(Name(c))
      r == AddMap(server[s], c, Dir.id, Name(c), cl[c].inode, FALSE)
  IN /\ At(c, "map")
     /\ Call(c, s, r)
     /\ IF r.ret = OK
          THEN Become(c, [cl[c] EXCEPT !.pc = "open", !.cache = CacheAdd(@, Name(c), cl[c].inode)])
          ELSE Become(c, [cl[c] EXCEPT !.pc = "destroy", !.exist = r.inode])

\* Mutant: the client goes on with the inode that it has destroyed.
DestroyInodeOpensOwn(c) ==
  LET s == cl[c].inode.server
      r == Destroy(server[s], cl[c].inode.id)
  IN /\ At(c, "destroy")
     /\ Call(c, s, r)
     /\ IF r.ret = OK THEN Become(c, [cl[c] EXCEPT !.exist = NoInode, !.pc = "open"]) ELSE Abort(c)

DestroyInode(c) ==
  LET s == cl[c].inode.server
      r == Destroy(server[s], cl[c].inode.id)
  IN /\ At(c, "destroy")
     /\ Call(c, s, r)
     /\ IF r.ret = OK THEN Become(c, [cl[c] EXCEPT !.inode = cl[c].exist, !.exist = NoInode, !.pc = "open"])
        ELSE Abort(c)

(* fosFileSymlink. *)
SymlinkName(c) ==
  LET s == EntryServer(Name(c))
      r == Symlink(server[s], Dir.id, Name(c))
  IN /\ At(c, "symlink")
     /\ Call(c, s, r)
     /\ Return(c, r.ret)

-----------------------------------------------------------------------------
(* fosMkdir of a directory that is not distributed, and fosRmdir of it.     *)

Mkdir(c) ==
  LET s == InodeServer(Name(c))
      r == CreateRequest(server[s], c, Dir, Name(c), TYPE_DIR)
  IN /\ At(c, "mkdir")
     /\ Call(c, s, r)
     /\ IF r.ret # OK THEN Return(c, r.ret)
        ELSE IF Dir.type = TYPE_DIR /\ Dir.server # s
          THEN Become(c, [cl[c] EXCEPT !.inode = r.inode, !.pc = "mapDir"])
        ELSE Become(c, ReturnWith(IF Dir.type = TYPE_DIR
                                    THEN [cl[c] EXCEPT !.cache = CacheAdd(@, Name(c), r.inode)] ELSE cl[c], OK))

MapDir(c) ==
  LET r == AddMap(server[Dir.server], c, Dir.id, Name(c), cl[c].inode, FALSE)
  IN /\ At(c, "mapDir")
     /\ Call(c, Dir.server, r)
     /\ IF r.ret = OK
          THEN Become(c, ReturnWith([cl[c] EXCEPT !.cache = CacheAdd(@, Name(c), cl[c].inode)], OK))
          ELSE Goto(c, "undoDir")

UndoDir(c) ==
  LET s == cl[c].inode.server
  IN /\ At(c, "undoDir")
     /\ Call(c, s, Destroy(server[s], cl[c].inode.id))
     /\ Return(c, EXIST)

RemoveDirAndMap(c) ==
  LET s == cl[c].inode.server
      r == RmdirAndMapRequest(server[s], c, Dir.id, Name(c), cl[c].inode.id)
  IN /\ At(c, "rmdirAndMap")
     /\ Call(c, s, r)
     /\ Become(c, ReturnWith(IF r.ret = OK THEN [cl[c] EXCEPT !.cache = Without(@, Name(c))] ELSE cl[c], r.ret))

RemoveDir(c) ==
  LET s == cl[c].inode.server
      r == Rmdir(server[s], cl[c].inode.id, "force")
  IN /\ At(c, "rmdir")
     /\ Call(c, s, r)
     /\ IF r.ret = OK THEN Goto(c, "removeMap") ELSE Return(c, r.ret)

-----------------------------------------------------------------------------
(* fosUnlink, and the entry of a removed directory.                         *)

RemoveEntry(c) ==
  LET s == EntryServer(Name(c))
      r == RemoveMap(server[s], c, Dir.id, Name(c))
  IN /\ At(c, "removeMap")
     /\ Call(c, s, r)
     /\ IF r.ret # OK THEN Abort(c)
        ELSE IF Op(c) = "unlink" THEN Goto(c, "unlink")
        ELSE Become(c, ReturnWith([cl[c] EXCEPT !.cache = Without(@, Name(c))], OK))

\* Mutant: the client's own cached entry stays.
UnlinkInodeKeeps(c) ==
  LET s == cl[c].inode.server
      r == IF s = EntryServer(Name(c))
             THEN UnlinkRequest(server[s], c, Dir.id, Name(c), cl[c].inode.id)
             ELSE Unlink(server[s], cl[c].inode.id)
  IN /\ At(c, "unlink")
     /\ Call(c, s, r)
     /\ Return(c, r.ret)

UnlinkInode(c) ==
  LET s == cl[c].inode.server
      r == IF s = EntryServer(Name(c))
             THEN UnlinkRequest(server[s], c, Dir.id, Name(c), cl[c].inode.id)
             ELSE Unlink(server[s], cl[c].inode.id)
  IN /\ At(c, "unlink")
     /\ Call(c, s, r)
     /\ Become(c, ReturnWith(IF r.ret = OK THEN [cl[c] EXCEPT !.cache = Without(@, Name(c))] ELSE cl[c], r.ret))

-----------------------------------------------------------------------------
(* fosRename of a file within the directory.                                *)

NoLonger(c, state) == [state EXCEPT !.cache = Without(@, Name(c))]

(* After the entries have changed, the file that had the new name goes.     *)
Displace(c, state, exist, had) ==
  Become(c, IF had THEN [state EXCEPT !.exist = exist, !.pc = "destroyOld"] ELSE ReturnWith(state, OK))

UpdateMap(c) ==
  LET s == EntryServer(NewName(c))
      r == UpdateMapRequest(server[s], c, Dir.id, NewName(c), cl[c].inode, Dir.id, Name(c))
  IN /\ At(c, "updateMap")
     /\ Call(c, s, r)
     /\ Displace(c, NoLonger(c, [cl[c] EXCEPT !.cache = CacheAdd(@, NewName(c), cl[c].inode)]),
                 r.inode, r.ret = EXIST)

\* Mutant: the inode of the reply is destroyed even if the name was free.
MapNewDestroys(c) ==
  LET s == EntryServer(NewName(c))
      r == AddMap(server[s], c, Dir.id, NewName(c), cl[c].inode, TRUE)
  IN /\ At(c, "mapNew")
     /\ Call(c, s, r)
     /\ Become(c, [cl[c] EXCEPT !.pc = "removeOld", !.exist = r.inode,
                                !.cache = CacheAdd(@, NewName(c), cl[c].inode)])

MapNew(c) ==
  LET s == EntryServer(NewName(c))
      r == AddMap(server[s], c, Dir.id, NewName(c), cl[c].inode, TRUE)
  IN /\ At(c, "mapNew")
     /\ Call(c, s, r)
     /\ Become(c, [cl[c] EXCEPT !.pc = "removeOld", !.exist = IF r.ret = EXIST THEN r.inode ELSE NoInode,
                                !.cache = CacheAdd(@, NewName(c), cl[c].inode)])

RemoveOld(c) ==
  LET s == EntryServer(Name(c))
      r == RemoveMap(server[s], c, Dir.id, Name(c))
  IN /\ At(c, "removeOld")
     /\ Call(c, s, r)
     /\ IF r.ret = OK THEN Displace(c, NoLonger(c, cl[c]), cl[c].exist, cl[c].exist # NoInode) ELSE Abort(c)

DestroyOld(c) ==
  LET s == cl[c].exist.server
      r == Destroy(server[s], cl[c].exist.id)
  IN /\ At(c, "destroyOld")
     /\ Call(c, s, r)
     /\ IF r.ret = OK THEN Return(c, OK) ELSE Abort(c)

Step(c) ==
  \/ \E call \in setup.programs[c] : Begin(c, call)
  \/ \E s \in Servers : Notified(c, s)
  \/ LookupCached(c) \/ LookupLive(c)
  \/ OpenInode(c) \/ CloseFile(c) \/ CreateOpen(c)
  \/ CreateInode(c) \/ MapInode(c) \/ DestroyInode(c) \/ SymlinkName(c)
  \/ Mkdir(c) \/ MapDir(c) \/ UndoDir(c) \/ RemoveDirAndMap(c) \/ RemoveDir(c)
  \/ RemoveEntry(c) \/ UnlinkInode(c)
  \/ UpdateMap(c) \/ MapNew(c) \/ RemoveOld(c) \/ DestroyOld(c)

Next == (\E c \in Clients : Step(c)) /\ UNCHANGED setup

Spec == Init /\ [][Next]_vars

-----------------------------------------------------------------------------
(* Properties.                                                              *)

NameOf(n) ==
  LET sv == server[EntryServer(n)] IN IF HasEntry(sv, Dir.id, n) THEN Children(sv, Dir.id)[n] ELSE NoInode
Exists(i) == i.id \in DOMAIN server[i.server].files
Aborted == \E c \in Clients : At(c, "aborted")

(* Every client's state, and what it caches, is of the kind its step needs: *)
(* a descriptor it is about to close is open at the inode's server.         *)
TypeOK ==
  /\ DOMAIN server = Servers /\ DOMAIN cl = Clients
  /\ \A c \in Clients :
       /\ DOMAIN cl[c].cache \subseteq Names
       /\ cl[c].calls \in 0 .. MaxCalls
       /\ At(c, "close") => cl[c].fd \in DOMAIN server[cl[c].inode.server].fds

(* The assertions of fosFileOpen, fosUnlink, fosRmdir and fosRename on what *)
(* the servers answer, and those of the servers' handlers, hold.            *)
NoAssertionFails == ~Aborted /\ \A s \in Servers : server[s].failed = ""

(* An entry that a client has cached (DirCache) is the one the server has,  *)
(* or a notification (appRemoveCache) that removes it is on its way, or the *)
(* client is itself in the middle of changing that name.  This is so while   *)
(* nobody renames: after that a client may have cached an inode under two   *)
(* names, and drops any one of them when it is notified (dir_cache.cpp:86). *)
CacheCoherent ==
  (\A c \in Clients : \A call \in setup.programs[c] : call[1] # "rename") =>
  \A c \in Clients : \A n \in DOMAIN cl[c].cache :
    \/ cl[c].cache[n] = NameOf(n)
    \/ \E s \in Servers : \E k \in DOMAIN server[s].notes[c] : server[s].notes[c][k] = cl[c].cache[n]
    \/ ~At(c, "idle") /\ n \in {Name(c), NewName(c)}

(* A name refers to an inode that exists, except while fosRmdir has removed *)
(* a directory and not yet its entry.                                       *)
NoDangling ==
  \A n \in Names :
    \/ NameOf(n) = NoInode
    \/ Exists(NameOf(n))
    \/ \E c \in Clients : At(c, "removeMap") /\ Op(c) = "rmdir" /\ cl[c].inode = NameOf(n)

(* An inode that no name refers to is an orphan (unlinked and open), or a   *)
(* client is about to map it or to remove it: the file that loses the race  *)
(* for a name, or is displaced by a rename, does not stay for ever.  A file *)
(* being renamed always has a name: fosRename adds the new mapping before   *)
(* it removes the old one.                                                  *)
NothingLost ==
  \A s \in Servers : \A i \in DOMAIN server[s].files \ {RootId, Dir.id} :
    \/ \E n \in Names : NameOf(n).id = i
    \/ i \in server[s].orphans
    \/ \E c \in Clients :
         \/ At(c, "aborted")
         \/ cl[c].pc \in {"map", "destroy", "mapDir", "undoDir", "unlink"} /\ cl[c].inode.id = i
         \/ cl[c].pc \in {"removeOld", "destroyOld"} /\ cl[c].exist.id = i

(* Clients that create one name, which nobody removes or renames, agree on  *)
(* the file: whoever has opened it has the one that the name refers to, and *)
(* no open with O_CREAT fails.  Several may each have made an inode and one *)
(* got the name; the others destroy theirs and open the existing one        *)
(* (lib.cpp:424-446).                                                       *)
Kept(n) ==
  \A c \in Clients : \A call \in setup.programs[c] :
    call[1] \in {"unlink", "rmdir", "rename"} => n \notin {call[2], call[3]}
CreatorsAgree ==
  \A c \in Clients : Kept(Name(c)) =>
    /\ At(c, "close") => cl[c].inode = NameOf(Name(c))
    /\ At(c, "idle") /\ Op(c) = "creat" => cl[c].ret = OK

(* Of several clients that open a name with O_CREAT and O_EXCL, no one      *)
(* removing it, at most one succeeds.  It is so where the inode goes to the *)
(* server of the entry (marshall.cpp:237); where it takes two requests, the *)
(* client that finds the name taken opens it all the same (lib.cpp:433),    *)
(* which an instance shows.                                                 *)
ExclOnce ==
  \A c, d \in Clients :
    Op(c) = "excl" /\ Op(d) = "excl" /\ cl[c].ret = OK /\ cl[d].ret = OK /\ Name(c) = Name(d) => c = d
==============================================================================
