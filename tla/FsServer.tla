------------------------------- MODULE FsServer -------------------------------
(***************************************************************************)
(* The request handlers of a file system server (sys/fs/server.cpp behind  *)
(* sys/fs/marshall.cpp) as functions of the server's state.  A server runs *)
(* one handler at a time to its end, so a module that uses one of these    *)
(* operators in an action models the whole handler.                        *)
(*                                                                         *)
(* A server's state is a record                                            *)
(*   id       its number                                                   *)
(*   seq      g_inode_seq, the number of inodes it ever made               *)
(*   files    m_files: inode id -> VFile                                   *)
(*   fds      m_fds: descriptor -> [id, count]                             *)
(*   nextFd   descriptors made so far (they are rand() in the code)        *)
(*   orphans  m_orphans: ids of removed inodes that are still open         *)
(*   apps     m_apps: client -> the directory entries it may have cached   *)
(*   notes    notifications under way to each client                       *)
(*   failed   "", or the assertion that ended the server                   *)
(* and a handler returns [sv, ret, inode, ...]: the new state and the      *)
(* fields of the reply.                                                    *)
(***************************************************************************)
EXTENDS Integers, Sequences, FiniteSets

CONSTANTS
  FS_SERVER_COUNT,
  Clients,
  Names,       \* names of directory entries
  IdLimit,     \* INODE_MASK + 1: inode numbers of one server
  Hash(_, _)   \* fosPathHashn modulo the number of servers

ASSUME FsAssumption ==
  /\ FS_SERVER_COUNT \in Nat \ {0}
  /\ ".." \notin Names
  /\ IdLimit \in Nat \ {0}

Servers == 0 .. FS_SERVER_COUNT - 1

OK == "ok"
EXIST == "exist"
ISSYM == "issym"
NOT_FOUND == "not found"
NOT_EMPTY == "not empty"
NOT_DIR == "not dir"
INVALID == "invalid"
ISDIR == "isdir"
EAGAIN == "again"

TYPE_FILE == "file"
TYPE_DIR == "dir"
TYPE_DIR_SHARED == "shared"
TYPE_SYMLINK == "symlink"

InodeType(s, i, t) == [server |-> s, id |-> i, type |-> t]
RootId == <<0, 0>>
Root == InodeType(0, RootId, TYPE_DIR)
NoInode == InodeType(0, RootId, "none")

(* fosPathOwner: the server that has the entry `name' of a directory. *)
PathOwner(dir, name) ==
  IF dir.id = RootId /\ name = ".." THEN 0
  ELSE IF dir.type = TYPE_DIR_SHARED THEN Hash(dir.id, name)
  ELSE dir.server

PathHashDirect(name) == Hash(RootId, name)

With(f, k, v) == [x \in DOMAIN f \cup {k} |-> IF x = k THEN v ELSE f[x]]
Without(f, k) == [x \in DOMAIN f \ {k} |-> f[x]]

IsDirType(t) == t \in {TYPE_DIR, TYPE_DIR_SHARED}
NoEntries == [n \in {} |-> NoInode]
VFile(t) == [type |-> t, children |-> NoEntries, locked |-> FALSE]

NewServer(s) ==
  [id |-> s,
   seq |-> 2,   \* m_root and m_orphans have taken numbers
   files |-> IF s = 0 THEN With(<<>>, RootId, [VFile(TYPE_DIR_SHARED) EXCEPT !.children = With(<<>>, "..", Root)])
                      ELSE <<>>,
   fds |-> <<>>, nextFd |-> 1, orphans |-> {},
   apps |-> [c \in Clients |-> {}],
   notes |-> [c \in Clients |-> <<>>],
   failed |-> ""]

Reply(sv, ret, inode) == [sv |-> sv, ret |-> ret, inode |-> inode, fd |-> 0]
Fail(sv, what) == IF sv.failed = "" THEN [sv EXCEPT !.failed = what] ELSE sv

(* VFile::VFile: the next inode number, with the server's number in it. *)
FreshId(sv) == <<sv.id, IF sv.id = 0 THEN sv.seq ELSE sv.seq % IdLimit>>
Install(sv, i, vf) == [sv EXCEPT !.seq = @ + 1, !.files = With(@, i, vf)]

(* A server meets a shared directory it has no part of yet: it makes one.   *)
(* The new Dir takes a number of its own before it is given the directory's.*)
Lazy(sv, dir) ==
  IF dir \in DOMAIN sv.files THEN sv ELSE Install(sv, dir, VFile(TYPE_DIR_SHARED))

-----------------------------------------------------------------------------
(* Clients that cache directory entries.                                    *)

AppAddCache(sv, c, dir, name) == [sv EXCEPT !.apps[c] = @ \cup {<<dir, name>>}]

(* Everyone who may have the entry forgets it, and everyone but c is told.  *)
AppRemoveCache(sv, c, dir, name) ==
  LET e == <<dir, name>>
      inode == sv.files[dir].children[name]
      told == {d \in Clients \ {c} : e \in sv.apps[d]}
  IN [sv EXCEPT !.apps = [d \in Clients |-> @[d] \ {e}],
                !.notes = [d \in Clients |-> IF d \in told THEN Append(@[d], inode) ELSE @[d]]]

AppClose(sv, c) == [sv EXCEPT !.apps[c] = {}, !.notes[c] = <<>>]

-----------------------------------------------------------------------------
(* Inodes and directory entries.                                            *)

Children(sv, dir) == sv.files[dir].children
HasEntry(sv, dir, name) == dir \in DOMAIN sv.files /\ name \in DOMAIN Children(sv, dir)

AddChild(sv, dir, name, inode) ==
  [sv EXCEPT !.files[dir].children = With(@, name, inode)]

(* create: make an inode of type t unless the name is taken. *)
Create(sv0, parent, name, t) ==
  LET sv == Lazy(sv0, parent)
      i == FreshId(sv)
      e == Children(sv, parent)[name]
  IN CASE ~IsDirType(sv.files[parent].type) -> Reply(sv, INVALID, NoInode)
       [] IsDirType(sv.files[parent].type) /\ HasEntry(sv, parent, name) ->
            Reply(sv, IF e.type = TYPE_SYMLINK THEN ISSYM ELSE EXIST, e)
       [] OTHER -> Reply(Install(sv, i, VFile(t)), OK, InodeType(sv.id, i, t))

\* Mutant: open descriptors are not looked for.
InUseNever(sv, i) == FALSE

InUse(sv, i) == \E fd \in DOMAIN sv.fds : sv.fds[fd].id = i /\ sv.fds[fd].count > 0

(* The end of destroy, unlink and rmdir: an open inode becomes an orphan.   *)
Remove(sv, i) ==
  IF InUse(sv, i) THEN [sv EXCEPT !.orphans = @ \cup {i}]
                  ELSE [sv EXCEPT !.files = Without(@, i)]

Destroy(sv, i) ==
  IF i \notin DOMAIN sv.files THEN Reply(sv, NOT_FOUND, NoInode)
  ELSE IF IsDirType(sv.files[i].type) THEN Reply([sv EXCEPT !.files = Without(@, i)], OK, NoInode)
  ELSE Reply(Remove(sv, i), OK, NoInode)

AddMap(sv0, c, parent, name, child, overwrite) ==
  LET sv == Lazy(sv0, parent)
      had == HasEntry(sv, parent, name)
      old == Children(sv, parent)[name]
      cleared == IF had THEN AppRemoveCache(sv, c, parent, name) ELSE sv
      added == AddChild(cleared, parent, name, child)
  IN IF had /\ ~overwrite THEN Reply(sv, EXIST, old)
     ELSE Reply(IF name # ".." THEN AppAddCache(added, c, parent, name) ELSE added,
                IF had THEN EXIST ELSE OK, IF had THEN old ELSE child)

RemoveMap(sv, c, parent, name) ==
  IF parent \notin DOMAIN sv.files THEN Reply(sv, NOT_FOUND, NoInode)
  ELSE IF ~IsDirType(sv.files[parent].type) THEN Reply(sv, NOT_DIR, NoInode)
  ELSE IF ~HasEntry(sv, parent, name) THEN Reply(sv, NOT_FOUND, NoInode)
  ELSE LET told == IF name # ".." THEN AppRemoveCache(sv, c, parent, name) ELSE sv
       IN Reply([told EXCEPT !.files[parent].children = Without(@, name)], OK, NoInode)

Resolve(sv, c, parent, name) ==
  IF parent \notin DOMAIN sv.files THEN Reply(sv, NOT_FOUND, NoInode)
  ELSE IF ~IsDirType(sv.files[parent].type) THEN Reply(sv, INVALID, NoInode)
  ELSE IF ~HasEntry(sv, parent, name) THEN Reply(sv, NOT_FOUND, NoInode)
  ELSE Reply(AppAddCache(sv, c, parent, name), OK, Children(sv, parent)[name])

Unlink(sv, i) ==
  IF i \notin DOMAIN sv.files THEN Reply(sv, NOT_FOUND, NoInode)
  ELSE IF IsDirType(sv.files[i].type) THEN Reply(Fail(sv, "unlink: file"), INVALID, NoInode)
  ELSE Reply(Remove(sv, i), OK, NoInode)

Symlink(sv0, parent, name) ==
  LET sv == Lazy(sv0, parent)
      i == FreshId(sv)
  IN IF ~IsDirType(sv.files[parent].type) THEN Reply(sv, NOT_DIR, NoInode)
     ELSE IF HasEntry(sv, parent, name) THEN Reply(sv, EXIST, NoInode)
     ELSE Reply(AddChild(Install(sv, i, VFile(TYPE_SYMLINK)), parent, name, InodeType(sv.id, i, TYPE_SYMLINK)),
                OK, NoInode)

\* Mutants: rmdir that does not look for entries; RMDIR_FAIL that keeps the lock.
RmdirBlind(sv0, i, phase) ==
  LET sv == Lazy(sv0, i)
      dir == sv.files[i]
  IN CASE phase = "try" /\ dir.locked -> Reply(sv, EAGAIN, NoInode)
       [] phase = "try" /\ ~dir.locked -> Reply([sv EXCEPT !.files[i].locked = TRUE], OK, NoInode)
       [] phase = "fail" -> Reply([sv EXCEPT !.files[i].locked = FALSE], OK, NoInode)
       [] OTHER -> Reply(Remove([sv EXCEPT !.files[i].locked = FALSE], i), OK, NoInode)

(* The three phases of removing a shared directory, and RMDIR_FORCE. *)
Rmdir(sv0, i, phase) ==
  LET sv == Lazy(sv0, i)
      dir == sv.files[i]
  IN CASE ~IsDirType(dir.type) -> Reply(sv, NOT_DIR, NoInode)
       [] IsDirType(dir.type) /\ DOMAIN dir.children \ {".."} # {} -> Reply(sv, NOT_EMPTY, NoInode)
       [] OTHER ->
            CASE phase = "try" /\ dir.locked -> Reply(sv, EAGAIN, NoInode)
              [] phase = "try" /\ ~dir.locked -> Reply([sv EXCEPT !.files[i].locked = TRUE], OK, NoInode)
              [] phase = "fail" /\ ~dir.locked -> Reply(Fail(sv, "rmdir fail: locked"), OK, NoInode)
              [] phase = "fail" /\ dir.locked -> Reply([sv EXCEPT !.files[i].locked = FALSE], OK, NoInode)
              [] phase = "success" /\ ~dir.locked -> Reply(Fail(sv, "rmdir success: locked"), OK, NoInode)
              [] phase = "success" /\ dir.locked ->
                   Reply(Remove([sv EXCEPT !.files[i].locked = FALSE], i), OK, NoInode)
              [] phase = "force" -> Reply(Remove(sv, i), OK, NoInode)

-----------------------------------------------------------------------------
(* Descriptors.                                                             *)

(* open: a symlink is returned without a descriptor. *)
Open(sv, i, dirFlag, writes) ==
  LET t == sv.files[i].type
      fd == sv.nextFd
  IN CASE i \notin DOMAIN sv.files -> Reply(sv, NOT_FOUND, NoInode)
       [] i \in DOMAIN sv.files /\ t = TYPE_FILE /\ dirFlag -> Reply(sv, NOT_DIR, NoInode)
       [] i \in DOMAIN sv.files /\ IsDirType(t) /\ writes -> Reply(sv, ISDIR, NoInode)
       [] i \in DOMAIN sv.files /\ t = TYPE_SYMLINK -> Reply(sv, OK, InodeType(sv.id, i, t))
       [] OTHER ->
            [Reply([sv EXCEPT !.fds = With(@, fd, [id |-> i, count |-> 1]), !.nextFd = @ + 1],
                   OK, InodeType(sv.id, i, t)) EXCEPT !.fd = fd]

Dup(sv, fd) ==
  IF fd \notin DOMAIN sv.fds THEN Reply(sv, INVALID, NoInode)
  ELSE IF sv.fds[fd].id \notin DOMAIN sv.files THEN Reply(sv, NOT_FOUND, NoInode)
  ELSE Reply([sv EXCEPT !.fds[fd].count = @ + 1], OK, NoInode)

\* Mutant: closing an orphan's descriptor leaves it.
CloseKeepsOrphan(sv, fd) ==
  IF fd \notin DOMAIN sv.fds THEN Reply(Fail(sv, "close: fd"), OK, NoInode)
  ELSE IF sv.fds[fd].count > 1 THEN Reply([sv EXCEPT !.fds[fd].count = @ - 1], OK, NoInode)
  ELSE Reply([sv EXCEPT !.fds = Without(@, fd)], OK, NoInode)

(* close of a descriptor of a file or directory: the last close of a        *)
(* descriptor of an orphan deletes it.                                      *)
Close(sv, fd) ==
  LET i == sv.fds[fd].id
      closed == [sv EXCEPT !.fds = Without(@, fd)]
  IN CASE fd \notin DOMAIN sv.fds -> Reply(Fail(sv, "close: fd"), OK, NoInode)
       [] fd \in DOMAIN sv.fds /\ sv.fds[fd].count > 1 -> Reply([sv EXCEPT !.fds[fd].count = @ - 1], OK, NoInode)
       [] fd \in DOMAIN sv.fds /\ sv.fds[fd].count = 1 /\ i \notin DOMAIN sv.files ->
            Reply(Fail(sv, "close: inode"), OK, NoInode)
       [] OTHER ->
            Reply(IF i \in sv.orphans
                    THEN [closed EXCEPT !.orphans = @ \ {i}, !.files = Without(@, i)]
                    ELSE closed,
                  OK, NoInode)

-----------------------------------------------------------------------------
(* Handlers of marshall.cpp that call several of the above.                 *)

(* CREATE: a new directory is mapped in its parent, and ".." in it, where   *)
(* these entries live on this server.                                       *)
CreateRequest(sv, c, parent, name, t) ==
  LET made == Create(sv, parent.id, name, t)
      new == made.inode
      here == parent.server = sv.id \/ parent.type = TYPE_DIR_SHARED
      dotServer == IF t = TYPE_DIR_SHARED THEN PathOwner(new, "..") ELSE sv.id
      mapped == IF here THEN AddMap(made.sv, c, parent.id, name, new, FALSE)
                ELSE Reply(made.sv, OK, new)
      dotted == IF dotServer = sv.id THEN AddMap(mapped.sv, c, new.id, "..", parent, FALSE)
                ELSE Reply(mapped.sv, OK, new)
  IN IF made.ret # OK \/ ~IsDirType(t) THEN made
     ELSE IF mapped.ret # OK \/ dotted.ret # OK THEN [made EXCEPT !.sv = Fail(dotted.sv, "create: map")]
     ELSE [made EXCEPT !.sv = dotted.sv]

(* OPEN with O_CREAT: create, map and open in one request. *)
CreateOpenRequest(sv, c, parent, name, excl) ==
  LET made == Create(sv, parent, name, TYPE_FILE)
      mapped == IF made.ret = OK THEN AddMap(made.sv, c, parent, name, made.inode, FALSE).sv
                ELSE AppAddCache(made.sv, c, parent, name)
      opened == Open(mapped, made.inode.id, FALSE, TRUE)
  IN IF made.ret \notin {OK, EXIST} \/ (made.ret = EXIST /\ excl) THEN made
     ELSE IF made.inode.server # sv.id THEN Reply(mapped, EXIST, made.inode)
     ELSE [opened EXCEPT !.inode = made.inode]

(* ADDMAP with update set, for a rename within one server. *)
UpdateMapRequest(sv, c, parent, name, child, oldParent, oldName) ==
  LET added == AddMap(sv, c, parent, name, child, TRUE)
      removed == RemoveMap(added.sv, c, oldParent, oldName)
  IN [added EXCEPT !.sv = IF removed.ret = OK THEN removed.sv ELSE Fail(removed.sv, "update: removed")]

(* UNLINK with a parent: remove the entry, then the inode. *)
UnlinkRequest(sv, c, parent, name, i) ==
  LET removed == RemoveMap(sv, c, parent, name)
  IN IF removed.ret # OK THEN removed ELSE Unlink(removed.sv, i)

(* RMDIR_AND_MAP: remove the directory, then its entry. *)
RmdirAndMapRequest(sv, c, parent, name, i) ==
  LET removed == Rmdir(sv, i, "force")
  IN IF removed.ret # OK THEN removed ELSE RemoveMap(removed.sv, c, parent, name)
==============================================================================
