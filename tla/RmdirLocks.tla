----------------------------- MODULE RmdirLocks -----------------------------
(***************************************************************************)
(* Taking the locks of a shared directory that is being removed (Rmdir).   *)
(*                                                                         *)
(* A server's state is known by four observations: whether it has a part   *)
(* of the directory, whether that part is locked, the entries in it and,   *)
(* for the first server, whether the parent has the directory's entry.     *)
(* The first half of the module says what each handler does to them; the   *)
(* second has the inductive invariant, which says which remover holds      *)
(* which lock, and the steps of a remover up to its decision.              *)
(***************************************************************************)
EXTENDS Rmdir, TLAPS

(* The record of a server, its files and its descriptors, whatever is in    *)
(* the fields that have no part in the argument.                            *)
IsMap(f) == f = [x \in DOMAIN f |-> f[x]]

IsVFile(f) ==
  /\ f = [type |-> f.type, children |-> f.children, locked |-> f.locked]
  /\ IsMap(f.children)
  /\ f.locked \in BOOLEAN

IsServer(sv) ==
  sv = [id |-> sv.id, seq |-> sv.seq, files |-> sv.files, fds |-> sv.fds, nextFd |-> sv.nextFd,
        orphans |-> sv.orphans, apps |-> sv.apps, notes |-> sv.notes, failed |-> sv.failed]

(* The four observations of a server's state, that is of its files.         *)
HasPart(F) == Dir.id \in DOMAIN F
Locked(F) == HasPart(F) /\ F[Dir.id].locked
EntriesIn(F) == {f \in Names : HasPart(F) /\ f \in DOMAIN F[Dir.id].children}
InParent(F) == RootId \in DOMAIN F /\ DirName \in DOMAIN F[RootId].children

(* The files of a server: the only directories are the root and the one     *)
(* that is removed; its entries are files, at the server their names hash   *)
(* to.                                                                      *)
GoodFiles(F, s) ==
  /\ IsMap(F)
  /\ \A i \in DOMAIN F : IsVFile(F[i]) /\ (IsDirType(F[i].type) <=> i \in {RootId, Dir.id})
  /\ Dir.id \in DOMAIN F =>
       /\ DOMAIN F[Dir.id].children \subseteq Names \cup {".."}
       /\ \A f \in DOMAIN F[Dir.id].children \ {".."} :
            /\ F[Dir.id].children[f].id \notin {RootId, Dir.id}
            /\ PathOwner(Dir, f) = s

GoodFds(fds) == IsMap(fds) /\ \A fd \in DOMAIN fds : fds[fd].id # Dir.id

GoodServer(sv, s) ==
  /\ IsServer(sv)
  /\ sv.id = s
  /\ sv.seq \in Nat /\ sv.seq > 1 /\ (s = Home => sv.seq > Dir.id[2])
  /\ GoodFiles(sv.files, s)
  /\ GoodFds(sv.fds)
  /\ sv.failed = ""

(* The same observations before and after.                                  *)
Same(F, G) ==
  /\ HasPart(G) <=> HasPart(F)
  /\ Locked(G) <=> Locked(F)
  /\ EntriesIn(G) = EntriesIn(F)
  /\ InParent(G) <=> InParent(F)

-----------------------------------------------------------------------------
(* An update of one field of a server leaves the others alone.              *)
LEMMA SetFiles ==
  ASSUME NEW sv, NEW F, IsServer(sv)
  PROVE  LET n == [sv EXCEPT !.files = F] IN
         /\ IsServer(n) /\ n.files = F
         /\ n.id = sv.id /\ n.seq = sv.seq /\ n.fds = sv.fds /\ n.nextFd = sv.nextFd
         /\ n.failed = sv.failed
BY DEF IsServer

LEMMA SetSeqFiles ==
  ASSUME NEW sv, NEW i, NEW vf, IsServer(sv)
  PROVE  LET n == Install(sv, i, vf) IN
         /\ IsServer(n) /\ n.files = With(sv.files, i, vf) /\ n.seq = sv.seq + 1
         /\ n.id = sv.id /\ n.fds = sv.fds /\ n.nextFd = sv.nextFd
         /\ n.failed = sv.failed
<1>. DEFINE m == [sv EXCEPT !.seq = sv.seq + 1]
<1>1. /\ IsServer(m) /\ m.files = sv.files /\ m.seq = sv.seq + 1
      /\ m.id = sv.id /\ m.fds = sv.fds /\ m.nextFd = sv.nextFd
      /\ m.failed = sv.failed
  BY DEF IsServer
<1>2. Install(sv, i, vf) = [m EXCEPT !.files = With(sv.files, i, vf)]
  BY ZenonT(30) DEF Install, IsServer
<1>. HIDE DEF m
<1>3. QED
  BY <1>1, <1>2, SetFiles

LEMMA SetApps ==
  ASSUME NEW sv, NEW c, NEW d, NEW n, IsServer(sv)
  PROVE  LET m == AppAddCache(sv, c, d, n) IN
         /\ IsServer(m)
         /\ m.id = sv.id /\ m.seq = sv.seq /\ m.files = sv.files /\ m.fds = sv.fds
         /\ m.nextFd = sv.nextFd /\ m.failed = sv.failed
BY DEF IsServer, AppAddCache

LEMMA SetNotes ==
  ASSUME NEW sv, NEW c, NEW d, NEW n, IsServer(sv)
  PROVE  LET m == AppRemoveCache(sv, c, d, n) IN
         /\ IsServer(m)
         /\ m.id = sv.id /\ m.seq = sv.seq /\ m.files = sv.files /\ m.fds = sv.fds
         /\ m.nextFd = sv.nextFd /\ m.failed = sv.failed
<1>. DEFINE A == [x \in Clients |-> sv.apps[x] \ {<<d, n>>}]
            m == [sv EXCEPT !.apps = A]
<1>. HIDE DEF A
<1>1. /\ IsServer(m) /\ m.files = sv.files /\ m.seq = sv.seq
      /\ m.id = sv.id /\ m.fds = sv.fds /\ m.nextFd = sv.nextFd
      /\ m.failed = sv.failed
  BY DEF IsServer
<1>2. PICK N : AppRemoveCache(sv, c, d, n) = [m EXCEPT !.notes = N]
  BY ZenonT(30) DEF AppRemoveCache, IsServer, A
<1>. HIDE DEF m
<1>. DEFINE k == [m EXCEPT !.notes = N]
<1>3. /\ IsServer(k) /\ k.files = m.files /\ k.seq = m.seq
      /\ k.id = m.id /\ k.fds = m.fds /\ k.nextFd = m.nextFd
      /\ k.failed = m.failed
  BY <1>1 DEF IsServer
<1>. HIDE DEF k
<1>4. QED
  BY ZenonT(30), <1>1, <1>2, <1>3 DEF k

LEMMA SetOrphans ==
  ASSUME NEW sv, NEW S, IsServer(sv)
  PROVE  LET m == [sv EXCEPT !.orphans = S] IN
         /\ IsServer(m)
         /\ m.id = sv.id /\ m.seq = sv.seq /\ m.files = sv.files /\ m.fds = sv.fds
         /\ m.nextFd = sv.nextFd /\ m.failed = sv.failed
BY DEF IsServer

-----------------------------------------------------------------------------
(* The directory's inode and the files of a server.                         *)

LEMMA DirFacts ==
  /\ Dir.id = <<Home, IF Home = 0 THEN 2 ELSE 3>>
  /\ Dir.type = TYPE_DIR_SHARED /\ Dir.server = Home
  /\ Dir.id # RootId
  /\ Home \in Nat
<1>1. Home \in Nat /\ IdLimit \in Nat /\ IdLimit > 3
  BY RmdirAssumption, FsAssumption DEF Servers
<1>. DEFINE S0 == NewServer(Home)
            L == Lazy(S0, RootId)
<1>2. IsServer(S0) /\ S0.id = Home /\ S0.seq = 2
  BY ZenonT(30) DEF NewServer, IsServer
<1>3. CASE Home = 0
  <2>1. /\ RootId \in DOMAIN S0.files
        /\ S0.files[RootId] = [VFile(TYPE_DIR_SHARED) EXCEPT !.children = With(<<>>, "..", Root)]
    BY ZenonT(30), <1>3 DEF NewServer, With
  <2>2. S0.files[RootId].type = TYPE_DIR_SHARED /\ S0.files[RootId].children = With(<<>>, "..", Root)
    BY ZenonT(30), <2>1 DEF VFile
  <2>3. DirName \notin DOMAIN S0.files[RootId].children
    BY <2>2 DEF DirName, With
  <2>4. L = S0
    BY ZenonT(30), <2>1 DEF Lazy
  <2>. HIDE DEF S0
  <2>5. Create(S0, RootId, DirName, TYPE_DIR_SHARED).inode = InodeType(Home, <<Home, 2>>, TYPE_DIR_SHARED)
    BY ZenonT(30), <1>2, <1>3, <2>1, <2>2, <2>3, <2>4 DEF Create, HasEntry, Children, Reply, FreshId, IsDirType
  <2>6. QED
    BY <1>1, <1>3, <2>5 DEF Dir, InodeType, Root, RootId, S0
<1>4. CASE Home # 0
  <2>1. RootId \notin DOMAIN S0.files
    BY <1>4 DEF NewServer
  <2>2. L = Install(S0, RootId, VFile(TYPE_DIR_SHARED))
    BY ZenonT(30), <2>1 DEF Lazy
  <2>. HIDE DEF S0
  <2>3. L.id = Home /\ L.seq = 3 /\ L.files = With(S0.files, RootId, VFile(TYPE_DIR_SHARED))
    BY <1>2, <2>2, SetSeqFiles
  <2>4. RootId \in DOMAIN L.files /\ L.files[RootId].type = TYPE_DIR_SHARED /\ L.files[RootId].children = NoEntries
    BY <2>3 DEF VFile, With
  <2>5. DirName \notin DOMAIN L.files[RootId].children
    BY ZenonT(30), <2>4 DEF NoEntries
  <2>6. FreshId(L) = <<Home, 3>>
    BY <1>1, <1>4, <2>3 DEF FreshId
  <2>. HIDE DEF L
  <2>7. Create(S0, RootId, DirName, TYPE_DIR_SHARED).inode = InodeType(Home, <<Home, 3>>, TYPE_DIR_SHARED)
    BY ZenonT(30), <2>3, <2>4, <2>5, <2>6 DEF Create, HasEntry, Children, Reply, IsDirType, L
  <2>8. QED
    BY <1>1, <1>4, <2>7 DEF Dir, InodeType, Root, RootId, S0
<1>5. QED
  BY ZenonT(30), <1>3, <1>4

(* A new part, empty and not locked.                                        *)
LEMMA FilesNewPart ==
  ASSUME NEW F, NEW s, GoodFiles(F, s), ~HasPart(F)
  PROVE  LET G == With(F, Dir.id, VFile(TYPE_DIR_SHARED)) IN
         /\ GoodFiles(G, s) /\ HasPart(G) /\ ~Locked(G) /\ EntriesIn(G) = {} /\ EntriesIn(F) = {}
         /\ InParent(G) <=> InParent(F)
         /\ G[Dir.id] = VFile(TYPE_DIR_SHARED)
<1>. DEFINE vf == VFile(TYPE_DIR_SHARED)
            G == With(F, Dir.id, vf)
<1>1. IsVFile(vf) /\ IsDirType(vf.type) /\ vf.children = NoEntries /\ vf.locked = FALSE
  BY ZenonT(30) DEF VFile, IsVFile, IsMap, NoEntries, IsDirType
<1>. HIDE DEF vf
<1>2. /\ IsMap(G) /\ DOMAIN G = DOMAIN F \cup {Dir.id} /\ G[Dir.id] = vf
      /\ \A x \in DOMAIN F : x # Dir.id => G[x] = F[x]
  BY ZenonT(30) DEF With, IsMap
<1>. HIDE DEF G
<1>3. DOMAIN vf.children = {}
  BY ZenonT(30), <1>1 DEF NoEntries
<1>4. GoodFiles(G, s)
  BY ZenonT(30), <1>1, <1>2, <1>3 DEF GoodFiles
<1>5. HasPart(G) /\ ~Locked(G) /\ EntriesIn(G) = {} /\ EntriesIn(F) = {}
  BY ZenonT(30), <1>1, <1>2, <1>3 DEF HasPart, Locked, EntriesIn
<1>6. InParent(G) <=> InParent(F)
  BY ZenonT(30), <1>2, DirFacts DEF InParent
<1>7. QED
  BY ZenonT(30), <1>2, <1>4, <1>5, <1>6 DEF G, vf

(* The lock of the part is set or reset.                                    *)
LEMMA FilesLock ==
  ASSUME NEW F, NEW s, NEW b \in BOOLEAN, GoodFiles(F, s), HasPart(F)
  PROVE  LET G == [F EXCEPT ![Dir.id].locked = b] IN
         /\ GoodFiles(G, s) /\ HasPart(G) /\ (Locked(G) <=> b) /\ EntriesIn(G) = EntriesIn(F)
         /\ InParent(G) <=> InParent(F)
<1>. DEFINE vf == [F[Dir.id] EXCEPT !.locked = b]
            G == [F EXCEPT ![Dir.id] = vf]
<1>1. IsVFile(F[Dir.id])
  BY ZenonT(30) DEF GoodFiles, HasPart
<1>2. IsVFile(vf) /\ vf.type = F[Dir.id].type /\ vf.children = F[Dir.id].children /\ vf.locked = b
  BY <1>1 DEF IsVFile
<1>3. [F EXCEPT ![Dir.id].locked = b] = G
  BY ZenonT(30)
<1>. HIDE DEF vf
<1>4. /\ IsMap(G) /\ DOMAIN G = DOMAIN F /\ G[Dir.id] = vf
      /\ \A x \in DOMAIN F : x # Dir.id => G[x] = F[x]
  BY ZenonT(30) DEF GoodFiles, IsMap, HasPart
<1>. HIDE DEF G
<1>5. GoodFiles(G, s)
  BY <1>2, <1>4 DEF GoodFiles, HasPart
<1>6. HasPart(G) /\ (Locked(G) <=> b) /\ EntriesIn(G) = EntriesIn(F)
  BY ZenonT(30), <1>2, <1>4 DEF HasPart, Locked, EntriesIn
<1>7. InParent(G) <=> InParent(F)
  BY ZenonT(30), <1>4, DirFacts DEF InParent
<1>8. QED
  BY ZenonT(30), <1>3, <1>5, <1>6, <1>7

(* An inode is removed: the part, or a file.                                *)
LEMMA FilesWithout ==
  ASSUME NEW F, NEW s, NEW i, GoodFiles(F, s), i # RootId
  PROVE  LET G == Without(F, i) IN
         /\ GoodFiles(G, s)
         /\ i = Dir.id => ~HasPart(G) /\ ~Locked(G) /\ EntriesIn(G) = {}
         /\ i # Dir.id => Same(F, G)
         /\ InParent(G) <=> InParent(F)
<1>. DEFINE G == Without(F, i)
<1>1. /\ IsMap(G) /\ DOMAIN G = DOMAIN F \ {i}
      /\ \A x \in DOMAIN F : x # i => G[x] = F[x]
  BY ZenonT(30) DEF Without, IsMap
<1>. HIDE DEF G
<1>2. GoodFiles(G, s)
  BY ZenonT(30), <1>1 DEF GoodFiles
<1>3. InParent(G) <=> InParent(F)
  BY ZenonT(30), <1>1 DEF InParent
<1>4. i = Dir.id => ~HasPart(G) /\ ~Locked(G) /\ EntriesIn(G) = {}
  BY ZenonT(30), <1>1 DEF HasPart, Locked, EntriesIn
<1>5. i # Dir.id => (HasPart(G) <=> HasPart(F)) /\ (Locked(G) <=> Locked(F)) /\ EntriesIn(G) = EntriesIn(F)
  BY ZenonT(30), <1>1 DEF HasPart, Locked, EntriesIn
<1>6. QED
  BY ZenonT(30), <1>2, <1>3, <1>4, <1>5 DEF Same, G

(* A file's inode is made.                                                  *)
LEMMA FilesNewFile ==
  ASSUME NEW F, NEW s, NEW i, GoodFiles(F, s), i \notin {RootId, Dir.id}
  PROVE  LET G == With(F, i, VFile(TYPE_FILE)) IN
         /\ GoodFiles(G, s) /\ Same(F, G)
         /\ HasPart(F) => G[Dir.id] = F[Dir.id]
<1>. DEFINE vf == VFile(TYPE_FILE)
            G == With(F, i, vf)
<1>1. IsVFile(vf) /\ ~IsDirType(vf.type)
  BY ZenonT(30) DEF VFile, IsVFile, IsMap, NoEntries, IsDirType, TYPE_FILE, TYPE_DIR, TYPE_DIR_SHARED
<1>. HIDE DEF vf
<1>2. /\ IsMap(G) /\ DOMAIN G = DOMAIN F \cup {i} /\ G[i] = vf
      /\ \A x \in DOMAIN F : x # i => G[x] = F[x]
  BY ZenonT(30) DEF With, IsMap
<1>. HIDE DEF G
<1>3. GoodFiles(G, s)
  BY ZenonT(30), <1>1, <1>2 DEF GoodFiles
<1>4. Same(F, G)
  BY ZenonT(30), <1>2 DEF Same, HasPart, Locked, EntriesIn, InParent
<1>5. QED
  BY ZenonT(30), <1>2, <1>3, <1>4 DEF G, vf, HasPart

(* An entry of a directory is made: a file's, "..", or the directory's own  *)
(* in its parent.                                                           *)
LEMMA FilesAddEntry ==
  ASSUME NEW F, NEW s, NEW i, NEW f, NEW inode,
         GoodFiles(F, s), i \in {RootId, Dir.id}, i \in DOMAIN F,
         i = Dir.id /\ f # ".." => f \in Names /\ PathOwner(Dir, f) = s /\ inode.id \notin {RootId, Dir.id}
  PROVE  LET G == [F EXCEPT ![i].children = With(@, f, inode)] IN
         /\ GoodFiles(G, s) /\ DOMAIN G = DOMAIN F /\ (Locked(G) <=> Locked(F))
         /\ \A x \in DOMAIN F : x # i => G[x] = F[x]
         /\ i = Dir.id => EntriesIn(G) = EntriesIn(F) \cup ({f} \cap Names) /\ (InParent(G) <=> InParent(F))
         /\ i = RootId => EntriesIn(G) = EntriesIn(F) /\ (InParent(G) <=> InParent(F) \/ f = DirName)
<1>. DEFINE ch == With(F[i].children, f, inode)
            vf == [F[i] EXCEPT !.children = ch]
            G == [F EXCEPT ![i] = vf]
<1>1. IsVFile(F[i])
  BY ZenonT(30) DEF GoodFiles
<1>2. /\ IsMap(ch) /\ DOMAIN ch = DOMAIN F[i].children \cup {f} /\ ch[f] = inode
      /\ \A x \in DOMAIN F[i].children : x # f => ch[x] = F[i].children[x]
  BY ZenonT(30) DEF With, IsMap
<1>3. [F EXCEPT ![i].children = With(@, f, inode)] = G
  BY ZenonT(30)
<1>. HIDE DEF ch
<1>4. IsVFile(vf) /\ vf.type = F[i].type /\ vf.children = ch /\ vf.locked = F[i].locked
  BY <1>1, <1>2 DEF IsVFile
<1>. HIDE DEF vf
<1>5. /\ IsMap(G) /\ DOMAIN G = DOMAIN F /\ G[i] = vf
      /\ \A x \in DOMAIN F : x # i => G[x] = F[x]
  BY ZenonT(30) DEF GoodFiles, IsMap
<1>. HIDE DEF G
<1>6. GoodFiles(G, s)
  <2>1. CASE i = Dir.id
    BY <1>2, <1>4, <1>5, <2>1 DEF GoodFiles
  <2>2. CASE i # Dir.id
    BY ZenonT(30), <1>4, <1>5, <2>2 DEF GoodFiles
  <2>3. QED
    BY ZenonT(30), <2>1, <2>2
<1>7. Locked(G) <=> Locked(F)
  BY ZenonT(30), <1>4, <1>5 DEF HasPart, Locked
<1>8. i = Dir.id => EntriesIn(G) = EntriesIn(F) \cup ({f} \cap Names) /\ (InParent(G) <=> InParent(F))
  BY ZenonT(30), <1>2, <1>4, <1>5, DirFacts DEF HasPart, EntriesIn, InParent
<1>9. i = RootId => EntriesIn(G) = EntriesIn(F) /\ (InParent(G) <=> InParent(F) \/ f = DirName)
  BY ZenonT(30), <1>2, <1>4, <1>5, DirFacts DEF HasPart, EntriesIn, InParent
<1>10. QED
  BY ZenonT(30), <1>3, <1>5, <1>6, <1>7, <1>8, <1>9

(* An entry of a directory is removed: a file's, or the directory's own in  *)
(* its parent.                                                              *)
LEMMA FilesDropEntry ==
  ASSUME NEW F, NEW s, NEW i, NEW f, GoodFiles(F, s), i \in {RootId, Dir.id}, i \in DOMAIN F
  PROVE  LET G == [F EXCEPT ![i].children = Without(@, f)] IN
         /\ GoodFiles(G, s) /\ (HasPart(G) <=> HasPart(F)) /\ (Locked(G) <=> Locked(F))
         /\ i = Dir.id => EntriesIn(G) = EntriesIn(F) \ {f} /\ (InParent(G) <=> InParent(F))
         /\ i = RootId => EntriesIn(G) = EntriesIn(F) /\ (InParent(G) <=> InParent(F) /\ f # DirName)
<1>. DEFINE ch == Without(F[i].children, f)
            vf == [F[i] EXCEPT !.children = ch]
            G == [F EXCEPT ![i] = vf]
<1>1. IsVFile(F[i])
  BY ZenonT(30) DEF GoodFiles
<1>2. /\ IsMap(ch) /\ DOMAIN ch = DOMAIN F[i].children \ {f}
      /\ \A x \in DOMAIN F[i].children : x # f => ch[x] = F[i].children[x]
  BY ZenonT(30) DEF Without, IsMap
<1>3. [F EXCEPT ![i].children = Without(@, f)] = G
  BY ZenonT(30)
<1>. HIDE DEF ch
<1>4. IsVFile(vf) /\ vf.type = F[i].type /\ vf.children = ch /\ vf.locked = F[i].locked
  BY <1>1, <1>2 DEF IsVFile
<1>. HIDE DEF vf
<1>5. /\ IsMap(G) /\ DOMAIN G = DOMAIN F /\ G[i] = vf
      /\ \A x \in DOMAIN F : x # i => G[x] = F[x]
  BY ZenonT(30) DEF GoodFiles, IsMap
<1>. HIDE DEF G
<1>6. GoodFiles(G, s)
  BY <1>2, <1>4, <1>5 DEF GoodFiles
<1>7. (HasPart(G) <=> HasPart(F)) /\ (Locked(G) <=> Locked(F))
  BY ZenonT(30), <1>4, <1>5 DEF HasPart, Locked
<1>8. i = Dir.id => EntriesIn(G) = EntriesIn(F) \ {f} /\ (InParent(G) <=> InParent(F))
  BY ZenonT(30), <1>2, <1>4, <1>5, DirFacts DEF HasPart, EntriesIn, InParent
<1>9. i = RootId => EntriesIn(G) = EntriesIn(F) /\ (InParent(G) <=> InParent(F) /\ f # DirName)
  BY ZenonT(30), <1>2, <1>4, <1>5, DirFacts DEF HasPart, EntriesIn, InParent
<1>10. QED
  BY ZenonT(30), <1>3, <1>6, <1>7, <1>8, <1>9

-----------------------------------------------------------------------------
(* What the handlers do to a good server.                                   *)

(* Lazy: a server without a part makes one; who asks cannot tell.           *)
LEMMA LazyPart ==
  ASSUME NEW s, NEW sv, GoodServer(sv, s)
  PROVE  LET n == Lazy(sv, Dir.id) IN
         /\ GoodServer(n, s) /\ HasPart(n.files)
         /\ Locked(n.files) <=> Locked(sv.files)
         /\ EntriesIn(n.files) = EntriesIn(sv.files)
         /\ InParent(n.files) <=> InParent(sv.files)
         /\ HasPart(sv.files) => n = sv
         /\ n.seq \in {sv.seq, sv.seq + 1}
<1>1. CASE HasPart(sv.files)
  BY ZenonT(30), <1>1 DEF Lazy, HasPart, GoodServer
<1>2. CASE ~HasPart(sv.files)
  <2>. DEFINE n == Install(sv, Dir.id, VFile(TYPE_DIR_SHARED))
  <2>1. /\ IsServer(n) /\ n.files = With(sv.files, Dir.id, VFile(TYPE_DIR_SHARED)) /\ n.seq = sv.seq + 1
        /\ n.id = sv.id /\ n.fds = sv.fds /\ n.failed = sv.failed
    <3>. DEFINE vf == VFile(TYPE_DIR_SHARED)
    <3>. HIDE DEF vf
    <3>1. IsServer(sv)
      BY ZenonT(30) DEF GoodServer
    <3>2. LET k == Install(sv, Dir.id, vf) IN
          /\ IsServer(k) /\ k.files = With(sv.files, Dir.id, vf) /\ k.seq = sv.seq + 1
          /\ k.id = sv.id /\ k.fds = sv.fds /\ k.failed = sv.failed
      BY <3>1, SetSeqFiles
    <3>3. QED
      BY ZenonT(30), <3>2 DEF vf
  <2>2. Lazy(sv, Dir.id) = n
    BY ZenonT(30), <1>2 DEF Lazy, HasPart
  <2>. HIDE DEF n
  <2>3. /\ GoodFiles(n.files, s) /\ HasPart(n.files) /\ ~Locked(n.files)
        /\ EntriesIn(n.files) = {} /\ EntriesIn(sv.files) = {}
        /\ InParent(n.files) <=> InParent(sv.files)
    BY ZenonT(30), <1>2, <2>1, FilesNewPart DEF GoodServer
  <2>4. n.seq \in Nat /\ n.seq > 1 /\ (s = Home => n.seq > Dir.id[2])
    <3>1. Dir.id[2] \in Nat
      BY DirFacts
    <3>2. sv.seq \in Nat /\ sv.seq > 1 /\ (s = Home => sv.seq > Dir.id[2])
      BY ZenonT(30) DEF GoodServer
    <3>3. QED
      BY <2>1, <3>1, <3>2
  <2>5. GoodServer(n, s)
    BY ZenonT(30), <2>1, <2>3, <2>4 DEF GoodServer
  <2>6. ~Locked(sv.files)
    BY ZenonT(30), <1>2 DEF Locked
  <2>7. QED
    BY ZenonT(30), <1>2, <2>1, <2>2, <2>3, <2>5, <2>6
<1>3. QED
  BY ZenonT(30), <1>1, <1>2

(* A server whose files are replaced by other good files.                   *)
LEMMA GoodReplace ==
  ASSUME NEW s, NEW sv, NEW F, GoodServer(sv, s), GoodFiles(F, s)
  PROVE  GoodServer([sv EXCEPT !.files = F], s) /\ [sv EXCEPT !.files = F].files = F
<1>. DEFINE n == [sv EXCEPT !.files = F]
<1>1. /\ IsServer(n) /\ n.files = F /\ n.id = sv.id /\ n.seq = sv.seq /\ n.fds = sv.fds
      /\ n.failed = sv.failed
  <2>1. IsServer(sv)
    BY ZenonT(30) DEF GoodServer
  <2>2. QED
    BY ZenonT(30), <2>1, SetFiles
<1>. HIDE DEF n
<1>2. GoodServer(n, s) /\ n.files = F
  BY ZenonT(30), <1>1 DEF GoodServer
<1>3. QED
  BY ZenonT(30), <1>2 DEF n

(* Entries other than ".." are what rmdir looks for.                        *)
LEMMA NoChildren ==
  ASSUME NEW F, NEW s, GoodFiles(F, s), HasPart(F)
  PROVE  /\ DOMAIN F[Dir.id].children \ {".."} = {} <=> EntriesIn(F) = {}
         /\ IsDirType(F[Dir.id].type)
<1>1. ".." \notin Names
  BY ZenonT(30), FsAssumption
<1>2. DOMAIN F[Dir.id].children \subseteq Names \cup {".."}
  BY ZenonT(30) DEF GoodFiles, HasPart
<1>3. DOMAIN F[Dir.id].children \ {".."} = EntriesIn(F)
  BY ZenonT(30), <1>1, <1>2 DEF EntriesIn
<1>4. QED
  BY ZenonT(30), <1>3 DEF GoodFiles, HasPart

(* RMDIR_TRY: refused when there are entries, to be tried again when it is  *)
(* locked, else locked.                                                     *)
LEMMA RmdirTry ==
  ASSUME NEW s, NEW sv, GoodServer(sv, s)
  PROVE  LET r == Rmdir(sv, Dir.id, "try") IN
         /\ GoodServer(r.sv, s)
         /\ EntriesIn(r.sv.files) = EntriesIn(sv.files)
         /\ InParent(r.sv.files) <=> InParent(sv.files)
         /\ \/ r.ret = EAGAIN /\ r.sv = sv /\ Locked(sv.files)
            \/ /\ r.ret = OK /\ ~Locked(sv.files) /\ Locked(r.sv.files)
               /\ EntriesIn(sv.files) = {}
            \/ r.ret = NOT_EMPTY /\ r.sv = sv /\ EntriesIn(sv.files) # {}
<1>. DEFINE n == Lazy(sv, Dir.id)
<1>1. /\ GoodServer(n, s) /\ HasPart(n.files)
      /\ Locked(n.files) <=> Locked(sv.files)
      /\ EntriesIn(n.files) = EntriesIn(sv.files)
      /\ InParent(n.files) <=> InParent(sv.files)
      /\ HasPart(sv.files) => n = sv
  BY ZenonT(30), LazyPart
<1>2. /\ DOMAIN n.files[Dir.id].children \ {".."} = {} <=> EntriesIn(sv.files) = {}
      /\ IsDirType(n.files[Dir.id].type)
  BY ZenonT(30), <1>1, NoChildren DEF GoodServer
<1>. DEFINE r == Rmdir(sv, Dir.id, "try")
            F == [n.files EXCEPT ![Dir.id].locked = TRUE]
<1>3. n.files[Dir.id].locked <=> Locked(n.files)
  BY ZenonT(30), <1>1 DEF Locked
<1>4. CASE EntriesIn(sv.files) # {}
  <2>1. r = Reply(n, NOT_EMPTY, NoInode)
    BY ZenonT(30), <1>2, <1>4 DEF Rmdir
  <2>2. HasPart(sv.files)
    BY ZenonT(30), <1>4 DEF EntriesIn
  <2>3. QED
    BY <1>1, <1>4, <2>1, <2>2 DEF Reply
<1>5. CASE EntriesIn(sv.files) = {} /\ Locked(sv.files)
  <2>1. r = Reply(n, EAGAIN, NoInode)
    BY ZenonT(30), <1>1, <1>2, <1>3, <1>5 DEF Rmdir
  <2>2. HasPart(sv.files)
    BY ZenonT(30), <1>5 DEF Locked
  <2>3. QED
    BY <1>1, <1>5, <2>1, <2>2 DEF Reply
<1>6. CASE EntriesIn(sv.files) = {} /\ ~Locked(sv.files)
  <2>. DEFINE m == [n EXCEPT !.files = F]
  <2>1. [n EXCEPT !.files[Dir.id].locked = TRUE] = m
    BY ZenonT(30)
  <2>2. r = Reply(m, OK, NoInode)
    BY ZenonT(30), <1>1, <1>2, <1>3, <1>6, <2>1 DEF Rmdir
  <2>. HIDE DEF n
  <2>3. /\ GoodFiles(F, s) /\ Locked(F) /\ EntriesIn(F) = EntriesIn(n.files)
        /\ InParent(F) <=> InParent(n.files)
    BY ZenonT(30), <1>1, FilesLock DEF GoodServer
  <2>. HIDE DEF F
  <2>4. GoodServer(m, s) /\ m.files = F
    BY ZenonT(30), <1>1, <2>3, GoodReplace
  <2>. HIDE DEF m
  <2>5. r.sv = m /\ r.ret = OK
    BY <2>2 DEF Reply
  <2>. HIDE DEF r
  <2>6. QED
    BY ZenonT(30), <1>1, <1>6, <2>3, <2>4, <2>5 DEF r
<1>7. QED
  BY ZenonT(30), <1>4, <1>5, <1>6

(* RMDIR_FAIL unlocks a part that is locked.                                *)
LEMMA RmdirFail ==
  ASSUME NEW s, NEW sv, GoodServer(sv, s), Locked(sv.files), EntriesIn(sv.files) = {}
  PROVE  LET r == Rmdir(sv, Dir.id, "fail") IN
         /\ GoodServer(r.sv, s) /\ r.ret = OK
         /\ HasPart(r.sv.files) /\ ~Locked(r.sv.files)
         /\ EntriesIn(r.sv.files) = {}
         /\ InParent(r.sv.files) <=> InParent(sv.files)
<1>1. HasPart(sv.files) /\ Lazy(sv, Dir.id) = sv
  BY ZenonT(30) DEF Locked, HasPart, Lazy
<1>2. /\ DOMAIN sv.files[Dir.id].children \ {".."} = {} /\ IsDirType(sv.files[Dir.id].type)
      /\ sv.files[Dir.id].locked
  BY ZenonT(30), <1>1, NoChildren DEF GoodServer, Locked
<1>. DEFINE r == Rmdir(sv, Dir.id, "fail")
            F == [sv.files EXCEPT ![Dir.id].locked = FALSE]
            m == [sv EXCEPT !.files = F]
<1>3. [sv EXCEPT !.files[Dir.id].locked = FALSE] = m
  BY ZenonT(30)
<1>4. r = Reply(m, OK, NoInode)
  BY ZenonT(30), <1>1, <1>2, <1>3 DEF Rmdir
<1>5. /\ GoodFiles(F, s) /\ HasPart(F) /\ ~Locked(F) /\ EntriesIn(F) = {}
      /\ InParent(F) <=> InParent(sv.files)
  BY ZenonT(30), <1>1, FilesLock DEF GoodServer
<1>. HIDE DEF F
<1>6. GoodServer(m, s) /\ m.files = F
  BY ZenonT(30), <1>5, GoodReplace
<1>. HIDE DEF m
<1>7. r.sv = m /\ r.ret = OK
  BY <1>4 DEF Reply
<1>. HIDE DEF r
<1>8. QED
  BY ZenonT(30), <1>5, <1>6, <1>7 DEF r

(* RMDIR_SUCCESS removes a part that is locked: nobody has it open.         *)
LEMMA RmdirSuccess ==
  ASSUME NEW s, NEW sv, GoodServer(sv, s), Locked(sv.files), EntriesIn(sv.files) = {}
  PROVE  LET r == Rmdir(sv, Dir.id, "success") IN
         /\ GoodServer(r.sv, s) /\ r.ret = OK
         /\ ~HasPart(r.sv.files) /\ ~Locked(r.sv.files)
         /\ EntriesIn(r.sv.files) = {}
         /\ InParent(r.sv.files) <=> InParent(sv.files)
<1>1. HasPart(sv.files) /\ Lazy(sv, Dir.id) = sv
  BY ZenonT(30) DEF Locked, HasPart, Lazy
<1>2. /\ DOMAIN sv.files[Dir.id].children \ {".."} = {} /\ IsDirType(sv.files[Dir.id].type)
      /\ sv.files[Dir.id].locked
  BY ZenonT(30), <1>1, NoChildren DEF GoodServer, Locked
<1>. DEFINE r == Rmdir(sv, Dir.id, "success")
            F == [sv.files EXCEPT ![Dir.id].locked = FALSE]
            m == [sv EXCEPT !.files = F]
            G == Without(F, Dir.id)
            k == [m EXCEPT !.files = G]
<1>3. [sv EXCEPT !.files[Dir.id].locked = FALSE] = m
  BY ZenonT(30)
<1>4. r = Reply(Remove(m, Dir.id), OK, NoInode)
  BY ZenonT(30), <1>1, <1>2, <1>3 DEF Rmdir
<1>5. GoodFiles(F, s) /\ (InParent(F) <=> InParent(sv.files))
  BY ZenonT(30), <1>1, FilesLock DEF GoodServer
<1>. HIDE DEF F
<1>6. GoodServer(m, s) /\ m.files = F
  BY ZenonT(30), <1>5, GoodReplace
<1>. HIDE DEF m
<1>7. /\ GoodFiles(G, s) /\ ~HasPart(G) /\ ~Locked(G) /\ EntriesIn(G) = {}
      /\ InParent(G) <=> InParent(F)
  BY ZenonT(30), <1>5, FilesWithout, DirFacts
<1>8. ~InUse(m, Dir.id)
  BY ZenonT(30), <1>6 DEF InUse, GoodServer, GoodFds
<1>9. Remove(m, Dir.id) = k
  BY ZenonT(30), <1>6, <1>8 DEF Remove
<1>. HIDE DEF G
<1>10. GoodServer(k, s) /\ k.files = G
  BY ZenonT(30), <1>6, <1>7, GoodReplace
<1>. HIDE DEF k
<1>11. r.sv = k /\ r.ret = OK
  BY <1>4, <1>9 DEF Reply
<1>. HIDE DEF r
<1>12. QED
  BY ZenonT(30), <1>5, <1>7, <1>10, <1>11 DEF r

(* A handler that only changes who caches what.                             *)
LEMMA GoodSameFiles ==
  ASSUME NEW s, NEW sv, NEW m, GoodServer(sv, s), IsServer(m),
         m.id = sv.id, m.seq = sv.seq, m.files = sv.files, m.fds = sv.fds, m.failed = sv.failed
  PROVE  GoodServer(m, s)
BY ZenonT(30) DEF GoodServer

(* LOOKUP changes nothing that can be observed, and finds files only.       *)
LEMMA ResolveGood ==
  ASSUME NEW s, NEW sv, NEW c, NEW i, NEW f, GoodServer(sv, s)
  PROVE  LET r == Resolve(sv, c, i, f) IN
         /\ GoodServer(r.sv, s) /\ r.sv.files = sv.files
         /\ r.ret = OK /\ i = Dir.id /\ f \in Names => r.inode.id \notin {RootId, Dir.id}
<1>. DEFINE r == Resolve(sv, c, i, f)
            m == AppAddCache(sv, c, i, f)
<1>1. GoodServer(m, s) /\ m.files = sv.files
  <2>1. IsServer(sv)
    BY ZenonT(30) DEF GoodServer
  <2>2. /\ IsServer(m)
        /\ m.id = sv.id /\ m.seq = sv.seq /\ m.files = sv.files /\ m.fds = sv.fds
        /\ m.failed = sv.failed
    BY <2>1, SetApps
  <2>. HIDE DEF m
  <2>3. QED
    BY ZenonT(30), <2>2, GoodSameFiles
<1>. HIDE DEF m
<1>2. CASE ~HasEntry(sv, i, f) \/ ~IsDirType(sv.files[i].type)
  <2>1. r.sv = sv /\ r.ret # OK
    BY ZenonT(30), <1>2 DEF Resolve, Reply, HasEntry, OK, NOT_FOUND, INVALID
  <2>2. QED
    BY ZenonT(30), <2>1
<1>3. CASE HasEntry(sv, i, f) /\ IsDirType(sv.files[i].type)
  <2>1. r = Reply(m, OK, Children(sv, i)[f])
    BY ZenonT(30), <1>3 DEF Resolve, HasEntry, m
  <2>2. r.sv = m /\ r.inode = Children(sv, i)[f]
    BY <2>1 DEF Reply
  <2>3. i = Dir.id /\ f \in Names => sv.files[i].children[f].id \notin {RootId, Dir.id}
    BY ZenonT(30), <1>3, FsAssumption DEF GoodServer, GoodFiles, HasEntry, Children
  <2>. HIDE DEF r
  <2>4. QED
    BY ZenonT(30), <1>1, <2>2, <2>3 DEF r, Children
<1>4. QED
  BY ZenonT(30), <1>2, <1>3

(* REMOVEMAP removes the entry, if there is one.                            *)
LEMMA RemoveMapGood ==
  ASSUME NEW s, NEW sv, NEW c, NEW i, NEW f, NEW r,
         GoodServer(sv, s), i \in {RootId, Dir.id}, f # "..", r = RemoveMap(sv, c, i, f)
  PROVE  /\ GoodServer(r.sv, s)
         /\ HasPart(r.sv.files) <=> HasPart(sv.files)
         /\ Locked(r.sv.files) <=> Locked(sv.files)
         /\ i = Dir.id => /\ EntriesIn(r.sv.files) = EntriesIn(sv.files) \ {f}
                          /\ InParent(r.sv.files) <=> InParent(sv.files)
         /\ i = RootId => /\ EntriesIn(r.sv.files) = EntriesIn(sv.files)
                          /\ InParent(r.sv.files) <=> InParent(sv.files) /\ f # DirName
<1>. DEFINE m == AppRemoveCache(sv, c, i, f)
            G == [sv.files EXCEPT ![i].children = Without(@, f)]
            k == [m EXCEPT !.files = G]
<1>1. CASE ~HasEntry(sv, i, f)
  <2>1. r.sv = sv
    BY ZenonT(30), <1>1 DEF RemoveMap, Reply
  <2>2. i = Dir.id => f \notin EntriesIn(sv.files)
    BY ZenonT(30), <1>1 DEF EntriesIn, HasEntry, Children, HasPart
  <2>3. i = RootId /\ f = DirName => ~InParent(sv.files)
    BY ZenonT(30), <1>1 DEF InParent, HasEntry, Children
  <2>4. QED
    BY ZenonT(30), <2>1, <2>2, <2>3, DirFacts
<1>2. CASE HasEntry(sv, i, f)
  <2>1. i \in DOMAIN sv.files /\ IsDirType(sv.files[i].type)
    BY ZenonT(30), <1>2 DEF HasEntry, GoodServer, GoodFiles
  <2>2. GoodServer(m, s) /\ m.files = sv.files
    <3>1. IsServer(sv)
      BY ZenonT(30) DEF GoodServer
    <3>2. /\ IsServer(m)
          /\ m.id = sv.id /\ m.seq = sv.seq /\ m.files = sv.files /\ m.fds = sv.fds
          /\ m.failed = sv.failed
      BY <3>1, SetNotes
    <3>. HIDE DEF m
    <3>3. QED
      BY ZenonT(30), <3>2, GoodSameFiles
  <2>3. r = Reply([m EXCEPT !.files[i].children = Without(@, f)], OK, NoInode)
    BY ZenonT(30), <1>2, <2>1 DEF RemoveMap
  <2>. HIDE DEF m
  <2>4. [m EXCEPT !.files[i].children = Without(@, f)] = k
    BY ZenonT(30), <2>2
  <2>5. /\ GoodFiles(G, s) /\ (HasPart(G) <=> HasPart(sv.files)) /\ (Locked(G) <=> Locked(sv.files))
        /\ i = Dir.id => EntriesIn(G) = EntriesIn(sv.files) \ {f} /\ (InParent(G) <=> InParent(sv.files))
        /\ i = RootId => EntriesIn(G) = EntriesIn(sv.files) /\ (InParent(G) <=> InParent(sv.files) /\ f # DirName)
    <3>1. GoodFiles(sv.files, s)
      BY ZenonT(30) DEF GoodServer
    <3>2. QED
      BY ZenonT(30), <2>1, <3>1, FilesDropEntry
  <2>. HIDE DEF G
  <2>6. GoodServer(k, s) /\ k.files = G
    BY ZenonT(30), <2>2, <2>5, GoodReplace
  <2>. HIDE DEF k
  <2>7. r.sv = k
    BY <2>3, <2>4 DEF Reply
  <2>8. QED
    BY ZenonT(30), <2>5, <2>6, <2>7
<1>3. QED
  BY ZenonT(30), <1>1, <1>2

(* UNLINK of a file: its entry goes, the part stays.                        *)
LEMMA UnlinkGood ==
  ASSUME NEW s, NEW sv, NEW c, NEW f, NEW i,
         GoodServer(sv, s), f \in Names, i \notin {RootId, Dir.id}
  PROVE  LET r == UnlinkRequest(sv, c, Dir.id, f, i) IN
         /\ GoodServer(r.sv, s)
         /\ HasPart(r.sv.files) <=> HasPart(sv.files)
         /\ Locked(r.sv.files) <=> Locked(sv.files)
         /\ EntriesIn(r.sv.files) = EntriesIn(sv.files) \ {f}
         /\ InParent(r.sv.files) <=> InParent(sv.files)
<1>. DEFINE m == RemoveMap(sv, c, Dir.id, f).sv
            r == UnlinkRequest(sv, c, Dir.id, f, i)
<1>1. /\ GoodServer(m, s)
      /\ HasPart(m.files) <=> HasPart(sv.files)
      /\ Locked(m.files) <=> Locked(sv.files)
      /\ EntriesIn(m.files) = EntriesIn(sv.files) \ {f}
      /\ InParent(m.files) <=> InParent(sv.files)
  <2>1. f # ".."
    BY ZenonT(30), FsAssumption
  <2>2. Dir.id \in {RootId, Dir.id} /\ Dir.id # RootId
    BY ZenonT(30), DirFacts
  <2>3. ASSUME NEW j, NEW q, j = Dir.id, j \in {RootId, Dir.id}, q = RemoveMap(sv, c, j, f)
        PROVE  /\ GoodServer(q.sv, s)
               /\ HasPart(q.sv.files) <=> HasPart(sv.files)
               /\ Locked(q.sv.files) <=> Locked(sv.files)
               /\ EntriesIn(q.sv.files) = EntriesIn(sv.files) \ {f}
               /\ InParent(q.sv.files) <=> InParent(sv.files)
    BY <2>1, <2>3, RemoveMapGood
  <2>4. QED
    BY ZenonT(30), <2>2, <2>3
<1>2. r.sv \in {m, Remove(m, i)}
  <2>1. i \in DOMAIN m.files => ~IsDirType(m.files[i].type)
    BY ZenonT(30), <1>1 DEF GoodServer, GoodFiles
  <2>2. r.sv = m \/ r = Unlink(m, i)
    BY ZenonT(30) DEF UnlinkRequest
  <2>. HIDE DEF m, r
  <2>3. Unlink(m, i).sv \in {m, Remove(m, i)}
    BY ZenonT(30), <2>1 DEF Unlink, Reply
  <2>4. QED
    BY ZenonT(30), <2>2, <2>3
<1>. HIDE DEF m
<1>3. Remove(m, i) = [m EXCEPT !.files = Without(m.files, i)] \/ Remove(m, i) = [m EXCEPT !.orphans = m.orphans \cup {i}]
  BY ZenonT(30) DEF Remove
<1>4. CASE r.sv = m
  BY ZenonT(30), <1>1, <1>4
<1>5. CASE r.sv = [m EXCEPT !.files = Without(m.files, i)]
  <2>. DEFINE G == Without(m.files, i)
              k == [m EXCEPT !.files = G]
  <2>1. GoodFiles(G, s) /\ Same(m.files, G)
    BY ZenonT(30), <1>1, FilesWithout DEF GoodServer
  <2>. HIDE DEF G
  <2>2. GoodServer(k, s) /\ k.files = G
    BY ZenonT(30), <1>1, <2>1, GoodReplace
  <2>3. r.sv = k
    BY ZenonT(30), <1>5 DEF G
  <2>. HIDE DEF k, r
  <2>4. QED
    BY ZenonT(30), <1>1, <2>1, <2>2, <2>3 DEF Same, r
<1>6. CASE r.sv = [m EXCEPT !.orphans = m.orphans \cup {i}]
  <2>. DEFINE k == [m EXCEPT !.orphans = m.orphans \cup {i}]
  <2>1. IsServer(m)
    BY ZenonT(30), <1>1 DEF GoodServer
  <2>2. /\ IsServer(k)
        /\ k.id = m.id /\ k.seq = m.seq /\ k.files = m.files /\ k.fds = m.fds
        /\ k.failed = m.failed
    BY ZenonT(30), <2>1, SetOrphans
  <2>3. r.sv = k
    BY ZenonT(30), <1>6
  <2>. HIDE DEF k, r
  <2>4. GoodServer(k, s)
    BY ZenonT(30), <1>1, <2>2, GoodSameFiles
  <2>5. QED
    BY ZenonT(30), <1>1, <2>2, <2>3, <2>4 DEF r
<1>7. QED
  BY ZenonT(30), <1>2, <1>3, <1>4, <1>5, <1>6

(* A server that opens a file: a descriptor more.                           *)
LEMMA OpenGood ==
  ASSUME NEW s, NEW sv, NEW i, GoodServer(sv, s), i \notin {RootId, Dir.id}
  PROVE  LET m == Open(sv, i, FALSE, TRUE).sv IN
         GoodServer(m, s) /\ m.files = sv.files
<1>. DEFINE D == With(sv.fds, sv.nextFd, [id |-> i, count |-> 1])
            m == [sv EXCEPT !.fds = D, !.nextFd = sv.nextFd + 1]
            r == Open(sv, i, FALSE, TRUE)
<1>1. r.sv = sv \/ r.sv = m
  BY ZenonT(30) DEF Open, Reply
<1>2. GoodFds(D)
  <2>1. /\ IsMap(D) /\ DOMAIN D = DOMAIN sv.fds \cup {sv.nextFd} /\ D[sv.nextFd].id = i
        /\ \A x \in DOMAIN sv.fds : x # sv.nextFd => D[x] = sv.fds[x]
    BY ZenonT(30) DEF With, IsMap
  <2>. HIDE DEF D
  <2>2. QED
    BY ZenonT(30), <2>1 DEF GoodServer, GoodFds
<1>. HIDE DEF D
<1>3. IsServer(sv)
  BY ZenonT(30) DEF GoodServer
<1>4. /\ IsServer(m) /\ m.fds = D
      /\ m.id = sv.id /\ m.seq = sv.seq /\ m.files = sv.files /\ m.failed = sv.failed
  <2>. DEFINE n == [sv EXCEPT !.fds = D]
              k == [n EXCEPT !.nextFd = sv.nextFd + 1]
  <2>1. /\ IsServer(n) /\ n.files = sv.files /\ n.seq = sv.seq
        /\ n.id = sv.id /\ n.fds = D /\ n.nextFd = sv.nextFd
        /\ n.failed = sv.failed
    BY <1>3 DEF IsServer
  <2>2. m = k
    BY ZenonT(30), <1>3 DEF IsServer
  <2>. HIDE DEF n, m
  <2>3. /\ IsServer(k) /\ k.files = n.files /\ k.seq = n.seq
        /\ k.id = n.id /\ k.fds = n.fds
        /\ k.failed = n.failed
    BY <2>1 DEF IsServer
  <2>. HIDE DEF k
  <2>4. QED
    BY ZenonT(30), <2>1, <2>2, <2>3
<1>. HIDE DEF m
<1>5. GoodServer(m, s)
  BY ZenonT(30), <1>2, <1>4 DEF GoodServer
<1>. HIDE DEF r
<1>6. QED
  BY ZenonT(30), <1>1, <1>4, <1>5 DEF r

(* VFile::VFile never gives a file the directory's number again.            *)
LEMMA FreshIdNew ==
  ASSUME NEW s, NEW sv, GoodServer(sv, s), s \in Servers, sv.seq <= IdLimit
  PROVE  FreshId(sv) \notin {RootId, Dir.id}
<1>1. sv.id = s /\ sv.seq \in Nat /\ sv.seq > 1 /\ (s = Home => sv.seq > Dir.id[2])
  BY ZenonT(30) DEF GoodServer
<1>2. IdLimit \in Nat /\ IdLimit > 3
  BY ZenonT(30), RmdirAssumption, FsAssumption
<1>3. Dir.id = <<Home, IF Home = 0 THEN 2 ELSE 3>> /\ Dir.id[2] = IF Home = 0 THEN 2 ELSE 3
  BY DirFacts
<1>4. CASE s = 0
  <2>1. FreshId(sv) = <<0, sv.seq>>
    BY ZenonT(30), <1>1, <1>4 DEF FreshId
  <2>2. QED
    BY <1>1, <1>3, <1>4, <2>1 DEF RootId
<1>5. CASE s # 0
  <2>1. FreshId(sv) = <<s, sv.seq % IdLimit>>
    BY ZenonT(30), <1>1, <1>5 DEF FreshId
  <2>2. s = Home => sv.seq % IdLimit # 3
    <3>1. CASE sv.seq < IdLimit
      BY <1>1, <1>2, <1>3, <1>5, <3>1
    <3>2. CASE sv.seq = IdLimit
      <4>1. IdLimit % IdLimit = 0
        BY <1>2
      <4>2. QED
        BY <3>2, <4>1
    <3>3. QED
      BY <1>1, <1>2, <3>1, <3>2
  <2>3. QED
    BY <1>3, <1>5, <2>1, <2>2 DEF RootId
<1>6. QED
  BY ZenonT(30), <1>4, <1>5

(* An entry that directory i may have, and what having it changes.          *)
MayAdd(i, f, inode, s) ==
  /\ i \in {RootId, Dir.id}
  /\ i = Dir.id /\ f # ".." => f \in Names /\ PathOwner(Dir, f) = s /\ inode.id \notin {RootId, Dir.id}

Added(F, G, i, f) ==
  /\ DOMAIN G = DOMAIN F /\ (Locked(G) <=> Locked(F))
  /\ \A x \in DOMAIN F : x # i => G[x] = F[x]
  /\ i = Dir.id => EntriesIn(G) = EntriesIn(F) \cup ({f} \cap Names) /\ (InParent(G) <=> InParent(F))
  /\ i = RootId => EntriesIn(G) = EntriesIn(F) /\ (InParent(G) <=> InParent(F) \/ f = DirName)

(* ADDMAP of a new entry.                                                   *)
LEMMA AddMapGood ==
  ASSUME NEW s, NEW sv, NEW c, NEW i, NEW f, NEW inode,
         GoodServer(sv, s), MayAdd(i, f, inode, s), i \in DOMAIN sv.files, ~HasEntry(sv, i, f)
  PROVE  LET r == AddMap(sv, c, i, f, inode, FALSE) IN
         GoodServer(r.sv, s) /\ r.ret = OK /\ Added(sv.files, r.sv.files, i, f)
<1>. DEFINE G == [sv.files EXCEPT ![i].children = With(@, f, inode)]
            k == [sv EXCEPT !.files = G]
            m == AppAddCache(k, c, i, f)
            r == AddMap(sv, c, i, f, inode, FALSE)
<1>1. Lazy(sv, i) = sv
  BY ZenonT(30) DEF Lazy
<1>2. AddChild(sv, i, f, inode) = k
  BY ZenonT(30) DEF AddChild
<1>3. r.sv \in {k, m} /\ r.ret = OK
  BY ZenonT(30), <1>1, <1>2 DEF AddMap, Reply
<1>4. /\ GoodFiles(G, s) /\ DOMAIN G = DOMAIN sv.files /\ (Locked(G) <=> Locked(sv.files))
      /\ \A x \in DOMAIN sv.files : x # i => G[x] = sv.files[x]
      /\ i = Dir.id => EntriesIn(G) = EntriesIn(sv.files) \cup ({f} \cap Names) /\ (InParent(G) <=> InParent(sv.files))
      /\ i = RootId => EntriesIn(G) = EntriesIn(sv.files) /\ (InParent(G) <=> InParent(sv.files) \/ f = DirName)
  <2>1. GoodFiles(sv.files, s)
    BY ZenonT(30) DEF GoodServer
  <2>2. QED
    BY ZenonT(30), <2>1, FilesAddEntry DEF MayAdd
<1>. HIDE DEF G
<1>5. GoodServer(k, s) /\ k.files = G
  BY <1>4, GoodReplace
<1>. HIDE DEF k
<1>6. GoodServer(m, s) /\ m.files = k.files
  <2>1. IsServer(k)
    BY ZenonT(30), <1>5 DEF GoodServer
  <2>2. /\ IsServer(m)
        /\ m.id = k.id /\ m.seq = k.seq /\ m.files = k.files /\ m.fds = k.fds
        /\ m.failed = k.failed
    BY <2>1, SetApps
  <2>. HIDE DEF m
  <2>3. QED
    BY ZenonT(30), <1>5, <2>2, GoodSameFiles
<1>. HIDE DEF m
<1>7. GoodServer(r.sv, s) /\ r.sv.files = G
  BY ZenonT(30), <1>3, <1>5, <1>6
<1>. HIDE DEF r
<1>8. QED
  BY ZenonT(30), <1>3, <1>4, <1>7 DEF r, Added

(* OPEN with O_CREAT and O_EXCL: the entry is there afterwards, and the     *)
(* lock is as it was: the handler does not look at it.                      *)
LEMMA CreateGood ==
  ASSUME NEW s, NEW sv, NEW c, NEW f,
         GoodServer(sv, s), s \in Servers, sv.seq < IdLimit, f \in Names, PathOwner(Dir, f) = s
  PROVE  LET r == CreateOpenRequest(sv, c, Dir.id, f, TRUE) IN
         /\ GoodServer(r.sv, s)
         /\ Locked(r.sv.files) <=> Locked(sv.files)
         /\ EntriesIn(r.sv.files) = EntriesIn(sv.files) \cup {f}
         /\ InParent(r.sv.files) <=> InParent(sv.files)
<1>. DEFINE n == Lazy(sv, Dir.id)
            i == FreshId(n)
            v == VFile(TYPE_FILE)
            F == With(n.files, i, v)
            k == Install(n, i, v)
            inode == InodeType(n.id, i, TYPE_FILE)
            m == AddMap(k, c, Dir.id, f, inode, FALSE).sv
            made == Create(sv, Dir.id, f, TYPE_FILE)
            r == CreateOpenRequest(sv, c, Dir.id, f, TRUE)
<1>1. /\ GoodServer(n, s) /\ HasPart(n.files)
      /\ Locked(n.files) <=> Locked(sv.files)
      /\ EntriesIn(n.files) = EntriesIn(sv.files)
      /\ InParent(n.files) <=> InParent(sv.files)
      /\ n.seq \in {sv.seq, sv.seq + 1}
  BY ZenonT(30), LazyPart
<1>2. IsDirType(n.files[Dir.id].type)
  BY ZenonT(30), <1>1, NoChildren DEF GoodServer
<1>3. HasEntry(n, Dir.id, f) <=> f \in EntriesIn(n.files)
  BY ZenonT(30), <1>1 DEF HasEntry, EntriesIn, Children, HasPart
<1>4. CASE f \in EntriesIn(n.files)
  <2>1. made.sv = n /\ made.ret \in {ISSYM, EXIST}
    BY ZenonT(30), <1>2, <1>3, <1>4 DEF Create, Reply
  <2>2. r = made
    BY ZenonT(30), <2>1 DEF CreateOpenRequest, ISSYM, EXIST, OK
  <2>. HIDE DEF n, made, r
  <2>3. QED
    BY ZenonT(30), <1>1, <1>4, <2>1, <2>2 DEF r
<1>5. CASE f \notin EntriesIn(n.files)
  <2>1. made = Reply(k, OK, inode)
    BY ZenonT(30), <1>2, <1>3, <1>5 DEF Create
  <2>. HIDE DEF n
  <2>2. i \notin {RootId, Dir.id}
    <3>1. sv.seq \in Nat /\ IdLimit \in Nat
      BY ZenonT(30), FsAssumption DEF GoodServer
    <3>2. n.seq <= IdLimit
      BY <1>1, <3>1
    <3>3. QED
      BY ZenonT(30), <1>1, <3>2, FreshIdNew
  <2>. HIDE DEF i
  <2>3. GoodFiles(F, s) /\ Same(n.files, F)
    <3>1. GoodFiles(n.files, s)
      BY ZenonT(30), <1>1 DEF GoodServer
    <3>2. QED
      BY ZenonT(30), <2>2, <3>1, FilesNewFile
  <2>. HIDE DEF v
  <2>4. /\ IsServer(k) /\ k.files = F /\ k.seq = n.seq + 1
        /\ k.id = n.id /\ k.fds = n.fds /\ k.failed = n.failed
    <3>1. IsServer(n)
      BY ZenonT(30), <1>1 DEF GoodServer
    <3>2. QED
      BY <3>1, SetSeqFiles
  <2>. HIDE DEF F, k
  <2>5. GoodServer(k, s)
    <3>1. Dir.id[2] \in Nat
      BY DirFacts
    <3>2. n.seq \in Nat /\ n.seq > 1 /\ (s = Home => n.seq > Dir.id[2])
      BY ZenonT(30), <1>1 DEF GoodServer
    <3>3. k.seq \in Nat /\ k.seq > 1 /\ (s = Home => k.seq > Dir.id[2])
      BY <2>4, <3>1, <3>2
    <3>4. QED
      BY ZenonT(30), <1>1, <2>3, <2>4, <3>3 DEF GoodServer
  <2>6. inode.id = i /\ inode.server = s
    BY ZenonT(30), <1>1 DEF InodeType, GoodServer
  <2>. HIDE DEF inode
  <2>7. /\ GoodServer(m, s)
        /\ HasPart(m.files) /\ (Locked(m.files) <=> Locked(k.files))
        /\ EntriesIn(m.files) = EntriesIn(k.files) \cup {f} /\ (InParent(m.files) <=> InParent(k.files))
    <3>1. HasPart(k.files) /\ f \notin EntriesIn(k.files)
      BY ZenonT(30), <1>1, <1>5, <2>3, <2>4 DEF Same
    <3>2. Dir.id \in DOMAIN k.files /\ ~HasEntry(k, Dir.id, f)
      BY ZenonT(30), <3>1 DEF HasPart, EntriesIn, HasEntry, Children
    <3>3. MayAdd(Dir.id, f, inode, s)
      BY ZenonT(30), <2>2, <2>6 DEF MayAdd
    <3>. HIDE DEF m
    <3>4. GoodServer(m, s) /\ Added(k.files, m.files, Dir.id, f)
      BY ZenonT(30), <2>5, <3>2, <3>3, AddMapGood DEF m
    <3>5. {f} \cap Names = {f}
      BY ZenonT(30)
    <3>6. QED
      BY ZenonT(30), <3>2, <3>4, <3>5 DEF HasPart, Added
  <2>8. r.sv = Open(m, i, FALSE, TRUE).sv
    <3>1. made.sv = k /\ made.ret = OK /\ made.inode = inode
      BY <2>1 DEF Reply
    <3>2. sv.id = s
      BY ZenonT(30) DEF GoodServer
    <3>3. DOMAIN Open(m, i, FALSE, TRUE) = {"sv", "ret", "inode", "fd"}
      BY ZenonT(30) DEF Open, Reply
    <3>. HIDE DEF made
    <3>4. r = [Open(m, i, FALSE, TRUE) EXCEPT !.inode = inode]
      BY ZenonT(30), <2>6, <3>1, <3>2 DEF CreateOpenRequest, made, EXIST, OK
    <3>5. QED
      BY ZenonT(30), <3>3, <3>4
  <2>. HIDE DEF m, r
  <2>9. GoodServer(r.sv, s) /\ r.sv.files = m.files
    <3>1. GoodServer(m, s)
      BY ZenonT(30), <2>7
    <3>2. GoodServer(Open(m, i, FALSE, TRUE).sv, s) /\ Open(m, i, FALSE, TRUE).sv.files = m.files
      BY ZenonT(30), <2>2, <3>1, OpenGood
    <3>3. QED
      BY ZenonT(30), <2>8, <3>2
  <2>10. QED
    BY ZenonT(30), <1>1, <2>3, <2>4, <2>7, <2>9 DEF Same, r
<1>6. QED
  BY ZenonT(30), <1>4, <1>5

-----------------------------------------------------------------------------
(* The servers after mkdir.                                                 *)

(* A server that has just started: the first has the root.                  *)
LEMMA NewServerFiles ==
  ASSUME NEW s
  PROVE  LET sv == NewServer(s) IN
         /\ IsServer(sv) /\ sv.id = s /\ sv.seq = 2 /\ GoodFds(sv.fds) /\ sv.failed = ""
         /\ GoodFiles(sv.files, s) /\ ~HasPart(sv.files) /\ ~InParent(sv.files)
         /\ s = 0 => RootId \in DOMAIN sv.files /\ sv.files[RootId].type = TYPE_DIR_SHARED
         /\ s # 0 => DOMAIN sv.files = {}
<1>. DEFINE sv == NewServer(s)
            ch == With(<<>>, "..", Root)
            vf == [VFile(TYPE_DIR_SHARED) EXCEPT !.children = ch]
            F == With(<<>>, RootId, vf)
<1>1. /\ IsServer(sv) /\ sv.id = s /\ sv.seq = 2 /\ sv.fds = <<>> /\ sv.failed = ""
      /\ sv.files = IF s = 0 THEN F ELSE <<>>
  BY ZenonT(30) DEF NewServer, IsServer
<1>. HIDE DEF sv
<1>2. IsMap(<<>>) /\ DOMAIN <<>> = {}
  BY DEF IsMap
<1>3. GoodFds(sv.fds)
  BY ZenonT(30), <1>1, <1>2 DEF GoodFds
<1>4. CASE s # 0
  <2>1. GoodFiles(<<>>, s)
    BY ZenonT(30), <1>2 DEF GoodFiles
  <2>2. QED
    BY ZenonT(30), <1>1, <1>2, <1>3, <1>4, <2>1 DEF HasPart, InParent, sv
<1>5. CASE s = 0
  <2>1. IsMap(ch) /\ DOMAIN ch = {".."}
    BY ZenonT(30), <1>2 DEF With, IsMap
  <2>. HIDE DEF ch
  <2>2. IsVFile(vf) /\ vf.type = TYPE_DIR_SHARED /\ vf.children = ch
    <3>. DEFINE v == VFile(TYPE_DIR_SHARED)
    <3>1. IsVFile(v) /\ v.type = TYPE_DIR_SHARED
      BY ZenonT(30) DEF VFile, IsVFile, IsMap, NoEntries
    <3>. HIDE DEF v
    <3>2. LET w == [v EXCEPT !.children = ch] IN IsVFile(w) /\ w.type = v.type /\ w.children = ch
      BY <2>1, <3>1 DEF IsVFile
    <3>3. QED
      BY ZenonT(30), <3>1, <3>2 DEF v
  <2>. HIDE DEF vf
  <2>3. IsMap(F) /\ DOMAIN F = {RootId} /\ F[RootId] = vf
    BY ZenonT(30), <1>2 DEF With, IsMap
  <2>. HIDE DEF F
  <2>4. GoodFiles(F, s) /\ ~HasPart(F)
    BY ZenonT(30), <2>2, <2>3, DirFacts DEF GoodFiles, HasPart, IsDirType
  <2>5. ~InParent(F)
    BY <2>1, <2>2, <2>3 DEF InParent, DirName
  <2>6. QED
    BY ZenonT(30), <1>1, <1>3, <1>5, <2>2, <2>3, <2>4, <2>5 DEF sv
<1>6. QED
  BY ZenonT(30), <1>4, <1>5

(* The new inode at the home server, before it is mapped.                   *)
LEMMA MadeAtHome ==
  LET made == Create(NewServer(Home), RootId, DirName, TYPE_DIR_SHARED) IN
  /\ made.ret = OK /\ made.inode = Dir
  /\ GoodServer(made.sv, Home)
  /\ HasPart(made.sv.files) /\ ~Locked(made.sv.files) /\ EntriesIn(made.sv.files) = {}
  /\ ~InParent(made.sv.files) /\ ".." \notin DOMAIN made.sv.files[Dir.id].children
  /\ Home = 0 => RootId \in DOMAIN made.sv.files
<1>. DEFINE sv == NewServer(Home)
            v == VFile(TYPE_DIR_SHARED)
            n == Lazy(sv, RootId)
            made == Create(sv, RootId, DirName, TYPE_DIR_SHARED)
            m == Install(n, FreshId(n), v)
<1>1. /\ IsServer(sv) /\ sv.id = Home /\ sv.seq = 2 /\ GoodFds(sv.fds) /\ sv.failed = ""
      /\ GoodFiles(sv.files, Home) /\ ~HasPart(sv.files) /\ ~InParent(sv.files)
      /\ Home = 0 => RootId \in DOMAIN sv.files /\ sv.files[RootId].type = TYPE_DIR_SHARED
      /\ Home # 0 => DOMAIN sv.files = {}
  BY ZenonT(30), NewServerFiles
<1>2. made.inode = Dir
  BY ZenonT(30) DEF Dir, Root, InodeType
<1>. HIDE DEF sv
<1>3. IsVFile(v) /\ v.type = TYPE_DIR_SHARED /\ DOMAIN v.children = {} /\ ~v.locked
  BY ZenonT(30) DEF VFile, IsVFile, IsMap, NoEntries
<1>4. /\ IsServer(n) /\ n.id = Home /\ n.seq = (IF Home = 0 THEN 2 ELSE 3) /\ GoodFds(n.fds) /\ n.failed = ""
      /\ RootId \in DOMAIN n.files /\ n.files[RootId].type = TYPE_DIR_SHARED
      /\ GoodFiles(n.files, Home) /\ ~HasPart(n.files) /\ ~InParent(n.files)
  <2>1. CASE Home = 0
    BY ZenonT(30), <1>1, <2>1 DEF Lazy
  <2>2. CASE Home # 0
    <3>. DEFINE F == With(sv.files, RootId, v)
    <3>1. IsMap(F) /\ DOMAIN F = {RootId} /\ F[RootId] = v
      BY ZenonT(30), <1>1, <2>2 DEF With, IsMap
    <3>2. n = Install(sv, RootId, v)
      BY ZenonT(30), <1>1, <2>2 DEF Lazy
    <3>. HIDE DEF v, F, n
    <3>3. /\ IsServer(n) /\ n.files = F /\ n.seq = sv.seq + 1
          /\ n.id = sv.id /\ n.fds = sv.fds /\ n.failed = sv.failed
      <4>1. IsServer(sv)
        BY ZenonT(30), <1>1
      <4>2. LET k == Install(sv, RootId, v) IN
            /\ IsServer(k) /\ k.files = With(sv.files, RootId, v) /\ k.seq = sv.seq + 1
            /\ k.id = sv.id /\ k.fds = sv.fds /\ k.failed = sv.failed
        BY <4>1, SetSeqFiles
      <4>3. QED
        BY ZenonT(30), <3>2, <4>2 DEF F
    <3>4. GoodFiles(F, Home) /\ ~HasPart(F)
      BY ZenonT(30), <1>3, <3>1, DirFacts DEF GoodFiles, HasPart, IsDirType
    <3>5. ~InParent(F)
      BY ZenonT(30), <1>3, <3>1 DEF InParent
    <3>6. n.seq = 3
      <4>1. sv.seq = 2 /\ n.seq = sv.seq + 1
        BY ZenonT(30), <1>1, <3>3
      <4>2. QED
        BY <4>1
    <3>7. RootId \in DOMAIN n.files /\ n.files[RootId].type = TYPE_DIR_SHARED
      BY ZenonT(30), <1>3, <3>1, <3>3
    <3>8. QED
      BY ZenonT(30), <1>1, <2>2, <3>3, <3>4, <3>5, <3>6, <3>7
  <2>3. QED
    BY ZenonT(30), <2>1, <2>2
<1>5. made = Reply(m, OK, InodeType(n.id, FreshId(n), TYPE_DIR_SHARED))
  BY ZenonT(30), <1>4 DEF Create, InParent, HasEntry, Children, IsDirType
<1>6. FreshId(n) = Dir.id /\ made.sv = m /\ made.ret = OK
  BY <1>2, <1>5 DEF Reply, InodeType
<1>. HIDE DEF n, made
<1>7. /\ IsServer(m) /\ m.files = With(n.files, Dir.id, v) /\ m.seq = n.seq + 1
      /\ m.id = n.id /\ m.fds = n.fds /\ m.failed = n.failed
  <2>1. IsServer(n)
    BY ZenonT(30), <1>4
  <2>. HIDE DEF v
  <2>2. QED
    BY <1>6, <2>1, SetSeqFiles
<1>. DEFINE G == With(n.files, Dir.id, v)
<1>8. /\ GoodFiles(G, Home) /\ HasPart(G) /\ ~Locked(G) /\ EntriesIn(G) = {}
      /\ InParent(G) <=> InParent(n.files)
      /\ G[Dir.id] = v
  BY ZenonT(30), <1>4, FilesNewPart
<1>9. RootId \in DOMAIN G
  BY ZenonT(30), <1>4 DEF With
<1>. HIDE DEF m, G, v
<1>10. m.seq \in Nat /\ m.seq > 1 /\ m.seq > Dir.id[2]
  <2>1. Dir.id[2] = n.seq /\ n.seq \in Nat /\ n.seq > 1
    <3>1. Dir.id[2] = IF Home = 0 THEN 2 ELSE 3
      BY DirFacts
    <3>2. n.seq = IF Home = 0 THEN 2 ELSE 3
      BY ZenonT(30), <1>4
    <3>3. QED
      BY <3>1, <3>2
  <2>2. QED
    BY <1>7, <2>1
<1>11. GoodServer(m, Home)
  BY ZenonT(30), <1>4, <1>7, <1>8, <1>10 DEF GoodServer, G
<1>12. QED
  BY ZenonT(30), <1>2, <1>3, <1>4, <1>6, <1>7, <1>8, <1>9, <1>11 DEF G, made, sv

(* The two maps of mkdir, at a server that has neither.                     *)
LEMMA MapDots ==
  ASSUME NEW s, NEW sv, NEW c, GoodServer(sv, s), HasPart(sv.files), EntriesIn(sv.files) = {},
         ".." \notin DOMAIN sv.files[Dir.id].children
  PROVE  LET r == AddMap(sv, c, Dir.id, "..", Root, FALSE) IN
         /\ GoodServer(r.sv, s) /\ r.ret = OK
         /\ DOMAIN r.sv.files = DOMAIN sv.files
         /\ (Locked(r.sv.files) <=> Locked(sv.files)) /\ EntriesIn(r.sv.files) = {}
         /\ InParent(r.sv.files) <=> InParent(sv.files)
<1>. DEFINE r == AddMap(sv, c, Dir.id, "..", Root, FALSE)
<1>1. MayAdd(Dir.id, "..", Root, s) /\ Dir.id \in DOMAIN sv.files /\ ~HasEntry(sv, Dir.id, "..")
  BY ZenonT(30) DEF MayAdd, HasPart, HasEntry, Children
<1>2. GoodServer(r.sv, s) /\ r.ret = OK /\ Added(sv.files, r.sv.files, Dir.id, "..")
  BY ZenonT(30), <1>1, AddMapGood
<1>3. {".."} \cap Names = {}
  BY ZenonT(30), FsAssumption
<1>. HIDE DEF r
<1>4. QED
  BY ZenonT(30), <1>2, <1>3 DEF Added, r

(* The answer r of a server s that had the state sv, when the directory has *)
(* been put into its parent there.                                          *)
PutInParent(sv, r, s) ==
  /\ GoodServer(r.sv, s) /\ r.ret = OK
  /\ DOMAIN r.sv.files = DOMAIN sv.files
  /\ (Locked(r.sv.files) <=> Locked(sv.files)) /\ EntriesIn(r.sv.files) = EntriesIn(sv.files)
  /\ InParent(r.sv.files)
  /\ HasPart(sv.files) => r.sv.files[Dir.id] = sv.files[Dir.id]

LEMMA MapInParent ==
  ASSUME NEW s, NEW sv, NEW c, GoodServer(sv, s), RootId \in DOMAIN sv.files, ~InParent(sv.files)
  PROVE  PutInParent(sv, AddMap(sv, c, RootId, DirName, Dir, FALSE), s)
<1>. DEFINE r == AddMap(sv, c, RootId, DirName, Dir, FALSE)
<1>1. MayAdd(RootId, DirName, Dir, s) /\ RootId \in DOMAIN sv.files /\ ~HasEntry(sv, RootId, DirName)
  BY ZenonT(30), DirFacts DEF MayAdd, InParent, HasEntry, Children
<1>2. GoodServer(r.sv, s) /\ r.ret = OK /\ Added(sv.files, r.sv.files, RootId, DirName)
  BY ZenonT(30), <1>1, AddMapGood
<1>. HIDE DEF r
<1>3. PutInParent(sv, r, s)
  BY ZenonT(30), <1>2, DirFacts DEF PutInParent, Added, HasPart
<1>4. QED
  BY ZenonT(30), <1>3 DEF r

(* mkdir leaves good servers: the directory is empty, not locked and linked.*)
LEMMA MkdirGood ==
  ASSUME NEW s \in Servers, NEW c
  PROVE  LET m == Mkdir(NewServer(s), c) IN
         /\ GoodServer(m, s) /\ ~Locked(m.files) /\ EntriesIn(m.files) = {}
         /\ s = 0 => InParent(m.files)
<1>. DEFINE sv == NewServer(s)
            m == Mkdir(sv, c)
            dots == PathOwner(Dir, "..")
<1>1. sv.id = s /\ Root.server = 0 /\ Root.id = RootId /\ Root.type # TYPE_DIR_SHARED
  BY ZenonT(30), NewServerFiles DEF Root, InodeType, TYPE_DIR, TYPE_DIR_SHARED
<1>2. CASE s = Home
  <2>. DEFINE made == Create(sv, RootId, DirName, TYPE_DIR_SHARED)
              mapped == IF s = 0 THEN AddMap(made.sv, c, RootId, DirName, Dir, FALSE) ELSE Reply(made.sv, OK, Dir)
              dotted == IF dots = s THEN AddMap(mapped.sv, c, Dir.id, "..", Root, FALSE)
                        ELSE Reply(mapped.sv, OK, Dir)
  <2>1. /\ made.ret = OK /\ made.inode = Dir
        /\ GoodServer(made.sv, s)
        /\ HasPart(made.sv.files) /\ ~Locked(made.sv.files) /\ EntriesIn(made.sv.files) = {}
        /\ ~InParent(made.sv.files) /\ ".." \notin DOMAIN made.sv.files[Dir.id].children
        /\ s = 0 => RootId \in DOMAIN made.sv.files
    BY ZenonT(30), <1>2, MadeAtHome
  <2>. HIDE DEF sv, made
  <2>2. /\ mapped.ret = OK /\ GoodServer(mapped.sv, s) /\ HasPart(mapped.sv.files)
        /\ ~Locked(mapped.sv.files) /\ EntriesIn(mapped.sv.files) = {}
        /\ ".." \notin DOMAIN mapped.sv.files[Dir.id].children
        /\ s = 0 => InParent(mapped.sv.files)
    <3>1. CASE s = 0
      <4>. DEFINE x == made.sv
                  r == AddMap(x, c, RootId, DirName, Dir, FALSE)
      <4>1. GoodServer(x, s) /\ RootId \in DOMAIN x.files /\ ~InParent(x.files)
        BY ZenonT(30), <2>1, <3>1
      <4>2. PutInParent(x, r, s)
        <5>. HIDE DEF x
        <5>1. QED
          BY ZenonT(30), <4>1, MapInParent
      <4>3. mapped = r
        BY ZenonT(30), <3>1
      <4>. HIDE DEF r
      <4>4. QED
        BY ZenonT(30), <2>1, <4>2, <4>3, <3>1 DEF PutInParent, HasPart
    <3>2. CASE s # 0
      BY ZenonT(30), <2>1, <3>2 DEF Reply
    <3>3. QED
      BY ZenonT(30), <3>1, <3>2
  <2>. HIDE DEF mapped
  <2>3. /\ dotted.ret = OK /\ GoodServer(dotted.sv, s)
        /\ ~Locked(dotted.sv.files) /\ EntriesIn(dotted.sv.files) = {}
        /\ s = 0 => InParent(dotted.sv.files)
    <3>1. CASE dots = s
      <4>. DEFINE x == mapped.sv
                  r == AddMap(x, c, Dir.id, "..", Root, FALSE)
      <4>1. GoodServer(x, s) /\ HasPart(x.files) /\ EntriesIn(x.files) = {} /\ ".." \notin DOMAIN x.files[Dir.id].children
        BY ZenonT(30), <2>2
      <4>2. /\ GoodServer(r.sv, s) /\ r.ret = OK
            /\ (Locked(r.sv.files) <=> Locked(x.files)) /\ EntriesIn(r.sv.files) = {}
            /\ InParent(r.sv.files) <=> InParent(x.files)
        <5>. HIDE DEF x
        <5>1. QED
          BY ZenonT(30), <4>1, MapDots
      <4>3. dotted = r
        BY ZenonT(30), <3>1
      <4>. HIDE DEF r
      <4>4. QED
        BY ZenonT(30), <2>2, <4>2, <4>3
    <3>2. CASE dots # s
      BY ZenonT(30), <2>2, <3>2 DEF Reply
    <3>3. QED
      BY ZenonT(30), <3>1, <3>2
  <2>4. CreateRequest(sv, c, Root, DirName, TYPE_DIR_SHARED).sv = dotted.sv
    <3>1. DOMAIN made = {"sv", "ret", "inode", "fd"}
      BY ZenonT(30) DEF made, Create, Reply
    <3>2. CreateRequest(sv, c, Root, DirName, TYPE_DIR_SHARED) = [made EXCEPT !.sv = dotted.sv]
      BY <1>1, <2>1, <2>2, <2>3 DEF CreateRequest, made, mapped, IsDirType
    <3>3. QED
      BY ZenonT(30), <3>1, <3>2
  <2>. HIDE DEF dotted
  <2>5. m = dotted.sv
    BY ZenonT(30), <1>1, <1>2, <2>4 DEF Mkdir
  <2>. HIDE DEF m
  <2>6. QED
    BY ZenonT(30), <2>3, <2>5 DEF m, sv
<1>3. CASE s # Home
  <2>. DEFINE n == Lazy(sv, Dir.id)
              k == IF dots = s THEN AddMap(sv, c, Dir.id, "..", Root, FALSE).sv ELSE sv
  <2>1. /\ GoodServer(sv, s) /\ ~HasPart(sv.files) /\ ~InParent(sv.files)
        /\ s = 0 => RootId \in DOMAIN sv.files
    <3>1. /\ IsServer(sv) /\ sv.id = s /\ sv.seq = 2 /\ GoodFds(sv.fds) /\ sv.failed = ""
          /\ GoodFiles(sv.files, s) /\ ~HasPart(sv.files) /\ ~InParent(sv.files)
          /\ s = 0 => RootId \in DOMAIN sv.files
      BY ZenonT(30), NewServerFiles
    <3>. HIDE DEF sv
    <3>2. sv.seq \in Nat /\ sv.seq > 1
      <4>1. sv.seq = 2
        BY ZenonT(30), <3>1
      <4>2. QED
        BY <4>1
    <3>3. QED
      BY ZenonT(30), <1>3, <3>1, <3>2 DEF GoodServer
  <2>2. ~Locked(sv.files) /\ EntriesIn(sv.files) = {}
    BY ZenonT(30), <2>1 DEF Locked, EntriesIn
  <2>. HIDE DEF sv
  <2>3. /\ GoodServer(k, s) /\ ~Locked(k.files) /\ EntriesIn(k.files) = {} /\ ~InParent(k.files)
        /\ s = 0 => RootId \in DOMAIN k.files
    <3>1. CASE dots # s
      BY ZenonT(30), <2>1, <2>2, <3>1
    <3>2. CASE dots = s
      <4>1. /\ GoodServer(n, s) /\ HasPart(n.files) /\ ~Locked(n.files) /\ EntriesIn(n.files) = {}
            /\ ~InParent(n.files)
        BY ZenonT(30), <2>1, <2>2, LazyPart
      <4>2. n.files = With(sv.files, Dir.id, VFile(TYPE_DIR_SHARED))
        <5>. DEFINE v == VFile(TYPE_DIR_SHARED)
        <5>1. IsServer(sv) /\ n = Install(sv, Dir.id, v)
          BY ZenonT(30), <2>1 DEF Lazy, HasPart, GoodServer
        <5>. HIDE DEF v
        <5>2. Install(sv, Dir.id, v).files = With(sv.files, Dir.id, v)
          BY <5>1, SetSeqFiles
        <5>3. QED
          BY ZenonT(30), <5>1, <5>2 DEF v
      <4>3. ".." \notin DOMAIN n.files[Dir.id].children /\ DOMAIN sv.files \subseteq DOMAIN n.files
        BY <4>2 DEF With, VFile, NoEntries
      <4>4. Lazy(n, Dir.id) = n
        BY ZenonT(30), <4>1 DEF Lazy, HasPart
      <4>5. AddMap(sv, c, Dir.id, "..", Root, FALSE) = AddMap(n, c, Dir.id, "..", Root, FALSE)
        BY ZenonT(30), <4>4 DEF AddMap
      <4>. HIDE DEF n
      <4>6. QED
        <5>. DEFINE r == AddMap(n, c, Dir.id, "..", Root, FALSE)
        <5>1. GoodServer(n, s) /\ HasPart(n.files) /\ EntriesIn(n.files) = {} /\ ".." \notin DOMAIN n.files[Dir.id].children
          BY ZenonT(30), <4>1, <4>3
        <5>2. /\ GoodServer(r.sv, s) /\ DOMAIN r.sv.files = DOMAIN n.files
              /\ (Locked(r.sv.files) <=> Locked(n.files)) /\ EntriesIn(r.sv.files) = {}
              /\ InParent(r.sv.files) <=> InParent(n.files)
          BY <5>1, MapDots
        <5>3. k = r.sv
          BY ZenonT(30), <3>2, <4>5
        <5>. HIDE DEF r, k
        <5>4. QED
          BY ZenonT(30), <2>1, <4>1, <4>3, <5>2, <5>3
    <3>3. QED
      BY ZenonT(30), <3>1, <3>2
  <2>4. m = IF s = 0 THEN AddMap(k, c, RootId, DirName, Dir, FALSE).sv ELSE k
    BY ZenonT(30), <1>1, <1>3 DEF Mkdir
  <2>. HIDE DEF k, m
  <2>5. CASE s = 0
    <3>. DEFINE r == AddMap(k, c, RootId, DirName, Dir, FALSE)
    <3>1. GoodServer(k, s) /\ RootId \in DOMAIN k.files /\ ~InParent(k.files)
      BY ZenonT(30), <2>3, <2>5
    <3>2. PutInParent(k, r, s)
      BY ZenonT(30), <3>1, MapInParent
    <3>3. m = r.sv
      BY ZenonT(30), <2>4, <2>5
    <3>. HIDE DEF r
    <3>4. QED
      BY ZenonT(30), <2>3, <3>2, <3>3 DEF PutInParent, m, sv
  <2>6. CASE s # 0
    BY ZenonT(30), <2>3, <2>4, <2>6 DEF m, sv
  <2>7. QED
    BY ZenonT(30), <2>5, <2>6
<1>4. QED
  BY ZenonT(30), <1>2, <1>3

-----------------------------------------------------------------------------
(* What the setups must be like.  Removers that scatter their requests can  *)
(* take each other's locks away (MCRmdirTwo.cfg), so there is at most one;  *)
(* and the handler of a create does not look at the lock, so a creator only *)
(* adds to a part that keeps a file (MCRmdirCreate.cfg).                    *)
Orderly(u) ==
  /\ u.scatter => \A c, d \in u.removers : c = d
  /\ u.creators # {} =>
       /\ u.unlinkers = {}
       /\ \E f \in u.files : \A n \in u.creates : PathOwner(Dir, n) = PathOwner(Dir, f)

(* The servers whose part a client has locked and not yet given back.       *)
HeldBy(r) ==
  {s \in Servers :
     \/ r.pc \in {"scatter", "gather"} /\ r.got[s] = OK
     \/ r.pc = "commit" /\ r.wait[s] # "none"
     \/ r.pc = "serial" /\ (s = Home \/ s < r.i)
     \/ r.pc = "serialCommit" /\ r.action = "success" /\ s >= r.i
     \/ r.pc = "serialCommit" /\ r.action = "fail" /\ r.i <= s /\ s < r.contacted
     \/ r.pc = "serialCommit" /\ r.action = "fail" /\ s = Home /\ r.contacted < Home}

Working == {"scatter", "gather", "commit", "serial", "serialCommit", "removeMap"}
Waiting == {"start", "tryHome", "find", "unlink", "create", "done"}

(* The fields of a client's record at each place.                           *)
Client(r) ==
  /\ DOMAIN r = {"pc", "i", "contacted", "got", "wait", "action", "ret", "file"}
  /\ DOMAIN r.got = Servers /\ DOMAIN r.wait = Servers
  /\ r.pc \in Working \cup Waiting
  /\ r.pc \notin {"gather", "commit"} => \A s \in Servers : r.wait[s] = "none"
  /\ r.pc \notin {"commit", "serialCommit", "removeMap"} => r.action = "none"
  /\ r.pc \in {"start", "tryHome"} => \A s \in Servers : r.got[s] = "none"
  /\ r.pc = "scatter" => \A s \in Servers : r.got[s] = IF s = Home THEN OK ELSE "none"
  /\ r.pc = "gather" =>
       \A s \in Servers : \/ r.wait[s] = "try" /\ r.got[s] = "none"
                          \/ r.wait[s] = "none" /\ r.got[s] \in {OK, NOT_EMPTY}
  /\ r.pc = "commit" =>
       /\ r.action \in {"success", "fail"}
       /\ \A s \in Servers : r.wait[s] \in {"none", r.action} /\ r.got[s] \in {OK, "none"}
  /\ r.pc = "serial" => r.i \in Others \cup {FS_SERVER_COUNT}
  /\ r.pc = "serialCommit" =>
       /\ r.action \in {"success", "fail"}
       /\ r.contacted \in IF r.action = "success" THEN {FS_SERVER_COUNT} ELSE Others
       /\ r.i \in 0 .. r.contacted
  /\ r.pc = "removeMap" => r.action = "success"
  /\ r.pc = "unlink" => r.file[1] \in Names /\ r.file[2] \notin {RootId, Dir.id}

Shapes ==
  /\ setup \in Setups
  /\ DOMAIN server = Servers /\ \A s \in Servers : GoodServer(server[s], s)
  /\ DOMAIN cl = Clients
  /\ \A c \in Clients :
       /\ Client(cl[c])
       /\ cl[c].pc \in Working => c \in Removers
       /\ cl[c].pc \in {"scatter", "gather", "commit"} => setup.scatter

(* A part is locked just when somebody holds it, nobody holds what another  *)
(* holds, and a locked part has no entries.                                 *)
Locking ==
  /\ \A s \in Servers : Locked(server[s].files) <=> \E c \in Clients : s \in HeldBy(cl[c])
  /\ \A c, d \in Clients : \A s \in Servers : s \in HeldBy(cl[c]) /\ s \in HeldBy(cl[d]) => c = d
  /\ \A s \in Servers : Locked(server[s].files) => EntriesIn(server[s].files) = {}

(* A remover that does not have to go back: it gives no lock back, and no   *)
(* server has refused it.                                                   *)
GoesOn(r) ==
  /\ r.action = "fail" => HeldBy(r) = {}
  /\ ~(r.pc = "gather" /\ \E s \in Servers : r.got[s] = NOT_EMPTY)

(* Once a removal is decided, the directory is and stays empty, every part  *)
(* that is left or made again is locked, and nobody has to go back.         *)
Decided == ~InParent(server[0].files) \/ \E c \in Clients : cl[c].action = "success"

AfterDecision ==
  Decided =>
    /\ \A s \in Servers :
         EntriesIn(server[s].files) = {} /\ (HasPart(server[s].files) => Locked(server[s].files))
    /\ \A c \in Clients : GoesOn(cl[c])

(* Nobody begins before all files are made; where there are creators, a     *)
(* file stays at the server of all names they use.                          *)
Making ==
  /\ DOMAIN maker = {"client", "todo"} /\ maker.todo \subseteq Names
  /\ maker.todo # {} => InParent(server[0].files) /\ \A c \in Clients : cl[c].pc = "start"

Pinned ==
  setup.creators # {} =>
    /\ setup.unlinkers = {}
    /\ \E f \in setup.files :
         /\ \A n \in setup.creates : PathOwner(Dir, n) = PathOwner(Dir, f)
         /\ f \in maker.todo \/ f \in EntriesIn(server[PathOwner(Dir, f)].files)

(* The inductive invariant.                                                 *)
IInv == Shapes /\ Locking /\ AfterDecision /\ Making /\ Pinned

-----------------------------------------------------------------------------
(* A step of client c that is handled at server s, if at any.               *)

StepOf(c, s) ==
  /\ UNCHANGED <<setup, maker>> /\ maker.todo = {}
  /\ DOMAIN cl' = Clients /\ \A d \in Clients : d # c => cl'[d] = cl[d]
  /\ DOMAIN server' = Servers /\ \A t \in Servers : t # s => server'[t] = server[t]
  /\ GoodServer(server'[s], s)
  /\ Client(cl'[c])
  /\ cl'[c].pc \in Working => c \in Removers
  /\ cl'[c].pc \in {"scatter", "gather", "commit"} => setup.scatter
  /\ \A t \in Servers : t # s => (t \in HeldBy(cl'[c]) <=> t \in HeldBy(cl[c]))

(* What it may do to the lock at s: nothing, take it, or give it back.      *)
KeepsLock(c, s) ==
  /\ HasPart(server'[s].files) <=> HasPart(server[s].files)
  /\ Locked(server'[s].files) <=> Locked(server[s].files)
  /\ s \in HeldBy(cl'[c]) <=> s \in HeldBy(cl[c])
TakesLock(c, s) ==
  /\ ~Locked(server[s].files) /\ Locked(server'[s].files) /\ EntriesIn(server[s].files) = {}
  /\ s \in HeldBy(cl'[c])
GivesLock(c, s) ==
  /\ ~Locked(server'[s].files) /\ (HasPart(server'[s].files) => ~Decided')
  /\ s \in HeldBy(cl[c]) /\ s \notin HeldBy(cl'[c])

EntriesKept == \A s \in Servers : EntriesIn(server'[s].files) = EntriesIn(server[s].files)

(* The lock and the decision are kept in order by such a step.              *)
LEMMA LockStep ==
  ASSUME IInv, NEW c \in Clients, NEW s \in Servers, StepOf(c, s),
         EntriesIn(server'[s].files) = EntriesIn(server[s].files),
         KeepsLock(c, s) \/ TakesLock(c, s) \/ GivesLock(c, s),
         Decided' <=> Decided,
         Decided => GoesOn(cl'[c])
  PROVE  IInv' /\ EntriesKept
<1>1. EntriesKept
  BY ZenonT(30) DEF EntriesKept, StepOf
<1>2. Shapes'
  BY ZenonT(30) DEF IInv, Shapes, StepOf, Removers
<1>3. Locking'
  <2>8. \A d \in Clients : d # c => HeldBy(cl'[d]) = HeldBy(cl[d])
    BY ZenonT(30) DEF StepOf
  <2>9. \A d \in Clients : \A t \in Servers : t # s => (t \in HeldBy(cl'[d]) <=> t \in HeldBy(cl[d]))
    BY ZenonT(30) DEF StepOf
  <2>1. ASSUME NEW t \in Servers
        PROVE  Locked(server'[t].files) <=> \E d \in Clients : t \in HeldBy(cl'[d])
    <3>1. CASE t # s
      BY <3>1 DEF IInv, Locking, StepOf
    <3>2. CASE t = s
      <4>1. CASE KeepsLock(c, s)
        <5>1. \A d \in Clients : s \in HeldBy(cl'[d]) <=> s \in HeldBy(cl[d])
          BY ZenonT(30), <2>8, <4>1 DEF KeepsLock
        <5>2. QED
          BY ZenonT(30), <3>2, <4>1, <5>1 DEF IInv, Locking, KeepsLock
      <4>2. CASE TakesLock(c, s)
        BY ZenonT(30), <3>2, <4>2 DEF TakesLock
      <4>3. CASE GivesLock(c, s)
        BY ZenonT(30), <3>2, <4>3 DEF IInv, Locking, StepOf, GivesLock
      <4>4. QED
        BY ZenonT(30), <4>1, <4>2, <4>3
    <3>3. QED
      BY ZenonT(30), <3>1, <3>2
  <2>2. ASSUME NEW d \in Clients, NEW e \in Clients, NEW t \in Servers,
               t \in HeldBy(cl'[d]), t \in HeldBy(cl'[e])
        PROVE  d = e
    <3>1. CASE t # s \/ ~TakesLock(c, s)
      <4>1. \A b \in Clients : t \in HeldBy(cl'[b]) => t \in HeldBy(cl[b])
        BY ZenonT(30), <2>8, <2>9, <3>1 DEF KeepsLock, GivesLock
      <4>2. QED
        BY ZenonT(30), <2>2, <4>1 DEF IInv, Locking
    <3>2. CASE t = s /\ TakesLock(c, s)
      <4>1. \A b \in Clients : t \notin HeldBy(cl[b])
        BY ZenonT(30), <3>2 DEF IInv, Locking, TakesLock
      <4>2. QED
        BY ZenonT(30), <2>2, <2>8, <4>1
    <3>3. QED
      BY ZenonT(30), <3>1, <3>2
  <2>3. ASSUME NEW t \in Servers, Locked(server'[t].files)
        PROVE  EntriesIn(server'[t].files) = {}
    BY ZenonT(30), <1>1, <2>3 DEF IInv, Locking, StepOf, EntriesKept, KeepsLock, TakesLock, GivesLock
  <2>4. QED
    BY ZenonT(30), <2>1, <2>2, <2>3 DEF Locking
<1>4. AfterDecision'
  <2>1. ASSUME Decided', NEW t \in Servers
        PROVE  EntriesIn(server'[t].files) = {} /\ (HasPart(server'[t].files) => Locked(server'[t].files))
    BY ZenonT(30), <1>1, <2>1 DEF IInv, AfterDecision, StepOf, EntriesKept, KeepsLock, TakesLock, GivesLock
  <2>2. ASSUME Decided', NEW d \in Clients
        PROVE  GoesOn(cl'[d])
    BY ZenonT(30), <2>2 DEF IInv, AfterDecision, StepOf
  <2>3. QED
    BY ZenonT(30), <2>1, <2>2 DEF AfterDecision
<1>5. Making'
  BY ZenonT(30) DEF IInv, Making, StepOf
<1>6. Pinned'
  <2>1. \A f \in setup.files : PathOwner(Dir, f) \in Servers
    BY ZenonT(30), RmdirAssumption DEF IInv, Shapes, SetupType
  <2>2. QED
    BY ZenonT(30), <1>1, <2>1 DEF IInv, Pinned, StepOf, EntriesKept
<1>7. QED
  BY ZenonT(30), <1>1, <1>2, <1>3, <1>4, <1>5, <1>6 DEF IInv

LEMMA FirstServer == 0 \in Servers /\ Home \in Servers /\ Root.server = 0 /\ Root.id = RootId
BY FsAssumption, RmdirAssumption DEF Servers, Root, InodeType

(* A client that waits for nothing holds nothing; so does one that is done. *)
LEMMA WaitingHolds ==
  ASSUME NEW r, r.pc \in Waiting \cup {"removeMap"}
  PROVE  HeldBy(r) = {}
BY ZenonT(30) DEF HeldBy, Waiting

DoneRecord(x) == [Idle EXCEPT !.pc = "done", !.ret = x]

LEMMA DoneClient ==
  ASSUME NEW x
  PROVE  /\ Client(DoneRecord(x)) /\ DoneRecord(x).pc = "done" /\ DoneRecord(x).action = "none"
         /\ HeldBy(DoneRecord(x)) = {}
<1>. DEFINE d == DoneRecord(x)
<1>1. /\ DOMAIN d = {"pc", "i", "contacted", "got", "wait", "action", "ret", "file"}
      /\ d.pc = "done" /\ d.action = "none" /\ d.got = Idle.got /\ d.wait = Idle.wait
  BY ZenonT(30) DEF Idle, DoneRecord
<1>2. /\ DOMAIN Idle.got = Servers /\ DOMAIN Idle.wait = Servers
      /\ \A s \in Servers : Idle.got[s] = "none" /\ Idle.wait[s] = "none"
  BY ZenonT(30) DEF Idle
<1>3. Client(d)
  BY ZenonT(30), <1>1, <1>2 DEF Client, Waiting
<1>4. HeldBy(d) = {}
  BY ZenonT(30), <1>1, WaitingHolds DEF Waiting
<1>5. QED
  BY ZenonT(30), <1>1, <1>3, <1>4

(* A client that waits for no answer and goes from server to server, or     *)
(* whose removal is decided.                                                *)
LEMMA QuietClient ==
  ASSUME NEW r, DOMAIN r = {"pc", "i", "contacted", "got", "wait", "action", "ret", "file"},
         DOMAIN r.got = Servers, DOMAIN r.wait = Servers, \A s \in Servers : r.wait[s] = "none",
         \/ r.pc = "serial" /\ r.action = "none" /\ r.i \in Others \cup {FS_SERVER_COUNT}
         \/ r.pc = "serialCommit" /\ r.action = "fail" /\ r.contacted \in Others /\ r.i \in 0 .. r.contacted
         \/ r.pc = "removeMap" /\ r.action = "success"
  PROVE  Client(r)
<1>1. CASE r.pc = "serial" /\ r.action = "none" /\ r.i \in Others \cup {FS_SERVER_COUNT}
  BY ZenonT(30), <1>1 DEF Client, Working
<1>2. CASE /\ r.pc = "serialCommit" /\ r.action = "fail"
           /\ r.contacted \in Others /\ r.i \in 0 .. r.contacted
  BY ZenonT(30), <1>2 DEF Client, Working
<1>3. CASE r.pc = "removeMap" /\ r.action = "success"
  BY ZenonT(30), <1>3 DEF Client, Working
<1>4. QED
  BY ZenonT(30), <1>1, <1>2, <1>3

LEMMA DoneStep ==
  ASSUME Shapes, NEW c \in Clients, NEW x, Done(c, x)
  PROVE  /\ DOMAIN cl' = Clients /\ \A d \in Clients : d # c => cl'[d] = cl[d]
         /\ Client(cl'[c]) /\ cl'[c].pc = "done" /\ cl'[c].action = "none" /\ HeldBy(cl'[c]) = {}
<1>1. cl'[c] = DoneRecord(x)
  BY ZenonT(30) DEF Done, Shapes, DoneRecord
<1>2. DOMAIN cl' = Clients /\ \A d \in Clients : d # c => cl'[d] = cl[d]
  BY ZenonT(30) DEF Done, Shapes
<1>3. QED
  BY ZenonT(30), <1>1, <1>2, DoneClient

(* From one place to another, with the rest of the record as it was.        *)
LEMMA GotoStep ==
  ASSUME Shapes, NEW c \in Clients, NEW p, Goto(c, p),
         \/ cl[c].pc = "start" /\ p \in {"tryHome", "find", "create"}
         \/ cl[c].action = "success" /\ (\A s \in Servers : cl[c].wait[s] = "none") /\ p = "removeMap"
  PROVE  /\ DOMAIN cl' = Clients /\ \A d \in Clients : d # c => cl'[d] = cl[d]
         /\ Client(cl'[c]) /\ cl'[c].pc = p /\ cl'[c].action = cl[c].action /\ HeldBy(cl'[c]) = {}
<1>1. DOMAIN cl' = Clients /\ \A d \in Clients : d # c => cl'[d] = cl[d]
  BY ZenonT(30) DEF Goto, Shapes
<1>2. Client(cl[c])
  BY ZenonT(30) DEF Shapes
<1>3. /\ DOMAIN cl'[c] = DOMAIN cl[c] /\ cl'[c].pc = p /\ cl'[c].action = cl[c].action
      /\ cl'[c].got = cl[c].got /\ cl'[c].wait = cl[c].wait
  BY ZenonT(30), <1>2 DEF Goto, Shapes, Client
<1>4. Client(cl'[c])
  <2>1. CASE cl[c].pc = "start" /\ p \in {"tryHome", "find", "create"}
    BY ZenonT(30), <1>2, <1>3, <2>1 DEF Client, Waiting
  <2>2. CASE /\ cl[c].action = "success" /\ p = "removeMap"
             /\ \A s \in Servers : cl[c].wait[s] = "none"
    <3>1. /\ DOMAIN cl[c] = {"pc", "i", "contacted", "got", "wait", "action", "ret", "file"}
          /\ DOMAIN cl[c].got = Servers /\ DOMAIN cl[c].wait = Servers
      BY ZenonT(30), <1>2 DEF Client
    <3>2. QED
      BY ZenonT(30), <1>3, <2>2, <3>1, QuietClient
  <2>3. QED
    BY <2>1, <2>2
<1>5. HeldBy(cl'[c]) = {}
  BY ZenonT(30), <1>3, WaitingHolds DEF Waiting
<1>6. QED
  BY ZenonT(30), <1>1, <1>3, <1>4, <1>5

(* A handler at server s that leaves n there.                               *)
LEMMA Handled ==
  ASSUME Shapes, NEW s \in Servers, NEW n, GoodServer(n, s), server' = [server EXCEPT ![s] = n]
  PROVE  /\ DOMAIN server' = Servers /\ server'[s] = n
         /\ \A t \in Servers : t # s => server'[t] = server[t]
BY ZenonT(30) DEF Shapes

LEMMA DecidedSame ==
  ASSUME NEW c \in Clients, \A d \in Clients : d # c => cl'[d] = cl[d],
         cl'[c].action = "success" <=> cl[c].action = "success",
         InParent(server'[0].files) <=> InParent(server[0].files)
  PROVE  Decided' <=> Decided
BY ZenonT(30) DEF Decided

LEMMA Begun ==
  ASSUME IInv, NEW c \in Clients, cl[c].pc # "start"
  PROVE  maker.todo = {}
BY ZenonT(30) DEF IInv, Making

(* fosLookup of the directory.                                              *)
LEMMA LookupInv ==
  ASSUME IInv, NEW c \in Clients, NEW p \in {"tryHome", "find", "create"}, Lookup(c, p),
         UNCHANGED <<setup, maker>>
  PROVE  IInv' /\ EntriesKept /\ (Decided' <=> Decided)
<1>. DEFINE r == Resolve(server[0], c, RootId, DirName)
<1>1. Shapes
  BY ZenonT(30) DEF IInv
<1>2. GoodServer(server[0], 0)
  BY ZenonT(30), <1>1, FirstServer DEF Shapes
<1>3. GoodServer(r.sv, 0) /\ r.sv.files = server[0].files
  BY <1>2, ResolveGood
<1>4. /\ cl[c].pc = "start" /\ maker.todo = {}
      /\ server' = [server EXCEPT ![0] = r.sv]
      /\ Goto(c, p) \/ \E x : Done(c, x)
  BY ZenonT(30), FirstServer DEF Lookup, At
<1>. HIDE DEF r
<1>5. /\ DOMAIN server' = Servers /\ server'[0] = r.sv
      /\ \A t \in Servers : t # 0 => server'[t] = server[t]
  BY ZenonT(30), <1>1, <1>3, <1>4, FirstServer, Handled
<1>6. cl[c].action = "none" /\ HeldBy(cl[c]) = {}
  BY ZenonT(30), <1>1, <1>4, WaitingHolds DEF Shapes, Client, Waiting
<1>7. /\ DOMAIN cl' = Clients /\ \A d \in Clients : d # c => cl'[d] = cl[d]
      /\ Client(cl'[c]) /\ cl'[c].pc \in {p, "done"} /\ cl'[c].action = "none" /\ HeldBy(cl'[c]) = {}
  <2>1. CASE Goto(c, p)
    BY ZenonT(30), <1>1, <1>4, <1>6, <2>1, GotoStep
  <2>2. CASE \E x : Done(c, x)
    BY ZenonT(30), <1>1, <2>2, DoneStep
  <2>3. QED
    BY ZenonT(30), <1>4, <2>1, <2>2
<1>8. StepOf(c, 0)
  BY ZenonT(30), <1>3, <1>4, <1>5, <1>6, <1>7 DEF StepOf, Working
<1>9. KeepsLock(c, 0) /\ EntriesIn(server'[0].files) = EntriesIn(server[0].files)
  BY ZenonT(30), <1>3, <1>5, <1>6, <1>7 DEF KeepsLock
<1>10. Decided' <=> Decided
  BY ZenonT(30), <1>3, <1>5, <1>6, <1>7, DecidedSame
<1>11. GoesOn(cl'[c])
  BY ZenonT(30), <1>7 DEF GoesOn
<1>12. QED
  BY ZenonT(30), <1>8, <1>9, <1>10, <1>11, FirstServer, LockStep

(* The order of the servers: NextAfter skips the home server only.          *)
LEMMA NextServer ==
  ASSUME NEW i \in Others \cup {-1}
  PROVE  /\ NextAfter(i) \in Others \cup {FS_SERVER_COUNT}
         /\ \A s \in Others : s < NextAfter(i) <=> s <= i
<1>1. FS_SERVER_COUNT \in Nat /\ Home \in 0 .. FS_SERVER_COUNT - 1
  BY ZenonT(30), FsAssumption, RmdirAssumption DEF Servers
<1>2. QED
  BY <1>1 DEF NextAfter, Others, Servers

(* RMDIR_TRY at the home server.                                            *)
LEMMA TryHomeInv ==
  ASSUME IInv, NEW c \in Clients, c \in Removers, TryHome(c), UNCHANGED <<setup, maker>>
  PROVE  IInv' /\ EntriesKept /\ (Decided' <=> Decided)
<1>. DEFINE sv == server[Home]
            r == Rmdir(sv, Dir.id, "try")
<1>1. Shapes /\ cl[c].pc = "tryHome" /\ Client(cl[c])
  BY ZenonT(30) DEF IInv, Shapes, TryHome, At
<1>2. GoodServer(sv, Home)
  BY ZenonT(30), <1>1, FirstServer DEF Shapes
<1>3. /\ GoodServer(r.sv, Home)
      /\ EntriesIn(r.sv.files) = EntriesIn(sv.files)
      /\ InParent(r.sv.files) <=> InParent(sv.files)
      /\ \/ r.ret = EAGAIN /\ r.sv = sv
         \/ r.ret = OK /\ ~Locked(sv.files) /\ Locked(r.sv.files) /\ EntriesIn(sv.files) = {}
         \/ r.ret = NOT_EMPTY /\ r.sv = sv
  BY ZenonT(30), <1>2, RmdirTry
<1>4. /\ server' = [server EXCEPT ![Home] = r.sv]
      /\ r.ret = EAGAIN => UNCHANGED cl
      /\ r.ret = OK => cl' = [cl EXCEPT ![c].got[Home] = OK,
                                       ![c].pc = IF setup.scatter THEN "scatter" ELSE "serial",
                                       ![c].i = NextAfter(-1)]
      /\ r.ret = NOT_EMPTY => Done(c, r.ret)
  BY ZenonT(30) DEF TryHome, EAGAIN, OK, NOT_EMPTY
<1>. HIDE DEF r
<1>5. /\ DOMAIN server' = Servers /\ server'[Home] = r.sv
      /\ \A t \in Servers : t # Home => server'[t] = server[t]
  BY ZenonT(30), <1>1, <1>3, <1>4, FirstServer, Handled
<1>6. cl[c].action = "none" /\ HeldBy(cl[c]) = {} /\ maker.todo = {}
  BY ZenonT(30), <1>1, WaitingHolds, Begun DEF Client, Waiting
<1>7. InParent(server'[0].files) <=> InParent(server[0].files)
  BY ZenonT(30), <1>3, <1>5, FirstServer
<1>8. CASE r.ret # OK
  <2>1. /\ DOMAIN cl' = Clients /\ \A d \in Clients : d # c => cl'[d] = cl[d]
        /\ Client(cl'[c]) /\ cl'[c].pc \in {"tryHome", "done"} /\ cl'[c].action = "none" /\ HeldBy(cl'[c]) = {}
    <3>1. CASE r.ret = EAGAIN
      BY ZenonT(30), <1>1, <1>4, <1>6, <3>1 DEF Shapes
    <3>2. CASE r.ret = NOT_EMPTY
      BY ZenonT(30), <1>1, <1>4, <3>2, DoneStep
    <3>3. QED
      BY ZenonT(30), <1>3, <1>8, <3>1, <3>2
  <2>2. r.sv = sv
    BY ZenonT(30), <1>3, <1>8
  <2>3. StepOf(c, Home)
    BY ZenonT(30), <1>3, <1>5, <1>6, <2>1 DEF StepOf, Working
  <2>4. KeepsLock(c, Home)
    BY ZenonT(30), <1>5, <1>6, <2>1, <2>2 DEF KeepsLock
  <2>5. Decided' <=> Decided
    BY ZenonT(30), <1>6, <1>7, <2>1, DecidedSame
  <2>6. GoesOn(cl'[c])
    BY ZenonT(30), <2>1 DEF GoesOn
  <2>7. QED
    BY <1>3, <1>5, <2>3, <2>4, <2>5, <2>6, FirstServer, LockStep
<1>9. CASE r.ret = OK
  <2>1. /\ DOMAIN cl' = Clients /\ \A d \in Clients : d # c => cl'[d] = cl[d]
        /\ DOMAIN cl'[c] = DOMAIN cl[c]
        /\ cl'[c].pc = (IF setup.scatter THEN "scatter" ELSE "serial") /\ cl'[c].action = cl[c].action
        /\ cl'[c].i = NextAfter(-1) /\ cl'[c].wait = cl[c].wait
        /\ cl'[c].got = [cl[c].got EXCEPT ![Home] = OK]
    BY <1>1, <1>4, <1>9 DEF Shapes, Client
  <2>2. /\ DOMAIN cl'[c].got = Servers
        /\ \A s \in Servers : cl'[c].got[s] = IF s = Home THEN OK ELSE "none"
    BY <1>1, <2>1 DEF Client
  <2>3. /\ cl'[c].i \in Others \cup {FS_SERVER_COUNT}
        /\ \A s \in Others : ~(s < cl'[c].i)
    <3>1. \A s \in Others : ~(s <= -1)
      BY FsAssumption DEF Others, Servers
    <3>2. QED
      BY ZenonT(30), <2>1, <3>1, NextServer
  <2>4. Client(cl'[c]) /\ HeldBy(cl'[c]) = {Home}
    <3>1. DOMAIN cl'[c].wait = Servers /\ \A s \in Servers : cl'[c].wait[s] = "none"
      BY ZenonT(30), <1>1, <2>1 DEF Client
    <3>2. CASE setup.scatter
      <4>1. cl'[c].pc = "scatter"
        BY ZenonT(30), <2>1, <3>2
      <4>2. Client(cl'[c])
        BY ZenonT(30), <1>1, <1>6, <2>1, <2>2, <3>1, <4>1 DEF Client, Working
      <4>3. HeldBy(cl'[c]) = {Home}
        BY ZenonT(30), <2>2, <4>1, FirstServer DEF HeldBy, OK
      <4>4. QED
        BY <4>2, <4>3
    <3>3. CASE ~setup.scatter
      <4>1. cl'[c].pc = "serial"
        BY ZenonT(30), <2>1, <3>3
      <4>2. Client(cl'[c])
        BY ZenonT(30), <1>1, <1>6, <2>1, <2>2, <2>3, <3>1, <4>1 DEF Client, Working
      <4>3. HeldBy(cl'[c]) = {Home}
        BY ZenonT(30), <2>3, <4>1, FirstServer DEF HeldBy, Others
      <4>4. QED
        BY <4>2, <4>3
    <3>4. QED
      BY <3>2, <3>3
  <2>5. HeldBy(cl'[c]) = {Home}
    BY <2>4
  <2>6. StepOf(c, Home)
    BY ZenonT(30), <1>3, <1>5, <1>6, <2>1, <2>4, <2>5 DEF StepOf
  <2>7. TakesLock(c, Home)
    BY ZenonT(30), <1>3, <1>5, <1>9, <2>5 DEF TakesLock, OK, EAGAIN, NOT_EMPTY
  <2>8. Decided' <=> Decided
    BY ZenonT(30), <1>6, <1>7, <2>1, DecidedSame
  <2>9. GoesOn(cl'[c])
    BY ZenonT(30), <1>6, <2>1 DEF GoesOn
  <2>10. QED
    BY ZenonT(30), <1>3, <1>5, <2>6, <2>7, <2>8, <2>9, FirstServer, LockStep
<1>10. QED
  BY ZenonT(30), <1>8, <1>9

(* The requests are sent.                                                   *)
LEMMA ScatterTryInv ==
  ASSUME IInv, NEW c \in Clients, ScatterTry(c), UNCHANGED <<setup, maker>>
  PROVE  IInv' /\ EntriesKept /\ (Decided' <=> Decided)
<1>1. Shapes /\ cl[c].pc = "scatter" /\ Client(cl[c]) /\ setup.scatter /\ c \in Removers
  BY ZenonT(30) DEF IInv, Shapes, ScatterTry, At, Working
<1>2. maker.todo = {}
  BY ZenonT(30), <1>1, Begun
<1>3. /\ DOMAIN cl' = Clients /\ \A d \in Clients : d # c => cl'[d] = cl[d]
      /\ DOMAIN cl'[c] = DOMAIN cl[c] /\ cl'[c].pc = "gather" /\ cl'[c].action = cl[c].action
      /\ cl'[c].got = cl[c].got
      /\ cl'[c].wait = [s \in Servers |-> IF s = Home THEN "none" ELSE "try"]
  BY ZenonT(30), <1>1 DEF ScatterTry, Shapes, Client
<1>4. Client(cl'[c])
  BY <1>1, <1>3 DEF Client, Working, Waiting
<1>5. HeldBy(cl'[c]) = HeldBy(cl[c]) /\ cl'[c].action = "none"
  BY <1>1, <1>3 DEF HeldBy, Client
<1>6. server' = server
  BY ZenonT(30) DEF ScatterTry
<1>7. StepOf(c, 0) /\ KeepsLock(c, 0)
  BY ZenonT(30), <1>1, <1>2, <1>3, <1>4, <1>5, <1>6, FirstServer DEF StepOf, KeepsLock, Shapes
<1>8. Decided' <=> Decided
  BY <1>3, <1>6, DecidedSame
<1>9. GoesOn(cl'[c])
  BY ZenonT(30), <1>1, <1>3, <1>5 DEF GoesOn, Client, OK, NOT_EMPTY
<1>10. QED
  BY ZenonT(30), <1>6, <1>7, <1>8, <1>9, FirstServer, LockStep

(* Who holds a lock is a remover at work.                                   *)
LEMMA HolderWorks ==
  ASSUME Shapes, NEW c \in Clients, NEW s, s \in HeldBy(cl[c])
  PROVE  c \in Removers /\ s \in Servers
<1>1. cl[c].pc \in Working
  BY ZenonT(30) DEF HeldBy, Working
<1>2. QED
  BY ZenonT(30), <1>1 DEF Shapes, HeldBy

(* A server handles RMDIR_TRY of a scattering remover, the only one.        *)
LEMMA ServeTryInv ==
  ASSUME \A u \in Setups : Orderly(u),
         IInv, NEW c \in Clients, c \in Removers, NEW s \in Servers, cl[c].pc = "gather", Serve(c, s),
         UNCHANGED <<setup, maker>>
  PROVE  IInv' /\ EntriesKept /\ (Decided' <=> Decided)
<1>. DEFINE sv == server[s]
            r == Rmdir(sv, Dir.id, "try")
<1>1. Shapes /\ Client(cl[c]) /\ setup.scatter /\ GoodServer(sv, s)
  BY ZenonT(30) DEF IInv, Shapes
<1>2. cl[c].wait[s] = "try" /\ cl[c].got[s] = "none" /\ cl[c].action = "none"
  BY ZenonT(30), <1>1 DEF Serve, Client
<1>3. ~Locked(sv.files)
  <2>1. s \notin HeldBy(cl[c])
    BY ZenonT(30), <1>2 DEF HeldBy, OK
  <2>2. ASSUME NEW d \in Clients, s \in HeldBy(cl[d]) PROVE FALSE
    <3>1. d \in Removers
      BY ZenonT(30), <1>1, <2>2, HolderWorks
    <3>2. d = c
      BY ZenonT(30), <1>1, <3>1 DEF Shapes, Orderly, Removers
    <3>3. QED
      BY ZenonT(30), <2>1, <2>2, <3>2
  <2>3. QED
    BY ZenonT(30), <2>2 DEF IInv, Locking
<1>4. /\ GoodServer(r.sv, s)
      /\ EntriesIn(r.sv.files) = EntriesIn(sv.files)
      /\ InParent(r.sv.files) <=> InParent(sv.files)
      /\ \/ r.ret = OK /\ Locked(r.sv.files) /\ EntriesIn(sv.files) = {}
         \/ r.ret = NOT_EMPTY /\ r.sv = sv /\ EntriesIn(sv.files) # {}
  BY ZenonT(30), <1>1, <1>3, RmdirTry
<1>5. /\ server' = [server EXCEPT ![s] = r.sv]
      /\ cl' = [cl EXCEPT ![c].wait[s] = "none", ![c].got[s] = r.ret]
  BY ZenonT(30), <1>2 DEF Serve
<1>. HIDE DEF r
<1>6. /\ DOMAIN server' = Servers /\ server'[s] = r.sv
      /\ \A t \in Servers : t # s => server'[t] = server[t]
  BY ZenonT(30), <1>1, <1>4, <1>5, Handled
<1>7. /\ DOMAIN cl' = Clients /\ \A d \in Clients : d # c => cl'[d] = cl[d]
      /\ DOMAIN cl'[c] = DOMAIN cl[c] /\ cl'[c].pc = "gather" /\ cl'[c].action = cl[c].action
      /\ cl'[c].wait = [cl[c].wait EXCEPT ![s] = "none"]
      /\ cl'[c].got = [cl[c].got EXCEPT ![s] = r.ret]
  BY ZenonT(30), <1>1, <1>5 DEF Shapes, Client
<1>8. /\ DOMAIN cl'[c].wait = Servers /\ DOMAIN cl'[c].got = Servers
      /\ cl'[c].wait[s] = "none" /\ cl'[c].got[s] = r.ret
      /\ \A t \in Servers : t # s => cl'[c].wait[t] = cl[c].wait[t] /\ cl'[c].got[t] = cl[c].got[t]
  BY ZenonT(30), <1>1, <1>7 DEF Client
<1>9. Client(cl'[c])
  <2>1. r.ret \in {OK, NOT_EMPTY}
    BY ZenonT(30), <1>4
  <2>2. ASSUME NEW t \in Servers
        PROVE  \/ cl'[c].wait[t] = "try" /\ cl'[c].got[t] = "none"
               \/ cl'[c].wait[t] = "none" /\ cl'[c].got[t] \in {OK, NOT_EMPTY}
    <3>1. CASE t = s
      BY ZenonT(30), <1>8, <2>1, <3>1
    <3>2. CASE t # s
      BY ZenonT(30), <1>1, <1>8, <3>2 DEF Client
    <3>3. QED
      BY <3>1, <3>2
  <2>3. cl'[c].action = "none"
    BY ZenonT(30), <1>1, <1>7 DEF Client
  <2>4. QED
    BY ZenonT(30), <1>1, <1>7, <1>8, <2>2, <2>3 DEF Client, Working
<1>10. /\ \A t \in Servers : t # s => (t \in HeldBy(cl'[c]) <=> t \in HeldBy(cl[c]))
       /\ s \in HeldBy(cl'[c]) <=> r.ret = OK
       /\ s \notin HeldBy(cl[c])
  BY ZenonT(30), <1>2, <1>7, <1>8 DEF HeldBy, OK
<1>11. maker.todo = {}
  BY ZenonT(30), Begun
<1>12. StepOf(c, s)
  BY ZenonT(30), <1>1, <1>4, <1>6, <1>7, <1>9, <1>10, <1>11 DEF StepOf
<1>13. KeepsLock(c, s) \/ TakesLock(c, s)
  <2>1. CASE r.ret = OK
    BY ZenonT(30), <1>3, <1>4, <1>6, <1>10, <2>1 DEF TakesLock, OK, NOT_EMPTY
  <2>2. CASE r.ret = NOT_EMPTY
    BY ZenonT(30), <1>4, <1>6, <1>10, <2>2 DEF KeepsLock, OK, NOT_EMPTY
  <2>3. QED
    BY ZenonT(30), <1>4, <2>1, <2>2
<1>14. Decided' <=> Decided
  <2>1. InParent(server'[0].files) <=> InParent(server[0].files)
    BY ZenonT(30), <1>4, <1>6, FirstServer
  <2>2. QED
    BY ZenonT(30), <1>7, <2>1, DecidedSame
<1>15. ASSUME Decided PROVE GoesOn(cl'[c])
  <2>1. EntriesIn(sv.files) = {} /\ GoesOn(cl[c])
    BY ZenonT(30), <1>15 DEF IInv, AfterDecision
  <2>2. r.ret # NOT_EMPTY
    BY ZenonT(30), <1>4, <2>1 DEF OK, NOT_EMPTY
  <2>3. \A t \in Servers : cl'[c].got[t] # NOT_EMPTY
    BY ZenonT(30), <1>1, <1>8, <2>1, <2>2 DEF GoesOn
  <2>4. cl'[c].action = "none"
    BY ZenonT(30), <1>1, <1>7 DEF Client
  <2>5. QED
    BY ZenonT(30), <2>3, <2>4 DEF GoesOn
<1>16. QED
  BY ZenonT(30), <1>4, <1>6, <1>12, <1>13, <1>14, <1>15, LockStep

(* RMDIR_TRY at the next server, without scatter-gather.                    *)
LEMMA TryNextInv ==
  ASSUME IInv, NEW c \in Clients, TryNext(c), UNCHANGED <<setup, maker>>
  PROVE  IInv' /\ EntriesKept /\ (Decided' <=> Decided)
<1>. DEFINE s == cl[c].i
            sv == server[s]
            r == Rmdir(sv, Dir.id, "try")
<1>1. Shapes /\ cl[c].pc = "serial" /\ Client(cl[c]) /\ c \in Removers /\ s \in Servers
  BY ZenonT(30) DEF IInv, Shapes, TryNext, At, Working
<1>2. s \in Others /\ cl[c].action = "none"
  BY <1>1, FsAssumption DEF Client, Servers
<1>3. GoodServer(sv, s)
  BY ZenonT(30), <1>1 DEF Shapes
<1>4. /\ GoodServer(r.sv, s)
      /\ EntriesIn(r.sv.files) = EntriesIn(sv.files)
      /\ InParent(r.sv.files) <=> InParent(sv.files)
      /\ \/ r.ret = EAGAIN /\ r.sv = sv
         \/ r.ret = OK /\ ~Locked(sv.files) /\ Locked(r.sv.files) /\ EntriesIn(sv.files) = {}
         \/ r.ret = NOT_EMPTY /\ r.sv = sv /\ EntriesIn(sv.files) # {}
  BY ZenonT(30), <1>3, RmdirTry
<1>5. r.ret = NOT_EMPTY => EntriesIn(sv.files) # {}
  BY ZenonT(30), <1>4 DEF EAGAIN, OK, NOT_EMPTY
<1>6. /\ server' = [server EXCEPT ![s] = r.sv]
      /\ r.ret = EAGAIN => UNCHANGED cl
      /\ r.ret = OK => cl' = [cl EXCEPT ![c].i = NextAfter(s)]
      /\ r.ret = NOT_EMPTY => cl' = [cl EXCEPT ![c].pc = "serialCommit", ![c].action = "fail", ![c].ret = r.ret,
                                              ![c].contacted = s, ![c].i = 0]
  BY ZenonT(30) DEF TryNext, EAGAIN, OK, NOT_EMPTY
<1>. HIDE DEF r
<1>7. /\ DOMAIN server' = Servers /\ server'[s] = r.sv
      /\ \A t \in Servers : t # s => server'[t] = server[t]
  BY ZenonT(30), <1>1, <1>4, <1>6, Handled
<1>8. maker.todo = {}
  BY ZenonT(30), <1>1, Begun
<1>9. InParent(server'[0].files) <=> InParent(server[0].files)
  BY ZenonT(30), <1>4, <1>7, FirstServer
<1>10. DOMAIN cl' = Clients /\ \A d \in Clients : d # c => cl'[d] = cl[d]
  BY <1>1, <1>4, <1>6 DEF Shapes
<1>11. CASE r.ret = EAGAIN
  <2>1. cl'[c] = cl[c] /\ r.sv = sv
    BY ZenonT(30), <1>4, <1>6, <1>11 DEF EAGAIN, OK, NOT_EMPTY
  <2>2. StepOf(c, s) /\ KeepsLock(c, s)
    BY ZenonT(30), <1>1, <1>3, <1>7, <1>8, <1>10, <2>1 DEF StepOf, KeepsLock
  <2>3. Decided' <=> Decided
    BY ZenonT(30), <1>9, <1>10, <2>1, DecidedSame
  <2>4. Decided => GoesOn(cl'[c])
    BY ZenonT(30), <2>1 DEF IInv, AfterDecision
  <2>5. QED
    BY ZenonT(30), <1>1, <1>4, <1>7, <2>2, <2>3, <2>4, LockStep
<1>12. CASE r.ret = OK
  <2>1. /\ DOMAIN cl'[c] = DOMAIN cl[c] /\ cl'[c].pc = "serial" /\ cl'[c].action = "none"
        /\ cl'[c].got = cl[c].got /\ cl'[c].wait = cl[c].wait /\ cl'[c].i = NextAfter(s)
    BY <1>1, <1>2, <1>6, <1>12 DEF Shapes, Client
  <2>2. /\ cl'[c].i \in Others \cup {FS_SERVER_COUNT}
        /\ \A t \in Others : t < cl'[c].i <=> t <= s
    BY ZenonT(30), <1>2, <2>1, NextServer
  <2>3. Client(cl'[c])
    <3>1. /\ DOMAIN cl[c] = {"pc", "i", "contacted", "got", "wait", "action", "ret", "file"}
          /\ DOMAIN cl[c].got = Servers /\ DOMAIN cl[c].wait = Servers
          /\ \A t \in Servers : cl[c].wait[t] = "none"
      BY ZenonT(30), <1>1 DEF Client
    <3>2. QED
      BY ZenonT(30), <2>1, <2>2, <3>1, QuietClient
  <2>4. \A t \in Servers : t < s \/ t = s <=> t <= s
    BY <1>1, FsAssumption DEF Servers
  <2>5. \A t \in Servers : t \in HeldBy(cl'[c]) <=> t \in HeldBy(cl[c]) \/ t = s
    <3>1. ASSUME NEW t \in Servers PROVE t \in HeldBy(cl'[c]) <=> t = Home \/ t <= s
      BY ZenonT(30), <2>1, <2>2 DEF HeldBy, Others
    <3>2. ASSUME NEW t \in Servers PROVE t \in HeldBy(cl[c]) <=> t = Home \/ t < s
      BY ZenonT(30), <1>1 DEF HeldBy
    <3>3. QED
      BY ZenonT(30), <2>4, <3>1, <3>2
  <2>6. StepOf(c, s)
    BY <1>1, <1>4, <1>7, <1>8, <1>10, <2>1, <2>3, <2>5 DEF StepOf
  <2>7. TakesLock(c, s)
    BY ZenonT(30), <1>1, <1>4, <1>7, <1>12, <2>5 DEF TakesLock, OK, EAGAIN, NOT_EMPTY
  <2>8. Decided' <=> Decided
    BY ZenonT(30), <1>2, <1>9, <1>10, <2>1, DecidedSame
  <2>9. GoesOn(cl'[c])
    BY ZenonT(30), <2>1 DEF GoesOn
  <2>10. QED
    BY <1>1, <1>4, <1>7, <2>6, <2>7, <2>8, <2>9, LockStep
<1>13. CASE r.ret = NOT_EMPTY
  <2>1. /\ DOMAIN cl'[c] = DOMAIN cl[c] /\ cl'[c].pc = "serialCommit" /\ cl'[c].action = "fail"
        /\ cl'[c].got = cl[c].got /\ cl'[c].wait = cl[c].wait /\ cl'[c].i = 0 /\ cl'[c].contacted = s
    BY <1>1, <1>2, <1>6, <1>13 DEF Shapes, Client
  <2>2. s \in Nat /\ Home \in Nat /\ s # Home /\ \A t \in Servers : t \in Nat
    BY <1>2, FirstServer, FsAssumption DEF Servers, Others
  <2>3. Client(cl'[c])
    <3>1. /\ DOMAIN cl[c] = {"pc", "i", "contacted", "got", "wait", "action", "ret", "file"}
          /\ DOMAIN cl[c].got = Servers /\ DOMAIN cl[c].wait = Servers
          /\ \A t \in Servers : cl[c].wait[t] = "none"
      BY ZenonT(30), <1>1 DEF Client
    <3>2. s \in Others /\ 0 \in 0 .. s
      BY <1>2, <2>2
    <3>3. QED
      BY ZenonT(30), <2>1, <3>1, <3>2, QuietClient
  <2>4. \A t \in Servers : t \in HeldBy(cl'[c]) <=> t \in HeldBy(cl[c])
    <3>1. ASSUME NEW t \in Servers PROVE t \in HeldBy(cl'[c]) <=> t < s \/ (t = Home /\ s < Home)
      BY <2>1, <2>2 DEF HeldBy
    <3>2. ASSUME NEW t \in Servers PROVE t \in HeldBy(cl[c]) <=> t = Home \/ t < s
      BY ZenonT(30), <1>1 DEF HeldBy
    <3>3. QED
      BY <2>2, <3>1, <3>2
  <2>5. r.sv = sv /\ ~Decided
    BY ZenonT(30), <1>1, <1>4, <1>5, <1>13 DEF IInv, AfterDecision, OK, EAGAIN, NOT_EMPTY
  <2>6. StepOf(c, s) /\ KeepsLock(c, s)
    BY <1>1, <1>3, <1>7, <1>8, <1>10, <2>1, <2>3, <2>4, <2>5 DEF StepOf, KeepsLock
  <2>7. Decided' <=> Decided
    BY ZenonT(30), <1>2, <1>9, <1>10, <2>1, DecidedSame
  <2>8. QED
    BY ZenonT(30), <1>1, <1>4, <1>7, <2>5, <2>6, <2>7, LockStep
<1>14. QED
  BY ZenonT(30), <1>4, <1>11, <1>12, <1>13
==============================================================================
