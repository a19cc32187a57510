----------------------------- MODULE RmdirProofs -----------------------------
(***************************************************************************)
(* Removing a shared directory (Rmdir) for any number of servers, clients  *)
(* and names and for any order of the servers: no assertion fails, nothing *)
(* is left behind, and the two phases implement the atomic removal of      *)
(* AtomicDir.  RmdirLocks has the invariant and the steps that take the    *)
(* locks; here are the decision, the steps that give them back, those of   *)
(* the other clients, and the results.                                     *)
(***************************************************************************)
EXTENDS RmdirLocks

(* What a remover commits or goes back from is locked and has no entries.   *)
LEMMA HeldLocked ==
  ASSUME IInv, NEW c \in Clients, NEW s, s \in HeldBy(cl[c])
  PROVE  /\ s \in Servers /\ GoodServer(server[s], s) /\ Locked(server[s].files)
         /\ EntriesIn(server[s].files) = {}
         /\ cl[c].action = "fail" => ~Decided
<1>1. s \in Servers
  BY ZenonT(30), HolderWorks DEF IInv
<1>2. QED
  BY ZenonT(30), <1>1 DEF IInv, Shapes, Locking, AfterDecision, GoesOn

(* The part at server s, which c holds, is given back or removed.           *)
LEMMA CommitAt ==
  ASSUME IInv, NEW c \in Clients, NEW s, s \in HeldBy(cl[c]), cl[c].action \in {"success", "fail"},
         server' = [server EXCEPT ![s] = Rmdir(server[s], Dir.id, cl[c].action).sv]
  PROVE  LET r == Rmdir(server[s], Dir.id, cl[c].action) IN
         /\ r.ret = OK
         /\ DOMAIN server' = Servers /\ \A t \in Servers : t # s => server'[t] = server[t]
         /\ GoodServer(server'[s], s) /\ ~Locked(server'[s].files)
         /\ EntriesIn(server'[s].files) = EntriesIn(server[s].files)
         /\ HasPart(server'[s].files) => ~Decided
         /\ InParent(server'[0].files) <=> InParent(server[0].files)
<1>. DEFINE r == Rmdir(server[s], Dir.id, cl[c].action)
<1>1. /\ s \in Servers /\ GoodServer(server[s], s) /\ Locked(server[s].files)
      /\ EntriesIn(server[s].files) = {}
      /\ cl[c].action = "fail" => ~Decided
  BY ZenonT(30), HeldLocked
<1>2. /\ GoodServer(r.sv, s) /\ r.ret = OK /\ ~Locked(r.sv.files)
      /\ EntriesIn(r.sv.files) = {} /\ (HasPart(r.sv.files) => ~Decided)
      /\ InParent(r.sv.files) <=> InParent(server[s].files)
  <2>1. CASE cl[c].action = "fail"
    BY ZenonT(30), <1>1, <2>1, RmdirFail
  <2>2. CASE cl[c].action = "success"
    BY ZenonT(30), <1>1, <2>2, RmdirSuccess
  <2>3. QED
    BY ZenonT(30), <2>1, <2>2
<1>. HIDE DEF r
<1>3. server' = [server EXCEPT ![s] = r.sv]
  BY ZenonT(30) DEF r
<1>4. /\ DOMAIN server' = Servers /\ server'[s] = r.sv
      /\ \A t \in Servers : t # s => server'[t] = server[t]
  BY ZenonT(30), <1>1, <1>2, <1>3, Handled DEF IInv
<1>5. QED
  BY ZenonT(30), <1>1, <1>2, <1>4, FirstServer DEF r

(* A server handles the decision of a scattering remover.                   *)
LEMMA ServeCommitInv ==
  ASSUME IInv, NEW c \in Clients, NEW s \in Servers, cl[c].pc = "commit", Serve(c, s),
         UNCHANGED <<setup, maker>>
  PROVE  IInv' /\ EntriesKept /\ (Decided' <=> Decided)
<1>. DEFINE r == Rmdir(server[s], Dir.id, cl[c].action)
<1>1. Shapes /\ Client(cl[c]) /\ setup.scatter /\ c \in Removers /\ cl[c].action \in {"success", "fail"}
  BY ZenonT(30) DEF IInv, Shapes, Client, Working
<1>2. cl[c].wait[s] = cl[c].action /\ cl[c].wait[s] # "none"
  BY ZenonT(30), <1>1 DEF Serve, Client
<1>3. s \in HeldBy(cl[c])
  BY ZenonT(30), <1>2 DEF HeldBy
<1>4. /\ server' = [server EXCEPT ![s] = r.sv]
      /\ cl' = [cl EXCEPT ![c].wait[s] = "none", ![c].got[s] = r.ret]
  BY ZenonT(30), <1>2 DEF Serve
<1>5. /\ r.ret = OK
      /\ DOMAIN server' = Servers /\ \A t \in Servers : t # s => server'[t] = server[t]
      /\ GoodServer(server'[s], s) /\ ~Locked(server'[s].files)
      /\ EntriesIn(server'[s].files) = EntriesIn(server[s].files)
      /\ HasPart(server'[s].files) => ~Decided
      /\ InParent(server'[0].files) <=> InParent(server[0].files)
  BY ZenonT(30), <1>1, <1>3, <1>4, CommitAt
<1>. HIDE DEF r
<1>6. /\ DOMAIN cl' = Clients /\ \A d \in Clients : d # c => cl'[d] = cl[d]
      /\ DOMAIN cl'[c] = DOMAIN cl[c] /\ cl'[c].pc = "commit" /\ cl'[c].action = cl[c].action
      /\ cl'[c].wait = [cl[c].wait EXCEPT ![s] = "none"]
      /\ cl'[c].got = [cl[c].got EXCEPT ![s] = r.ret]
  BY ZenonT(30), <1>1, <1>4 DEF Shapes, Client
<1>7. /\ DOMAIN cl'[c].wait = Servers /\ DOMAIN cl'[c].got = Servers
      /\ cl'[c].wait[s] = "none" /\ cl'[c].got[s] = OK
      /\ \A t \in Servers : t # s => cl'[c].wait[t] = cl[c].wait[t] /\ cl'[c].got[t] = cl[c].got[t]
  BY ZenonT(30), <1>1, <1>5, <1>6 DEF Client
<1>8. Client(cl'[c])
  BY ZenonT(30), <1>1, <1>6, <1>7 DEF Client, Working, Waiting
<1>9. /\ \A t \in Servers : t # s => (t \in HeldBy(cl'[c]) <=> t \in HeldBy(cl[c]))
      /\ s \notin HeldBy(cl'[c])
      /\ HeldBy(cl'[c]) \subseteq HeldBy(cl[c])
  BY ZenonT(30), <1>3, <1>6, <1>7 DEF HeldBy
<1>10. maker.todo = {}
  BY ZenonT(30), Begun
<1>11. StepOf(c, s)
  BY ZenonT(30), <1>1, <1>5, <1>6, <1>8, <1>9, <1>10 DEF StepOf
<1>12. Decided' <=> Decided
  BY <1>5, <1>6, DecidedSame
<1>13. GivesLock(c, s)
  BY ZenonT(30), <1>3, <1>5, <1>9, <1>12 DEF GivesLock
<1>14. Decided => GoesOn(cl'[c])
  BY ZenonT(30), <1>6, <1>9 DEF IInv, AfterDecision, GoesOn
<1>15. QED
  BY ZenonT(30), <1>5, <1>11, <1>12, <1>13, <1>14, LockStep

(* A step that is the client's own, without a server.                       *)
LEMMA OwnStep ==
  ASSUME IInv, NEW c \in Clients, c \in Removers, UNCHANGED <<server, setup, maker>>, cl[c].pc # "start",
         DOMAIN cl' = Clients, \A d \in Clients : d # c => cl'[d] = cl[d],
         Client(cl'[c]), cl'[c].pc \in {"scatter", "gather", "commit"} => setup.scatter,
         HeldBy(cl'[c]) = HeldBy(cl[c]),
         cl'[c].action = "success" <=> cl[c].action = "success",
         Decided => GoesOn(cl'[c])
  PROVE  IInv' /\ EntriesKept /\ (Decided' <=> Decided)
<1>1. maker.todo = {}
  BY ZenonT(30), Begun
<1>2. StepOf(c, 0) /\ KeepsLock(c, 0)
  BY ZenonT(30), <1>1, FirstServer DEF StepOf, KeepsLock, IInv, Shapes
<1>3. Decided' <=> Decided
  BY ZenonT(30), DecidedSame
<1>4. QED
  BY ZenonT(30), <1>2, <1>3, FirstServer, LockStep

(* The removal is decided by a remover that holds every part: the directory *)
(* is empty, and no other remover holds anything.                           *)
LEMMA DecideStep ==
  ASSUME \A u \in Setups : Orderly(u),
         IInv, NEW c \in Clients, c \in Removers, UNCHANGED <<server, setup, maker>>, cl[c].pc # "start",
         DOMAIN cl' = Clients, \A d \in Clients : d # c => cl'[d] = cl[d],
         Client(cl'[c]), cl'[c].pc \in {"commit", "serialCommit"}, cl'[c].pc = "commit" => setup.scatter,
         HeldBy(cl[c]) = Servers, HeldBy(cl'[c]) = Servers, cl'[c].action = "success"
  PROVE  /\ IInv' /\ EntriesKept /\ Decided'
         /\ \A s \in Servers : EntriesIn(server[s].files) = {}
<1>1. Shapes'
  BY ZenonT(30) DEF IInv, Shapes, Removers
<1>2. Locking'
  BY DEF IInv, Locking
<1>3. \A s \in Servers : Locked(server[s].files) /\ EntriesIn(server[s].files) = {}
  BY ZenonT(30) DEF IInv, Locking
<1>4. ASSUME NEW d \in Clients PROVE GoesOn(cl'[d])
  <2>1. CASE d = c
    BY ZenonT(30), <2>1 DEF GoesOn
  <2>2. CASE d # c
    <3>1. HeldBy(cl[d]) = {}
      <4>1. ASSUME NEW s, s \in HeldBy(cl[d]) PROVE FALSE
        BY ZenonT(30), <2>2, <4>1, HolderWorks DEF IInv, Locking
      <4>2. QED
        BY ZenonT(30), <4>1
    <3>2. cl[d].pc # "gather"
      BY ZenonT(30), <2>2 DEF IInv, Shapes, Working, Orderly, Removers
    <3>3. QED
      BY ZenonT(30), <2>2, <3>1, <3>2 DEF GoesOn
  <2>3. QED
    BY ZenonT(30), <2>1, <2>2
<1>5. AfterDecision'
  BY ZenonT(30), <1>3, <1>4 DEF AfterDecision
<1>6. Making' /\ Pinned'
  BY ZenonT(30), Begun DEF IInv, Making, Pinned
<1>7. EntriesKept /\ Decided'
  BY ZenonT(30) DEF EntriesKept, Decided
<1>8. QED
  BY ZenonT(30), <1>1, <1>2, <1>3, <1>5, <1>6, <1>7 DEF IInv

(* All servers have answered.                                               *)
LEMMA GatherTryInv ==
  ASSUME \A u \in Setups : Orderly(u),
         IInv, NEW c \in Clients, GatherTry(c), UNCHANGED <<setup, maker>>
  PROVE  /\ IInv' /\ EntriesKept
         /\ \/ Decided' <=> Decided
            \/ Decided' /\ \A s \in Servers : EntriesIn(server[s].files) = {}
<1>. DEFINE refused == {s \in Servers : cl[c].got[s] # OK}
            action == IF refused = {} THEN "success" ELSE "fail"
<1>1. Shapes /\ cl[c].pc = "gather" /\ Client(cl[c]) /\ setup.scatter /\ c \in Removers
  BY ZenonT(30) DEF IInv, Shapes, GatherTry, At, Working
<1>2. \A s \in Servers : cl[c].got[s] \in {OK, NOT_EMPTY}
  BY ZenonT(30), <1>1 DEF GatherTry, Gathered, Client
<1>3. /\ DOMAIN cl' = Clients /\ \A d \in Clients : d # c => cl'[d] = cl[d]
      /\ DOMAIN cl'[c] = DOMAIN cl[c] /\ cl'[c].pc = "commit" /\ cl'[c].action = action
      /\ cl'[c].got = [s \in Servers |-> "none"]
      /\ cl'[c].wait = [s \in Servers |-> IF cl[c].got[s] = NOT_EMPTY THEN "none" ELSE action]
      /\ server' = server
  BY ZenonT(30), <1>1 DEF GatherTry, Shapes, Client
<1>4. action \in {"success", "fail"}
  BY ZenonT(30)
<1>5. cl[c].action = "none"
  BY ZenonT(30), <1>1 DEF Client
<1>6. CASE refused = {}
  <2>1. action = "success" /\ \A s \in Servers : cl[c].got[s] = OK
    BY ZenonT(30), <1>6
  <2>. HIDE DEF action, refused
  <2>2. Client(cl'[c])
    BY ZenonT(30), <1>1, <1>3, <1>4 DEF Client, Working, Waiting
  <2>3. HeldBy(cl[c]) = Servers
    BY ZenonT(30), <1>1, <2>1 DEF HeldBy
  <2>4. HeldBy(cl'[c]) = Servers
    BY ZenonT(30), <1>3, <2>1 DEF HeldBy, OK, NOT_EMPTY
  <2>5. QED
    BY <1>1, <1>3, <2>1, <2>2, <2>3, <2>4, DecideStep
<1>7. CASE refused # {}
  <2>1. action = "fail" /\ \E s \in Servers : cl[c].got[s] = NOT_EMPTY
    BY ZenonT(30), <1>2, <1>7
  <2>. HIDE DEF action, refused
  <2>2. Client(cl'[c])
    BY ZenonT(30), <1>1, <1>3, <1>4 DEF Client, Working, Waiting
  <2>3. HeldBy(cl'[c]) = HeldBy(cl[c])
    <3>1. HeldBy(cl[c]) = {s \in Servers : cl[c].got[s] = OK}
      BY ZenonT(30), <1>1 DEF HeldBy
    <3>2. HeldBy(cl'[c]) = {s \in Servers : cl'[c].wait[s] # "none"}
      BY ZenonT(30), <1>3 DEF HeldBy
    <3>3. ASSUME NEW s \in Servers PROVE cl'[c].wait[s] # "none" <=> cl[c].got[s] = OK
      BY ZenonT(30), <1>2, <1>3, <2>1 DEF OK, NOT_EMPTY
    <3>4. QED
      BY ZenonT(30), <3>1, <3>2, <3>3
  <2>4. ~Decided
    BY ZenonT(30), <1>1, <2>1 DEF IInv, AfterDecision, GoesOn
  <2>5. QED
    BY <1>1, <1>3, <1>5, <2>1, <2>2, <2>3, <2>4, OwnStep
<1>8. QED
  BY ZenonT(30), <1>6, <1>7

(* All have answered to the decision, and none has refused.                 *)
LEMMA GatherCommitInv ==
  ASSUME IInv, NEW c \in Clients, GatherCommit(c), UNCHANGED <<setup, maker>>
  PROVE  IInv' /\ EntriesKept /\ (Decided' <=> Decided)
<1>1. Shapes /\ cl[c].pc = "commit" /\ Client(cl[c]) /\ setup.scatter /\ c \in Removers
  BY ZenonT(30) DEF IInv, Shapes, GatherCommit, At, Working
<1>2. /\ \A s \in Servers : cl[c].got[s] \in {OK, "none"} /\ cl[c].wait[s] = "none"
      /\ server' = server
  BY ZenonT(30), <1>1 DEF GatherCommit, Gathered, Client
<1>3. HeldBy(cl[c]) = {}
  BY ZenonT(30), <1>1, <1>2 DEF HeldBy
<1>4. CASE cl[c].action = "success"
  <2>1. Goto(c, "removeMap")
    BY ZenonT(30), <1>2, <1>4 DEF GatherCommit
  <2>2. /\ DOMAIN cl' = Clients /\ \A d \in Clients : d # c => cl'[d] = cl[d]
        /\ Client(cl'[c]) /\ cl'[c].pc = "removeMap" /\ cl'[c].action = cl[c].action /\ HeldBy(cl'[c]) = {}
    BY ZenonT(30), <1>1, <1>2, <1>4, <2>1, GotoStep
  <2>3. GoesOn(cl'[c])
    BY ZenonT(30), <2>2 DEF GoesOn
  <2>4. /\ HeldBy(cl'[c]) = HeldBy(cl[c])
        /\ cl'[c].pc \in {"scatter", "gather", "commit"} => setup.scatter
        /\ cl'[c].action = "success" <=> cl[c].action = "success"
        /\ cl[c].pc # "start" /\ UNCHANGED <<server, setup, maker>>
    BY ZenonT(30), <1>1, <1>2, <1>3, <2>2
  <2>5. QED
    BY ZenonT(30), <1>1, <2>2, <2>3, <2>4, OwnStep
<1>5. CASE cl[c].action # "success"
  <2>1. Done(c, cl[c].ret)
    BY ZenonT(30), <1>2, <1>5 DEF GatherCommit
  <2>2. /\ DOMAIN cl' = Clients /\ \A d \in Clients : d # c => cl'[d] = cl[d]
        /\ Client(cl'[c]) /\ cl'[c].pc = "done" /\ cl'[c].action = "none" /\ HeldBy(cl'[c]) = {}
    BY ZenonT(30), <1>1, <2>1, DoneStep
  <2>3. GoesOn(cl'[c])
    BY ZenonT(30), <2>2 DEF GoesOn
  <2>4. QED
    BY <1>1, <1>2, <1>3, <1>5, <2>2, <2>3, OwnStep
<1>6. QED
  BY ZenonT(30), <1>4, <1>5

(* Every server has let the remover lock its part.                          *)
LEMMA TriedAllInv ==
  ASSUME \A u \in Setups : Orderly(u),
         IInv, NEW c \in Clients, TriedAll(c), UNCHANGED <<setup, maker>>
  PROVE  IInv' /\ EntriesKept /\ Decided' /\ \A s \in Servers : EntriesIn(server[s].files) = {}
<1>1. Shapes /\ cl[c].pc = "serial" /\ Client(cl[c]) /\ c \in Removers /\ cl[c].i \notin Servers
  BY ZenonT(30) DEF IInv, Shapes, TriedAll, At, Working
<1>2. cl[c].i = FS_SERVER_COUNT
  BY ZenonT(30), <1>1 DEF Client, Others
<1>3. /\ DOMAIN cl' = Clients /\ \A d \in Clients : d # c => cl'[d] = cl[d]
      /\ DOMAIN cl'[c] = DOMAIN cl[c] /\ cl'[c].pc = "serialCommit" /\ cl'[c].action = "success"
      /\ cl'[c].got = cl[c].got /\ cl'[c].wait = cl[c].wait /\ cl'[c].i = 0
      /\ cl'[c].contacted = FS_SERVER_COUNT /\ server' = server
  BY ZenonT(30), <1>1 DEF TriedAll, Shapes, Client
<1>4. FS_SERVER_COUNT \in Nat /\ \A s \in Servers : s < FS_SERVER_COUNT /\ s >= 0
  BY FsAssumption DEF Servers
<1>5. Client(cl'[c])
  BY <1>1, <1>3, <1>4 DEF Client, Working, Waiting
<1>6. HeldBy(cl[c]) = Servers
  BY ZenonT(30), <1>1, <1>2, <1>4 DEF HeldBy
<1>7. HeldBy(cl'[c]) = Servers
  BY ZenonT(30), <1>3, <1>4 DEF HeldBy
<1>8. QED
  BY ZenonT(30), <1>1, <1>3, <1>5, <1>6, <1>7, DecideStep

(* The decision at the next server, without scatter-gather.                 *)
LEMMA CommitNextInv ==
  ASSUME IInv, NEW c \in Clients, CommitNext(c), UNCHANGED <<setup, maker>>
  PROVE  IInv' /\ EntriesKept /\ (Decided' <=> Decided)
<1>. DEFINE s == cl[c].i
            r == Rmdir(server[s], Dir.id, cl[c].action)
<1>1. Shapes /\ cl[c].pc = "serialCommit" /\ Client(cl[c]) /\ c \in Removers /\ s < cl[c].contacted
  BY ZenonT(30) DEF IInv, Shapes, CommitNext, At, Working
<1>2. /\ FS_SERVER_COUNT \in Nat /\ \A t \in Servers : t \in Nat /\ t < FS_SERVER_COUNT
      /\ \A t \in Nat : t < FS_SERVER_COUNT => t \in Servers
      /\ Others \subseteq Servers /\ Home \notin Others
  BY FsAssumption DEF Servers, Others
<1>3. /\ cl[c].action \in {"success", "fail"} /\ cl[c].contacted \in Nat /\ cl[c].contacted # Home
      /\ cl[c].contacted <= FS_SERVER_COUNT /\ s \in Nat
      /\ cl[c].action = "success" => cl[c].contacted = FS_SERVER_COUNT
  BY <1>1, <1>2, FirstServer DEF Client
<1>4. s \in Servers
  BY <1>1, <1>2, <1>3
<1>5. s \in HeldBy(cl[c])
  BY <1>1, <1>3, <1>4 DEF HeldBy
<1>6. server' = [server EXCEPT ![s] = r.sv]
  BY ZenonT(30) DEF CommitNext
<1>7. /\ r.ret = OK
      /\ DOMAIN server' = Servers /\ \A t \in Servers : t # s => server'[t] = server[t]
      /\ GoodServer(server'[s], s) /\ ~Locked(server'[s].files)
      /\ EntriesIn(server'[s].files) = EntriesIn(server[s].files)
      /\ HasPart(server'[s].files) => ~Decided
      /\ InParent(server'[0].files) <=> InParent(server[0].files)
  BY ZenonT(30), <1>3, <1>5, <1>6, CommitAt
<1>8. cl' = [cl EXCEPT ![c].i = s + 1]
  BY ZenonT(30), <1>7 DEF CommitNext
<1>. HIDE DEF r
<1>9. /\ DOMAIN cl' = Clients /\ \A d \in Clients : d # c => cl'[d] = cl[d]
      /\ DOMAIN cl'[c] = DOMAIN cl[c] /\ cl'[c].pc = "serialCommit" /\ cl'[c].action = cl[c].action
      /\ cl'[c].wait = cl[c].wait /\ cl'[c].got = cl[c].got
      /\ cl'[c].i = s + 1 /\ cl'[c].contacted = cl[c].contacted
  BY ZenonT(30), <1>1, <1>8 DEF Shapes, Client
<1>10. s + 1 \in 0 .. cl[c].contacted
  BY <1>1, <1>3
<1>11. Client(cl'[c])
  BY <1>1, <1>9, <1>10 DEF Client, Working, Waiting
<1>12. ASSUME NEW t \in Servers PROVE t \in HeldBy(cl'[c]) <=> t \in HeldBy(cl[c]) /\ t # s
  <2>1. /\ t \in Nat
        /\ t >= s + 1 <=> t >= s /\ t # s
        /\ s + 1 <= t <=> s <= t /\ t # s
    BY <1>2, <1>3
  <2>2. CASE cl[c].action = "success"
    BY ZenonT(30), <1>1, <1>9, <2>1, <2>2 DEF HeldBy
  <2>3. CASE cl[c].action = "fail"
    <3>1. ~(s = Home /\ cl[c].contacted < Home)
      BY <1>1, <1>2, <1>3, FirstServer
    <3>2. QED
      BY ZenonT(30), <1>1, <1>9, <2>1, <2>3, <3>1 DEF HeldBy
  <2>4. QED
    BY ZenonT(30), <1>3, <2>2, <2>3
<1>13. HeldBy(cl'[c]) \subseteq HeldBy(cl[c])
  BY ZenonT(30), <1>12 DEF HeldBy
<1>14. maker.todo = {}
  BY ZenonT(30), <1>1, Begun
<1>15. StepOf(c, s)
  BY ZenonT(30), <1>1, <1>7, <1>9, <1>11, <1>12, <1>14 DEF StepOf
<1>16. Decided' <=> Decided
  BY <1>7, <1>9, DecidedSame
<1>17. GivesLock(c, s)
  BY ZenonT(30), <1>4, <1>5, <1>7, <1>12, <1>16 DEF GivesLock
<1>18. Decided => GoesOn(cl'[c])
  BY ZenonT(30), <1>9, <1>13 DEF IInv, AfterDecision, GoesOn
<1>19. QED
  BY ZenonT(30), <1>4, <1>7, <1>15, <1>16, <1>17, <1>18, LockStep

(* The home server is unlocked last.                                        *)
LEMMA CommitHomeInv ==
  ASSUME IInv, NEW c \in Clients, CommitHome(c), UNCHANGED <<setup, maker>>
  PROVE  IInv' /\ EntriesKept /\ (Decided' <=> Decided)
<1>. DEFINE r == Rmdir(server[Home], Dir.id, cl[c].action)
<1>1. /\ Shapes /\ cl[c].pc = "serialCommit" /\ Client(cl[c]) /\ c \in Removers
      /\ cl[c].i = cl[c].contacted /\ cl[c].action = "fail" /\ cl[c].contacted < Home
  BY ZenonT(30) DEF IInv, Shapes, CommitHome, At, Working
<1>2. \A t \in Servers : t \in HeldBy(cl[c]) <=> t = Home
  <2>1. cl[c].contacted \in Nat /\ \A t \in Servers : t \in Nat
    BY <1>1, FsAssumption DEF Client, Others, Servers
  <2>2. \A t \in Servers : ~(cl[c].i <= t /\ t < cl[c].contacted)
    BY <1>1, <2>1
  <2>3. QED
    BY ZenonT(30), <1>1, <2>2 DEF HeldBy
<1>3. server' = [server EXCEPT ![Home] = r.sv]
  BY ZenonT(30), <1>1 DEF CommitHome
<1>4. /\ r.ret = OK
      /\ DOMAIN server' = Servers /\ \A t \in Servers : t # Home => server'[t] = server[t]
      /\ GoodServer(server'[Home], Home) /\ ~Locked(server'[Home].files)
      /\ EntriesIn(server'[Home].files) = EntriesIn(server[Home].files)
      /\ HasPart(server'[Home].files) => ~Decided
      /\ InParent(server'[0].files) <=> InParent(server[0].files)
  BY ZenonT(30), <1>1, <1>2, <1>3, FirstServer, CommitAt
<1>5. Done(c, r.ret)
  BY ZenonT(30), <1>1, <1>4 DEF CommitHome
<1>. HIDE DEF r
<1>6. /\ DOMAIN cl' = Clients /\ \A d \in Clients : d # c => cl'[d] = cl[d]
      /\ Client(cl'[c]) /\ cl'[c].pc = "done" /\ cl'[c].action = "none" /\ HeldBy(cl'[c]) = {}
  BY ZenonT(30), <1>1, <1>5, DoneStep
<1>7. maker.todo = {}
  BY ZenonT(30), <1>1, Begun
<1>8. StepOf(c, Home)
  BY ZenonT(30), <1>1, <1>2, <1>4, <1>6, <1>7 DEF StepOf
<1>9. Decided' <=> Decided
  BY ZenonT(30), <1>1, <1>4, <1>6, DecidedSame
<1>10. GivesLock(c, Home)
  BY <1>2, <1>4, <1>6, <1>9, FirstServer DEF GivesLock
<1>11. GoesOn(cl'[c])
  BY ZenonT(30), <1>6 DEF GoesOn
<1>12. QED
  BY ZenonT(30), <1>4, <1>8, <1>9, <1>10, <1>11, FirstServer, LockStep

(* All servers have the decision.                                           *)
LEMMA CommittedAllInv ==
  ASSUME IInv, NEW c \in Clients, CommittedAll(c), UNCHANGED <<setup, maker>>
  PROVE  IInv' /\ EntriesKept /\ (Decided' <=> Decided)
<1>1. /\ Shapes /\ cl[c].pc = "serialCommit" /\ Client(cl[c]) /\ c \in Removers /\ server' = server
      /\ cl[c].i = cl[c].contacted /\ ~(cl[c].action = "fail" /\ cl[c].contacted < Home)
  BY ZenonT(30) DEF IInv, Shapes, CommittedAll, At, Working
<1>2. HeldBy(cl[c]) = {}
  <2>1. cl[c].contacted \in Nat /\ \A t \in Servers : t \in Nat /\ t < FS_SERVER_COUNT
    BY <1>1, FsAssumption DEF Client, Others, Servers
  <2>2. \A t \in Servers : ~(cl[c].i <= t /\ t < cl[c].contacted)
    BY <1>1, <2>1
  <2>3. cl[c].action = "success" => \A t \in Servers : ~(t >= cl[c].i)
    BY <1>1, <2>1 DEF Client
  <2>4. QED
    BY ZenonT(30), <1>1, <2>2, <2>3 DEF HeldBy
<1>3. CASE cl[c].action = "success"
  <2>1. Goto(c, "removeMap") /\ \A s \in Servers : cl[c].wait[s] = "none"
    BY ZenonT(30), <1>1, <1>3 DEF CommittedAll, Client
  <2>2. /\ DOMAIN cl' = Clients /\ \A d \in Clients : d # c => cl'[d] = cl[d]
        /\ Client(cl'[c]) /\ cl'[c].pc = "removeMap" /\ cl'[c].action = cl[c].action /\ HeldBy(cl'[c]) = {}
    BY <1>1, <1>3, <2>1, GotoStep
  <2>3. GoesOn(cl'[c])
    BY ZenonT(30), <2>2 DEF GoesOn
  <2>4. QED
    BY ZenonT(30), <1>1, <1>2, <2>2, <2>3, OwnStep
<1>4. CASE cl[c].action # "success"
  <2>1. Done(c, cl[c].ret)
    BY ZenonT(30), <1>4 DEF CommittedAll
  <2>2. /\ DOMAIN cl' = Clients /\ \A d \in Clients : d # c => cl'[d] = cl[d]
        /\ Client(cl'[c]) /\ cl'[c].pc = "done" /\ cl'[c].action = "none" /\ HeldBy(cl'[c]) = {}
    BY ZenonT(30), <1>1, <2>1, DoneStep
  <2>3. GoesOn(cl'[c])
    BY ZenonT(30), <2>2 DEF GoesOn
  <2>4. QED
    BY <1>1, <1>2, <1>4, <2>2, <2>3, OwnStep
<1>5. QED
  BY ZenonT(30), <1>3, <1>4

(* The entry in the parent directory is removed.                            *)
LEMMA RemoveEntryInv ==
  ASSUME IInv, NEW c \in Clients, RemoveEntry(c), UNCHANGED <<setup, maker>>
  PROVE  IInv' /\ EntriesKept /\ (Decided' <=> Decided)
<1>. DEFINE r == RemoveMap(server[0], c, RootId, DirName)
<1>1. Shapes /\ cl[c].pc = "removeMap" /\ Client(cl[c]) /\ c \in Removers
  BY ZenonT(30) DEF IInv, Shapes, RemoveEntry, At, Working
<1>2. GoodServer(server[0], 0)
  BY ZenonT(30), <1>1, FirstServer DEF Shapes
<1>3. DirName # ".."
  BY ZenonT(30) DEF DirName
<1>4. /\ GoodServer(r.sv, 0)
      /\ HasPart(r.sv.files) <=> HasPart(server[0].files)
      /\ Locked(r.sv.files) <=> Locked(server[0].files)
      /\ EntriesIn(r.sv.files) = EntriesIn(server[0].files)
      /\ ~InParent(r.sv.files)
  BY <1>2, <1>3, RemoveMapGood
<1>5. server' = [server EXCEPT ![0] = r.sv] /\ Done(c, r.ret)
  BY ZenonT(30), FirstServer DEF RemoveEntry
<1>. HIDE DEF r
<1>6. /\ DOMAIN server' = Servers /\ server'[0] = r.sv
      /\ \A t \in Servers : t # 0 => server'[t] = server[t]
  BY ZenonT(30), <1>1, <1>4, <1>5, FirstServer, Handled
<1>7. HeldBy(cl[c]) = {} /\ maker.todo = {}
  BY ZenonT(30), <1>1, WaitingHolds, Begun
<1>8. /\ DOMAIN cl' = Clients /\ \A d \in Clients : d # c => cl'[d] = cl[d]
      /\ Client(cl'[c]) /\ cl'[c].pc = "done" /\ cl'[c].action = "none" /\ HeldBy(cl'[c]) = {}
  BY ZenonT(30), <1>1, <1>5, DoneStep
<1>9. Decided' /\ Decided
  BY ZenonT(30), <1>1, <1>4, <1>6 DEF Decided, Client
<1>10. StepOf(c, 0)
  BY ZenonT(30), <1>1, <1>4, <1>6, <1>7, <1>8 DEF StepOf
<1>11. KeepsLock(c, 0)
  BY <1>4, <1>6, <1>7, <1>8 DEF KeepsLock
<1>12. GoesOn(cl'[c])
  BY ZenonT(30), <1>8 DEF GoesOn
<1>13. QED
  BY <1>4, <1>6, <1>9, <1>10, <1>11, <1>12, FirstServer, LockStep

(* A client that unlinks looks its file up.                                 *)
LEMMA FindFileInv ==
  ASSUME IInv, NEW c \in Clients, NEW f \in Names, FindFile(c, f), UNCHANGED <<setup, maker>>
  PROVE  IInv' /\ EntriesKept /\ (Decided' <=> Decided)
<1>. DEFINE s == PathOwner(Dir, f)
            r == Resolve(server[s], c, Dir.id, f)
<1>1. Shapes /\ cl[c].pc = "find" /\ Client(cl[c]) /\ s \in Servers
  BY ZenonT(30), RmdirAssumption DEF IInv, Shapes, FindFile, At
<1>2. GoodServer(server[s], s)
  BY ZenonT(30), <1>1 DEF Shapes
<1>3. GoodServer(r.sv, s) /\ r.sv.files = server[s].files /\ (r.ret = OK => r.inode.id \notin {RootId, Dir.id})
  BY <1>2, ResolveGood
<1>4. /\ server' = [server EXCEPT ![s] = r.sv]
      /\ \/ r.ret = OK /\ cl' = [cl EXCEPT ![c].pc = "unlink", ![c].file = <<f, r.inode.id>>]
         \/ Done(c, r.ret)
  BY ZenonT(30) DEF FindFile
<1>. HIDE DEF r, s
<1>5. /\ DOMAIN server' = Servers /\ server'[s] = r.sv
      /\ \A t \in Servers : t # s => server'[t] = server[t]
  BY ZenonT(30), <1>1, <1>3, <1>4, Handled
<1>6. cl[c].action = "none" /\ HeldBy(cl[c]) = {} /\ maker.todo = {}
  BY ZenonT(30), <1>1, WaitingHolds, Begun DEF Client, Waiting
<1>7. /\ DOMAIN cl' = Clients /\ \A d \in Clients : d # c => cl'[d] = cl[d]
      /\ Client(cl'[c]) /\ cl'[c].pc \in {"unlink", "done"} /\ cl'[c].action = "none" /\ HeldBy(cl'[c]) = {}
  <2>1. CASE r.ret = OK /\ cl' = [cl EXCEPT ![c].pc = "unlink", ![c].file = <<f, r.inode.id>>]
    <3>1. /\ DOMAIN cl' = Clients /\ \A d \in Clients : d # c => cl'[d] = cl[d]
          /\ DOMAIN cl'[c] = DOMAIN cl[c] /\ cl'[c].pc = "unlink" /\ cl'[c].action = cl[c].action
          /\ cl'[c].got = cl[c].got /\ cl'[c].wait = cl[c].wait /\ cl'[c].file = <<f, r.inode.id>>
      BY ZenonT(30), <1>1, <2>1 DEF Shapes, Client
    <3>2. cl'[c].file[1] \in Names /\ cl'[c].file[2] \notin {RootId, Dir.id}
      BY <1>3, <2>1, <3>1
    <3>3. Client(cl'[c])
      BY <1>1, <3>1, <3>2 DEF Client, Waiting, Working
    <3>4. HeldBy(cl'[c]) = {}
      BY ZenonT(30), <3>1, WaitingHolds DEF Waiting
    <3>5. QED
      BY ZenonT(30), <1>6, <3>1, <3>3, <3>4
  <2>2. CASE Done(c, r.ret)
    BY ZenonT(30), <1>1, <2>2, DoneStep
  <2>3. QED
    BY ZenonT(30), <1>4, <2>1, <2>2
<1>8. StepOf(c, s)
  BY ZenonT(30), <1>3, <1>5, <1>6, <1>7 DEF StepOf, Working
<1>9. KeepsLock(c, s) /\ EntriesIn(server'[s].files) = EntriesIn(server[s].files)
  BY ZenonT(30), <1>3, <1>5, <1>6, <1>7 DEF KeepsLock
<1>10. Decided' <=> Decided
  BY <1>3, <1>5, <1>6, <1>7, FirstServer, DecidedSame
<1>11. GoesOn(cl'[c])
  BY ZenonT(30), <1>7 DEF GoesOn
<1>12. QED
  BY <1>1, <1>8, <1>9, <1>10, <1>11, LockStep

(* A step that adds entries to a part which is not locked, or takes some    *)
(* away where nobody creates.                                               *)
LEMMA EntryStep ==
  ASSUME IInv, NEW c \in Clients, NEW s \in Servers, StepOf(c, s),
         HeldBy(cl[c]) = {}, HeldBy(cl'[c]) = {}, GoesOn(cl'[c]),
         Locked(server'[s].files) <=> Locked(server[s].files),
         Decided' <=> Decided,
         \/ /\ ~Decided /\ ~Locked(server[s].files)
            /\ EntriesIn(server[s].files) \subseteq EntriesIn(server'[s].files)
         \/ /\ HasPart(server'[s].files) <=> HasPart(server[s].files)
            /\ EntriesIn(server'[s].files) \subseteq EntriesIn(server[s].files)
            /\ setup.creators = {}
  PROVE  IInv'
<1>1. Shapes'
  BY ZenonT(30) DEF IInv, Shapes, StepOf, Removers
<1>2. Locking'
  <2>1. \A d \in Clients : HeldBy(cl'[d]) = HeldBy(cl[d])
    BY ZenonT(30) DEF StepOf
  <2>2. \A t \in Servers : /\ Locked(server'[t].files) <=> Locked(server[t].files)
                           /\ Locked(server[t].files) => EntriesIn(server'[t].files) \subseteq EntriesIn(server[t].files)
    BY ZenonT(30) DEF StepOf
  <2>3. QED
    BY ZenonT(30), <2>1, <2>2 DEF IInv, Locking
<1>3. AfterDecision'
  <2>1. ASSUME Decided', NEW t \in Servers
        PROVE  EntriesIn(server'[t].files) = {} /\ (HasPart(server'[t].files) => Locked(server'[t].files))
    BY ZenonT(30), <2>1 DEF IInv, AfterDecision, StepOf
  <2>2. ASSUME Decided', NEW d \in Clients
        PROVE  GoesOn(cl'[d])
    BY ZenonT(30), <2>2 DEF IInv, AfterDecision, StepOf
  <2>3. QED
    BY ZenonT(30), <2>1, <2>2 DEF AfterDecision
<1>4. Making'
  BY ZenonT(30) DEF IInv, Making, StepOf
<1>5. Pinned'
  <2>1. \A f \in setup.files : PathOwner(Dir, f) \in Servers
    BY ZenonT(30), RmdirAssumption DEF IInv, Shapes, SetupType
  <2>2. ASSUME setup.creators # {}, NEW t \in Servers
        PROVE  EntriesIn(server[t].files) \subseteq EntriesIn(server'[t].files)
    BY ZenonT(30), <2>2 DEF StepOf
  <2>3. setup' = setup /\ maker' = maker
    BY ZenonT(30) DEF StepOf
  <2>4. QED
    BY ZenonT(30), <2>1, <2>2, <2>3 DEF IInv, Pinned
<1>6. QED
  BY ZenonT(30), <1>1, <1>2, <1>3, <1>4, <1>5 DEF IInv

(* A name added at the server it hashes to, or taken away there.            *)
GainsEntry(f) ==
  /\ f \in Names
  /\ \A s \in Servers : EntriesIn(server'[s].files) =
       IF s = PathOwner(Dir, f) THEN EntriesIn(server[s].files) \cup {f} ELSE EntriesIn(server[s].files)
LosesEntry(f) ==
  /\ f \in Names
  /\ \A s \in Servers : EntriesIn(server'[s].files) =
       IF s = PathOwner(Dir, f) THEN EntriesIn(server[s].files) \ {f} ELSE EntriesIn(server[s].files)

(* A client unlinks its file.                                               *)
LEMMA UnlinkFileInv ==
  ASSUME IInv, NEW c \in Clients, c \in setup.unlinkers, UnlinkFile(c), UNCHANGED <<setup, maker>>
  PROVE  IInv' /\ LosesEntry(cl[c].file[1]) /\ (Decided' <=> Decided)
<1>. DEFINE f == cl[c].file[1]
            i == cl[c].file[2]
            s == PathOwner(Dir, f)
            r == UnlinkRequest(server[s], c, Dir.id, f, i)
<1>1. Shapes /\ cl[c].pc = "unlink" /\ Client(cl[c])
  BY ZenonT(30) DEF IInv, Shapes, UnlinkFile, At
<1>2. f \in Names /\ i \notin {RootId, Dir.id} /\ s \in Servers
  BY ZenonT(30), <1>1, RmdirAssumption DEF Client
<1>3. server' = [server EXCEPT ![s] = r.sv] /\ Done(c, r.ret)
  BY ZenonT(30) DEF UnlinkFile
<1>. HIDE DEF f, i, s
<1>4. /\ GoodServer(r.sv, s)
      /\ HasPart(r.sv.files) <=> HasPart(server[s].files)
      /\ Locked(r.sv.files) <=> Locked(server[s].files)
      /\ EntriesIn(r.sv.files) = EntriesIn(server[s].files) \ {f}
      /\ InParent(r.sv.files) <=> InParent(server[s].files)
  BY ZenonT(30), <1>1, <1>2, UnlinkGood DEF Shapes
<1>. HIDE DEF r
<1>5. /\ DOMAIN server' = Servers /\ server'[s] = r.sv
      /\ \A t \in Servers : t # s => server'[t] = server[t]
  BY ZenonT(30), <1>1, <1>2, <1>3, <1>4, Handled
<1>6. cl[c].action = "none" /\ HeldBy(cl[c]) = {} /\ maker.todo = {} /\ setup.creators = {}
  BY ZenonT(30), <1>1, WaitingHolds, Begun DEF Client, Waiting, IInv, Pinned
<1>7. /\ DOMAIN cl' = Clients /\ \A d \in Clients : d # c => cl'[d] = cl[d]
      /\ Client(cl'[c]) /\ cl'[c].pc = "done" /\ cl'[c].action = "none" /\ HeldBy(cl'[c]) = {}
  BY ZenonT(30), <1>1, <1>3, DoneStep
<1>8. StepOf(c, s)
  BY ZenonT(30), <1>4, <1>5, <1>6, <1>7 DEF StepOf, Working
<1>9. Decided' <=> Decided
  BY <1>4, <1>5, <1>6, <1>7, FirstServer, DecidedSame
<1>10. GoesOn(cl'[c])
  BY ZenonT(30), <1>7 DEF GoesOn
<1>11. IInv'
  BY <1>2, <1>4, <1>5, <1>6, <1>7, <1>8, <1>9, <1>10, EntryStep
<1>12. LosesEntry(f)
  BY ZenonT(30), <1>2, <1>4, <1>5 DEF LosesEntry, s
<1>13. QED
  BY ZenonT(30), <1>9, <1>11, <1>12 DEF f

(* A client creates a file where a file stays: the part is not locked, and  *)
(* no removal is decided.                                                   *)
LEMMA CreateFileInv ==
  ASSUME IInv, NEW c \in Clients, c \in setup.creators, NEW f \in setup.creates, CreateFile(c, f),
         UNCHANGED <<setup, maker>>
  PROVE  IInv' /\ GainsEntry(f) /\ ~Decided /\ ~Decided'
<1>. DEFINE s == PathOwner(Dir, f)
            r == CreateOpenRequest(server[s], c, Dir.id, f, TRUE)
<1>1. Shapes /\ cl[c].pc = "create" /\ Client(cl[c]) /\ server[s].seq < IdLimit
  BY ZenonT(30) DEF IInv, Shapes, CreateFile, At
<1>2. f \in Names /\ s \in Servers
  BY ZenonT(30), <1>1, RmdirAssumption DEF Shapes, SetupType
<1>3. server' = [server EXCEPT ![s] = r.sv] /\ Done(c, r.ret)
  BY ZenonT(30) DEF CreateFile
<1>4. cl[c].action = "none" /\ HeldBy(cl[c]) = {} /\ maker.todo = {}
  BY ZenonT(30), <1>1, WaitingHolds, Begun DEF Client, Waiting
<1>5. EntriesIn(server[s].files) # {}
  BY ZenonT(30), <1>4 DEF IInv, Pinned
<1>6. ~Locked(server[s].files) /\ ~Decided
  BY ZenonT(30), <1>2, <1>5 DEF IInv, Locking, AfterDecision
<1>. HIDE DEF s
<1>7. /\ GoodServer(r.sv, s)
      /\ Locked(r.sv.files) <=> Locked(server[s].files)
      /\ EntriesIn(r.sv.files) = EntriesIn(server[s].files) \cup {f}
      /\ InParent(r.sv.files) <=> InParent(server[s].files)
  BY ZenonT(30), <1>1, <1>2, CreateGood DEF Shapes, s
<1>. HIDE DEF r
<1>8. /\ DOMAIN server' = Servers /\ server'[s] = r.sv
      /\ \A t \in Servers : t # s => server'[t] = server[t]
  BY ZenonT(30), <1>1, <1>2, <1>3, <1>7, Handled
<1>9. /\ DOMAIN cl' = Clients /\ \A d \in Clients : d # c => cl'[d] = cl[d]
      /\ Client(cl'[c]) /\ cl'[c].pc = "done" /\ cl'[c].action = "none" /\ HeldBy(cl'[c]) = {}
  BY ZenonT(30), <1>1, <1>3, DoneStep
<1>10. StepOf(c, s)
  BY ZenonT(30), <1>4, <1>7, <1>8, <1>9 DEF StepOf, Working
<1>11. Decided' <=> Decided
  BY <1>4, <1>7, <1>8, <1>9, FirstServer, DecidedSame
<1>12. GoesOn(cl'[c])
  BY ZenonT(30), <1>9 DEF GoesOn
<1>13. IInv'
  BY <1>2, <1>4, <1>6, <1>7, <1>8, <1>9, <1>10, <1>11, <1>12, EntryStep
<1>14. GainsEntry(f)
  BY ZenonT(30), <1>2, <1>7, <1>8 DEF GainsEntry, s
<1>15. QED
  BY ZenonT(30), <1>6, <1>11, <1>13, <1>14

(* A file is made before anybody begins.                                    *)
LEMMA MakeFileInv ==
  ASSUME IInv, NEW f \in Names, MakeFile(f), UNCHANGED setup
  PROVE  IInv' /\ GainsEntry(f) /\ ~Decided /\ ~Decided'
<1>. DEFINE s == PathOwner(Dir, f)
            r == CreateOpenRequest(server[s], maker.client, Dir.id, f, TRUE)
<1>1. Shapes /\ server[s].seq < IdLimit /\ s \in Servers /\ f \in maker.todo
  BY ZenonT(30), RmdirAssumption DEF IInv, MakeFile
<1>2. /\ server' = [server EXCEPT ![s] = r.sv] /\ cl' = cl
      /\ DOMAIN maker' = {"client", "todo"} /\ maker'.todo = maker.todo \ {f}
  BY ZenonT(30) DEF MakeFile, IInv, Making
<1>. HIDE DEF s
<1>3. /\ GoodServer(r.sv, s)
      /\ Locked(r.sv.files) <=> Locked(server[s].files)
      /\ EntriesIn(r.sv.files) = EntriesIn(server[s].files) \cup {f}
      /\ InParent(r.sv.files) <=> InParent(server[s].files)
  BY ZenonT(30), <1>1, CreateGood DEF Shapes, s
<1>. HIDE DEF r
<1>4. /\ DOMAIN server' = Servers /\ server'[s] = r.sv
      /\ \A t \in Servers : t # s => server'[t] = server[t]
  BY ZenonT(30), <1>1, <1>2, <1>3, Handled
<1>5. InParent(server[0].files) /\ \A c \in Clients : cl[c].pc = "start"
  BY ZenonT(30), <1>1 DEF IInv, Making
<1>6. InParent(server'[0].files)
  BY ZenonT(30), <1>3, <1>4, <1>5, FirstServer
<1>7. \A c \in Clients : cl[c].action = "none" /\ HeldBy(cl[c]) = {}
  BY <1>1, <1>5, WaitingHolds DEF Shapes, Client, Waiting
<1>8. ~Decided /\ ~Decided'
  BY ZenonT(30), <1>2, <1>5, <1>6, <1>7 DEF Decided
<1>9. GainsEntry(f)
  BY ZenonT(30), <1>1, <1>3, <1>4 DEF GainsEntry, s
<1>10. Shapes'
  BY <1>1, <1>2, <1>3, <1>4 DEF Shapes, Removers
<1>11. \A t \in Servers : ~Locked(server[t].files) /\ ~Locked(server'[t].files)
  BY ZenonT(30), <1>3, <1>4, <1>7 DEF IInv, Locking
<1>12. Locking'
  BY ZenonT(30), <1>2, <1>7, <1>11 DEF Locking
<1>13. AfterDecision'
  BY ZenonT(30), <1>8 DEF AfterDecision
<1>14. Making'
  BY ZenonT(30), <1>2, <1>5, <1>6 DEF IInv, Making
<1>15. Pinned'
  <2>1. \A g \in setup.files : PathOwner(Dir, g) \in Servers
    BY ZenonT(30), <1>1, RmdirAssumption DEF Shapes, SetupType
  <2>2. ASSUME NEW g \in setup.files,
               g \in maker.todo \/ g \in EntriesIn(server[PathOwner(Dir, g)].files)
        PROVE  g \in maker'.todo \/ g \in EntriesIn(server'[PathOwner(Dir, g)].files)
    <3>1. CASE g = f
      <4>1. EntriesIn(server'[s].files) = EntriesIn(server[s].files) \cup {f}
        BY ZenonT(30), <1>3, <1>4
      <4>2. QED
        BY ZenonT(30), <3>1, <4>1 DEF s
    <3>2. CASE g # f
      <4>1. EntriesIn(server[PathOwner(Dir, g)].files) \subseteq EntriesIn(server'[PathOwner(Dir, g)].files)
        BY ZenonT(30), <1>3, <1>4, <2>1
      <4>2. QED
        BY ZenonT(30), <1>2, <2>2, <3>2, <4>1
    <3>3. QED
      BY ZenonT(30), <3>1, <3>2
  <2>3. QED
    BY ZenonT(30), <2>2 DEF IInv, Pinned
<1>16. QED
  BY <1>8, <1>9, <1>10, <1>12, <1>13, <1>14, <1>15 DEF IInv

LEMMA InitIInv ==
  ASSUME \A u \in Setups : Orderly(u), Init
  PROVE  IInv /\ ~Decided /\ Atomic!Init
<1>1. PICK c \in Clients :
        /\ setup \in Setups
        /\ server = [s \in Servers |-> Mkdir(NewServer(s), c)]
        /\ maker = [client |-> c, todo |-> setup.files]
        /\ cl = [d \in Clients |-> Idle]
  BY ZenonT(30) DEF Init
<1>2. \A s \in Servers :
        /\ GoodServer(server[s], s) /\ ~Locked(server[s].files) /\ EntriesIn(server[s].files) = {}
        /\ s = 0 => InParent(server[s].files)
  BY ZenonT(30), <1>1, MkdirGood
<1>3. /\ DOMAIN Idle = {"pc", "i", "contacted", "got", "wait", "action", "ret", "file"}
      /\ Idle.pc = "start" /\ Idle.action = "none"
      /\ DOMAIN Idle.got = Servers /\ DOMAIN Idle.wait = Servers
      /\ \A s \in Servers : Idle.got[s] = "none" /\ Idle.wait[s] = "none"
  BY ZenonT(30) DEF Idle
<1>4. Client(Idle) /\ HeldBy(Idle) = {}
  BY ZenonT(30), <1>3, WaitingHolds DEF Client, Waiting
<1>5. DOMAIN cl = Clients /\ \A d \in Clients : cl[d] = Idle
  BY ZenonT(30), <1>1
<1>6. Shapes
  BY <1>1, <1>2, <1>3, <1>4, <1>5 DEF Shapes, Working
<1>7. Locking
  BY ZenonT(30), <1>2, <1>4, <1>5 DEF Locking
<1>8. ~Decided /\ InParent(server[0].files)
  BY ZenonT(30), <1>2, <1>3, <1>5, FirstServer DEF Decided
<1>9. AfterDecision
  BY ZenonT(30), <1>8 DEF AfterDecision
<1>10. setup.files \subseteq Names
  BY ZenonT(30), <1>1, RmdirAssumption DEF SetupType
<1>11. Making
  BY <1>1, <1>3, <1>5, <1>8, <1>10 DEF Making
<1>12. Pinned
  BY ZenonT(30), <1>1 DEF Pinned, Orderly
<1>13. Atomic!Init
  <2>1. Linked
    BY ZenonT(30), <1>8, FirstServer DEF Linked, HasEntry, Children, InParent
  <2>2. \A d \in Removers : cl[d].action # "success"
    BY ZenonT(30), <1>1, <1>3, <1>5, RmdirAssumption DEF Removers, SetupType
  <2>3. QED
    BY ZenonT(30), <2>1, <2>2 DEF Atomic!Init, Entries
<1>14. QED
  BY <1>6, <1>7, <1>8, <1>9, <1>11, <1>12, <1>13 DEF IInv

(* The three kinds of steps: what nobody but the clients and the locks can  *)
(* tell, the decision, and a change of the entries.                         *)
Quiet == EntriesKept /\ (Decided' <=> Decided)
Decides == EntriesKept /\ Decided' /\ \A s \in Servers : EntriesIn(server[s].files) = {}
Edits(f) ==
  \/ GainsEntry(f) /\ ~Decided /\ ~Decided'
  \/ LosesEntry(f) /\ (Decided' <=> Decided)

LEMMA NextIInv ==
  ASSUME \A u \in Setups : Orderly(u), IInv, Next
  PROVE  IInv' /\ (Quiet \/ Decides \/ \E f \in Names : Edits(f))
<1>1. setup' = setup
  BY ZenonT(30) DEF Next
<1>2. Removers \subseteq Clients /\ setup.unlinkers \subseteq Clients /\ setup.creators \subseteq Clients
      /\ setup.creates \subseteq Names
  BY ZenonT(30), RmdirAssumption DEF IInv, Shapes, SetupType, Removers
<1>3. ASSUME NEW c \in Removers, RemoverStep(c), maker' = maker
      PROVE  IInv' /\ (Quiet \/ Decides)
  <2>. c \in Clients
    BY ZenonT(30), <1>2
  <2>1. CASE Lookup(c, "tryHome")
    BY ZenonT(30), <1>1, <1>3, <2>1, LookupInv DEF Quiet
  <2>2. CASE TryHome(c)
    BY ZenonT(30), <1>1, <1>3, <2>2, TryHomeInv DEF Quiet
  <2>3. CASE ScatterTry(c)
    BY ZenonT(30), <1>1, <1>3, <2>3, ScatterTryInv DEF Quiet
  <2>4. CASE GatherTry(c)
    BY <1>1, <1>3, <2>4, GatherTryInv DEF Quiet, Decides
  <2>5. CASE GatherCommit(c)
    BY ZenonT(30), <1>1, <1>3, <2>5, GatherCommitInv DEF Quiet
  <2>6. CASE TryNext(c)
    BY ZenonT(30), <1>1, <1>3, <2>6, TryNextInv DEF Quiet
  <2>7. CASE TriedAll(c)
    BY <1>1, <1>3, <2>7, TriedAllInv DEF Decides
  <2>8. CASE CommitNext(c)
    BY ZenonT(30), <1>1, <1>3, <2>8, CommitNextInv DEF Quiet
  <2>9. CASE CommitHome(c)
    BY ZenonT(30), <1>1, <1>3, <2>9, CommitHomeInv DEF Quiet
  <2>10. CASE CommittedAll(c)
    BY ZenonT(30), <1>1, <1>3, <2>10, CommittedAllInv DEF Quiet
  <2>11. CASE RemoveEntry(c)
    BY ZenonT(30), <1>1, <1>3, <2>11, RemoveEntryInv DEF Quiet
  <2>12. QED
    BY <1>3, <2>1, <2>2, <2>3, <2>4, <2>5, <2>6, <2>7, <2>8, <2>9, <2>10, <2>11 DEF RemoverStep
<1>4. ASSUME NEW c \in Removers, NEW s \in Servers, Serve(c, s), maker' = maker
      PROVE  IInv' /\ Quiet
  <2>. c \in Clients
    BY ZenonT(30), <1>2
  <2>1. cl[c].pc \in {"gather", "commit"}
    BY ZenonT(30), <1>4 DEF IInv, Shapes, Client, Serve
  <2>2. CASE cl[c].pc = "gather"
    BY ZenonT(30), <1>1, <1>4, <2>2, ServeTryInv DEF Quiet
  <2>3. CASE cl[c].pc = "commit"
    BY ZenonT(30), <1>1, <1>4, <2>3, ServeCommitInv DEF Quiet
  <2>4. QED
    BY ZenonT(30), <2>1, <2>2, <2>3
<1>5. ASSUME NEW c \in setup.unlinkers, UnlinkerStep(c), maker' = maker
      PROVE  IInv' /\ (Quiet \/ \E f \in Names : Edits(f))
  <2>. c \in Clients
    BY ZenonT(30), <1>2
  <2>1. CASE Lookup(c, "find")
    BY ZenonT(30), <1>1, <1>5, <2>1, LookupInv DEF Quiet
  <2>2. ASSUME NEW f \in Names, FindFile(c, f) PROVE IInv' /\ Quiet
    BY ZenonT(30), <1>1, <1>5, <2>2, FindFileInv DEF Quiet
  <2>3. CASE UnlinkFile(c)
    <3>1. IInv' /\ LosesEntry(cl[c].file[1]) /\ (Decided' <=> Decided)
      BY ZenonT(30), <1>1, <1>5, <2>3, UnlinkFileInv
    <3>2. QED
      BY ZenonT(30), <3>1 DEF Edits, LosesEntry
  <2>4. QED
    BY ZenonT(30), <1>5, <2>1, <2>2, <2>3 DEF UnlinkerStep
<1>6. ASSUME NEW c \in setup.creators, CreatorStep(c), maker' = maker
      PROVE  IInv' /\ (Quiet \/ \E f \in Names : Edits(f))
  <2>. c \in Clients
    BY ZenonT(30), <1>2
  <2>1. CASE Lookup(c, "create")
    BY ZenonT(30), <1>1, <1>6, <2>1, LookupInv DEF Quiet
  <2>2. ASSUME NEW f \in setup.creates, CreateFile(c, f) PROVE IInv' /\ Edits(f) /\ f \in Names
    BY ZenonT(30), <1>1, <1>2, <1>6, <2>2, CreateFileInv DEF Edits
  <2>3. QED
    BY ZenonT(30), <1>6, <2>1, <2>2 DEF CreatorStep
<1>7. ASSUME NEW f \in Names, MakeFile(f)
      PROVE  IInv' /\ Edits(f)
  BY ZenonT(30), <1>1, <1>7, MakeFileInv DEF Edits
<1>8. QED
  BY ZenonT(30), <1>3, <1>4, <1>5, <1>6, <1>7 DEF Next

-----------------------------------------------------------------------------
(* The directory of AtomicDir in terms of the observations.                 *)
StillLinked == Linked /\ \A c \in Removers : cl[c].action # "success"

LEMMA LinkedObserved ==
  ASSUME IInv
  PROVE  StillLinked <=> ~Decided
<1>1. Linked <=> InParent(server[0].files)
  BY ZenonT(30), FirstServer DEF Linked, HasEntry, Children, InParent
<1>2. ASSUME NEW c \in Clients, cl[c].action = "success" PROVE c \in Removers
  BY ZenonT(30), <1>2 DEF IInv, Shapes, Client, Working
<1>3. Removers \subseteq Clients
  BY ZenonT(30), RmdirAssumption DEF IInv, Shapes, SetupType, Removers
<1>4. QED
  BY ZenonT(30), <1>1, <1>2, <1>3 DEF StillLinked, Decided

LEMMA EntriesObserved ==
  /\ Entries = {f \in Names : \E s \in Servers : f \in EntriesIn(server[s].files)}
  /\ Entries' = {f \in Names : \E s \in Servers : f \in EntriesIn(server'[s].files)}
BY ZenonT(30) DEF Entries, HasEntry, Children, EntriesIn, HasPart

(* A name is an entry only at the server it hashes to.                      *)
LEMMA EntryPlace ==
  ASSUME IInv, NEW s \in Servers, NEW f \in EntriesIn(server[s].files)
  PROVE  PathOwner(Dir, f) = s
<1>1. f # ".." /\ HasPart(server[s].files) /\ f \in DOMAIN server[s].files[Dir.id].children
  BY ZenonT(30), FsAssumption DEF EntriesIn
<1>2. GoodFiles(server[s].files, s)
  BY ZenonT(30) DEF IInv, Shapes, GoodServer
<1>3. QED
  BY ZenonT(30), <1>1, <1>2 DEF GoodFiles, HasPart

LEMMA StepMaps ==
  ASSUME IInv, IInv', Quiet \/ Decides \/ \E f \in Names : Edits(f)
  PROVE  [Atomic!Next]_<<StillLinked, Entries>>
<1>1. /\ StillLinked <=> ~Decided
      /\ StillLinked' <=> ~Decided'
  <2>1. StillLinked <=> ~Decided
    BY ZenonT(30), LinkedObserved
  <2>2. StillLinked' <=> ~Decided'
    BY LinkedObserved, PTL
  <2>3. QED
    BY ZenonT(30), <2>1, <2>2
<1>2. StillLinked \in BOOLEAN /\ StillLinked' \in BOOLEAN
  BY ZenonT(30) DEF StillLinked
<1>3. EntriesKept => Entries' = Entries
  BY ZenonT(30), EntriesObserved DEF EntriesKept
<1>4. CASE Quiet
  BY ZenonT(30), <1>1, <1>2, <1>3, <1>4 DEF Quiet
<1>5. CASE Decides
  <2>1. Entries = {} /\ Entries' = Entries
    BY ZenonT(30), <1>3, <1>5, EntriesObserved DEF Decides
  <2>2. CASE Decided
    BY ZenonT(30), <1>1, <1>2, <1>5, <2>1, <2>2 DEF Decides
  <2>3. CASE ~Decided
    <3>1. StillLinked /\ StillLinked' = FALSE
      BY ZenonT(30), <1>1, <1>2, <1>5, <2>3 DEF Decides
    <3>2. Atomic!Rmdir
      BY ZenonT(30), <2>1, <3>1 DEF Atomic!Rmdir, StillLinked
    <3>3. QED
      BY ZenonT(30), <3>2 DEF Atomic!Next
  <2>4. QED
    BY ZenonT(30), <2>2, <2>3
<1>6. ASSUME NEW f \in Names, Edits(f) PROVE [Atomic!Next]_<<StillLinked, Entries>>
  <2>1. PathOwner(Dir, f) \in Servers
    BY ZenonT(30), RmdirAssumption
  <2>2. CASE GainsEntry(f) /\ ~Decided /\ ~Decided'
    <3>1. Entries' = Entries \cup {f}
      BY ZenonT(30), <2>1, <2>2, EntriesObserved DEF GainsEntry
    <3>2. StillLinked /\ StillLinked' = StillLinked
      BY ZenonT(30), <1>1, <1>2, <2>2
    <3>3. Atomic!Add(f)
      BY ZenonT(30), <3>1, <3>2 DEF Atomic!Add, StillLinked
    <3>4. QED
      BY ZenonT(30), <3>3 DEF Atomic!Next
  <2>3. CASE LosesEntry(f) /\ (Decided' <=> Decided)
    <3>1. StillLinked' = StillLinked
      BY ZenonT(30), <1>1, <1>2, <2>3
    <3>2. ASSUME NEW g, NEW s \in Servers
          PROVE  g \in EntriesIn(server'[s].files) <=> g \in EntriesIn(server[s].files) /\ g # f
      BY ZenonT(30), <2>3, EntryPlace DEF LosesEntry
    <3>3. Entries' = Entries \ {f}
      BY ZenonT(30), <3>2, EntriesObserved
    <3>4. CASE f \in Entries
      <4>1. Atomic!Drop(f)
        BY ZenonT(30), <3>1, <3>3, <3>4 DEF Atomic!Drop, StillLinked
      <4>2. QED
        BY ZenonT(30), <4>1 DEF Atomic!Next
    <3>5. CASE f \notin Entries
      BY ZenonT(30), <3>1, <3>3, <3>5
    <3>6. QED
      BY ZenonT(30), <3>4, <3>5
  <2>4. QED
    BY ZenonT(30), <1>6, <2>2, <2>3 DEF Edits
<1>7. QED
  BY ZenonT(30), <1>4, <1>5, <1>6

(* The inductive invariant holds throughout, for setups as above.           *)
LEMMA Invariant ==
  ASSUME \A u \in Setups : Orderly(u)
  PROVE  Spec => []IInv
<1>1. Init => IInv
  BY ZenonT(30), InitIInv
<1>2. IInv /\ [Next]_vars => IInv'
  <2>1. ASSUME IInv, Next PROVE IInv'
    BY ZenonT(30), <2>1, NextIInv
  <2>2. ASSUME IInv, UNCHANGED vars PROVE IInv'
    BY <2>2 DEF vars, IInv, Shapes, Locking, AfterDecision, Making, Pinned, Decided, Removers
  <2>3. QED
    BY ZenonT(30), <2>1, <2>2
<1>3. QED
  BY <1>1, <1>2, PTL DEF Spec

(* No assertion fails while a shared directory is removed: whatever the     *)
(* interleaving of removers, unlinkers and creators, RMDIR_SUCCESS and      *)
(* RMDIR_FAIL find the part locked (server.cpp, rmdir), and no server       *)
(* refuses a decision (fosRmdir).  For any number of servers and clients,   *)
(* as long as removers that scatter do not meet.                            *)
THEOREM NoAssertion ==
  ASSUME \A u \in Setups : Orderly(u)
  PROVE  Spec => []NoAssertionFails
<1>1. IInv => NoAssertionFails
  <2>1. ASSUME IInv PROVE Removers \subseteq Clients
    BY ZenonT(30), <2>1, RmdirAssumption DEF IInv, Shapes, SetupType, Removers
  <2>2. QED
    BY ZenonT(30), <2>1 DEF IInv, Shapes, GoodServer, Client, Working, Waiting, NoAssertionFails, At
<1>2. QED
  BY <1>1, Invariant, PTL

(* Nothing is left behind: when no remover is at work no part is locked,    *)
(* and once the directory is unlinked no server has a part of it (fosRmdir  *)
(* sends the decision wherever it took the lock).                           *)
THEOREM NothingRemains ==
  ASSUME \A u \in Setups : Orderly(u)
  PROVE  Spec => []NoRemains
<1>1. ASSUME IInv, Finished PROVE LockedParts = {} /\ (~Linked => \A s \in Servers : Parts(s) = {})
  <2>1. \A c \in Clients : HeldBy(cl[c]) = {}
    <3>1. ASSUME NEW c \in Clients, NEW s, s \in HeldBy(cl[c]) PROVE FALSE
      <4>1. c \in Removers
        BY ZenonT(30), <1>1, <3>1, HolderWorks DEF IInv
      <4>2. cl[c].pc = "done"
        BY ZenonT(30), <1>1, <4>1 DEF Finished, At
      <4>3. QED
        BY ZenonT(30), <3>1, <4>2, WaitingHolds DEF Waiting
    <3>2. QED
      BY ZenonT(30), <3>1
  <2>2. \A s \in Servers : ~Locked(server[s].files)
    BY ZenonT(30), <1>1, <2>1 DEF IInv, Locking
  <2>3. LockedParts = {}
    BY ZenonT(30), <2>2 DEF LockedParts, Parts, Locked, HasPart
  <2>4. ASSUME ~Linked, NEW s \in Servers PROVE Parts(s) = {}
    <3>1. Decided
      BY ZenonT(30), <1>1, <2>4, LinkedObserved DEF StillLinked
    <3>2. ~HasPart(server[s].files)
      BY ZenonT(30), <1>1, <2>2, <3>1 DEF IInv, AfterDecision
    <3>3. QED
      BY ZenonT(30), <3>2 DEF Parts, HasPart
  <2>5. QED
    BY ZenonT(30), <2>3, <2>4
<1>2. IInv => NoRemains
  BY ZenonT(30), <1>1 DEF NoRemains
<1>3. QED
  BY <1>2, Invariant, PTL

(* The two phases implement the atomic removal: the directory goes in one   *)
(* step, while it is empty, and nobody adds a file to it afterwards         *)
(* (RMDIR_TRY at every server before RMDIR_SUCCESS at any).                 *)
THEOREM RemovalIsAtomic ==
  ASSUME \A u \in Setups : Orderly(u)
  PROVE  Spec => ImplementsAtomicDir
<1>1. Init => Atomic!Init
  BY ZenonT(30), InitIInv
<1>2. IInv /\ IInv' /\ [Next]_vars => [Atomic!Next]_<<StillLinked, Entries>>
  <2>1. ASSUME IInv, IInv', Next PROVE [Atomic!Next]_<<StillLinked, Entries>>
    BY ZenonT(30), <2>1, NextIInv, StepMaps
  <2>2. ASSUME UNCHANGED vars PROVE UNCHANGED <<StillLinked, Entries>>
    BY ZenonT(30), <2>2 DEF vars, StillLinked, Linked, Removers, Entries, HasEntry, Children
  <2>3. QED
    BY ZenonT(30), <2>1, <2>2
<1>3. QED
  BY <1>1, <1>2, Invariant, PTL DEF Spec, ImplementsAtomicDir, Atomic!Spec, StillLinked

==============================================================================
