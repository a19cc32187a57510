------------------------------- MODULE MCRmdir -------------------------------
(* Instances of Rmdir: "f" is on the last server, "g" and "h" on the first. *)
EXTENDS Rmdir

CONSTANTS
  HomeServer,   \* the server of the directory's inode
  r1, r2, u1, u2

MCHash(id, name) ==
  CASE name = "d" -> HomeServer
    [] name = "f" -> FS_SERVER_COUNT - 1
    [] name \in {"g", "h"} -> 0
    [] name = ".." -> 1 % FS_SERVER_COUNT

Removing(scatter, removers, files) ==
  [scatter |-> scatter, removers |-> removers, unlinkers |-> Clients \ {r1, r2}, creators |-> {},
   files |-> files, creates |-> {}]

(* One remover and two unlinkers; two removers server by server; and a      *)
(* client that creates where the removal is refused.                        *)
MCSetups ==
  {Removing(TRUE, {r1}, {"f", "g"}), Removing(FALSE, {r1, r2}, {"f", "g"})}
    \cup {[Removing(b, {r1}, {"g"}) EXCEPT !.unlinkers = {}, !.creators = {r2}, !.creates = {"h"}] : b \in BOOLEAN}

(* Two removers of an empty directory that scatter their requests.          *)
TwoSetups == {Removing(TRUE, {r1, r2}, {})}

(* A client that creates in an empty directory which is being removed.      *)
CreateSetups ==
  {[Removing(b, {r1}, {}) EXCEPT !.unlinkers = {}, !.creators = {r2}, !.creates = {"h"}] : b \in BOOLEAN}

(* Server by server, refused before the home server.                        *)
OrderSetups == {Removing(FALSE, {r1}, {"g"})}
==============================================================================
