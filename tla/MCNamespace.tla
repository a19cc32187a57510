----------------------------- MODULE MCNamespace -----------------------------
(* Instances of Namespace: two servers, "a" and "d" on another than the rest. *)
EXTENDS Namespace

CONSTANTS c1, c2, c3

MCHash(id, name) == IF name \in {"a", "d"} THEN 1 % FS_SERVER_COUNT ELSE 0

Do(op, name) == <<op, name, name>>

(* Several clients create and open a file and make and open directories, or *)
(* a symbolic link in the place of one; one client also removes them.       *)
Making ==
  [c \in Clients |->
     CASE c = c1 -> {Do("creat", "a"), Do("unlink", "a"), Do("mkdir", "b"), Do("rmdir", "b"),
                     Do("rmdir", "d")}
       [] c = c2 -> {Do("excl", "a"), Do("mkdir", "d")}
       [] OTHER -> {Do("open", "a"), Do("symlink", "d")}]

(* One client renames, over a file or not; others create and open, and race *)
(* for a name that only one of them may create.                             *)
Renaming ==
  [c \in Clients |->
     CASE c = c1 -> {<<"rename", "a", "b">>, <<"rename", "b", "c">>}
       [] c = c2 -> {Do("creat", "a"), Do("open", "b"), Do("excl", "d")}
       [] OTHER -> {Do("creat", "b"), Do("excl", "d")}]

(* All create and open one file, exclusively or not, and nobody removes it. *)
Creating ==
  [c \in Clients |-> {Do("creat", "a")} \cup IF c = c1 THEN {Do("excl", "a")} ELSE {Do("open", "a")}]

(* Every client wants to be the one that creates. *)
Exclusive == [c \in Clients |-> {Do("excl", "a"), Do("excl", "b")}]

(* Over a name that the renamer has cached. *)
RenamingCached ==
  [c \in Clients |-> IF c = c1 THEN {<<"rename", "a", "b">>, Do("open", "b")}
                     ELSE {Do("creat", "a"), Do("creat", "b")}]
(* Both kinds of directory in one run. *)
MCSetups == {[shared |-> FALSE, programs |-> Making], [shared |-> FALSE, programs |-> Creating],
             [shared |-> TRUE, programs |-> Renaming]}

(* Instances that are violated: O_EXCL in a directory that is not           *)
(* distributed, and a rename over a cached name.                            *)
ExclRootSetups == {[shared |-> FALSE, programs |-> Exclusive]}
RenamingCachedSetups == {[shared |-> TRUE, programs |-> RenamingCached]}
==============================================================================
