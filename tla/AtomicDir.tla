------------------------------- MODULE AtomicDir -------------------------------
(***************************************************************************)
(* What removing a directory promises: it happens at once, and only while  *)
(* the directory is empty.                                                 *)
(***************************************************************************)
CONSTANT Names

VARIABLES linked, entries

Init == linked = TRUE /\ entries \subseteq Names

Add(f) == linked /\ entries' = entries \cup {f} /\ UNCHANGED linked
Drop(f) == f \in entries /\ entries' = entries \ {f} /\ UNCHANGED linked
Rmdir == linked /\ entries = {} /\ linked' = FALSE /\ UNCHANGED entries

Next == Rmdir \/ \E f \in Names : Add(f) \/ Drop(f)

Spec == Init /\ [][Next]_<<linked, entries>>
===============================================================================
