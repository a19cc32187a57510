------------------------------- MODULE MCExec --------------------------------
(* Instances of Exec. *)
EXTENDS Exec

CONSTANTS j1, j2
==============================================================================
