---------------------------- MODULE MCEndpoints ------------------------------
(* Instances of Endpoints. *)
EXTENDS Endpoints

CONSTANTS p1, p2, p3

MCCalls == [p \in Processes |-> 
  CASE p = p1 -> {"lookup"} [] p = p2 -> {"lookup"} [] OTHER -> {"remove"}]
==============================================================================
