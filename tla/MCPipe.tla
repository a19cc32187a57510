------------------------------- MODULE MCPipe --------------------------------
(* Instances of Pipe. *)
EXTENDS Pipe, TLC

CONSTANTS p1, p2, p3

MCReads == (p1 :> {1, 3}) @@ (p2 :> {1}) @@ (p3 :> {1, 2})
MCHandled == (p1 :> {}) @@ (p2 :> {"SIGCHLD"}) @@ (p3 :> {"SIGALRM", "SIGTERM"})
==============================================================================
