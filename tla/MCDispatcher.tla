---------------------------- MODULE MCDispatcher -----------------------------
(* Instances of Dispatcher. *)
EXTENDS Dispatcher

CONSTANTS c1, c2, b1, b2

MCChans == <<b1, c1, b2, c2>>

(* A server, one of whose clients sends requests nobody handles, a server      *)
(* that knows all requests, and an application.                               *)
MCSetups == {[running |-> TRUE, unknown |-> {}],
             [running |-> TRUE, unknown |-> {c2}],
             [running |-> FALSE, unknown |-> {}]}
==============================================================================
