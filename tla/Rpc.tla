-------------------------------- MODULE Rpc --------------------------------
(***************************************************************************)
(* What a server promises its clients: a client that asks gets one answer,  *)
(* and gets it eventually.  The dispatcher (Dispatcher) implements it.      *)
(***************************************************************************)
CONSTANT Clients

VARIABLE client      \* what each client is doing

Init == client = [c \in Clients |-> "idle"]

Ask(c) ==
    /\ client[c] = "idle"
    /\ client' = [client EXCEPT ![c] = "asked"]

Answer(c) ==
    /\ client[c] = "asked"
    /\ client' = [client EXCEPT ![c] = "answered"]

Take(c) ==
    /\ client[c] = "answered"
    /\ client' = [client EXCEPT ![c] = "idle"]

Next == \E c \in Clients : Ask(c) \/ Answer(c) \/ Take(c)

Safety == Init /\ [][Next]_client

Spec ==
    /\ Init
    /\ [][Next]_client
    /\ \A c \in Clients : WF_client(Answer(c))
=============================================================================
