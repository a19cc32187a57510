----------------------------- MODULE MCOpenFiles -----------------------------
(* Instances of OpenFiles: one server has everything. *)
EXTENDS OpenFiles

MCHash(id, name) == 0
==============================================================================
