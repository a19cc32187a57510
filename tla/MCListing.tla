------------------------------ MODULE MCListing ------------------------------
(* Instances of Listing: odd names at server 1, even ones at server 0. *)
EXTENDS Listing

MCHash(n) == n % 2
MCSetups == [call : Calls, shared : {TRUE}, home : Servers] \cup [call : Calls, shared : {FALSE}, home : {0}]
==============================================================================
