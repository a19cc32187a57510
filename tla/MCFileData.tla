----------------------------- MODULE MCFileData ------------------------------
(* Instances of FileData. *)
EXTENDS FileData

CONSTANTS c1, c2

Setup(cached, openers, unlinks, extends) ==
  [cached |-> cached, openers |-> openers, unlinks |-> unlinks, extends |-> extends]

(* Through the server, two clients at a time; cached, one at a time; and    *)
(* cached by two, where only the blocks are safe.                           *)
MCSetups == {Setup(FALSE, 2, FALSE, TRUE), Setup(TRUE, 1, TRUE, FALSE), Setup(TRUE, 2, FALSE, FALSE)}

(* One file cached by two clients. *)
SharedSetups == {Setup(TRUE, 2, FALSE, FALSE)}
==============================================================================
