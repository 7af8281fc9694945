----------------------------- MODULE MCIdentity -----------------------------
(***************************************************************************)
(* Instances of Identity for TLC.  Accounts do not meet, so one is enough; *)
(* two threads may refresh it at the same time.                            *)
(***************************************************************************)
EXTENDS Identity, TLC

CONSTANTS acct, w1, w2

(* Threads are interchangeable. *)
Symmetry == Permutations(Workers)
=============================================================================
