----------------------------- MODULE MCGateway -----------------------------
(***************************************************************************)
(* Instances of Gateway for TLC: a post that its platform processes, one   *)
(* that is published at once and that the adapter may already know, and    *)
(* one that compliance blocks.                                             *)
(***************************************************************************)
EXTENDS Gateway, TLC

CONSTANTS video, text, banned

(* Callers are interchangeable. *)
Symmetry == Permutations(Callers)
=============================================================================
