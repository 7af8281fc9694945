---------------------------- MODULE MCAdmission ----------------------------
(***************************************************************************)
(* Instances of Admission for TLC: three schedules, two of them of one     *)
(* variant.                                                                *)
(***************************************************************************)
EXTENDS Admission, TLC

CONSTANTS p1, p2, p3, c1, c2

MCKeyOf == [p \in Posts |-> IF p = p2 THEN p1 ELSE p]

(* Threads are interchangeable. *)
Symmetry == Permutations(Callers)
=============================================================================
