----------------------------- MODULE MCPipeline -----------------------------
(***************************************************************************)
(* Instances of Pipeline for TLC: one schedule and the post of its variant.*)
(***************************************************************************)
EXTENDS Pipeline, TLC

CONSTANTS acct, up

MCAccounts == {acct}
MCAccountOf == [s \in Schedules |-> acct]
MCVariantKey == [s \in Schedules |-> up]

(* Workers are interchangeable. *)
Symmetry == Permutations(Workers)
=============================================================================
