----------------------------- MODULE MCScheduler -----------------------------
(***************************************************************************)
(* Instances of Scheduler for TLC: one account, and schedules of the same  *)
(* content variant, so that they share the key minted upstream.            *)
(***************************************************************************)
EXTENDS Scheduler

CONSTANTS acct, up

MCAccounts == {acct}
MCAccountOf == [s \in Schedules |-> acct]
MCVariantKey == [s \in Schedules |-> up]
=============================================================================
