----------------------------- MODULE MCScheduler -----------------------------
(***************************************************************************)
(* Instances of Scheduler for TLC: every task set of three tasks with the  *)
(* given periods, release times and quanta, under each policy.             *)
(***************************************************************************)
EXTENDS Scheduler
=============================================================================
