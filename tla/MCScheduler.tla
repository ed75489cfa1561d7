---------------------------- MODULE MCScheduler ----------------------------
(***************************************************************************)
(* The scheduler with the boot thread, idle and two user programs.         *)
(***************************************************************************)
EXTENDS Scheduler

CONSTANTS kernel, idle, u1, u2

MCUsers == {u1, u2}
============================================================================
