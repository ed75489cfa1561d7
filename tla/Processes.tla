------------------------------ MODULE Processes ------------------------------
(***************************************************************************)
(* The processes, process/process.c: the names that Scheduler and Syscall  *)
(* have in common.                                                         *)
(***************************************************************************)
CONSTANTS
  Idle,    \* the process that process_init makes for idle(); it makes no
           \* system calls
  Users,   \* the processes that make_proc_from_elf makes
  NULL

\* The processes that make_proc and make_proc_from_elf make.
MadeProcs == {Idle} \cup Users

ASSUME ProcessesAssumption == Idle \notin Users /\ NULL \notin MadeProcs
==============================================================================
