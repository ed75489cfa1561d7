-------------------------------- MODULE Syscall --------------------------------
(***************************************************************************)
(* The system calls of the programs: open_syscall and close_syscall of     *)
(* idt/syscall.c on the descriptors of a process, with f_open and f_close  *)
(* of the FatFs library as they are used there, and mmap and munmap of     *)
(* Vmm.  A system call runs with interrupts off and is one step.  test,    *)
(* read and write change no state that another call looks at.              *)
(***************************************************************************)
EXTENDS Vmm, FiniteSetsExt

CONSTANTS
  FILs,                 \* the file objects kmalloc may return
  MAX_FILES_OPENABLE,   \* 64
  Programs              \* the possible sets of calls the programs make: "memory"
                        \* and "files" share no state, a set of one is enough

ASSUME SyscallAssumption == NULL \notin FILs /\ MAX_FILES_OPENABLE \in Nat

Fds == 0 .. (MAX_FILES_OPENABLE - 1)
FR_DISK_ERR == 1
FR_NO_FILE == 4
FR_INVALID_OBJECT == 9

VARIABLES
  files,   \* process_t.files
  fil,     \* per file object: "free", "open", or "invalid" for FatFs
  held,    \* ghost: the descriptors open has returned and close not released
  calls,   \* the calls the programs make
  rax      \* what the last call returned, as the int the program takes it for

fileVars == <<files, fil, held, rax>>
syscallVars == <<vmmVars, fileVars, calls>>

InitSyscall ==
  /\ InitVmm
  /\ calls \in Programs
  /\ files = [p \in Users |-> [fd \in Fds |-> NULL]]
  /\ fil = [f \in FILs |-> "free"]
  /\ held = [p \in Users |-> {}]
  /\ rax = [call |-> "none", by |-> Idle, value |-> 0]

Return(call, p, value) == rax' = [call |-> call, by |-> p, value |-> value]

\* Mutant: slots in use are not skipped.
FreeSlots_All(p) == 2 .. (MAX_FILES_OPENABLE - 1)

FreeSlots(p) == {i \in 2 .. (MAX_FILES_OPENABLE - 1) : files[p][i] = NULL}

\* The loop does not stop at the first free slot: the last one is taken.
open_ok(p, f) ==
  /\ FreeSlots(p) # {} /\ fil[f] = "free"
  /\ LET x == Max(FreeSlots(p)) IN
       /\ files' = [files EXCEPT ![p] = [@ EXCEPT ![x] = f]]
       /\ held' = [held EXCEPT ![p] = @ \cup {x}]
       /\ Return("open", p, x)
  /\ fil' = [fil EXCEPT ![f] = "open"]

\* When f_open fails the object stays in its slot.
open_fails(p, f) ==
  /\ FreeSlots(p) # {} /\ fil[f] = "free"
  /\ files' = [files EXCEPT ![p] = [@ EXCEPT ![Max(FreeSlots(p))] = f]]
  /\ fil' = [fil EXCEPT ![f] = "invalid"]
  /\ \E res \in {FR_DISK_ERR, FR_NO_FILE} : Return("open", p, -res)
  /\ UNCHANGED held

\* kmalloc returns NULL, which f_open refuses.
open_no_memory(p) ==
  /\ FreeSlots(p) # {}
  /\ Return("open", p, -FR_INVALID_OBJECT)
  /\ UNCHANGED <<files, fil, held>>

open_full(p) ==
  /\ FreeSlots(p) = {}
  /\ Return("open", p, 1)
  /\ UNCHANGED <<files, fil, held>>

open_syscall(p) ==
  \/ \E f \in FILs : open_ok(p, f) \/ open_fails(p, f)
  \/ open_no_memory(p) \/ open_full(p)

\* Mutant: the result of f_close is taken for success.
close_syscall_Unchecked(p, fd) ==
  /\ files[p][fd] # NULL
  /\ held' = [held EXCEPT ![p] = @ \ {fd}]
  /\ Return("close", p, 0)
  /\ \/ fil[files[p][fd]] = "open" /\ fil' = [fil EXCEPT ![files[p][fd]] = "invalid"]
     \/ UNCHANGED fil
  /\ UNCHANGED files

\* The slot keeps its object.  f_close fails on an object that is not open, and
\* when it cannot write cached data, which leaves the object open.
close_syscall(p, fd) ==
  /\ \/ /\ files[p][fd] = NULL
        /\ Return("close", p, -2)
        /\ UNCHANGED <<fil, held>>
     \/ /\ files[p][fd] # NULL /\ fil[files[p][fd]] = "open"
        /\ fil' = [fil EXCEPT ![files[p][fd]] = "invalid"]
        /\ held' = [held EXCEPT ![p] = @ \ {fd}]
        /\ Return("close", p, 0)
     \/ /\ files[p][fd] # NULL
        /\ IF fil[files[p][fd]] = "open" THEN Return("close", p, -FR_DISK_ERR)
           ELSE Return("close", p, -FR_INVALID_OBJECT)
        /\ UNCHANGED <<fil, held>>
  /\ UNCHANGED files

file_syscall(p) == open_syscall(p) \/ \E fd \in Fds : close_syscall(p, fd)

\* Neither the descriptor of close nor the number of the call is checked: one that
\* is outside of its array takes whatever is there for an object or a handler.
Outside ==
  /\ past' = TRUE
  /\ UNCHANGED <<made, bits, bitmap, mapped, stray, fileVars>>

\* What happens behind such a call is not followed.
Beyond == past /\ UNCHANGED syscallVars

NextSyscall ==
  \/ /\ ~past
     /\ \/ (\E p \in MadeProcs : make_proc(p)) /\ UNCHANGED fileVars
        \/ "memory" \in calls /\ (\E p \in made \ {Idle} : memory_syscall(p)) /\ UNCHANGED fileVars
        \/ "files" \in calls /\ (\E p \in made \ {Idle} : file_syscall(p)) /\ UNCHANGED vmmVars
        \/ made \ {Idle} # {} /\ Outside
     /\ UNCHANGED calls
  \/ Beyond

SyscallSpec == InitSyscall /\ [][NextSyscall]_syscallVars
-----------------------------------------------------------------------------
\* The files FatFs has open are the ones programs hold descriptors of, each
\* through one descriptor of one process: no failed or repeated open or close
\* leaves a file open that nobody can close, or a descriptor of a closed one.
DescriptorsInv ==
  /\ {f \in FILs : fil[f] = "open"} =
       UNION {{files[p][fd] : fd \in held[p]} : p \in Users}
  /\ \A p, q \in Users, c, d \in Fds :
       files[p][c] = files[q][d] /\ files[p][c] # NULL => p = q /\ c = d

\* A descriptor means one file for ever: one that has been closed, and is used
\* again by mistake, never reaches a file opened later.
NoAlias ==
  [][\A p \in Users, fd \in Fds :
       files[p][fd] # NULL => files'[p][fd] = files[p][fd]]_syscallVars
=============================================================================
