------------------------------ MODULE Scheduler ------------------------------
(***************************************************************************)
(* Processes and the timer tick: process/process.c, the interrupt stubs of *)
(* idt/interrupts.asm and the interrupt handling of load_elf.              *)
(*                                                                         *)
(* Two activities interleave.  The boot thread (the Kernel process once    *)
(* process_init has adopted it) runs process_init and make_proc_from_elf   *)
(* one store to shared state at a time.  The timer interrupt may arrive    *)
(* between any two of those steps while interrupts are enabled; its gate   *)
(* keeps interrupts off, so timer_irq is one action from pushaq to iretq.  *)
(*                                                                         *)
(* A register file is the process whose code it executes, how far that     *)
(* code has got, and the stack it is on.  A process is identified with its *)
(* process_t page, its stack page and its page table.                      *)
(***************************************************************************)
EXTENDS Processes, Integers

CONSTANTS
  Kernel,    \* the process made from the boot thread
  Garbage,   \* what a page from pmm_getpage holds before it is written
  Steps      \* bound: the progress of a process is counted modulo Steps

Procs == {Kernel, Idle} \cup Users

ASSUME SchedulerAssumption ==
  /\ Kernel # Idle /\ Kernel \notin Users /\ Idle \notin Users
  /\ NULL \notin Procs /\ Garbage \notin Procs /\ NULL # Garbage
  /\ Steps \in Nat \ {0}

VARIABLES
  pc,          \* the line the boot thread is about to execute
  proc_queue, cur_proc,
  next,        \* process_t.next, per process
  pml4,        \* process_t.pml4
  regs,        \* process_t.regs together with fxsave_region
  pid_id,      \* process_t.pid_id
  num_pids,
  new_proc, tmp_next,   \* locals of make_proc and make_proc_from_elf
  cpu,         \* the registers of the processor
  cr3,         \* the page table in use, also the global pml4 of paging.c
  interrupts,  \* the interrupt flag
  low_pml4,    \* what lies at the address of ((process_t *)NULL)->pml4
  queued,      \* ghost: the processes linked into the ring
  rejected,    \* ghost: the processes made from a file elf_check rejected
  done         \* ghost: how far each process has executed

mainVars == <<proc_queue, next, pml4, pid_id, num_pids, new_proc, tmp_next, queued>>
vars == <<pc, mainVars, cur_proc, regs, cpu, cr3, interrupts, low_pml4, rejected,
          done>>

InitWindow == {"init_queue", "init_cur", "init_pml4", "init_next"}
Lines == InitWindow \cup {"make_proc", "load_elf", "get_next", "set_next",
                          "publish", "made", "run"}

\* The processor executes code it can fetch: its page table is one that
\* paging_init or create_page_table built, and its registers are some process's.
Alive == cr3 \in Procs /\ cpu.owner \in Procs

Entry(p) == [owner |-> p, step |-> 0, rsp |-> p]
Junk == [owner |-> Garbage, step |-> 0, rsp |-> Garbage]

-----------------------------------------------------------------------------
Init ==
  /\ pc = "init_queue"
  /\ proc_queue = NULL /\ cur_proc = NULL
  /\ next \in [Procs -> {NULL, Garbage}]
  /\ pml4 = [p \in Procs |-> Garbage]
  /\ regs = [p \in Procs |-> Junk]
  /\ pid_id = [p \in Procs |-> 0]
  /\ num_pids = 0
  /\ new_proc = NULL /\ tmp_next = NULL
  /\ cpu = Entry(Kernel)
  /\ cr3 = Kernel
  /\ interrupts = TRUE
  /\ low_pml4 \in {NULL, Garbage}
  /\ queued = {}
  /\ rejected = {}
  /\ done = [p \in Procs |-> 0]

\* A process executes: its registers and its true progress advance together.
Advance(p) ==
  /\ Alive /\ cpu.owner = p
  /\ cpu' = [cpu EXCEPT !.step = (@ + 1) % Steps]
  /\ done' = [done EXCEPT ![p] = (@ + 1) % Steps]

\* The boot thread executes the line at pc.
At(line, after) ==
  /\ pc = line /\ pc' = after
  /\ Advance(Kernel)
  /\ UNCHANGED <<cr3, low_pml4>>

\* process_init, lines 165 to 169.  Storing the pid touches nothing that the
\* timer reads and is part of the step that stores the page table.
InitQueue ==
  /\ At("init_queue", "init_cur")
  /\ proc_queue' = Kernel
  /\ UNCHANGED <<next, pml4, pid_id, num_pids, new_proc, tmp_next, queued,
                 cur_proc, regs, interrupts, rejected>>

InitCur ==
  /\ At("init_cur", "init_pml4")
  /\ cur_proc' = proc_queue
  /\ UNCHANGED <<mainVars, regs, interrupts, rejected>>

InitPml4 ==
  /\ At("init_pml4", "init_next")
  /\ pid_id' = [pid_id EXCEPT ![cur_proc] = num_pids]
  /\ num_pids' = num_pids + 1
  /\ pml4' = [pml4 EXCEPT ![cur_proc] = cr3]
  /\ UNCHANGED <<proc_queue, next, new_proc, tmp_next, queued,
                 cur_proc, regs, interrupts, rejected>>

InitNext ==
  /\ At("init_next", "make_proc")
  /\ next' = [next EXCEPT ![cur_proc] = cur_proc]
  /\ queued' = {cur_proc}
  /\ UNCHANGED <<proc_queue, pml4, pid_id, num_pids, new_proc, tmp_next,
                 cur_proc, regs, interrupts, rejected>>

\* Filling in the new process, which nobody else can see yet.
Build(p, context) ==
  /\ new_proc' = p
  /\ regs' = [regs EXCEPT ![p] = context]
  /\ pml4' = [pml4 EXCEPT ![p] = p]
  /\ pid_id' = [pid_id EXCEPT ![p] = num_pids]
  /\ num_pids' = num_pids + 1
  /\ UNCHANGED <<proc_queue, next, tmp_next, queued, cur_proc>>

\* make_proc(idle, 0) up to the fields of the new process.
MakeIdle ==
  /\ At("make_proc", "get_next")
  /\ Build(Idle, Entry(Idle))
  /\ UNCHANGED <<interrupts, rejected>>

\* make_proc_from_elf up to the fields of the new process, including load_elf
\* with its cli and sti.  A header that elf_check rejects makes load_elf return
\* NULL before the sti: the entry point is then read through NULL, and
\* interrupts stay off.
MakeFromElf(p, elfOk) ==
  /\ At("load_elf", "get_next")
  /\ Build(p, IF elfOk THEN Entry(p) ELSE [Entry(p) EXCEPT !.owner = Garbage])
  /\ interrupts' = elfOk
  /\ rejected' = IF elfOk THEN rejected ELSE rejected \cup {p}

\* Mutant: the new process is linked to the head, dropping those made before.
SetNext_Head ==
  /\ At("set_next", "publish")
  /\ next' = [next EXCEPT ![new_proc] = proc_queue]
  /\ UNCHANGED <<proc_queue, pml4, pid_id, num_pids, new_proc, tmp_next, queued,
                 cur_proc, regs, interrupts, rejected>>

\* Mutant: the new process is made reachable before its next is stored.
SetNext_PublishFirst ==
  /\ At("set_next", "publish")
  /\ next' = [next EXCEPT ![proc_queue] = new_proc]
  /\ UNCHANGED <<proc_queue, pml4, pid_id, num_pids, new_proc, tmp_next, queued,
                 cur_proc, regs, interrupts, rejected>>

\* tmp_next = proc_queue->next; new_proc->next = tmp_next;
\* proc_queue->next = new_proc;
GetNext ==
  /\ At("get_next", "set_next")
  /\ tmp_next' = next[proc_queue]
  /\ UNCHANGED <<proc_queue, next, pml4, pid_id, num_pids, new_proc, queued,
                 cur_proc, regs, interrupts, rejected>>

SetNext ==
  /\ At("set_next", "publish")
  /\ next' = [next EXCEPT ![new_proc] = tmp_next]
  /\ UNCHANGED <<proc_queue, pml4, pid_id, num_pids, new_proc, tmp_next, queued,
                 cur_proc, regs, interrupts, rejected>>

Publish ==
  /\ At("publish", "made")
  /\ next' = [next EXCEPT ![proc_queue] = new_proc]
  /\ queued' = queued \cup {new_proc}
  /\ UNCHANGED <<proc_queue, pml4, pid_id, num_pids, new_proc, tmp_next,
                 cur_proc, regs, interrupts, rejected>>

\* _start goes on to the next program, or to its final while (1).
Made ==
  /\ At("made", IF Users \subseteq queued THEN "run" ELSE "load_elf")
  /\ UNCHANGED <<mainVars, cur_proc, regs, interrupts, rejected>>

Main ==
  \/ InitQueue \/ InitCur \/ InitPml4 \/ InitNext
  \/ MakeIdle
  \/ \E p \in Users \ queued, elfOk \in BOOLEAN : MakeFromElf(p, elfOk)
  \/ GetNext \/ SetNext \/ Publish \/ Made

\* Code that is not changing the process table: idle(), a user program, or the
\* final loop of _start.
Execute(p) ==
  /\ p = Kernel => pc = "run"
  /\ Advance(p)
  /\ UNCHANGED <<pc, mainVars, cur_proc, regs, cr3, interrupts, low_pml4, rejected>>

\* process_set_pml4_to_kernel.  With proc_queue NULL the guard of the code goes
\* on to read through it, and returns only if it finds 0 there.
KernelDir ==
  IF proc_queue # NULL THEN pml4[proc_queue]
  ELSE IF low_pml4 = NULL THEN cr3 ELSE low_pml4

\* Mutant: cur_proc is advanced before the registers are saved.
schedule_AdvanceFirst ==
  IF proc_queue = NULL \/ cur_proc = NULL
  THEN UNCHANGED <<regs, cur_proc, cpu>>
  ELSE IF next[cur_proc] \notin Procs
  THEN UNCHANGED <<regs, cur_proc, cpu>>
  ELSE /\ cur_proc' = next[cur_proc]
       /\ regs' = [regs EXCEPT ![next[cur_proc]] = cpu]
       /\ cpu' = [regs[next[cur_proc]] EXCEPT !.rsp = cpu.rsp]

\* schedule: the early returns, then save, advance, load.  The stub restores
\* every register from the frame but rsp: popaq skips its slot and iretq pops
\* the stack of the interrupted process.
schedule ==
  IF proc_queue = NULL \/ cur_proc = NULL
  THEN UNCHANGED <<regs, cur_proc, cpu>>
  ELSE IF next[cur_proc] = NULL
  THEN UNCHANGED <<regs, cur_proc, cpu>>
  ELSE /\ regs' = [regs EXCEPT ![cur_proc] = cpu]
       /\ cur_proc' = next[cur_proc]
       /\ cpu' = IF cur_proc' \in Procs
                 THEN [regs'[cur_proc'] EXCEPT !.rsp = cpu.rsp]
                 ELSE Junk

\* irq_stub timer_handler.  A page table that is not one stops the machine at
\* the first process_set_pml4_to_kernel.
timer_irq ==
  /\ Alive /\ interrupts
  /\ IF KernelDir \notin Procs
     THEN cr3' = Garbage /\ UNCHANGED <<regs, cur_proc, cpu>>
     ELSE /\ schedule
          /\ cr3' = IF cur_proc' = NULL THEN KernelDir
                    ELSE IF cur_proc' \in Procs THEN pml4[cur_proc']
                    ELSE Garbage
  /\ UNCHANGED <<pc, mainVars, interrupts, low_pml4, rejected, done>>

Next == Main \/ (\E p \in Procs : Execute(p)) \/ timer_irq

\* The HPET comparator is periodic, so a tick that can be taken is taken; a
\* time slice is long enough for the boot thread to execute something in it.
Fairness == WF_vars(timer_irq) /\ SF_vars(Main)

Spec == Init /\ [][Next]_vars
FairSpec == Spec /\ Fairness
-----------------------------------------------------------------------------
Contexts == [owner : Procs \cup {Garbage}, step : 0 .. (Steps - 1),
             rsp : Procs \cup {Garbage}]

TypeOK ==
  /\ pc \in Lines
  /\ proc_queue \in {NULL, Kernel}
  /\ cur_proc \in Procs \cup {NULL, Garbage}
  /\ next \in [Procs -> Procs \cup {NULL, Garbage}]
  /\ pml4 \in [Procs -> Procs \cup {Garbage}]
  /\ regs \in [Procs -> Contexts]
  /\ pid_id \in [Procs -> Nat]
  /\ num_pids \in Nat
  /\ new_proc \in Procs \cup {NULL}
  /\ tmp_next \in Procs \cup {NULL, Garbage}
  /\ cpu \in Contexts
  /\ cr3 \in Procs \cup {Garbage}
  /\ interrupts \in BOOLEAN
  /\ low_pml4 \in {NULL, Garbage}
  /\ queued \in SUBSET Procs
  /\ rejected \in SUBSET Users
  /\ done \in [Procs -> 0 .. (Steps - 1)]

Linking == pc \in {"get_next", "set_next", "publish"}
Pids == IF Linking THEN num_pids - 1 ELSE num_pids

\* The list that schedule walks is one ring through every linked process, also
\* while make_proc is inserting: the linked processes carry the pids 0 to
\* Pids - 1, each once, and each one's next has the pid before its own, the
\* boot thread's (pid 0) being the newest process.
RingInv ==
  pc \notin InitWindow =>
    /\ Kernel \in queued /\ pid_id[Kernel] = 0
    /\ \A p \in queued : pid_id[p] < Pids
    /\ \A p, q \in queued : pid_id[p] = pid_id[q] => p = q
    /\ \A p \in queued :
         /\ next[p] \in queued
         /\ pid_id[next[p]] = IF p = Kernel THEN Pids - 1 ELSE pid_id[p] - 1

\* What the boot thread has established at each of its lines, and what the
\* invariants above and below rely on: a process is filled in before it can be
\* reached, and the head of the ring does not change between GetNext and
\* Publish because only the boot thread inserts.
LinkInv ==
  /\ proc_queue = IF pc = "init_queue" THEN NULL ELSE Kernel
  /\ pc \in {"init_queue", "init_cur"} => cur_proc = NULL
  /\ pc \in {"init_pml4", "init_next"} /\ Alive => cur_proc = Kernel
  /\ pc \in InitWindow =>
       /\ Alive => cr3 = Kernel
       /\ queued = {} /\ rejected = {}
       /\ next[Kernel] \in {NULL, Garbage}
       /\ pc # "init_next" => pml4[Kernel] = Garbage
       /\ num_pids = IF pc = "init_next" THEN 1 ELSE 0
  /\ pc = "init_next" => pml4[Kernel] = Kernel /\ pid_id[Kernel] = 0
  /\ pc = "make_proc" => queued = {Kernel}
  /\ pc \notin InitWindow => cur_proc \in queued
  /\ \A p \in queued : pml4[p] = p
  /\ \A p \in Procs \ (queued \cup {Kernel}) : done[p] = 0
  /\ \A p \in rejected : regs[p].owner = Garbage
  /\ cur_proc \in rejected => ~Alive
  /\ rejected \subseteq queued \cup (IF Linking THEN {new_proc} ELSE {})
  /\ Linking =>
       /\ new_proc \in Procs \ queued
       /\ pml4[new_proc] = new_proc
       /\ pid_id[new_proc] = num_pids - 1
       /\ new_proc \notin rejected =>
            regs[new_proc].owner = new_proc /\ regs[new_proc].step = 0
  /\ pc \in {"set_next", "publish"} => tmp_next = next[Kernel]
  /\ pc = "publish" => next[new_proc] = tmp_next

\* A context switch loses nothing of a process but its stack pointer: the
\* running process has the registers it had made for itself when it last ran,
\* and every other linked process has them saved.  (A process made
\* from a rejected ELF file has no registers to preserve.)
ContextInv ==
  Alive =>
    /\ cpu.owner = IF cur_proc = NULL THEN Kernel ELSE cur_proc
    /\ cpu.step = done[cpu.owner]
    /\ \A p \in queued \ ({cur_proc} \cup rejected) :
         regs[p].owner = p /\ regs[p].step = done[p]

\* A process runs on its own page table.
OwnAddressSpace == Alive /\ pc \notin InitWindow => cr3 = cur_proc

\* A tick can only take the machine down while process_init is between its
\* first and its last store: afterwards no tick loads a page table, a process
\* or registers that are not there, however it falls between the stores of
\* make_proc and make_proc_from_elf.  Only the process of a rejected ELF file
\* can do that, once a later load_elf has turned interrupts on again.
LostOnlyInWindow == Alive \/ pc \in InitWindow \/ cur_proc \in rejected

\* "The stack": make_proc and make_proc_from_elf give each process a page to
\* be its stack and point its rsp there, so a process that runs is on its own
\* stack.
OwnStack == cur_proc \in Procs => cpu.rsp = cur_proc

\* A linked process is executed again and again, as long as load_elf has
\* accepted every file.
EveryProcessRuns ==
  \A p \in Procs : []<>(p \in queued /\ rejected = {} => cpu.owner = p)
=============================================================================
