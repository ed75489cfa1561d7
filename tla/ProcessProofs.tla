---------------------------- MODULE ProcessProofs ----------------------------
(***************************************************************************)
(* The processes, for any set of programs.  First the scheduler: the ring, *)
(* the saved contexts and the page tables.  Then the system calls: memory  *)
(* and descriptors, for every number of pages, file objects and slots.     *)
(***************************************************************************)
EXTENDS Scheduler, Syscall, WellFoundedInduction, TLAPS

\* Executing an instruction keeps a register file a register file.
LEMMA AdvanceType ==
  ASSUME TypeOK, NEW p \in Procs, Advance(p)
  PROVE  /\ cpu' \in Contexts /\ cpu'.owner = p /\ cpu'.rsp = cpu.rsp
         /\ cpu'.step = (cpu.step + 1) % Steps
         /\ done' \in [Procs -> 0 .. (Steps - 1)]
         /\ done'[p] = (done[p] + 1) % Steps
         /\ \A q \in Procs \ {p} : done'[q] = done[q]
<1>1. /\ cpu.step \in 0 .. (Steps - 1) /\ cpu.owner = p /\ p \in Procs
      /\ cpu.rsp \in Procs \cup {Garbage}
      /\ done[p] \in 0 .. (Steps - 1)
  BY Zenon DEF TypeOK, Contexts, Advance
<1>2. /\ (cpu.step + 1) % Steps \in 0 .. (Steps - 1)
      /\ (done[p] + 1) % Steps \in 0 .. (Steps - 1)
  BY <1>1, SchedulerAssumption
<1>3. cpu' = [owner |-> p, step |-> (cpu.step + 1) % Steps, rsp |-> cpu.rsp]
  BY <1>1, Zenon DEF Advance, TypeOK, Contexts
<1>4. done' = [done EXCEPT ![p] = (done[p] + 1) % Steps]
  BY Zenon DEF Advance
<1>. HIDE SchedulerAssumption
<1>5. cpu' \in Contexts
  BY <1>1, <1>2, <1>3, Zenon DEF Contexts
<1>6. done' \in [Procs -> 0 .. (Steps - 1)]
  BY <1>1, <1>2, <1>4, Zenon DEF TypeOK
<1>. QED
  BY <1>1, <1>2, <1>3, <1>4, <1>5, <1>6, Zenon DEF TypeOK

\* The processes, and the values that stand for no process, are distinct.
LEMMA ProcsFacts ==
  /\ Kernel \in Procs /\ Idle \in Procs /\ Users \subseteq Procs
  /\ NULL \notin Procs /\ Garbage \notin Procs /\ NULL # Garbage
  /\ Kernel # Idle /\ Kernel \notin Users
BY SchedulerAssumption, Zenon DEF Procs

\* The registers make_proc and make_proc_from_elf write are register files.
LEMMA EntryType ==
  ASSUME NEW p \in Procs
  PROVE  /\ Entry(p) \in Contexts /\ Junk \in Contexts
         /\ [Entry(p) EXCEPT !.owner = Garbage] \in Contexts
         /\ [Entry(p) EXCEPT !.owner = Garbage].owner = Garbage
         /\ Entry(p).owner = p /\ Entry(p).step = 0
BY SchedulerAssumption DEF Entry, Junk, Contexts

\* The inductive invariant.  LinkInv ties the ring and the contexts to the line
\* the boot thread is at: none of the others is inductive without it.
IInv ==
  /\ TypeOK /\ LinkInv /\ RingInv
  /\ ContextInv /\ OwnAddressSpace /\ LostOnlyInWindow

\* What every step of the boot thread does: it runs as the Kernel process, and
\* moves its own progress and nothing of the others.
LEMMA BootStep ==
  ASSUME IInv, NEW l \in Lines, NEW after \in Lines, At(l, after)
  PROVE  /\ pc = l /\ pc' = after /\ Alive /\ Alive' /\ cpu.owner = Kernel
         /\ cur_proc \in {NULL, Kernel}
         /\ cpu' \in Contexts /\ cpu'.owner = Kernel
         /\ cpu'.step = done'[Kernel]
         /\ done' \in [Procs -> 0 .. (Steps - 1)]
         /\ \A q \in Procs \ {Kernel} : done'[q] = done[q]
         /\ cr3' = cr3 /\ low_pml4' = low_pml4
<1>1. Advance(Kernel) /\ Alive /\ cpu.owner = Kernel
  BY Zenon DEF At, Advance
<1>2. /\ cpu' \in Contexts /\ cpu'.owner = Kernel
      /\ cpu'.step = (cpu.step + 1) % Steps
      /\ done' \in [Procs -> 0 .. (Steps - 1)]
      /\ done'[Kernel] = (done[Kernel] + 1) % Steps
      /\ \A q \in Procs \ {Kernel} : done'[q] = done[q]
  BY <1>1, AdvanceType, ProcsFacts, Zenon DEF IInv
<1>3. cpu.step = done[Kernel] /\ cur_proc \in {NULL, Kernel}
  BY <1>1, Zenon DEF IInv, ContextInv
<1>4. Alive'
  BY <1>1, <1>2, ProcsFacts, Zenon DEF Alive, At
<1>. QED
  BY <1>1, <1>2, <1>3, <1>4, Zenon DEF At

\* The four stores of process_init, before the ring exists.
LEMMA InitQueueStep == IInv /\ InitQueue => IInv'
<1>. SUFFICES ASSUME IInv, InitQueue PROVE IInv'
  BY Zenon
<1>. USE ProcsFacts DEF IInv
<1>1. At("init_queue", "init_cur") /\ "init_queue" \in Lines /\ "init_cur" \in Lines
  BY Zenon DEF InitQueue, Lines, InitWindow
<1>2. TypeOK'
  BY <1>1, BootStep DEF TypeOK, InitQueue
<1>3. LinkInv'
  BY <1>1, BootStep DEF LinkInv, InitQueue, InitWindow, Linking, TypeOK
<1>4. RingInv' /\ OwnAddressSpace' /\ LostOnlyInWindow' /\ ContextInv'
  BY <1>1, BootStep, Zenon DEF RingInv, OwnAddressSpace, LostOnlyInWindow, ContextInv,
     InitQueue, InitWindow, LinkInv
<1>. QED
  BY <1>2, <1>3, <1>4, Zenon

\* process_init stores cur_proc.
LEMMA InitCurStep == IInv /\ InitCur => IInv'
<1>. SUFFICES ASSUME IInv, InitCur PROVE IInv'
  BY Zenon
<1>. USE ProcsFacts DEF IInv
<1>1. At("init_cur", "init_pml4") /\ "init_cur" \in Lines /\ "init_pml4" \in Lines
  BY Zenon DEF InitCur, Lines, InitWindow
<1>2. TypeOK'
  BY <1>1, BootStep DEF TypeOK, InitCur, mainVars
<1>3. LinkInv'
  BY <1>1, BootStep DEF LinkInv, InitCur, mainVars, InitWindow, Linking, TypeOK
<1>4. RingInv' /\ OwnAddressSpace' /\ LostOnlyInWindow' /\ ContextInv'
  BY <1>1, BootStep, Zenon DEF RingInv, OwnAddressSpace, LostOnlyInWindow, ContextInv,
     InitCur, mainVars, InitWindow, LinkInv
<1>. QED
  BY <1>2, <1>3, <1>4, Zenon

\* process_init stores the pid and the page table.
LEMMA InitPml4Step == IInv /\ InitPml4 => IInv'
<1>. SUFFICES ASSUME IInv, InitPml4 PROVE IInv'
  BY Zenon
<1>. USE ProcsFacts DEF IInv
<1>1. At("init_pml4", "init_next") /\ "init_pml4" \in Lines /\ "init_next" \in Lines
  BY Zenon DEF InitPml4, Lines, InitWindow
<1>2. cur_proc = Kernel /\ cr3 = Kernel
  BY <1>1, BootStep, Zenon DEF LinkInv, InitWindow
<1>3. TypeOK'
  BY <1>1, <1>2, BootStep DEF TypeOK, InitPml4
<1>4. LinkInv'
  BY <1>1, <1>2, BootStep DEF LinkInv, InitPml4, InitWindow, Linking, TypeOK
<1>5. RingInv' /\ OwnAddressSpace' /\ LostOnlyInWindow' /\ ContextInv'
  BY <1>1, <1>2, BootStep, Zenon DEF RingInv, OwnAddressSpace, LostOnlyInWindow,
     ContextInv, InitPml4, InitWindow, LinkInv
<1>. QED
  BY <1>3, <1>4, <1>5, Zenon

\* The last store of process_init closes the ring of one process.
LEMMA InitNextStep == IInv /\ InitNext => IInv'
<1>. SUFFICES ASSUME IInv, InitNext PROVE IInv'
  BY Zenon
<1>. USE ProcsFacts DEF IInv
<1>1. At("init_next", "make_proc") /\ "init_next" \in Lines /\ "make_proc" \in Lines
  BY Zenon DEF InitNext, Lines, InitWindow
<1>2. cur_proc = Kernel /\ cr3 = Kernel
  BY <1>1, BootStep, Zenon DEF LinkInv, InitWindow
<1>3. TypeOK'
  BY <1>1, <1>2, BootStep, Zenon DEF TypeOK, InitNext
<1>4. LinkInv'
  BY <1>1, <1>2, BootStep DEF LinkInv, InitNext, InitWindow, Linking, TypeOK
<1>5. RingInv'
  BY <1>1, <1>2, BootStep DEF RingInv, InitNext, InitWindow, LinkInv, TypeOK,
     Pids, Linking
<1>6. OwnAddressSpace' /\ LostOnlyInWindow' /\ ContextInv'
  BY <1>1, <1>2, BootStep, Zenon DEF OwnAddressSpace, LostOnlyInWindow,
     ContextInv, InitNext, InitWindow, LinkInv
<1>. QED
  BY <1>3, <1>4, <1>5, <1>6, Zenon

\* Filling in a process that is not linked yet leaves the ring and the contexts
\* of the linked processes alone.
LEMMA BuildStep ==
  ASSUME IInv, NEW l \in Lines \ InitWindow, At(l, "get_next"), ~Linking,
         NEW p \in Procs \ (queued \cup {Kernel}), p \notin rejected,
         NEW ok \in BOOLEAN,
         Build(p, IF ok THEN Entry(p) ELSE [Entry(p) EXCEPT !.owner = Garbage]),
         interrupts' \in BOOLEAN, p \in Users \/ ok,
         rejected' = IF ok THEN rejected ELSE rejected \cup {p}
  PROVE  IInv'
<1>. USE ProcsFacts DEF IInv
<1>1. "get_next" \in Lines /\ "get_next" \notin InitWindow /\ l \in Lines
  BY Zenon DEF Lines, InitWindow
<1>2. cur_proc = Kernel
  BY <1>1, BootStep, Zenon DEF LinkInv, TypeOK
<1>. DEFINE context == IF ok THEN Entry(p) ELSE [Entry(p) EXCEPT !.owner = Garbage]
<1>3. /\ context \in Contexts
      /\ ok => context.owner = p /\ context.step = 0
      /\ ~ok => context.owner = Garbage
  BY EntryType, Zenon
<1>4. regs' = [regs EXCEPT ![p] = context]
  BY Zenon DEF Build
<1>. HIDE DEF context
<1>5. regs' \in [Procs -> Contexts] /\ regs'[p] = context
      /\ \A q \in Procs \ {p} : regs'[q] = regs[q]
  BY <1>3, <1>4, Zenon DEF TypeOK
<1>6. TypeOK'
  BY <1>1, <1>2, <1>5, BootStep DEF TypeOK, Build
<1>7. LinkInv'
  <2>1. pc = l /\ pc' = "get_next" /\ l \notin InitWindow
    BY <1>1, BootStep, Zenon
  <2>2. \A q \in queued' : pml4'[q] = q
    BY Zenon DEF LinkInv, Build, TypeOK
  <2>3. \A q \in Procs \ (queued' \cup {Kernel}) : done'[q] = 0
    BY <1>1, BootStep, Zenon DEF LinkInv, Build, TypeOK
  <2>4. \A q \in rejected' : regs'[q].owner = Garbage
    BY <1>3, <1>5, Zenon DEF LinkInv, TypeOK
  <2>5. /\ new_proc' = p /\ p \in Procs \ queued' /\ pml4'[p] = p
        /\ pid_id'[p] = num_pids' - 1
    BY DEF Build, TypeOK
  <2>6. p \notin rejected' => regs'[p].owner = p /\ regs'[p].step = 0
    BY <1>3, <1>5, Zenon
  <2>7. rejected' \subseteq queued' \cup {p}
    BY Zenon DEF LinkInv, Build
  <2>. QED
    BY <1>1, <1>2, <2>1, <2>2, <2>3, <2>4, <2>5, <2>6, <2>7
    DEF LinkInv, Build, Linking, InitWindow, TypeOK
<1>8. RingInv'
  BY <1>1, BootStep DEF RingInv, Build, TypeOK, Pids, Linking
<1>9. OwnAddressSpace' /\ LostOnlyInWindow'
  BY <1>1, BootStep, Zenon DEF OwnAddressSpace, LostOnlyInWindow, Build
<1>10. ContextInv'
  BY <1>1, <1>2, <1>5, BootStep DEF ContextInv, Build, TypeOK
<1>. QED
  BY <1>6, <1>7, <1>8, <1>9, <1>10, Zenon

\* make_proc fills in the idle process.
LEMMA MakeIdleStep == IInv /\ MakeIdle => IInv'
<1>. SUFFICES ASSUME IInv, MakeIdle PROVE IInv'
  BY Zenon
<1>1. At("make_proc", "get_next") /\ "make_proc" \in Lines \ InitWindow
  BY Zenon DEF MakeIdle, Lines, InitWindow
<1>2. pc = "make_proc" /\ ~Linking
  BY <1>1, Zenon DEF At, Linking
<1>3. Idle \in Procs \ (queued \cup {Kernel}) /\ Idle \notin rejected
  BY <1>2, ProcsFacts, SchedulerAssumption, Zenon DEF IInv, LinkInv, TypeOK
<1>4. /\ Build(Idle, IF TRUE THEN Entry(Idle)
                     ELSE [Entry(Idle) EXCEPT !.owner = Garbage])
      /\ rejected' = IF TRUE THEN rejected ELSE rejected \cup {Idle}
      /\ interrupts' \in BOOLEAN
  BY Zenon DEF MakeIdle, IInv, TypeOK
<1>. QED
  BY <1>1, <1>2, <1>3, <1>4, BuildStep, Zenon

\* make_proc_from_elf fills in a user process, whether load_elf accepts or not.
LEMMA MakeFromElfStep ==
  ASSUME IInv, NEW p \in Users \ queued, NEW elfOk \in BOOLEAN,
         MakeFromElf(p, elfOk)
  PROVE  IInv'
<1>1. At("load_elf", "get_next") /\ "load_elf" \in Lines \ InitWindow
  BY Zenon DEF MakeFromElf, Lines, InitWindow
<1>2. pc = "load_elf" /\ ~Linking
  BY <1>1, Zenon DEF At, Linking
<1>3. p \in Procs \ (queued \cup {Kernel}) /\ p \notin rejected
  BY <1>2, ProcsFacts, Zenon DEF IInv, LinkInv
<1>4. /\ Build(p, IF elfOk THEN Entry(p)
                  ELSE [Entry(p) EXCEPT !.owner = Garbage])
      /\ rejected' = IF elfOk THEN rejected ELSE rejected \cup {p}
      /\ interrupts' \in BOOLEAN
  BY Zenon DEF MakeFromElf
<1>. QED
  BY <1>1, <1>2, <1>3, <1>4, BuildStep, Zenon

\* Linking a process: the two loads and stores that leave the ring as it is,
\* and the store that extends it.
LEMMA GetNextStep == IInv /\ GetNext => IInv'
<1>. SUFFICES ASSUME IInv, GetNext PROVE IInv'
  BY Zenon
<1>. USE ProcsFacts DEF IInv
<1>1. /\ At("get_next", "set_next") /\ "get_next" \in Lines /\ "set_next" \in Lines
      /\ "get_next" \notin InitWindow /\ "set_next" \notin InitWindow
  BY Zenon DEF GetNext, Lines, InitWindow
<1>2. cur_proc = Kernel /\ proc_queue = Kernel
  BY <1>1, BootStep, Zenon DEF LinkInv, TypeOK
<1>3. TypeOK'
  BY <1>1, <1>2, BootStep, Zenon DEF TypeOK, GetNext
<1>4. LinkInv'
  BY <1>1, <1>2, BootStep DEF LinkInv, GetNext, InitWindow, Linking, TypeOK
<1>5. RingInv' /\ OwnAddressSpace' /\ LostOnlyInWindow' /\ ContextInv'
  BY <1>1, <1>2, BootStep DEF RingInv, OwnAddressSpace, LostOnlyInWindow, TypeOK,
     ContextInv, GetNext, Pids, Linking
<1>. QED
  BY <1>3, <1>4, <1>5, Zenon

\* Storing the new process's next leaves the ring as it is.
LEMMA SetNextStep == IInv /\ SetNext => IInv'
<1>. SUFFICES ASSUME IInv, SetNext PROVE IInv'
  BY Zenon
<1>. USE ProcsFacts DEF IInv
<1>1. /\ At("set_next", "publish") /\ "set_next" \in Lines /\ "publish" \in Lines
      /\ "publish" \notin InitWindow /\ "set_next" \notin InitWindow
  BY Zenon DEF SetNext, Lines, InitWindow
<1>2. /\ cur_proc = Kernel /\ proc_queue = Kernel /\ Kernel \in queued
      /\ new_proc \in Procs \ queued /\ Linking
  BY <1>1, BootStep DEF LinkInv, TypeOK, Linking
<1>3. TypeOK'
  BY <1>1, <1>2, BootStep, Zenon DEF TypeOK, SetNext
<1>4. LinkInv'
  BY <1>1, <1>2, BootStep DEF LinkInv, SetNext, InitWindow, Linking, TypeOK
<1>5. \A p \in queued : next'[p] = next[p]
  BY <1>2, Zenon DEF SetNext, TypeOK
<1>6. RingInv' /\ OwnAddressSpace' /\ LostOnlyInWindow' /\ ContextInv'
  BY <1>1, <1>2, <1>5, BootStep DEF RingInv, OwnAddressSpace, LostOnlyInWindow,
     TypeOK, ContextInv, SetNext, Pids, Linking
<1>. QED
  BY <1>3, <1>4, <1>6, Zenon

\* Storing it as the head's next extends the ring by one process.
LEMMA PublishStep == IInv /\ Publish => IInv'
<1>. SUFFICES ASSUME IInv, Publish PROVE IInv'
  BY Zenon
<1>. USE ProcsFacts DEF IInv
<1>1. /\ At("publish", "made") /\ "publish" \in Lines /\ "made" \in Lines
      /\ "publish" \notin InitWindow /\ "made" \notin InitWindow
  BY Zenon DEF Publish, Lines, InitWindow
<1>2. /\ cur_proc = Kernel /\ proc_queue = Kernel /\ Kernel \in queued
      /\ new_proc \in Procs \ queued /\ Linking /\ ~Linking'
      /\ next[new_proc] = next[Kernel] /\ next[Kernel] \in queued
  BY <1>1, BootStep DEF LinkInv, TypeOK, Linking, RingInv
<1>3. TypeOK'
  BY <1>1, <1>2, BootStep, Zenon DEF TypeOK, Publish
<1>4. LinkInv'
  BY <1>1, <1>2, BootStep DEF LinkInv, Publish, InitWindow, Linking, TypeOK
<1>5. /\ next'[Kernel] = new_proc
      /\ \A p \in Procs \ {Kernel} : next'[p] = next[p]
  BY <1>2, Zenon DEF Publish, TypeOK
<1>6. /\ Pids' = num_pids /\ Pids = num_pids - 1 /\ pid_id' = pid_id
      /\ pid_id[new_proc] = num_pids - 1 /\ num_pids \in Nat
      /\ \A p \in Procs : pid_id[p] \in Nat
      /\ queued' = queued \cup {new_proc}
  BY <1>2, Zenon DEF Pids, Publish, LinkInv, TypeOK
<1>7. RingInv'
  <2>1. \A p \in queued' : pid_id[p] < num_pids
    BY <1>1, <1>6, BootStep DEF RingInv, TypeOK
  <2>2. \A p, q \in queued' : pid_id[p] = pid_id[q] => p = q
    BY <1>1, <1>6, BootStep DEF RingInv, TypeOK
  <2>3. ASSUME NEW p \in queued'
        PROVE  /\ next'[p] \in queued'
               /\ pid_id[next'[p]] = IF p = Kernel THEN num_pids - 1
                                     ELSE pid_id[p] - 1
    <3>1. CASE p = Kernel
      BY <3>1, <1>5, <1>6, Zenon
    <3>2. CASE p = new_proc
      BY <3>2, <1>1, <1>2, <1>5, <1>6, BootStep DEF RingInv
    <3>3. CASE p \in queued \ {Kernel}
      BY <3>3, <1>1, <1>5, <1>6, BootStep, Zenon DEF RingInv, TypeOK
    <3>. QED
      BY <3>1, <3>2, <3>3, <1>6, Zenon
  <2>. QED
    BY <2>1, <2>2, <2>3, <1>1, <1>2, <1>6, BootStep, Zenon DEF RingInv
<1>8. OwnAddressSpace' /\ LostOnlyInWindow'
  BY <1>1, <1>2, BootStep, Zenon DEF OwnAddressSpace, LostOnlyInWindow, Publish
<1>9. ContextInv'
  <2>1. done'[new_proc] = 0
    BY <1>1, <1>2, BootStep, Zenon DEF LinkInv
  <2>2. new_proc \notin rejected =>
          regs[new_proc].owner = new_proc /\ regs[new_proc].step = 0
    BY <1>2, Zenon DEF LinkInv
  <2>. QED
    BY <1>1, <1>2, <1>6, <2>1, <2>2, BootStep DEF ContextInv, Publish, TypeOK
<1>. QED
  BY <1>3, <1>4, <1>7, <1>8, <1>9, Zenon

\* Returning from make_proc changes no shared state.
LEMMA MadeStep == IInv /\ Made => IInv'
<1>. SUFFICES ASSUME IInv, Made PROVE IInv'
  BY Zenon
<1>. USE ProcsFacts DEF IInv
<1>1. PICK after \in {"run", "load_elf"} : At("made", after)
  BY Zenon DEF Made
<1>2. /\ "made" \in Lines \ InitWindow /\ after \in Lines \ InitWindow
      /\ after \notin {"make_proc", "get_next", "set_next", "publish"}
  BY Zenon DEF Lines, InitWindow
<1>3. pc' = after /\ pc = "made" /\ cur_proc = Kernel /\ ~Linking /\ ~Linking'
  BY <1>1, <1>2, BootStep, Zenon DEF LinkInv, TypeOK, Linking
<1>4. TypeOK'
  BY <1>1, <1>2, <1>3, BootStep, Zenon DEF TypeOK, Made, mainVars
<1>5. LinkInv'
  BY <1>1, <1>2, <1>3, BootStep, Zenon
  DEF LinkInv, Made, mainVars, InitWindow, Linking, TypeOK
<1>6. RingInv' /\ OwnAddressSpace' /\ LostOnlyInWindow' /\ ContextInv'
  BY <1>1, <1>2, <1>3, BootStep DEF RingInv, OwnAddressSpace, LostOnlyInWindow,
     ContextInv, Made, mainVars, Pids, TypeOK
<1>. QED
  BY <1>4, <1>5, <1>6, Zenon

\* A process that executes is the current one and moves only its own progress.
LEMMA ExecuteStep ==
  ASSUME IInv, NEW p \in Procs, Execute(p)
  PROVE  IInv'
<1>. USE ProcsFacts DEF IInv
<1>1. Advance(p) /\ Alive /\ cpu.owner = p
  BY Zenon DEF Execute, Advance
<1>2. p = IF cur_proc = NULL THEN Kernel ELSE cur_proc
  BY <1>1, Zenon DEF ContextInv
<1>3. /\ cpu' \in Contexts /\ cpu'.owner = p /\ cpu'.step = done'[p]
      /\ done' \in [Procs -> 0 .. (Steps - 1)]
      /\ \A q \in Procs \ {p} : done'[q] = done[q]
  BY <1>1, AdvanceType, SMTT(60) DEF ContextInv
<1>4. Alive'
  BY <1>1, <1>3, Zenon DEF Alive, Execute
<1>5. p \in queued \cup {Kernel}
  BY <1>1, <1>2, Zenon DEF LinkInv, TypeOK, InitWindow, Lines
<1>6. TypeOK'
  BY <1>3, Zenon DEF TypeOK, Execute, mainVars
<1>7. LinkInv'
  BY <1>1, <1>3, <1>4, <1>5, Zenon DEF LinkInv, Execute, mainVars, Linking
<1>8. RingInv' /\ OwnAddressSpace' /\ LostOnlyInWindow'
  BY <1>1, <1>4, Zenon DEF RingInv, OwnAddressSpace, LostOnlyInWindow, Execute, mainVars,
     Pids, Linking
<1>9. ContextInv'
  BY <1>1, <1>2, <1>3, <1>4 DEF ContextInv, Execute, mainVars, TypeOK, LinkInv
<1>. QED
  BY <1>6, <1>7, <1>8, <1>9, Zenon

\* A tick while process_init has not closed the ring may stop the machine; if it
\* does not, nothing has changed.
LEMMA TimerInWindow ==
  ASSUME IInv, timer_irq, pc \in InitWindow
  PROVE  IInv'
<1>. USE ProcsFacts DEF IInv
<1>1. /\ proc_queue \in {NULL, Kernel} /\ cur_proc \in {NULL, Kernel} /\ queued = {}
      /\ Alive /\ cr3 = Kernel /\ rejected = {}
  BY Zenon DEF LinkInv, TypeOK, InitWindow, timer_irq
<1>2. UNCHANGED <<pc, mainVars, interrupts, low_pml4, rejected, done>>
  BY Zenon DEF timer_irq
<1>3. CASE cr3' = Garbage /\ UNCHANGED <<regs, cur_proc, cpu>>
  <2>1. ~Alive'
    BY <1>3, Zenon DEF Alive
  <2>. QED
    BY <1>1, <1>2, <1>3, <2>1 DEF TypeOK, LinkInv, RingInv, ContextInv,
       OwnAddressSpace, LostOnlyInWindow, mainVars, Linking, InitWindow
<1>4. CASE KernelDir \in Procs /\ cur_proc = NULL
  <2>1. UNCHANGED <<regs, cur_proc, cpu>> /\ cr3' = KernelDir
    BY <1>4, Zenon DEF timer_irq, schedule
  <2>2. cr3' = Kernel
    BY <2>1, <1>1, <1>4, Zenon DEF KernelDir, TypeOK, LinkInv
  <2>. QED
    BY <1>1, <1>2, <2>1, <2>2, SMTT(60) DEF TypeOK, LinkInv, RingInv, ContextInv, Alive,
       OwnAddressSpace, LostOnlyInWindow, mainVars, Linking, InitWindow
<1>5. CASE KernelDir \in Procs /\ cur_proc = Kernel
  <2>1. /\ pc = "init_next" /\ pml4[Kernel] = Kernel /\ proc_queue = Kernel
        /\ next[Kernel] \in {NULL, Garbage}
    BY <1>1, <1>5, Zenon DEF KernelDir, LinkInv
  <2>2. CASE next[Kernel] = NULL
    <3>1. UNCHANGED <<regs, cur_proc, cpu>> /\ cr3' = Kernel
      BY <1>5, <2>1, <2>2, Zenon DEF timer_irq, schedule
    <3>. QED
      BY <1>1, <1>2, <3>1, SMTT(60) DEF TypeOK, LinkInv, RingInv, ContextInv, Alive,
         OwnAddressSpace, LostOnlyInWindow, mainVars, Linking, InitWindow
  <2>3. CASE next[Kernel] = Garbage
    <3>1. /\ regs' = [regs EXCEPT ![Kernel] = cpu] /\ cur_proc' = Garbage
          /\ cpu' = Junk /\ cr3' = Garbage /\ ~Alive'
      BY <1>5, <2>1, <2>3, Zenon DEF timer_irq, schedule, Alive
    <3>2. TypeOK'
      BY <1>1, <1>2, <3>1, EntryType, Zenon DEF TypeOK, mainVars
    <3>3. LinkInv'
      BY <1>1, <1>2, <2>1, <3>1, Zenon DEF LinkInv, mainVars, Linking, InitWindow
    <3>4. RingInv' /\ ContextInv' /\ OwnAddressSpace' /\ LostOnlyInWindow'
      BY <1>2, <2>1, <3>1, Zenon DEF RingInv, ContextInv, OwnAddressSpace,
         LostOnlyInWindow, InitWindow
    <3>. QED
      BY <3>2, <3>3, <3>4, Zenon
  <2>. QED
    BY <2>1, <2>2, <2>3, Zenon
<1>. QED
  BY <1>1, <1>3, <1>4, <1>5, Zenon DEF timer_irq

\* A tick afterwards switches to the next process of the ring.
LEMMA TimerInRing ==
  ASSUME IInv, timer_irq, pc \notin InitWindow
  PROVE  IInv'
<1>. USE ProcsFacts DEF IInv
<1>1. /\ proc_queue = Kernel /\ Kernel \in queued /\ cur_proc \in queued
      /\ queued \subseteq Procs /\ next[cur_proc] \in queued /\ Alive
      /\ \A p \in queued : pml4[p] = p
  BY Zenon DEF LinkInv, RingInv, TypeOK, InitWindow, timer_irq
<1>2. KernelDir = Kernel
  BY <1>1, Zenon DEF KernelDir
<1>3. /\ regs' = [regs EXCEPT ![cur_proc] = cpu]
      /\ cur_proc' = next[cur_proc]
      /\ cpu' = [regs'[cur_proc'] EXCEPT !.rsp = cpu.rsp]
      /\ cr3' = cur_proc'
  BY <1>1, <1>2, Zenon DEF timer_irq, schedule
<1>4. /\ regs' \in [Procs -> Contexts] /\ regs'[cur_proc] = cpu
      /\ \A p \in Procs \ {cur_proc} : regs'[p] = regs[p]
  BY <1>1, <1>3, Zenon DEF TypeOK
<1>5. /\ cpu' \in Contexts /\ cpu'.owner = regs'[cur_proc'].owner
      /\ cpu'.step = regs'[cur_proc'].step
  <2>1. regs'[cur_proc'] \in Contexts /\ cpu \in Contexts
    BY <1>1, <1>3, <1>4, Zenon DEF TypeOK
  <2>. QED
    BY <2>1, <1>3, Zenon DEF Contexts
<1>6. TypeOK'
  BY <1>1, <1>3, <1>4, <1>5, Zenon DEF TypeOK, timer_irq, mainVars
<1>7. cpu.owner = cur_proc /\ cpu.step = done[cur_proc] /\ cur_proc \notin rejected
  BY <1>1, Zenon DEF ContextInv, LinkInv
<1>8. LinkInv'
  <2>1. \A p \in rejected' : regs'[p].owner = Garbage
    BY <1>4, <1>7 DEF LinkInv, timer_irq, TypeOK
  <2>2. cur_proc' \in rejected' => ~Alive'
    BY <1>5, <2>1, Zenon DEF Alive
  <2>3. Linking => /\ regs'[new_proc] = regs[new_proc] /\ new_proc \in Procs \ queued
    BY <1>1, <1>4, Zenon DEF LinkInv
  <2>. QED
    BY <1>1, <1>3, <2>1, <2>2, <2>3, Zenon DEF LinkInv, timer_irq, mainVars, Linking, InitWindow
<1>9. RingInv'
  BY Zenon DEF RingInv, timer_irq, mainVars, Pids, Linking
<1>10. OwnAddressSpace' /\ LostOnlyInWindow'
  <2>1. cur_proc' \notin rejected => cpu'.owner \in Procs
    BY <1>1, <1>3, <1>4, <1>5, <1>7, Zenon DEF ContextInv
  <2>. QED
    BY <2>1, <1>1, <1>3, Zenon DEF OwnAddressSpace, LostOnlyInWindow, Alive, timer_irq, mainVars
<1>11. ContextInv'
  <2>. SUFFICES ASSUME Alive' PROVE ContextInv!2'
    BY Zenon DEF ContextInv
  <2>1. cur_proc' \notin rejected
    BY <1>8, Zenon DEF LinkInv, timer_irq
  <2>2. \A p \in queued \ rejected : regs'[p].owner = p /\ regs'[p].step = done[p]
    BY <1>1, <1>4, <1>7, Zenon DEF ContextInv
  <2>. QED
    BY <2>1, <2>2, <1>1, <1>3, <1>5 DEF ContextInv, timer_irq, mainVars
<1>. QED
  BY <1>6, <1>8, <1>9, <1>10, <1>11, Zenon

\* Before process_init nothing is linked and nothing has run.
LEMMA InitIInv == Init => IInv
<1>. SUFFICES ASSUME Init PROVE IInv
  BY Zenon
<1>. USE ProcsFacts
<1>1. TypeOK
  <2>1. Junk \in Contexts /\ Entry(Kernel) \in Contexts
    BY EntryType, Zenon
  <2>3. 0 \in 0 .. (Steps - 1)
    BY SchedulerAssumption
  <2>2. /\ regs \in [Procs -> Contexts] /\ cpu \in Contexts
        /\ done \in [Procs -> 0 .. (Steps - 1)]
    BY <2>3, <2>1, Zenon DEF Init
  <2>. QED
    BY <2>2, Zenon DEF Init, TypeOK, Lines, InitWindow
<1>2. LinkInv
  BY Zenon DEF Init, LinkInv, InitWindow, Linking
<1>3. RingInv /\ OwnAddressSpace /\ LostOnlyInWindow
  BY Zenon DEF Init, RingInv, OwnAddressSpace, LostOnlyInWindow, InitWindow
<1>4. ContextInv
  BY EntryType, Zenon DEF Init, ContextInv
<1>. QED
  BY <1>1, <1>2, <1>3, <1>4, Zenon DEF IInv

\* Every step of the boot thread, of a running process and of the timer keeps
\* the inductive invariant.
LEMMA NextIInv == IInv /\ [Next]_vars => IInv'
<1>. SUFFICES ASSUME IInv, [Next]_vars PROVE IInv'
  BY Zenon
<1>1. CASE Main
  BY <1>1, InitQueueStep, InitCurStep, InitPml4Step, InitNextStep, MakeIdleStep,
     MakeFromElfStep, GetNextStep, SetNextStep, PublishStep, MadeStep, Zenon DEF Main
<1>2. ASSUME NEW p \in Procs, Execute(p) PROVE IInv'
  BY <1>2, ExecuteStep, Zenon
<1>3. CASE timer_irq
  BY <1>3, TimerInWindow, TimerInRing, Zenon
<1>4. CASE UNCHANGED vars
  BY <1>4, SMTT(60) DEF vars, mainVars, IInv, TypeOK, LinkInv, RingInv, ContextInv,
     OwnAddressSpace, LostOnlyInWindow, Alive, Linking, Pids
<1>. QED
  BY <1>1, <1>2, <1>3, <1>4, Zenon DEF Next

\* The inductive invariant holds of every behaviour of the scheduler.
THEOREM SchedulerIInv == Spec => []IInv
<1>. QED
  BY InitIInv, NextIInv, PTL DEF Spec

\* The process table, the registers and the boot thread's locals stay in their
\* types, whatever the interleaving of process.c with the timer.
THEOREM SchedulerType == Spec => []TypeOK
<1>1. IInv => TypeOK
  BY Zenon DEF IInv
<1>. QED
  BY <1>1, SchedulerIInv, PTL

\* The list schedule walks is one ring through every linked process at every
\* store of make_proc and make_proc_from_elf.
THEOREM SchedulerRing == Spec => []RingInv
<1>1. IInv => RingInv
  BY Zenon DEF IInv
<1>. QED
  BY <1>1, SchedulerIInv, PTL

\* schedule and the stub lose no register of any process but rsp.
THEOREM SchedulerContext == Spec => []ContextInv
<1>1. IInv => ContextInv
  BY Zenon DEF IInv
<1>. QED
  BY <1>1, SchedulerIInv, PTL

\* Whoever runs after a tick runs on its own page table, and no tick after
\* process_init loads a page table or registers that are not there.
THEOREM SchedulerAddressSpace == Spec => [](OwnAddressSpace /\ LostOnlyInWindow)
<1>1. IInv => OwnAddressSpace /\ LostOnlyInWindow
  BY Zenon DEF IInv
<1>. QED
  BY <1>1, SchedulerIInv, PTL

-----------------------------------------------------------------------------
\* System calls.

\* The state of mmap and munmap.  The bitmap at address 0 is the one of a
\* process that exists, a process that does not exist maps nothing, and while
\* there is one program, and munmap has cleared no bit of a page it did not unmap,
\* every page the program has mapped has its bit set.
MemoryInv ==
  /\ made \in SUBSET MadeProcs /\ (made # {} => Idle \in made)
  /\ bits \in [MadeProcs -> SUBSET Region]
  /\ mapped \in [MadeProcs -> SUBSET Region]
  /\ stray \in BOOLEAN /\ past \in BOOLEAN
  /\ bitmap \in made \cup {NULL} /\ (made # {} => bitmap # NULL)
  /\ \A p \in MadeProcs \ made : mapped[p] = {}
  /\ \A p \in Users : made = {Idle, p} /\ ~stray => mapped[p] \subseteq bits[bitmap]
  /\ NoPageLost

\* The state of open and close.  A slot, once filled, keeps an object that
\* kmalloc does not return again; the slots of one object are one slot; what is
\* held is open, and what is open is held.
FilesInv ==
  /\ files \in [Users -> [Fds -> FILs \cup {NULL}]]
  /\ fil \in [FILs -> {"free", "open", "invalid"}]
  /\ held \in [Users -> SUBSET Fds]
  /\ \A p \in Users, c \in Fds : files[p][c] # NULL => fil[files[p][c]] # "free"
  /\ \A p \in Users : \A c \in held[p] :
       files[p][c] # NULL /\ fil[files[p][c]] = "open"
  /\ \A f \in FILs : fil[f] = "open" =>
       \E p \in Users : \E c \in held[p] : files[p][c] = f
  /\ \A p, q \in Users, c, d \in Fds :
       files[p][c] = files[q][d] /\ files[p][c] # NULL => p = q /\ c = d

-----------------------------------------------------------------------------
\* Every nonempty set of natural numbers has a least member.
LEMMA LeastNatural ==
  ASSUME NEW T \in SUBSET Nat, T # {}
  PROVE  \E x \in T : \A y \in T : x <= y
<1>. DEFINE R == OpToRel(<, Nat)
<1>1. IsWellFoundedOn(R, Nat)
  BY NatLessThanWellFounded, Zenon
<1>2. \A x, y \in Nat : y < x => <<y, x>> \in R
  BY Zenon DEF OpToRel
<1>. HIDE DEF R
<1>3. PICK x \in T : \A y \in T : ~ (<<y, x>> \in R)
  BY <1>1, WFMin, Zenon
<1>4. ASSUME NEW y \in T
      PROVE  x <= y
  <2>1. x \in Nat /\ y \in Nat
    BY Zenon
  <2>2. ~ (y < x)
    BY <1>2, <1>3, <2>1, Zenon
  <2>. QED
    BY <2>1, <2>2
<1>. QED
  BY <1>4, Zenon

\* The maximum of a nonempty finite range's subset is one of its members: the
\* slot the loop of open_syscall ends with is a free one.
LEMMA LastFreeSlot ==
  ASSUME NEW p \in Users, FreeSlots(p) # {}
  PROVE  /\ Max(FreeSlots(p)) \in FreeSlots(p)
         /\ Max(FreeSlots(p)) \in Fds
<1>. DEFINE S == FreeSlots(p)
            Above == {i \in Nat : \A y \in S : i >= y}
<1>1. S \in SUBSET (2 .. (MAX_FILES_OPENABLE - 1))
  BY Zenon DEF FreeSlots
<1>2. \E x \in S : \A y \in S : x >= y
  <2>1. MAX_FILES_OPENABLE \in Above
    BY <1>1, SyscallAssumption
  <2>2. PICK x \in Above : \A i \in Above : x <= i
    BY <2>1, LeastNatural, Zenon
  <2>3. x - 1 \notin Above
    BY <2>2
  <2>4. x > 0
    BY <1>1
  <2>5. x \in S
    BY <1>1, <2>3, <2>4
  <2>. QED
    BY <2>5, Zenon
<1>3. Max(S) \in S
  BY <1>2, Zenon DEF Max
<1>. QED
  BY <1>1, <1>3, SyscallAssumption DEF Fds

\* A multiple of n that is less than n away from 0 is 0.
LEMMA SmallMultiple ==
  ASSUME NEW n \in Nat \ {0}, NEW j \in Int, NEW x \in Int, n * j = x, x < n, -n < x
  PROVE  j = 0
<1>1. j >= 1 => n * j >= n
  OBVIOUS
<1>2. j <= -1 => n * j <= -n
  OBVIOUS
<1>. QED
  BY <1>1, <1>2

LEMMA SameRemainder ==
  ASSUME NEW n \in Nat \ {0}, NEW m \in Int, NEW x \in 0 .. (n - 1),
         NEW a \in Nat, a = n * m + x
  PROVE  a % n = x
<1>. DEFINE d == a \div n
            r == a % n
<1>1. d \in Int /\ r \in 0 .. (n - 1) /\ a = n * d + r
  OBVIOUS
<1>2. n * (m - d) = r - x
  BY <1>1
<1>. HIDE DEF d, r
<1>3. m - d = 0
  BY <1>1, <1>2, SmallMultiple
<1>4. r = x
  BY <1>1, <1>2, <1>3
<1>. QED
  BY <1>4 DEF r

\* A number whose remainder by a multiple of n is below n has that remainder by n.
LEMMA RemainderByPart ==
  ASSUME NEW n \in Nat \ {0}, NEW v \in Nat \ {0}, NEW k \in Nat, v = k * n,
         NEW a \in Nat, a % v \in 0 .. (n - 1)
  PROVE  a % n = a % v
<1>. DEFINE d == a \div v
            x == a % v
<1>1. ASSUME NEW w \in Nat \ {0}
      PROVE  a \div w \in Int /\ a = w * (a \div w) + (a % w)
  OBVIOUS
<1>2. d \in Int /\ a = v * d + x /\ x \in 0 .. (n - 1)
  BY <1>1, Zenon
<1>. HIDE DEF d, x
<1>3. k * d \in Int
  BY <1>2
<1>4. a = n * (k * d) + x
  BY <1>2
<1>5. PICK m \in Int : a = n * m + x
  BY <1>3, <1>4, Zenon
<1>6. a % n = x
  BY <1>2, <1>5, SameRemainder
<1>. QED
  BY <1>6, Zenon DEF x

\* The 32 bits that an int keeps of a page number are enough for the pages of the
\* region: a page of the region that munmap unmaps is one whose bit it clears.
LEMMA UnmapsItsBits ==
  ASSUME NEW v \in Nat, NEW pages \in Int
  PROVE  Unmapped(v, pages) \cap Region \subseteq Indices(v, pages)
<1>1. SUFFICES ASSUME NEW a \in v .. (v + pages - 1), a % VirtPages \in Region
               PROVE  a % VirtPages \in Indices(v, pages)
  BY Zenon DEF Unmapped
<1>2. PICK k \in 1 .. VirtPages : VirtPages = k * IntPages
  BY VmmAssumption, Zenon
<1>3. /\ IntPages \in Nat \ {0} /\ VirtPages \in Nat \ {0} /\ k \in Nat /\ a \in Nat
      /\ a % VirtPages \in 0 .. (IntPages - 1)
  BY <1>1, VmmAssumption DEF Region
<1>4. a % IntPages = a % VirtPages
  BY <1>2, <1>3, RemainderByPart, Zenon
<1>. QED
  BY <1>4, Zenon DEF Indices

LEMMA MemoryInit == InitSyscall => MemoryInv
BY Zenon DEF InitSyscall, InitVmm, MemoryInv, NoPageLost, MadeProcs, Region

\* A new process brings an empty bitmap, which replaces the one in use.
LEMMA MakeKeepsMemory ==
  ASSUME MemoryInv, NEW p \in MadeProcs, make_proc(p)
  PROVE  MemoryInv'
<1>. USE VmmAssumption, ProcessesAssumption DEF make_proc, MadeProcs
<1>1. /\ made' \in SUBSET MadeProcs /\ Idle \in made'
      /\ bits' \in [MadeProcs -> SUBSET Region] /\ mapped' \in [MadeProcs -> SUBSET Region]
      /\ stray' \in BOOLEAN /\ past' \in BOOLEAN /\ bitmap' \in made' /\ bitmap' # NULL
  BY Zenon DEF MemoryInv
<1>2. \A q \in MadeProcs \ made' : mapped'[q] = {}
  BY Zenon DEF MemoryInv
<1>3. ASSUME NEW q \in Users, made' = {Idle, q}
      PROVE  mapped'[q] \subseteq bits'[bitmap']
  <2>1. q \notin made
    BY <1>3, Zenon DEF MemoryInv
  <2>. QED
    BY <2>1, Zenon DEF MemoryInv
<1>4. NoPageLost'
  BY Zenon DEF NoPageLost, MemoryInv
<1>. QED
  BY <1>1, <1>2, <1>3, <1>4, Zenon DEF MemoryInv

\* mmap changes the bits and the mapping alike; munmap does so unless it strays.
LEMMA CallKeepsMemory ==
  ASSUME MemoryInv, NEW p \in made \ {Idle}, memory_syscall(p)
  PROVE  MemoryInv'
<1>. USE VmmAssumption, ProcessesAssumption
<1>1. /\ p \in Users /\ p \in MadeProcs /\ bitmap \in MadeProcs /\ bitmap # NULL
      /\ made' = made /\ bitmap' = bitmap
  BY Zenon DEF MemoryInv, MadeProcs, memory_syscall, mmap, munmap
<1>2. PICK pages \in -1 .. MaxRequest :
        mmap(p, pages) \/ \E v \in 0 .. (AddrPages - 1) : munmap(p, v, pages)
  BY Zenon DEF memory_syscall
<1>3. ASSUME NEW run \in SUBSET Region,
             bits' = [bits EXCEPT ![bitmap] = @ \cup run],
             mapped' = [mapped EXCEPT ![p] = @ \cup run],
             stray' = stray, past' = past
      PROVE  MemoryInv'
  BY <1>1, <1>3 DEF MemoryInv, NoPageLost
<1>4. ASSUME NEW clear, NEW gone, gone \cap Region \subseteq clear,
             bits' = [bits EXCEPT ![bitmap] = @ \ clear],
             mapped' = [mapped EXCEPT ![p] = @ \ gone],
             stray' \in BOOLEAN, ~stray' => ~stray /\ clear \cap Region \subseteq gone,
             past' \in BOOLEAN, ~past
      PROVE  MemoryInv'
  <2>1. /\ bits' \in [MadeProcs -> SUBSET Region] /\ mapped' \in [MadeProcs -> SUBSET Region]
        /\ bits'[bitmap] = bits[bitmap] \ clear /\ mapped'[p] = mapped[p] \ gone
        /\ \A q \in MadeProcs : q # p => mapped'[q] = mapped[q]
        /\ bits[bitmap] \subseteq Region /\ mapped[p] \subseteq Region
    BY <1>1, <1>4 DEF MemoryInv
  <2>2. ASSUME NEW q \in Users, made' = {Idle, q}, ~stray'
        PROVE  mapped'[q] \subseteq bits'[bitmap']
    <3>1. q = p
      BY <1>1, <2>2, Zenon
    <3>. QED
      BY <1>1, <1>4, <2>1, <2>2, <3>1, Zenon DEF MemoryInv
  <2>3. NoPageLost'
    BY <1>1, <1>4, <2>1 DEF MemoryInv, NoPageLost
  <2>. QED
    BY <1>1, <1>4, <2>1, <2>2, <2>3 DEF MemoryInv
<1>5. CASE mmap(p, pages)
  <2>1. CASE UNCHANGED <<bits, mapped>> /\ (past' = TRUE \/ past' = past)
    BY <1>1, <1>5, <2>1, Zenon DEF MemoryInv, NoPageLost, mmap
  <2>2. CASE /\ pages > 0
             /\ \E idx \in 0 .. (PageBits - pages) :
                  /\ bits' = [bits EXCEPT ![bitmap] = @ \cup (idx .. (idx + pages - 1))]
                  /\ mapped' = [mapped EXCEPT ![p] = @ \cup (idx .. (idx + pages - 1))]
             /\ UNCHANGED past
    <3>1. PICK idx \in 0 .. (PageBits - pages) :
               /\ bits' = [bits EXCEPT ![bitmap] = @ \cup (idx .. (idx + pages - 1))]
               /\ mapped' = [mapped EXCEPT ![p] = @ \cup (idx .. (idx + pages - 1))]
      BY <2>2, Zenon
    <3>2. idx .. (idx + pages - 1) \in SUBSET Region
      BY <2>2 DEF Region
    <3>3. UNCHANGED <<stray, past>>
      BY <1>5, <2>2, Zenon DEF mmap
    <3>. QED
      BY <1>3, <3>1, <3>2, <3>3, Zenon
  <2>. QED
    BY <1>5, <2>1, <2>2, Zenon DEF mmap
<1>6. ASSUME NEW v \in 0 .. (AddrPages - 1), munmap(p, v, pages)
      PROVE  MemoryInv'
  <2>. DEFINE clear == Indices(v, pages)
              gone == Unmapped(v, pages)
  <2>1. gone \cap Region \subseteq clear
    BY UnmapsItsBits
  <2>2. /\ bits' = [bits EXCEPT ![bitmap] = @ \ clear]
        /\ mapped' = [mapped EXCEPT ![p] = @ \ gone]
        /\ ~past
    BY <1>6, Zenon DEF munmap
  <2>3. /\ stray' \in BOOLEAN /\ past' \in BOOLEAN
        /\ ~stray' => ~stray /\ clear \cap Region \subseteq gone
    BY <1>6, Zenon DEF munmap
  <2>. HIDE DEF clear, gone
  <2>. QED
    BY <1>4, <2>1, <2>2, <2>3, Zenon
<1>. QED
  BY <1>2, <1>5, <1>6, Zenon

-----------------------------------------------------------------------------
LEMMA FilesInit == InitSyscall => FilesInv
BY SyscallAssumption DEF InitSyscall, FilesInv

\* A free object goes into a free slot, as an open file that is held or as the
\* object of a failed f_open.
LEMMA OpenKeepsFiles ==
  ASSUME FilesInv, NEW p \in Users, NEW f \in FILs, NEW x \in Fds,
         files[p][x] = NULL, fil[f] = "free",
         files' = [files EXCEPT ![p] = [@ EXCEPT ![x] = f]],
         \/ fil' = [fil EXCEPT ![f] = "open"] /\ held' = [held EXCEPT ![p] = @ \cup {x}]
         \/ fil' = [fil EXCEPT ![f] = "invalid"] /\ held' = held
  PROVE  FilesInv'
<1>1. /\ files' \in [Users -> [Fds -> FILs \cup {NULL}]]
      /\ fil' \in [FILs -> {"free", "open", "invalid"}]
      /\ held' \in [Users -> SUBSET Fds]
  <2>1. [files[p] EXCEPT ![x] = f] \in [Fds -> FILs \cup {NULL}]
    BY Zenon DEF FilesInv
  <2>2. files' \in [Users -> [Fds -> FILs \cup {NULL}]]
    BY <2>1, Zenon DEF FilesInv
  <2>3. fil' \in [FILs -> {"free", "open", "invalid"}]
    BY Zenon DEF FilesInv
  <2>4. held[p] \cup {x} \in SUBSET Fds
    BY Zenon DEF FilesInv
  <2>5. held' \in [Users -> SUBSET Fds]
    BY <2>4 DEF FilesInv
  <2>. QED
    BY <2>2, <2>3, <2>5, Zenon
<1>2. \A q \in Users, c \in Fds :
        files'[q][c] = IF q = p /\ c = x THEN f ELSE files[q][c]
  BY Zenon DEF FilesInv
<1>3. \A g \in FILs : g # f => fil'[g] = fil[g]
  BY Zenon DEF FilesInv
<1>4. \A q \in Users, c \in Fds : files[q][c] # f
  BY SyscallAssumption DEF FilesInv
<1>5. \A q \in Users : held[q] \in SUBSET Fds /\ held'[q] \in SUBSET Fds
  BY <1>1, Zenon DEF FilesInv
<1>6. x \notin held[p]
  BY Zenon DEF FilesInv
<1>7. \A q \in Users, c \in Fds : files'[q][c] # NULL => fil'[files'[q][c]] # "free"
  BY <1>2, <1>3, <1>4 DEF FilesInv
<1>8. ASSUME NEW q \in Users, NEW c \in held'[q]
      PROVE  files'[q][c] # NULL /\ fil'[files'[q][c]] = "open"
  <2>1. CASE q = p /\ c = x
    BY <1>2, <1>5, <1>6, <2>1, SyscallAssumption DEF FilesInv
  <2>2. CASE ~(q = p /\ c = x)
    <3>1. c \in held[q] /\ c \in Fds
      BY <1>5, <2>2 DEF FilesInv
    <3>. QED
      BY <1>2, <1>3, <1>4, <2>2, <3>1 DEF FilesInv
  <2>. QED
    BY <2>1, <2>2, Zenon
<1>9. ASSUME NEW g \in FILs, fil'[g] = "open"
      PROVE  \E q \in Users : \E c \in held'[q] : files'[q][c] = g
  <2>1. CASE g = f
    BY <1>2, <1>9, <2>1 DEF FilesInv
  <2>2. CASE g # f
    <3>1. PICK q \in Users : \E c \in held[q] : files[q][c] = g
      BY <1>3, <1>9, <2>2, Zenon DEF FilesInv
    <3>2. PICK c \in held[q] : files[q][c] = g
      BY <3>1, Zenon
    <3>3. c \in held'[q] /\ c \in Fds
      BY <1>5 DEF FilesInv
    <3>4. files'[q][c] = g
      BY <1>2, <1>6, <3>2, <3>3
    <3>. QED
      BY <3>3, <3>4, Zenon
  <2>. QED
    BY <2>1, <2>2, Zenon
<1>10. \A q, r \in Users, c, d \in Fds :
         files'[q][c] = files'[r][d] /\ files'[q][c] # NULL => q = r /\ c = d
  BY <1>2, <1>4 DEF FilesInv
<1>. QED
  BY <1>1, <1>7, <1>8, <1>9, <1>10, Zenon DEF FilesInv

\* A closed object stays in its slot, and its descriptor is no longer held.
LEMMA CloseKeepsFiles ==
  ASSUME FilesInv, NEW p \in Users, NEW x \in Fds,
         files[p][x] # NULL, fil[files[p][x]] = "open",
         fil' = [fil EXCEPT ![files[p][x]] = "invalid"],
         held' = [held EXCEPT ![p] = @ \ {x}], UNCHANGED files
  PROVE  FilesInv'
<1>. DEFINE f == files[p][x]
<1>1. f \in FILs
  BY DEF FilesInv
<1>2. /\ files' \in [Users -> [Fds -> FILs \cup {NULL}]]
      /\ fil' \in [FILs -> {"free", "open", "invalid"}]
      /\ held' \in [Users -> SUBSET Fds]
  BY <1>1, Zenon DEF FilesInv
<1>3. \A g \in FILs : fil'[g] = IF g = f THEN "invalid" ELSE fil[g]
  BY <1>1, Zenon DEF FilesInv
<1>4. \A q \in Users : held'[q] = IF q = p THEN held[q] \ {x} ELSE held[q]
  BY Zenon DEF FilesInv
<1>5. \A q \in Users, c \in Fds : files[q][c] = f => q = p /\ c = x
  BY DEF FilesInv
<1>6. \A q \in Users, c \in Fds : files'[q][c] # NULL => fil'[files'[q][c]] # "free"
  BY <1>3 DEF FilesInv
<1>7. ASSUME NEW q \in Users, NEW c \in held'[q]
      PROVE  files'[q][c] # NULL /\ fil'[files'[q][c]] = "open"
  <2>1. c \in held[q] /\ c \in Fds /\ ~(q = p /\ c = x)
    BY <1>4, Zenon DEF FilesInv
  <2>2. files[q][c] # f /\ files[q][c] \in FILs
    BY <1>5, <2>1 DEF FilesInv
  <2>. QED
    BY <1>3, <2>1, <2>2 DEF FilesInv
<1>8. ASSUME NEW g \in FILs, fil'[g] = "open"
      PROVE  \E q \in Users : \E c \in held'[q] : files'[q][c] = g
  <2>1. g # f /\ fil[g] = "open"
    BY <1>3, <1>8
  <2>2. PICK q \in Users : \E c \in held[q] : files[q][c] = g
    BY <2>1, Zenon DEF FilesInv
  <2>3. PICK c \in held[q] : files[q][c] = g
    BY <2>2, Zenon
  <2>4. c \in held'[q]
    BY <1>4, <2>1, <2>3
  <2>. QED
    BY <2>3, <2>4, Zenon
<1>9. \A q, r \in Users, c, d \in Fds :
        files'[q][c] = files'[r][d] /\ files'[q][c] # NULL => q = r /\ c = d
  BY DEF FilesInv
<1>. QED
  BY <1>2, <1>6, <1>7, <1>8, <1>9, Zenon DEF FilesInv

\* One call on files, whatever its arguments and whatever f_open and f_close
\* answer.
LEMMA CallKeepsFiles ==
  ASSUME FilesInv, NEW p \in Users, file_syscall(p)
  PROVE  FilesInv'
<1>1. ASSUME NEW f \in FILs, open_ok(p, f) \/ open_fails(p, f)
      PROVE  FilesInv'
  <2>. DEFINE x == Max(FreeSlots(p))
  <2>1. x \in FreeSlots(p) /\ x \in Fds
    BY <1>1, LastFreeSlot, Zenon DEF open_ok, open_fails
  <2>2. files[p][x] = NULL
    BY <2>1, Zenon DEF FreeSlots
  <2>3. /\ fil[f] = "free"
        /\ files' = [files EXCEPT ![p] = [@ EXCEPT ![x] = f]]
        /\ \/ fil' = [fil EXCEPT ![f] = "open"] /\ held' = [held EXCEPT ![p] = @ \cup {x}]
           \/ fil' = [fil EXCEPT ![f] = "invalid"] /\ held' = held
    BY <1>1, Zenon DEF open_ok, open_fails
  <2>. HIDE DEF x
  <2>. QED
    BY <2>1, <2>2, <2>3, OpenKeepsFiles, Zenon
<1>2. CASE open_no_memory(p) \/ open_full(p)
  BY <1>2 DEF open_no_memory, open_full, FilesInv
<1>3. ASSUME NEW fd \in Fds, close_syscall(p, fd)
      PROVE  FilesInv'
  <2>1. CASE UNCHANGED <<fil, held>>
    BY <1>3, <2>1 DEF close_syscall, FilesInv
  <2>2. CASE /\ files[p][fd] # NULL /\ fil[files[p][fd]] = "open"
             /\ fil' = [fil EXCEPT ![files[p][fd]] = "invalid"]
             /\ held' = [held EXCEPT ![p] = @ \ {fd}]
    <3>1. UNCHANGED files
      BY <1>3, Zenon DEF close_syscall
    <3>. QED
      BY <2>2, <3>1, CloseKeepsFiles, Zenon
  <2>. QED
    BY <1>3, <2>1, <2>2, Zenon DEF close_syscall
<1>. QED
  BY <1>1, <1>2, <1>3, Zenon DEF file_syscall, open_syscall

\* The two halves of the state in every step of the programs.
LEMMA StepKeeps ==
  ASSUME MemoryInv, FilesInv, [NextSyscall]_syscallVars
  PROVE  MemoryInv' /\ FilesInv'
<1>1. ASSUME UNCHANGED vmmVars
      PROVE  MemoryInv'
  BY <1>1, Zenon DEF vmmVars, MemoryInv, NoPageLost
<1>2. ASSUME UNCHANGED fileVars
      PROVE  FilesInv'
  BY <1>2 DEF fileVars, FilesInv
<1>3. ASSUME NEW p \in MadeProcs, make_proc(p), UNCHANGED fileVars
      PROVE  MemoryInv' /\ FilesInv'
  BY <1>2, <1>3, MakeKeepsMemory, Zenon
<1>4. ASSUME NEW p \in made \ {Idle}, memory_syscall(p), UNCHANGED fileVars
      PROVE  MemoryInv' /\ FilesInv'
  BY <1>2, <1>4, CallKeepsMemory, Zenon
<1>5. ASSUME NEW p \in made \ {Idle}, file_syscall(p), UNCHANGED vmmVars
      PROVE  MemoryInv' /\ FilesInv'
  <2>1. p \in Users
    BY Zenon DEF MemoryInv, MadeProcs
  <2>. QED
    BY <1>1, <1>5, <2>1, CallKeepsFiles, Zenon
<1>6. CASE Outside
  BY <1>2, <1>6, Zenon DEF Outside, fileVars, MemoryInv, NoPageLost
<1>7. CASE UNCHANGED syscallVars
  BY <1>1, <1>2, <1>7, Zenon DEF syscallVars
<1>. QED
  BY <1>3, <1>4, <1>5, <1>6, <1>7, Zenon DEF NextSyscall, Beyond

\* Both halves together are an invariant of the system calls.
THEOREM SyscallState == SyscallSpec => [](MemoryInv /\ FilesInv)
<1>1. InitSyscall => MemoryInv /\ FilesInv
  BY MemoryInit, FilesInit, Zenon
<1>2. (MemoryInv /\ FilesInv) /\ [NextSyscall]_syscallVars => (MemoryInv /\ FilesInv)'
  BY StepKeeps, Zenon
<1>. QED
  BY <1>1, <1>2, PTL DEF SyscallSpec

\* As long as there is one program, and no address of munmap has cleared the bit of
\* a page that it did not unmap, the pages mmap finds are pages the program has not
\* mapped, after any sequence of overlapping calls.
THEOREM SyscallFindsFreePages == SyscallSpec => []FindsFreePages
<1>1. MemoryInv => FindsFreePages
  BY Zenon DEF MemoryInv, FindsFreePages, Found, Free
<1>. QED
  BY <1>1, SyscallState, PTL

\* No sequence of mmap and munmap calls, of any number of programs, leaves the
\* bit of a page set that none of them maps.
THEOREM SyscallNoPageLost == SyscallSpec => []NoPageLost
<1>1. MemoryInv => NoPageLost
  BY Zenon DEF MemoryInv
<1>. QED
  BY <1>1, SyscallState, PTL

\* The open files are those of the held descriptors, each of one descriptor of
\* one process, whatever opens and closes fail.
THEOREM SyscallDescriptors == SyscallSpec => []DescriptorsInv
<1>1. ASSUME FilesInv
      PROVE  DescriptorsInv
  <2>1. ASSUME NEW f \in FILs, fil[f] = "open"
        PROVE  f \in UNION {{files[p][fd] : fd \in held[p]} : p \in Users}
    BY <1>1, <2>1 DEF FilesInv
  <2>2. ASSUME NEW p \in Users, NEW fd \in held[p]
        PROVE  files[p][fd] \in {f \in FILs : fil[f] = "open"}
    <3>1. fd \in Fds
      BY <1>1, Zenon DEF FilesInv
    <3>. QED
      BY <1>1, <3>1 DEF FilesInv
  <2>3. {f \in FILs : fil[f] = "open"} = UNION {{files[p][fd] : fd \in held[p]} : p \in Users}
    BY <2>1, <2>2
  <2>. QED
    BY <1>1, <2>3, Zenon DEF DescriptorsInv, FilesInv
<1>. QED
  BY <1>1, SyscallState, PTL

\* No call changes a slot that is filled: a descriptor that was closed never
\* comes to mean another file.
THEOREM SyscallNoAlias == SyscallSpec => NoAlias
<1>. DEFINE Kept == \A p \in Users, fd \in Fds :
                      files[p][fd] # NULL => files'[p][fd] = files[p][fd]
<1>1. ASSUME MemoryInv, FilesInv, [NextSyscall]_syscallVars
      PROVE  [Kept]_syscallVars
  <2>1. ASSUME UNCHANGED files
        PROVE  Kept
    BY <2>1, Zenon
  <2>2. ASSUME NEW p \in made \ {Idle}, NEW f \in FILs, open_ok(p, f) \/ open_fails(p, f)
        PROVE  Kept
    <3>. DEFINE x == Max(FreeSlots(p))
    <3>1. p \in Users
      BY <1>1, Zenon DEF MemoryInv, MadeProcs
    <3>2. x \in FreeSlots(p) /\ x \in Fds
      BY <2>2, <3>1, LastFreeSlot, Zenon DEF open_ok, open_fails
    <3>3. files[p][x] = NULL
      BY <3>2, Zenon DEF FreeSlots
    <3>4. files' = [files EXCEPT ![p] = [@ EXCEPT ![x] = f]]
      BY <2>2, Zenon DEF open_ok, open_fails
    <3>. HIDE DEF x
    <3>. QED
      BY <1>1, <3>1, <3>2, <3>3, <3>4 DEF FilesInv
  <2>3. \/ UNCHANGED files
        \/ \E p \in made \ {Idle}, f \in FILs : open_ok(p, f) \/ open_fails(p, f)
    BY <1>1, Zenon DEF NextSyscall, Beyond, Outside, syscallVars, fileVars, file_syscall,
                open_syscall, open_no_memory, open_full, close_syscall
  <2>. QED
    BY <2>1, <2>2, <2>3, Zenon
<1>2. (MemoryInv /\ FilesInv) /\ [NextSyscall]_syscallVars => [Kept]_syscallVars
  BY <1>1, Zenon
<1>. QED
  BY <1>2, SyscallState, PTL DEF SyscallSpec, NoAlias
=============================================================================
