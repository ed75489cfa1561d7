---------------------------------- MODULE Ahci ----------------------------------
(***************************************************************************)
(* drivers/storage/ahci/ahci.c with disk_read and disk_write of            *)
(* fs/fat/diskio.c, against the controller and its disk.  The driver is a  *)
(* single thread that polls: between two of its steps the controller takes *)
(* any of its own.  Every call goes to the first port that was found.      *)
(*                                                                         *)
(* The controller is external and does what the driver relies on: it       *)
(* starts and stops its engines on request, executes the commands whose    *)
(* bit is set in commandIssue in any order, a sector at a time, and clears *)
(* the bit.  After an error the bit stays set; the controller may stop, or *)
(* go on and execute the command again.                                    *)
(***************************************************************************)
EXTENDS Integers, Sequences, FiniteSetsExt

CONSTANTS
  Hardware,       \* the controllers: ports (det, ipm, sig of each) and ncs, bits
                  \* 8 to 12 of hostCapability
  Writes,         \* what disk_write is called with: first sector and data; disk_read
                  \* is called for the same sectors
  Contents, None,
  BufferSectors,  \* sectors in the page of ahci_port_t.buffer: 8
  MaxErrors       \* bound: the errors that a disk reports

Sectors == UNION {w[1] .. (w[1] + Len(w[2]) - 1) : w \in Writes}
Calls ==
  {[op |-> "read", at |-> w[1], n |-> Len(w[2]), data |-> <<>>] : w \in Writes}
  \cup {[op |-> "write", at |-> w[1], n |-> Len(w[2]), data |-> w[2]] : w \in Writes}
Slots == 0 .. 31

\* A transfer fits in the buffer, as one within a cluster of the image does, and
\* the sectors lie below 2^24.  hostCapability has five bits for the slots.
ASSUME AhciAssumption ==
  /\ None \notin Calls /\ BufferSectors \in Nat /\ MaxErrors \in Nat \ {0}
  /\ \A w \in Writes : w[1] \in Nat /\ w[2] \in Seq(Contents) /\ Len(w[2]) \in 1 .. BufferSectors
  /\ Sectors \subseteq 0 .. (2^24 - 1)
  /\ \A h \in Hardware : h.ncs \in 0 .. 31

VARIABLES
  hw,       \* the controller
  pc,       \* where the driver is
  ports,    \* the ports found, in order
  cfg,      \* the one that is being configured
  drv,      \* the call in progress, its slot, the result of the last call
  engine,   \* per port: st, fre, cr, fr of cmdSts, the command list clb and the
            \* receive area fb
  port,     \* registers of the first port: ci (commandIssue), tfes (in
            \* interruptStatus), busy (in taskFileData); is, the global status
  table,    \* the command in the table of each slot
  buffer,   \* the page of the first port
  dev,      \* the device: bios, its side of the handoff; the slot it works on and
            \* the sectors done; stopped, after an error
  store,    \* the contents of the disk
  errors,   \* ghost: the errors the device has reported
  executed  \* ghost: it has completed the command of the call in progress

vars == <<hw, pc, ports, cfg, drv, engine, port, table, buffer, dev, store, errors, executed>>

\* The firmware's and the driver's are whole; on the way from one to the other half
\* of the address is stored, and a command list has no headers.
Whole == {"firmware", "driver"}

First == ports[1]
faulty == errors > 0

TypeOK ==
  /\ pc \in {"handoff", "owned", "release", "route", "noroute", "stop", "stopfis", "stopping",
             "stopped", "clb", "clbu", "fb", "fbu", "headers", "start", "startcmd",
             "ready", "spin", "wait", "wild"}
  /\ port.ci \subseteq Slots /\ drv.slot \in -1 .. (hw.ncs - 1) /\ dev.active \in Slots \cup {-1}
  /\ drv.call \in Calls \cup {None} /\ store \in [Sectors -> Contents]
  /\ buffer \in [1 .. BufferSectors -> Contents] /\ dev.done \in 0 .. BufferSectors
  /\ \A p \in DOMAIN engine : {engine[p].clb, engine[p].fb} \subseteq Whole \cup {"half", "empty"}

Init ==
  /\ hw \in Hardware
  /\ pc = "handoff" /\ ports = <<>> /\ cfg = 0
  /\ drv = [call |-> None, slot |-> -1, ret |-> [ok |-> TRUE, data |-> <<>>]]
  /\ \E on, rx \in BOOLEAN :
       engine = [p \in DOMAIN hw.ports |->
                   [st |-> on, fre |-> rx, cr |-> on, fr |-> rx,
                    clb |-> "firmware", fb |-> "firmware"]]
  /\ \E b \in BOOLEAN : port = [ci |-> {}, tfes |-> FALSE, is |-> FALSE, busy |-> b]
  /\ table = [s \in 0 .. (hw.ncs - 1) |-> None]
  /\ \E b \in {"owner", "done"} :
       dev = [bios |-> b, active |-> -1, done |-> 0, stopped |-> FALSE]
  /\ \E v \in Contents : store = [s \in Sectors |-> v] /\ buffer = [i \in 1 .. BufferSectors |-> v]
  /\ errors = 0 /\ executed = FALSE
-----------------------------------------------------------------------------
\* dev_ahci_init

dev_ahci_bios_os_handoff ==
  /\ \/ pc = "handoff" /\ pc' = "owned"
     \/ pc = "owned" /\ dev.bios # "owner" /\ pc' = "release"
     \/ pc = "release" /\ dev.bios # "busy" /\ pc' = "route"
  /\ UNCHANGED <<hw, ports, cfg, drv, engine, port, table, buffer, dev, store, errors, executed>>

dev_ahci_port_chk_type(p) == IF ~p.det \/ ~p.ipm THEN "None" ELSE p.sig

dev_ahci_probe_ports ==
  SelectSeq([p \in DOMAIN hw.ports |-> p],
            LAMBDA p : dev_ahci_port_chk_type(hw.ports[p]) \in {"SATA", "SATAPI"})

\* Without a route for its interrupt the driver gives up, with no port.
dev_ahci_init ==
  /\ pc = "route"
  /\ \/ pc' = "noroute" /\ UNCHANGED <<ports, cfg>>
     \/ /\ ports' = dev_ahci_probe_ports /\ cfg' = 1
        /\ pc' = IF ports' = <<>> THEN "ready" ELSE "stop"
  /\ UNCHANGED <<hw, drv, engine, port, table, buffer, dev, store, errors, executed>>

\* Every store to the port's registers is a step.
dev_ahci_stop_cmd ==
  /\ \/ /\ pc = "stop" /\ pc' = "stopfis"
        /\ engine' = [engine EXCEPT ![ports[cfg]].st = FALSE]
     \/ /\ pc = "stopfis" /\ pc' = "stopping"
        /\ engine' = [engine EXCEPT ![ports[cfg]].fre = FALSE]
  /\ UNCHANGED <<hw, ports, cfg, drv, port, table, buffer, dev, store, errors, executed>>

\* Mutant: only the command engine is waited for.
stop_wait_Commands ==
  /\ \/ pc = "stopping" /\ pc' = "stopped"
     \/ pc = "stopped" /\ pc' = IF engine[ports[cfg]].cr THEN "stopping" ELSE "clb"
  /\ UNCHANGED <<hw, ports, cfg, drv, engine, port, table, buffer, dev, store, errors, executed>>

\* The loop of dev_ahci_stop_cmd: FR is read until it is clear, then CR.
stop_wait ==
  /\ \/ pc = "stopping" /\ ~engine[ports[cfg]].fr /\ pc' = "stopped"
     \/ pc = "stopped" /\ pc' = IF engine[ports[cfg]].cr THEN "stopping" ELSE "clb"
  /\ UNCHANGED <<hw, ports, cfg, drv, engine, port, table, buffer, dev, store, errors, executed>>

\* The halves of the two addresses, and at last the headers of the command list.
dev_ahci_port_configure ==
  /\ \/ /\ pc = "clb" /\ pc' = "clbu"
        /\ engine' = [engine EXCEPT ![ports[cfg]].clb = "half"]
     \/ /\ pc = "clbu" /\ pc' = "fb"
        /\ engine' = [engine EXCEPT ![ports[cfg]].clb = "empty"]
     \/ /\ pc = "fb" /\ pc' = "fbu"
        /\ engine' = [engine EXCEPT ![ports[cfg]].fb = "half"]
     \/ /\ pc = "fbu" /\ pc' = "headers"
        /\ engine' = [engine EXCEPT ![ports[cfg]].fb = "driver"]
     \/ /\ pc = "headers" /\ pc' = "start"
        /\ engine' = [engine EXCEPT ![ports[cfg]].clb = "driver"]
  /\ UNCHANGED <<hw, ports, cfg, drv, port, table, buffer, dev, store, errors, executed>>

\* Mutant: the engines are not started again.
dev_ahci_start_cmd_Never ==
  /\ pc = "start" /\ pc' = "ready" /\ cfg' = cfg + 1
  /\ UNCHANGED <<hw, ports, drv, engine, port, table, buffer, dev, store, errors, executed>>

dev_ahci_start_cmd ==
  /\ \/ /\ pc = "start" /\ ~engine[ports[cfg]].cr /\ pc' = "startcmd"
        /\ engine' = [engine EXCEPT ![ports[cfg]].fre = TRUE]
        /\ UNCHANGED cfg
     \/ /\ pc = "startcmd" /\ pc' = IF cfg = Len(ports) THEN "ready" ELSE "stop"
        /\ engine' = [engine EXCEPT ![ports[cfg]].st = TRUE]
        /\ cfg' = cfg + 1
  /\ UNCHANGED <<hw, ports, drv, port, table, buffer, dev, store, errors, executed>>
-----------------------------------------------------------------------------
\* The calls.  dev_ahci_read and dev_ahci_write differ in the write bit only.

cmdslots == hw.ncs % 16

dev_ahci_find_cmdslot ==
  LET free == (0 .. (cmdslots - 1)) \ port.ci IN IF free = {} THEN -1 ELSE Min(free)

\* Mutant: only the bytes lba0 and lba1 are filled in.
Lba_TwoBytes(sector) == sector % 2^16

\* lba0 to lba2 take bits 0 to 23 and lba3 to lba5 bits 32 and up, which are 0 for
\* FatFs's LBA_t of 32 bits: bits 24 to 31 are dropped.
Lba(sector) == sector % 2^24

Return(ok, data) == drv' = [call |-> None, slot |-> -1, ret |-> [ok |-> ok, data |-> data]]

Command(c) == [write |-> c.op = "write", lba |-> Lba(c.at), n |-> c.n]

\* dev_ahci_read or dev_ahci_write up to the wait for the device.
Submit(c) ==
  LET slot == dev_ahci_find_cmdslot IN
  IF slot = -1
  THEN Return(FALSE, <<>>) /\ UNCHANGED <<pc, port, table>>
  ELSE /\ drv' = [drv EXCEPT !.call = c, !.slot = slot]
       /\ port' = [port EXCEPT !.tfes = FALSE]
       /\ table' = [table EXCEPT ![slot] = Command(c)]
       /\ pc' = "spin"

\* dev_ahci_get_port(0) is NULL when no port was found, and goes unchecked.
NullPort == ports = <<>> /\ pc' = "wild" /\ UNCHANGED <<drv, port, table, buffer>>

disk_read(at, n) ==
  /\ pc \in {"ready", "noroute"}
  /\ \/ NullPort
     \/ /\ ports # <<>> /\ Submit([op |-> "read", at |-> at, n |-> n, data |-> <<>>])
        /\ UNCHANGED buffer
  /\ executed' = FALSE
  /\ UNCHANGED <<hw, ports, cfg, engine, dev, store, errors>>

disk_write(at, data) ==
  /\ pc \in {"ready", "noroute"}
  /\ \/ NullPort
     \/ /\ ports # <<>>
        /\ buffer' = data \o SubSeq(buffer, Len(data) + 1, BufferSectors)
        /\ Submit([op |-> "write", at |-> at, n |-> Len(data), data |-> data])
  /\ executed' = FALSE
  /\ UNCHANGED <<hw, ports, cfg, engine, dev, store, errors>>

\* Mutant: the command is issued before the device is known to be ready.
spin_IssueFirst ==
  /\ pc = "spin"
  /\ port' = [port EXCEPT !.ci = @ \cup {drv.slot}]
  /\ \/ ~port.busy /\ pc' = "wait" /\ UNCHANGED drv
     \/ port.busy /\ pc' = "ready" /\ Return(FALSE, <<>>)
  /\ UNCHANGED <<hw, ports, cfg, engine, table, buffer, dev, store, errors, executed>>

\* The loop on taskFileData ends when the device is ready or after 10,000,000
\* rounds.
spin ==
  /\ pc = "spin"
  /\ \/ ~port.busy /\ pc' = "wait" /\ port' = [port EXCEPT !.ci = @ \cup {drv.slot}] /\ UNCHANGED drv
     \/ port.busy /\ pc' = "ready" /\ Return(FALSE, <<>>) /\ UNCHANGED port
  /\ UNCHANGED <<hw, ports, cfg, engine, table, buffer, dev, store, errors, executed>>

\* Mutant: the error bit is taken for the end of the command.
wait_AnyEnd ==
  /\ pc = "wait" /\ pc' = "ready"
  /\ drv.slot \notin port.ci \/ port.tfes
  /\ Return(TRUE, IF drv.call.op = "read" THEN SubSeq(buffer, 1, drv.call.n) ELSE <<>>)
  /\ UNCHANGED <<hw, ports, cfg, engine, port, table, buffer, dev, store, errors, executed>>

\* The loop on commandIssue, and the copy out of the buffer.
wait ==
  /\ pc = "wait" /\ pc' = "ready"
  /\ \/ /\ drv.slot \notin port.ci
        /\ Return(TRUE, IF drv.call.op = "read" THEN SubSeq(buffer, 1, drv.call.n) ELSE <<>>)
     \/ drv.slot \in port.ci /\ port.tfes /\ Return(FALSE, <<>>)
  /\ UNCHANGED <<hw, ports, cfg, engine, port, table, buffer, dev, store, errors, executed>>

\* The handler acknowledges the global status; the loop above does not look at it.
ahci_irq_handler ==
  /\ port.is /\ port' = [port EXCEPT !.is = FALSE]
  /\ UNCHANGED <<hw, pc, ports, cfg, drv, engine, table, buffer, dev, store, errors, executed>>
-----------------------------------------------------------------------------
\* The controller and the disk

Firmware ==
  /\ pc # "handoff"
  /\ \/ dev.bios = "owner" /\ \E b \in {"busy", "done"} : dev' = [dev EXCEPT !.bios = b]
     \/ dev.bios = "busy" /\ dev' = [dev EXCEPT !.bios = "done"]
  /\ UNCHANGED <<hw, pc, ports, cfg, drv, engine, port, table, buffer, store, errors, executed>>

Engines ==
  /\ \E p \in DOMAIN engine :
       \/ engine[p].cr # engine[p].st /\ engine' = [engine EXCEPT ![p].cr = engine[p].st]
       \/ engine[p].fr # engine[p].fre /\ engine' = [engine EXCEPT ![p].fr = engine[p].fre]
  /\ UNCHANGED <<hw, pc, ports, cfg, drv, port, table, buffer, dev, store, errors, executed>>

DeviceReady ==
  /\ port.busy /\ dev.active = -1 /\ port' = [port EXCEPT !.busy = FALSE]
  /\ UNCHANGED <<hw, pc, ports, cfg, drv, engine, table, buffer, dev, store, errors, executed>>

Fetch ==
  /\ dev.active = -1 /\ ~dev.stopped /\ ports # <<>> /\ engine[First].cr
  /\ \E s \in port.ci : dev' = [dev EXCEPT !.active = s, !.done = 0]
  /\ port' = [port EXCEPT !.busy = TRUE]
  /\ UNCHANGED <<hw, pc, ports, cfg, drv, engine, table, buffer, store, errors, executed>>

Transfer ==
  /\ dev.active # -1 /\ hw.ports[First].sig = "SATA" /\ dev.done < table[dev.active].n
  /\ LET t == table[dev.active]
         s == t.lba + dev.done IN
     IF t.write
     THEN store' = [store EXCEPT ![s] = buffer[dev.done + 1]] /\ UNCHANGED buffer
     ELSE buffer' = [buffer EXCEPT ![dev.done + 1] = store[s]] /\ UNCHANGED store
  /\ dev' = [dev EXCEPT !.done = @ + 1]
  /\ UNCHANGED <<hw, pc, ports, cfg, drv, engine, port, table, errors, executed>>

Complete ==
  /\ dev.active # -1 /\ dev.done = table[dev.active].n
  /\ port' = [port EXCEPT !.ci = @ \ {dev.active}, !.busy = FALSE, !.is = TRUE]
  /\ executed' = (executed \/ dev.active = drv.slot)
  /\ dev' = [dev EXCEPT !.active = -1, !.done = 0]
  /\ UNCHANGED <<hw, pc, ports, cfg, drv, engine, table, buffer, store, errors>>

\* Any command may fail; a CD drive refuses every one of these.
DeviceError ==
  /\ dev.active # -1
  /\ errors < MaxErrors \/ hw.ports[First].sig # "SATA"
  /\ \E b, s \in BOOLEAN :
       /\ port' = [port EXCEPT !.tfes = TRUE, !.is = TRUE, !.busy = b]
       /\ dev' = [dev EXCEPT !.active = -1, !.done = 0, !.stopped = s]
  /\ errors' = Min({errors + 1, MaxErrors})
  /\ UNCHANGED <<hw, pc, ports, cfg, drv, engine, table, buffer, store, executed>>
-----------------------------------------------------------------------------
Driver ==
  \/ dev_ahci_bios_os_handoff \/ dev_ahci_init \/ dev_ahci_stop_cmd \/ stop_wait
  \/ dev_ahci_port_configure \/ dev_ahci_start_cmd \/ spin \/ wait

\* What the device does with a command it has begun.
Work == Transfer \/ Complete \/ DeviceError

Controller == Firmware \/ Engines \/ DeviceReady \/ Fetch \/ Work

\* One more round of a loop; the driver may stay in the last one for ever when the
\* device has stopped.  Nothing is followed once it has gone through a NULL port.
Poll == pc \in {"owned", "release", "stopping", "wait", "wild"} /\ UNCHANGED vars

Next ==
  \/ Driver \/ ahci_irq_handler \/ Controller \/ Poll
  \/ \E w \in Writes : disk_read(w[1], Len(w[2])) \/ disk_write(w[1], w[2])

Spec == Init /\ [][Next]_vars

\* The driver's thread goes on polling, and the hardware does what it has begun.
FairSpec ==
  /\ Spec /\ WF_vars(Driver) /\ WF_vars(Firmware) /\ WF_vars(Engines)
  /\ WF_vars(Fetch) /\ WF_vars(Work)
-----------------------------------------------------------------------------
\* A call has begun when its command is issued.
begun == pc = "wait"

D == INSTANCE Disk WITH call <- drv.call, ret <- drv.ret

\* Until the device reports an error disk_read returns what disk_write has stored,
\* for every transfer, and a call that it refuses has stored no sector.
DiskSpec == D!Spec

\* With errors too: disk_read and disk_write report success only for a command that
\* the device has completed since it was issued, not for an older one that sits in
\* commandIssue.
NoFalseSuccess ==
  [][drv.call # None /\ drv'.call = None /\ drv'.ret.ok => executed]_vars

\* Before the first error no slot is lost: between two calls commandIssue is clear,
\* also after a call that gave up while the device was busy; and the state has its
\* types.
NoSlotLost == TypeOK /\ (pc = "ready" /\ ~faulty => port.ci = {})

\* An engine that runs has a whole list: the ones the firmware left running never
\* see the driver's stores to the addresses, nor do the driver's own before the
\* list is there.
ListsWhole ==
  \A p \in DOMAIN engine :
    /\ engine[p].cr => engine[p].clb \in Whole
    /\ engine[p].fr => engine[p].fb \in Whole

\* Every call returns unless the device has reported an error before.
CallReturns == drv.call # None ~> (drv.call = None \/ faulty)
=============================================================================
