------------------------------ MODULE AhciProofs ------------------------------
(***************************************************************************)
(* The AHCI driver for every controller, every set of calls and any number *)
(* of errors, and that it implements Disk.                                 *)
(***************************************************************************)
EXTENDS Ahci, SequenceTheorems, WellFoundedInduction, TLAPS

Lists == Whole \cup {"half", "empty"}
Engine == [st : BOOLEAN, fre : BOOLEAN, cr : BOOLEAN, fr : BOOLEAN, clb : Lists, fb : Lists]
Port == [ci : SUBSET Slots, tfes : BOOLEAN, is : BOOLEAN, busy : BOOLEAN]
Device == [bios : {"owner", "busy", "done"}, active : Slots \cup {-1},
           done : 0 .. BufferSectors, stopped : BOOLEAN]

\* The types.
AhciType ==
  /\ hw \in Hardware
  /\ pc \in {"handoff", "owned", "release", "route", "noroute", "stop", "stopfis", "stopping",
             "stopped", "clb", "clbu", "fb", "fbu", "headers", "start", "startcmd",
             "ready", "spin", "wait", "wild"}
  /\ drv = [call |-> drv.call, slot |-> drv.slot, ret |-> drv.ret]
  /\ drv.call \in Calls \cup {None} /\ drv.slot \in -1 .. (hw.ncs - 1)
  /\ engine \in [DOMAIN hw.ports -> Engine]
  /\ port \in Port /\ dev \in Device
  /\ store \in [Sectors -> Contents] /\ buffer \in [1 .. BufferSectors -> Contents]
  /\ errors \in 0 .. MaxErrors /\ executed \in BOOLEAN
  /\ DOMAIN table = 0 .. (hw.ncs - 1)

\* A call has a slot of its own; every command that is issued is the one of a call,
\* and the device works on an issued one.
CallInv ==
  /\ drv.call # None <=> pc \in {"spin", "wait"}
  /\ drv.call # None => drv.slot \in DOMAIN table /\ table[drv.slot] = Command(drv.call)
  /\ \A s \in port.ci : s \in DOMAIN table /\ \E c \in Calls : table[s] = Command(c)
  /\ dev.active # -1 => dev.active \in port.ci /\ dev.done <= table[dev.active].n
  /\ pc = "spin" => drv.slot \notin port.ci
  /\ pc = "wait" => drv.slot \in port.ci \/ executed

\* The sectors of the call in progress that the device is done with.
Progress ==
  IF drv.slot \notin port.ci THEN drv.call.n ELSE IF dev.active = -1 THEN 0 ELSE dev.done

\* Before the first error no other command is issued, and the buffer and the disk
\* agree on the sectors that are done.
CleanInv ==
  errors = 0 =>
    /\ port.ci \subseteq (IF pc = "wait" THEN {drv.slot} ELSE {})
    /\ drv.call # None /\ drv.call.op = "write" =>
         \A i \in 1 .. drv.call.n : buffer[i] = drv.call.data[i]
    /\ pc = "wait" =>
         \A i \in 1 .. Progress : store[drv.call.at + i - 1] = buffer[i]

AhciInv == AhciType /\ CallInv /\ CleanInv

\* The error bit tells of an error.
FaultInv == port.tfes => errors # 0

\* What the driver knows of the engine of the port that it configures.  FR and CR
\* are read as clear once and stay so, for ST and FRE are clear.
Configured(at, e) ==
  /\ at = "stopfis" => ~e.st
  /\ at = "stopping" => ~e.st /\ ~e.fre
  /\ at = "stopped" => ~e.st /\ ~e.fre /\ ~e.fr
  /\ at \in {"clb", "clbu", "fb", "fbu", "headers", "start"} => ~e.st /\ ~e.fre /\ ~e.fr /\ ~e.cr
  /\ at \in {"headers", "start", "startcmd"} => e.fb = "driver"
  /\ at \in {"start", "startcmd"} => e.clb = "driver"
  /\ at = "startcmd" => ~e.st /\ ~e.cr

\* An engine that runs, or is told to, has a whole list.
HasLists(e) == (e.st \/ e.cr => e.clb \in Whole) /\ (e.fre \/ e.fr => e.fb \in Whole)

EngineInv ==
  \A p \in DOMAIN engine :
    HasLists(engine[p]) /\ (p = ports[cfg] => Configured(pc, engine[p]))

-----------------------------------------------------------------------------
\* What the assumption says of the calls.
LEMMA CallFacts ==
  ASSUME NEW c \in Calls
  PROVE  /\ c # None /\ c.op \in {"read", "write"}
         /\ c.at \in Nat /\ c.n \in 1 .. BufferSectors /\ c.n \in Nat /\ BufferSectors \in Nat
         /\ \A i \in 1 .. c.n : c.at + i - 1 \in Sectors
         /\ c.op = "write" => c.data \in Seq(Contents) /\ Len(c.data) = c.n
         /\ Command(c) = [write |-> c.op = "write", lba |-> c.at, n |-> c.n]
<1>1. PICK w \in Writes :
        \/ c = [op |-> "read", at |-> w[1], n |-> Len(w[2]), data |-> <<>>]
        \/ c = [op |-> "write", at |-> w[1], n |-> Len(w[2]), data |-> w[2]]
  BY Zenon DEF Calls
<1>2. w[1] \in Nat /\ w[2] \in Seq(Contents) /\ Len(w[2]) \in 1 .. BufferSectors /\ BufferSectors \in Nat
  BY AhciAssumption, Zenon
<1>3. w[1] .. (w[1] + Len(w[2]) - 1) \subseteq Sectors
  BY Zenon DEF Sectors
<1>4. ASSUME NEW i \in 1 .. c.n PROVE c.at + i - 1 \in Sectors
  <2>1. c.at = w[1] /\ c.n = Len(w[2])
    BY <1>1
  <2>2. c.at + i - 1 \in w[1] .. (w[1] + Len(w[2]) - 1)
    BY <1>2, <2>1
  <2>. QED
    BY <1>3, <2>2, Zenon
<1>5. c.at \in Sectors
  <2>1. 1 \in 1 .. c.n /\ c.at + 1 - 1 = c.at
    BY <1>1, <1>2
  <2>. QED
    BY <1>4, <2>1, Zenon
<1>6. Lba(c.at) = c.at
  <2>1. c.at \in 0 .. (2^24 - 1)
    BY <1>5, AhciAssumption, Zenon
  <2>. QED
    BY <2>1 DEF Lba
<1>7. c # None
  BY AhciAssumption, Zenon
<1>8. c.n \in 1 .. BufferSectors /\ c.at \in Nat /\ c.n \in Nat
  BY <1>1, <1>2
<1>9. c.op \in {"read", "write"} /\ (c.op = "write" => c.data \in Seq(Contents) /\ Len(c.data) = c.n)
  BY <1>1, <1>2
<1>. QED
  BY <1>2, <1>4, <1>6, <1>7, <1>8, <1>9, Zenon DEF Command

\* Every nonempty set of natural numbers has a least member.
LEMMA LeastNatural ==
  ASSUME NEW T \in SUBSET Nat, T # {}
  PROVE  \E x \in T : \A y \in T : x <= y
<1>. DEFINE R == OpToRel(<, Nat)
<1>1. IsWellFoundedOn(R, Nat)
  BY NatLessThanWellFounded, Zenon
<1>2. \A x, y \in Nat : y < x => <<y, x>> \in R
  BY Zenon DEF OpToRel
<1>. HIDE DEF R
<1>3. PICK x \in T : \A y \in T : ~ (<<y, x>> \in R)
  BY <1>1, WFMin, Zenon
<1>4. ASSUME NEW y \in T
      PROVE  x <= y
  <2>1. x \in Nat /\ y \in Nat
    BY Zenon
  <2>2. ~ (y < x)
    BY <1>2, <1>3, <2>1, Zenon
  <2>. QED
    BY <2>1, <2>2
<1>. QED
  BY <1>4, Zenon

\* The free slot that is found.
LEMMA FreeSlot ==
  ASSUME AhciType, dev_ahci_find_cmdslot # -1
  PROVE  /\ dev_ahci_find_cmdslot \in 0 .. (hw.ncs - 1)
         /\ dev_ahci_find_cmdslot \notin port.ci
<1>1. hw.ncs \in 0 .. 31
  BY AhciAssumption, Zenon DEF AhciType
<1>2. cmdslots \in 0 .. hw.ncs
  BY <1>1 DEF cmdslots
<1>. DEFINE free == (0 .. (cmdslots - 1)) \ port.ci
<1>3. free # {} /\ free \subseteq 0 .. (cmdslots - 1)
  BY Zenon DEF dev_ahci_find_cmdslot
<1>4. Min(free) \in free
  <2>1. free \in SUBSET Nat
    BY <1>1, <1>2, <1>3
  <2>2. PICK k \in free : \A j \in free : k <= j
    BY <1>3, <2>1, LeastNatural, Zenon
  <2>. QED
    BY <2>2, Zenon DEF Min
<1>. QED
  BY <1>1, <1>2, <1>3, <1>4 DEF dev_ahci_find_cmdslot

\* The buffer after disk_write has copied the data.
LEMMA Filled ==
  ASSUME buffer \in [1 .. BufferSectors -> Contents], BufferSectors \in Nat,
         NEW data \in Seq(Contents), Len(data) \in 1 .. BufferSectors,
         NEW new, new = data \o SubSeq(buffer, Len(data) + 1, BufferSectors)
  PROVE  /\ new \in [1 .. BufferSectors -> Contents]
         /\ \A i \in 1 .. Len(data) : new[i] = data[i]
<1>1. buffer \in Seq(Contents) /\ Len(buffer) = BufferSectors
  BY LenProperties
<1>. DEFINE rest == SubSeq(buffer, Len(data) + 1, BufferSectors)
<1>2. rest \in Seq(Contents) /\ Len(rest) = BufferSectors - Len(data)
  <2>1. CASE Len(data) = BufferSectors
    BY <1>1, <2>1, SubSeqProperties
  <2>2. CASE Len(data) # BufferSectors
    BY <1>1, <2>2, SubSeqProperties
  <2>. QED
    BY <2>1, <2>2, Zenon
<1>. HIDE DEF rest
<1>3. /\ new \in Seq(Contents) /\ Len(new) = BufferSectors
      /\ \A i \in 1 .. Len(data) : new[i] = data[i]
  BY <1>2, ConcatProperties DEF rest
<1>4. new \in [1 .. BufferSectors -> Contents]
  BY <1>3, LenProperties, Zenon
<1>. QED
  BY <1>3, <1>4, Zenon

LEMMA HwFacts ==
  ASSUME hw \in Hardware
  PROVE  /\ hw.ncs \in 0 .. 31 /\ MaxErrors \in Nat \ {0} /\ BufferSectors \in Nat
         /\ -1 \in -1 .. (hw.ncs - 1)
<1>1. hw.ncs \in 0 .. 31 /\ MaxErrors \in Nat \ {0} /\ BufferSectors \in Nat
  BY AhciAssumption, Zenon
<1>2. -1 \in -1 .. (hw.ncs - 1)
  BY <1>1
<1>. QED
  BY <1>1, <1>2, Zenon

LEMMA AhciInit == Init => AhciInv
<1>. SUFFICES ASSUME Init PROVE AhciInv
  BY Zenon
<1>1. hw.ncs \in 0 .. 31 /\ MaxErrors \in Nat /\ BufferSectors \in Nat /\ -1 \in -1 .. (hw.ncs - 1)
  BY HwFacts, Zenon DEF Init
<1>2. engine \in [DOMAIN hw.ports -> Engine]
  BY DEF Init, Engine, Lists, Whole
<1>3. port \in Port /\ port.ci = {}
  BY DEF Init, Port
<1>4. dev \in Device /\ dev.active = -1
  BY <1>1 DEF Init, Device
<1>5. store \in [Sectors -> Contents] /\ buffer \in [1 .. BufferSectors -> Contents]
  BY Zenon DEF Init
<1>6. drv.call = None /\ drv.slot = -1 /\ drv = [call |-> drv.call, slot |-> drv.slot, ret |-> drv.ret]
  BY Zenon DEF Init
<1>7. AhciType
  <2>1. drv.slot \in -1 .. (hw.ncs - 1)
    BY <1>1, <1>6, Zenon
  <2>2. errors \in 0 .. MaxErrors
    BY <1>1 DEF Init
  <2>. QED
    BY <1>2, <1>3, <1>4, <1>5, <1>6, <2>1, <2>2, Zenon DEF Init, AhciType
<1>. QED
  BY <1>3, <1>4, <1>6, <1>7, Zenon DEF Init, AhciInv, CallInv, CleanInv

\* A call with the slot that Submit takes for it.
LEMMA SubmitStep ==
  ASSUME AhciInv, pc \in {"ready", "noroute"}, NEW c \in Calls, Submit(c),
         UNCHANGED <<hw, engine, dev, store, errors>>,
         buffer' \in [1 .. BufferSectors -> Contents], executed' = FALSE,
         c.op = "write" => \A i \in 1 .. c.n : buffer'[i] = c.data[i]
  PROVE  AhciInv'
<1>1. AhciType /\ CallInv /\ CleanInv
  BY Zenon DEF AhciInv
<1>2. CASE dev_ahci_find_cmdslot = -1
  <2>1. /\ drv'.call = None /\ drv'.slot = -1 /\ UNCHANGED <<pc, port, table>>
        /\ drv' = [call |-> drv'.call, slot |-> drv'.slot, ret |-> drv'.ret]
    BY <1>2 DEF Submit, Return
  <2>2. -1 \in -1 .. (hw.ncs - 1)
    BY <1>1, HwFacts, Zenon DEF AhciType
  <2>3. AhciType'
    BY <1>1, <2>1, <2>2, Zenon DEF AhciType
  <2>4. CallInv'
    BY <1>1, <2>1, Zenon DEF CallInv
  <2>5. CleanInv'
    BY <1>1, <2>1, Zenon DEF CleanInv
  <2>. QED
    BY <2>3, <2>4, <2>5, Zenon DEF AhciInv
<1>3. CASE dev_ahci_find_cmdslot # -1
  <2>1. PICK slot : slot = dev_ahci_find_cmdslot
    BY Zenon
  <2>2. slot \in 0 .. (hw.ncs - 1) /\ slot \notin port.ci /\ hw.ncs \in 0 .. 31
    BY <1>1, <1>3, <2>1, FreeSlot, AhciAssumption, Zenon DEF AhciType
  <2>3. /\ drv' = [drv EXCEPT !.call = c, !.slot = slot]
        /\ port' = [port EXCEPT !.tfes = FALSE]
        /\ table' = [table EXCEPT ![slot] = Command(c)]
        /\ pc' = "spin"
    BY <1>3, <2>1, Zenon DEF Submit
  <2>4. /\ drv'.call = c /\ drv'.slot = slot
        /\ drv' = [call |-> drv'.call, slot |-> drv'.slot, ret |-> drv'.ret]
    BY <1>1, <2>3, Zenon DEF AhciType
  <2>5. port' \in Port /\ port'.ci = port.ci
    BY <1>1, <2>3, Zenon DEF AhciType, Port
  <2>6. /\ DOMAIN table' = 0 .. (hw.ncs - 1) /\ table'[slot] = Command(c)
        /\ \A s \in DOMAIN table : s # slot => table'[s] = table[s]
    BY <1>1, <2>2, <2>3, Zenon DEF AhciType
  <2>7. slot \in -1 .. (hw.ncs - 1) /\ c # None
    BY <2>2, CallFacts
  <2>8. AhciType'
    BY <1>1, <2>3, <2>4, <2>5, <2>6, <2>7, Zenon DEF AhciType
  <2>9. \A s \in port'.ci : s \in DOMAIN table' /\ table'[s] = table[s] /\ \E d \in Calls : table'[s] = Command(d)
    BY <1>1, <2>2, <2>5, <2>6, Zenon DEF CallInv, AhciType
  <2>10. CallInv'
    BY <1>1, <2>2, <2>3, <2>4, <2>5, <2>6, <2>7, <2>9, Zenon DEF CallInv
  <2>11. CleanInv'
    BY <1>1, <2>3, <2>4, <2>5, Zenon DEF CleanInv
  <2>. QED
    BY <2>8, <2>10, <2>11, Zenon DEF AhciInv
<1>. QED
  BY <1>2, <1>3, Zenon

\* The steps of dev_ahci_init.
LEMMA SetUpStep ==
  ASSUME AhciInv,
         \/ dev_ahci_bios_os_handoff \/ dev_ahci_init \/ dev_ahci_stop_cmd \/ stop_wait
         \/ dev_ahci_port_configure \/ dev_ahci_start_cmd
  PROVE  AhciInv'
<1>1. AhciType /\ CallInv /\ CleanInv
  BY Zenon DEF AhciInv
<1>2. /\ UNCHANGED <<hw, drv, port, table, buffer, dev, store, errors, executed>>
      /\ pc \notin {"spin", "wait"} /\ pc' \notin {"spin", "wait"}
      /\ pc' \in {"owned", "release", "route", "noroute", "stop", "stopfis", "stopping", "stopped",
                   "clb", "clbu", "fb", "fbu", "headers", "start", "startcmd", "ready"}
  BY Zenon DEF dev_ahci_bios_os_handoff, dev_ahci_init, dev_ahci_stop_cmd, stop_wait,
         dev_ahci_port_configure, dev_ahci_start_cmd
<1>3. engine' \in [DOMAIN hw.ports -> Engine]
  <2>1. CASE engine' = engine
    BY <1>1, <2>1, Zenon DEF AhciType
  <2>2. ASSUME NEW x, NEW new, x \in DOMAIN hw.ports => new \in Engine,
               engine' = [engine EXCEPT ![x] = new]
        PROVE  engine' \in [DOMAIN hw.ports -> Engine]
    BY <1>1, <2>2, Zenon DEF AhciType
  <2>3. \A e \in Engine, l \in Lists :
          /\ [e EXCEPT !.st = FALSE] \in Engine /\ [e EXCEPT !.fre = FALSE] \in Engine
          /\ [e EXCEPT !.st = TRUE] \in Engine /\ [e EXCEPT !.fre = TRUE] \in Engine
          /\ [e EXCEPT !.clb = l] \in Engine /\ [e EXCEPT !.fb = l] \in Engine
    BY Zenon DEF Engine
  <2>4. \A x \in DOMAIN hw.ports : engine[x] \in Engine
    BY <1>1, Zenon DEF AhciType
  <2>5. {"half", "empty", "driver"} \subseteq Lists
    BY DEF Lists, Whole
  <2>6. CASE dev_ahci_stop_cmd
    BY <2>2, <2>3, <2>4, <2>5, <2>6, Zenon DEF dev_ahci_stop_cmd
  <2>7. CASE dev_ahci_port_configure
    BY <2>2, <2>3, <2>4, <2>5, <2>7, Zenon DEF dev_ahci_port_configure
  <2>8. CASE dev_ahci_start_cmd
    BY <2>2, <2>3, <2>4, <2>5, <2>8, Zenon DEF dev_ahci_start_cmd
  <2>. QED
    BY <2>1, <2>6, <2>7, <2>8, Zenon DEF dev_ahci_bios_os_handoff, dev_ahci_init, stop_wait
<1>4. AhciType'
  BY <1>1, <1>2, <1>3, Zenon DEF AhciType
<1>5. CallInv'
  BY <1>1, <1>2, Zenon DEF CallInv
<1>6. CleanInv'
  BY <1>1, <1>2, Zenon DEF CleanInv
<1>. QED
  BY <1>4, <1>5, <1>6, Zenon DEF AhciInv

\* The call that disk_read or disk_write makes.
LEMMA CallStep ==
  ASSUME AhciInv, NEW w \in Writes, disk_read(w[1], Len(w[2])) \/ disk_write(w[1], w[2])
  PROVE  AhciInv'
<1>1. AhciType /\ CallInv /\ CleanInv
  BY Zenon DEF AhciInv
<1>2. pc \in {"ready", "noroute"} /\ UNCHANGED <<hw, engine, dev, store, errors>> /\ executed' = FALSE
  BY Zenon DEF disk_read, disk_write
<1>3. CASE NullPort
  <2>1. pc' = "wild" /\ UNCHANGED <<drv, port, table, buffer>>
    BY <1>3, Zenon DEF NullPort
  <2>2. AhciType'
    BY <1>1, <1>2, <2>1, Zenon DEF AhciType
  <2>3. CallInv'
    BY <1>1, <1>2, <2>1, Zenon DEF CallInv
  <2>4. CleanInv'
    BY <1>1, <1>2, <2>1, Zenon DEF CleanInv
  <2>. QED
    BY <2>2, <2>3, <2>4, Zenon DEF AhciInv
<1>4. ASSUME NEW c, c = [op |-> "read", at |-> w[1], n |-> Len(w[2]), data |-> <<>>],
             Submit(c), UNCHANGED buffer
      PROVE  AhciInv'
  <2>1. c \in Calls /\ c.op # "write"
    BY <1>4, Zenon DEF Calls
  <2>. QED
    BY <1>1, <1>2, <1>4, <2>1, SubmitStep, Zenon DEF AhciType
<1>5. ASSUME NEW c, c = [op |-> "write", at |-> w[1], n |-> Len(w[2]), data |-> w[2]],
             Submit(c), buffer' = w[2] \o SubSeq(buffer, Len(w[2]) + 1, BufferSectors)
      PROVE  AhciInv'
  <2>1. c \in Calls /\ c.n = Len(w[2]) /\ c.data = w[2]
    BY <1>5, Zenon DEF Calls
  <2>2. w[2] \in Seq(Contents) /\ Len(w[2]) \in 1 .. BufferSectors /\ BufferSectors \in Nat
    BY AhciAssumption, Zenon
  <2>3. /\ buffer' \in [1 .. BufferSectors -> Contents]
        /\ \A i \in 1 .. c.n : buffer'[i] = c.data[i]
    BY <1>1, <1>5, <2>1, <2>2, Filled, ZenonT(60) DEF AhciType
  <2>. QED
    BY <1>2, <1>5, <2>1, <2>3, SubmitStep, Zenon
<1>. QED
  BY <1>3, <1>4, <1>5, Zenon DEF disk_read, disk_write

\* The call gives up, is issued, or returns.
LEMMA EndStep ==
  ASSUME AhciInv, FaultInv, spin \/ wait
  PROVE  AhciInv'
<1>1. AhciType /\ CallInv /\ CleanInv
  BY Zenon DEF AhciInv
<1>2. /\ UNCHANGED <<hw, engine, table, buffer, dev, store, errors, executed>>
      /\ drv.call \in Calls /\ drv.slot \in DOMAIN table /\ table[drv.slot] = Command(drv.call)
  BY <1>1, Zenon DEF spin, wait, CallInv, AhciType
<1>3. ASSUME NEW ok \in BOOLEAN, NEW data, Return(ok, data), pc' = "ready", UNCHANGED port,
             errors = 0 => port.ci = {}
      PROVE  AhciInv'
  <2>1. drv'.call = None /\ drv'.slot = -1 /\ drv' = [call |-> drv'.call, slot |-> drv'.slot, ret |-> drv'.ret]
    BY <1>3, Zenon DEF Return
  <2>2. -1 \in -1 .. (hw.ncs - 1)
    BY <1>1, HwFacts, Zenon DEF AhciType
  <2>3. AhciType'
    BY <1>1, <1>2, <1>3, <2>1, <2>2, Zenon DEF AhciType
  <2>4. CallInv'
    BY <1>1, <1>2, <1>3, <2>1, Zenon DEF CallInv
  <2>5. CleanInv'
    BY <1>1, <1>2, <1>3, <2>1, Zenon DEF CleanInv
  <2>. QED
    BY <2>3, <2>4, <2>5, Zenon DEF AhciInv
<1>4. CASE spin /\ pc' = "wait"
  <2>1. /\ pc = "spin" /\ UNCHANGED drv /\ port' = [port EXCEPT !.ci = @ \cup {drv.slot}]
    BY <1>4, Zenon DEF spin
  <2>2. drv.slot \in Slots
    <3>1. hw.ncs \in 0 .. 31 /\ drv.slot \in 0 .. (hw.ncs - 1)
      BY <1>1, <1>2, HwFacts, Zenon DEF AhciType
    <3>. QED
      BY <3>1 DEF Slots
  <2>3. port' \in Port /\ port'.ci = port.ci \cup {drv.slot}
    BY <1>1, <2>1, <2>2, Zenon DEF AhciType, Port
  <2>4. AhciType'
    BY <1>1, <1>2, <1>4, <2>1, <2>3, Zenon DEF AhciType
  <2>5. CallInv'
    BY <1>1, <1>2, <1>4, <2>1, <2>3, Zenon DEF CallInv
  <2>6. CleanInv'
    <3>1. ASSUME errors = 0 PROVE port.ci = {} /\ dev.active = -1
      BY <1>1, <2>1, <3>1, Zenon DEF CleanInv, CallInv
    <3>2. ASSUME errors = 0 PROVE Progress' = 0
      BY <1>2, <2>1, <2>3, <3>1, <3>2, Zenon DEF Progress
    <3>3. ASSUME errors = 0 PROVE (\A i \in 1 .. Progress : store[drv.call.at + i - 1] = buffer[i])'
      BY <3>2, <3>3
    <3>. QED
      BY <1>1, <1>2, <1>4, <2>1, <2>3, <3>1, <3>3, Zenon DEF CleanInv
  <2>. QED
    BY <2>4, <2>5, <2>6, Zenon DEF AhciInv
<1>5. CASE spin /\ pc' # "wait"
  <2>1. pc = "spin" /\ pc' = "ready" /\ Return(FALSE, <<>>) /\ UNCHANGED port
    BY <1>5, Zenon DEF spin
  <2>. QED
    BY <1>1, <1>3, <2>1, Zenon DEF CleanInv
<1>6. CASE wait
  <2>1. /\ pc = "wait" /\ pc' = "ready" /\ UNCHANGED port
        /\ \E ok \in BOOLEAN : \E data : Return(ok, data)
        /\ drv.slot \notin port.ci \/ port.tfes
    BY <1>6, Zenon DEF wait
  <2>2. CASE drv.slot \notin port.ci
    BY <1>1, <1>3, <2>1, <2>2, Zenon DEF CleanInv
  <2>3. CASE port.tfes
    BY <1>3, <2>1, <2>3, Zenon DEF FaultInv
  <2>. QED
    BY <2>1, <2>2, <2>3, Zenon
<1>. QED
  BY <1>4, <1>5, <1>6, Zenon

\* Steps of the hardware that touch neither commands nor data.
LEMMA QuietStep ==
  ASSUME AhciInv, ahci_irq_handler \/ Firmware \/ Engines \/ DeviceReady \/ Poll \/ UNCHANGED vars
  PROVE  AhciInv'
<1>1. AhciType /\ CallInv /\ CleanInv
  BY Zenon DEF AhciInv
<1>2. UNCHANGED <<hw, pc, drv, table, buffer, store, errors, executed>>
  BY Zenon DEF ahci_irq_handler, Firmware, Engines, DeviceReady, Poll, vars
<1>3. port' \in Port /\ port'.ci = port.ci
  BY <1>1, Zenon DEF ahci_irq_handler, Firmware, Engines, DeviceReady, Poll, vars, AhciType, Port
<1>4. dev' \in Device /\ dev'.active = dev.active /\ dev'.done = dev.done
  BY <1>1, Zenon DEF ahci_irq_handler, Firmware, Engines, DeviceReady, Poll, vars, AhciType, Device
<1>5. engine' \in [DOMAIN hw.ports -> Engine]
  <2>1. CASE Engines
    <3>1. \A e \in Engine : [e EXCEPT !.cr = e.st] \in Engine /\ [e EXCEPT !.fr = e.fre] \in Engine
      BY Zenon DEF Engine
    <3>. QED
      BY <1>1, <2>1, <3>1, ZenonT(60) DEF Engines, AhciType
  <2>. QED
    BY <1>1, <2>1, Zenon DEF ahci_irq_handler, Firmware, DeviceReady, Poll, vars, AhciType
<1>6. AhciType'
  BY <1>1, <1>2, <1>3, <1>4, <1>5, Zenon DEF AhciType
<1>7. CallInv'
  BY <1>1, <1>2, <1>3, <1>4, Zenon DEF CallInv
<1>8. CleanInv'
  BY <1>1, <1>2, <1>3, <1>4, Zenon DEF CleanInv, Progress
<1>. QED
  BY <1>6, <1>7, <1>8, Zenon DEF AhciInv

\* The count of the errors goes up to its bound.
LEMMA OneMore ==
  ASSUME NEW e \in 0 .. MaxErrors
  PROVE  Min({e + 1, MaxErrors}) \in 1 .. MaxErrors
<1>1. MaxErrors \in Nat \ {0}
  BY AhciAssumption, Zenon
<1>2. CASE e = MaxErrors
  <2>1. MaxErrors \in {e + 1, MaxErrors} /\ \A y \in {e + 1, MaxErrors} : MaxErrors =< y
    BY <1>1, <1>2
  <2>. QED
    BY <1>1, <1>2, <2>1 DEF Min
<1>3. CASE e < MaxErrors
  <2>1. e + 1 \in {e + 1, MaxErrors} /\ \A y \in {e + 1, MaxErrors} : e + 1 =< y
    BY <1>1, <1>3
  <2>. QED
    BY <1>1, <1>3, <2>1 DEF Min
<1>. QED
  BY <1>1, <1>2, <1>3

LEMMA DeviceMoves ==
  ASSUME dev \in Device, NEW s \in Slots \cup {-1}
  PROVE  LET new == [dev EXCEPT !.active = s, !.done = 0] IN
         new \in Device /\ new.active = s /\ new.done = 0
<1>1. BufferSectors \in Nat
  BY AhciAssumption, Zenon
<1>2. 0 \in 0 .. BufferSectors
  BY <1>1
<1>. QED
  BY <1>2, Zenon DEF Device

\* The device takes a command, moves a sector, completes the command or fails.
LEMMA WorkStep ==
  ASSUME AhciInv, Fetch \/ Work
  PROVE  AhciInv'
<1>1. AhciType /\ CallInv /\ CleanInv
  BY Zenon DEF AhciInv
<1>2. UNCHANGED <<hw, pc, drv, engine, table>>
  BY Zenon DEF Fetch, Work, Transfer, Complete, DeviceError
<1>3. BufferSectors \in Nat /\ MaxErrors \in Nat \ {0}
  BY AhciAssumption, Zenon
<1>4. ASSUME errors = 0, NEW s \in port.ci PROVE pc = "wait" /\ s = drv.slot /\ drv.call \in Calls
  BY <1>1, <1>4, Zenon DEF CleanInv, CallInv, AhciType
<1>5. CASE Fetch
  <2>1. PICK s \in port.ci : dev' = [dev EXCEPT !.active = s, !.done = 0]
    BY <1>5, Zenon DEF Fetch
  <2>2. s \in Slots /\ s # -1 /\ s \in DOMAIN table
    BY <1>1, <2>1 DEF AhciType, Port, Slots, CallInv
  <2>3. dev' \in Device /\ dev'.active = s /\ dev'.done = 0
    BY <1>1, <1>3, <2>1, <2>2, DeviceMoves, Zenon DEF AhciType
  <2>4. /\ port' \in Port /\ port'.ci = port.ci
        /\ UNCHANGED <<buffer, store, errors, executed>>
    BY <1>1, <1>5, Zenon DEF Fetch, AhciType, Port
  <2>5. AhciType'
    BY <1>1, <1>2, <2>3, <2>4, Zenon DEF AhciType
  <2>6. table[s].n \in Nat
    <3>1. PICK c \in Calls : table[s] = Command(c)
      BY <1>1, Zenon DEF CallInv
    <3>. QED
      BY <3>1, CallFacts
  <2>7. CallInv'
    BY <1>1, <1>2, <2>1, <2>3, <2>4, <2>6 DEF CallInv
  <2>8. CleanInv'
    <3>1. ASSUME errors = 0 PROVE dev.active = -1 /\ Progress = 0 /\ Progress' = 0
      BY <1>2, <1>4, <1>5, <2>1, <2>2, <2>3, <2>4, <3>1, Zenon DEF Progress, Fetch
    <3>2. ASSUME errors = 0 PROVE (\A i \in 1 .. Progress : store[drv.call.at + i - 1] = buffer[i])'
      BY <3>1, <3>2
    <3>. QED
      BY <1>1, <1>2, <2>4, <3>2, Zenon DEF CleanInv
  <2>. QED
    BY <2>5, <2>7, <2>8, Zenon DEF AhciInv
<1>6. ASSUME dev.active # -1
      PROVE  /\ dev.active \in port.ci /\ dev.active \in DOMAIN table
             /\ \E c \in Calls : table[dev.active] = Command(c)
  BY <1>1, <1>6, Zenon DEF CallInv
<1>7. CASE Transfer
  <2>1. PICK c \in Calls : table[dev.active] = Command(c)
    BY <1>6, <1>7, Zenon DEF Transfer
  <2>2. /\ dev.active # -1 /\ dev.done < c.n /\ dev.done \in Nat /\ dev.active \in port.ci
        /\ dev' = [dev EXCEPT !.done = @ + 1] /\ UNCHANGED <<port, errors, executed>>
    BY <1>1, <1>3, <1>6, <1>7, <2>1, CallFacts DEF Transfer, AhciType, Device
  <2>3. PICK k \in 1 .. c.n : k = dev.done + 1
    BY <2>2, CallFacts
  <2>4. c.at + dev.done = c.at + k - 1 /\ c.at + k - 1 \in Sectors /\ k \in 1 .. BufferSectors
    BY <2>2, <2>3, CallFacts
  <2>5. \/ c.op = "write" /\ store' = [store EXCEPT ![c.at + k - 1] = buffer[k]] /\ UNCHANGED buffer
        \/ c.op # "write" /\ buffer' = [buffer EXCEPT ![k] = store[c.at + k - 1]] /\ UNCHANGED store
    <3>1. table[dev.active].write = (c.op = "write") /\ table[dev.active].lba = c.at
      BY <2>1, CallFacts
    <3>. QED
      BY <1>7, <2>3, <2>4, <3>1, Zenon DEF Transfer
  <2>6. dev' \in Device /\ dev'.active = dev.active /\ dev'.done = k
    BY <1>1, <2>2, <2>3, <2>4 DEF AhciType, Device
  <2>7. store' \in [Sectors -> Contents] /\ buffer' \in [1 .. BufferSectors -> Contents]
    BY <1>1, <2>4, <2>5, Zenon DEF AhciType
  <2>8. AhciType'
    BY <1>1, <1>2, <2>2, <2>6, <2>7, Zenon DEF AhciType
  <2>9. k <= table[dev.active].n
    BY <2>1, <2>3, CallFacts
  <2>10. CallInv'
    BY <1>1, <1>2, <2>2, <2>6, <2>9, Zenon DEF CallInv
  <2>11. ASSUME errors = 0 PROVE CleanInv'
    <3>1. /\ pc = "wait" /\ dev.active = drv.slot /\ drv.call \in Calls
          /\ Command(c) = Command(drv.call)
      BY <1>1, <1>4, <2>1, <2>2, <2>11, Zenon DEF CallInv
    <3>2. c.at = drv.call.at /\ c.n = drv.call.n /\ (c.op = "write" <=> drv.call.op = "write")
      <4>1. [write |-> c.op = "write", lba |-> c.at, n |-> c.n]
              = [write |-> drv.call.op = "write", lba |-> drv.call.at, n |-> drv.call.n]
        BY <3>1, CallFacts, Zenon
      <4>. QED
        BY <4>1, Zenon
    <3>3. Progress = k - 1 /\ Progress' = k
      BY <1>2, <2>2, <2>3, <2>6, <3>1 DEF Progress
    <3>4. ASSUME NEW i \in 1 .. k PROVE store'[c.at + i - 1] = buffer'[i]
      <4>1. i \in 1 .. BufferSectors /\ c.at + i - 1 \in Sectors /\ c.at \in Nat
        BY <2>3, <2>4, CallFacts
      <4>2. CASE i = k
        BY <1>1, <2>4, <2>5, <4>1, <4>2, Zenon DEF AhciType
      <4>3. CASE i # k
        <5>1. i \in 1 .. (k - 1) /\ c.at + i - 1 # c.at + k - 1
          BY <2>3, <4>1, <4>3
        <5>2. store[c.at + i - 1] = buffer[i]
          BY <1>1, <2>11, <3>1, <3>2, <3>3, <5>1, Zenon DEF CleanInv
        <5>. QED
          BY <1>1, <2>5, <4>1, <4>3, <5>1, <5>2, Zenon DEF AhciType
      <4>. QED
        BY <4>2, <4>3, Zenon
    <3>5. (drv.call.op = "write" => \A i \in 1 .. drv.call.n : buffer[i] = drv.call.data[i])'
      BY <1>1, <1>2, <2>5, <2>11, <3>1, <3>2, CallFacts, Zenon DEF CleanInv
    <3>6. (\A i \in 1 .. Progress : store[drv.call.at + i - 1] = buffer[i])'
      BY <1>2, <3>2, <3>3, <3>4, Zenon
    <3>7. (port.ci \subseteq (IF pc = "wait" THEN {drv.slot} ELSE {}))'
      BY <1>1, <1>2, <2>2, <2>11, Zenon DEF CleanInv
    <3>. QED
      BY <3>5, <3>6, <3>7, Zenon DEF CleanInv
  <2>12. ASSUME errors # 0 PROVE CleanInv'
    BY <2>2, <2>12, Zenon DEF CleanInv
  <2>. QED
    BY <2>8, <2>10, <2>11, <2>12, Zenon DEF AhciInv
<1>8. CASE Complete
  <2>1. PICK c \in Calls : table[dev.active] = Command(c)
    BY <1>6, <1>8, Zenon DEF Complete
  <2>2. /\ dev.active # -1 /\ dev.active \in port.ci /\ dev.done = c.n
        /\ port'.ci = port.ci \ {dev.active} /\ port' \in Port
        /\ dev' \in Device /\ dev'.active = -1
        /\ UNCHANGED <<buffer, store, errors>>
    <3>1. dev.active # -1 /\ dev.active \in port.ci /\ dev.done = c.n
      BY <1>6, <1>8, <2>1, CallFacts DEF Complete
    <3>2. dev' \in Device /\ dev'.active = -1
      BY <1>1, <1>8, DeviceMoves, Zenon DEF Complete, AhciType
    <3>3. port'.ci = port.ci \ {dev.active} /\ port' \in Port
      BY <1>1, <1>8, Zenon DEF Complete, AhciType, Port
    <3>. QED
      BY <1>8, <3>1, <3>2, <3>3, Zenon DEF Complete
  <2>3. executed' \in BOOLEAN /\ (executed \/ dev.active = drv.slot => executed')
    BY <1>1, <1>8, Zenon DEF Complete, AhciType
  <2>4. AhciType'
    BY <1>1, <1>2, <2>2, <2>3, Zenon DEF AhciType
  <2>5. CallInv'
    BY <1>1, <1>2, <2>2, <2>3, Zenon DEF CallInv
  <2>6. ASSUME errors = 0 PROVE CleanInv'
    <3>1. /\ pc = "wait" /\ dev.active = drv.slot /\ drv.call \in Calls
          /\ Command(c) = Command(drv.call)
      BY <1>1, <1>4, <2>1, <2>2, <2>6, Zenon DEF CallInv
    <3>2. c.n = drv.call.n
      <4>1. [write |-> c.op = "write", lba |-> c.at, n |-> c.n]
              = [write |-> drv.call.op = "write", lba |-> drv.call.at, n |-> drv.call.n]
        BY <3>1, CallFacts, Zenon
      <4>. QED
        BY <4>1, Zenon
    <3>3. Progress = c.n /\ Progress' = c.n
      BY <1>2, <2>2, <3>1, <3>2, Zenon DEF Progress
    <3>4. (\A i \in 1 .. Progress : store[drv.call.at + i - 1] = buffer[i])'
      BY <1>1, <1>2, <2>2, <2>6, <3>1, <3>3, Zenon DEF CleanInv
    <3>. QED
      BY <1>1, <1>2, <2>2, <2>6, <3>1, <3>4, Zenon DEF CleanInv
  <2>7. ASSUME errors # 0 PROVE CleanInv'
    BY <2>2, <2>7, Zenon DEF CleanInv
  <2>. QED
    BY <2>4, <2>5, <2>6, <2>7, Zenon DEF AhciInv
<1>9. CASE DeviceError
  <2>1. PICK b \in BOOLEAN, s \in BOOLEAN :
          /\ port' = [port EXCEPT !.tfes = TRUE, !.is = TRUE, !.busy = b]
          /\ dev' = [dev EXCEPT !.active = -1, !.done = 0, !.stopped = s]
    BY <1>9, Zenon DEF DeviceError
  <2>2. port' \in Port /\ port'.ci = port.ci
    BY <1>1, <2>1, Zenon DEF AhciType, Port
  <2>3. dev' \in Device /\ dev'.active = -1
    <3>1. [dev EXCEPT !.active = -1, !.done = 0] \in Device
      BY <1>1, DeviceMoves, Zenon DEF AhciType
    <3>. QED
      BY <2>1, <3>1, Zenon DEF Device
  <2>4. errors' \in 1 .. MaxErrors
    BY <1>1, <1>9, OneMore, Zenon DEF DeviceError, AhciType
  <2>5. UNCHANGED <<buffer, store, executed>>
    BY <1>9, Zenon DEF DeviceError
  <2>6. AhciType'
    BY <1>1, <1>2, <1>3, <2>2, <2>3, <2>4, <2>5 DEF AhciType
  <2>7. CallInv'
    BY <1>1, <1>2, <2>2, <2>3, <2>5, Zenon DEF CallInv
  <2>8. CleanInv'
    BY <2>4 DEF CleanInv
  <2>. QED
    BY <2>6, <2>7, <2>8, Zenon DEF AhciInv
<1>. QED
  BY <1>5, <1>7, <1>8, <1>9, Zenon DEF Work

\* The steps that leave the errors alone, and the one that does not.
LEMMA ErrorsGrow ==
  ASSUME AhciType, [Next]_vars
  PROVE  \/ UNCHANGED errors
         \/ DeviceError /\ errors' \in 1 .. MaxErrors
<1>1. CASE DeviceError
  BY <1>1, OneMore, Zenon DEF DeviceError, AhciType
<1>2. CASE UNCHANGED vars
  BY <1>2, Zenon DEF vars
<1>3. CASE Driver \/ Poll \/ ahci_irq_handler
  BY <1>3, Zenon DEF Driver, Poll, vars, ahci_irq_handler, dev_ahci_bios_os_handoff, dev_ahci_init,
              dev_ahci_stop_cmd, stop_wait, dev_ahci_port_configure, dev_ahci_start_cmd, spin, wait
<1>4. CASE Firmware \/ Engines \/ DeviceReady \/ Fetch \/ Transfer \/ Complete
  BY <1>4, Zenon DEF Firmware, Engines, DeviceReady, Fetch, Transfer, Complete
<1>5. CASE \E w \in Writes : disk_read(w[1], Len(w[2])) \/ disk_write(w[1], w[2])
  BY <1>5, Zenon DEF disk_read, disk_write
<1>. QED
  BY <1>1, <1>2, <1>3, <1>4, <1>5, Zenon DEF Next, Controller, Work

LEMMA FaultStep ==
  ASSUME AhciType, FaultInv, [Next]_vars
  PROVE  FaultInv'
<1>1. CASE DeviceError
  BY <1>1, OneMore DEF DeviceError, AhciType, FaultInv
<1>. SUFFICES ASSUME ~ DeviceError PROVE port'.tfes => port.tfes
  BY <1>1, ErrorsGrow, Zenon DEF FaultInv
<1>2. port = [ci |-> port.ci, tfes |-> port.tfes, is |-> port.is, busy |-> port.busy]
  BY Zenon DEF AhciType, Port
<1>3. CASE Driver \/ Poll \/ ahci_irq_handler \/ UNCHANGED vars
  BY <1>2, <1>3, Zenon DEF Driver, Poll, vars, ahci_irq_handler, dev_ahci_bios_os_handoff,
                    dev_ahci_init, dev_ahci_stop_cmd, stop_wait, dev_ahci_port_configure,
                    dev_ahci_start_cmd, spin, wait
<1>4. CASE Firmware \/ Engines \/ DeviceReady \/ Fetch \/ Transfer \/ Complete
  BY <1>2, <1>4, Zenon DEF Firmware, Engines, DeviceReady, Fetch, Transfer, Complete
<1>5. CASE \E w \in Writes : disk_read(w[1], Len(w[2])) \/ disk_write(w[1], w[2])
  BY <1>2, <1>5, Zenon DEF disk_read, disk_write, NullPort, Submit
<1>. QED
  BY <1>3, <1>4, <1>5, Zenon DEF Next, Controller, Work

\* The invariant that the results below rest on: a slot in use belongs to one call of
\* disk_read or disk_write, and until the first error the buffer and the disk agree.
THEOREM AhciState == Spec => [](AhciInv /\ FaultInv)
<1>1. Init => AhciInv /\ FaultInv
  <2>1. Init => FaultInv
    BY DEF Init, FaultInv
  <2>. QED
    BY <2>1, AhciInit, Zenon
<1>2. AhciInv /\ FaultInv /\ [Next]_vars => (AhciInv /\ FaultInv)'
  <2>. SUFFICES ASSUME AhciInv, FaultInv, [Next]_vars PROVE AhciInv' /\ FaultInv'
    BY Zenon
  <2>1. FaultInv'
    BY FaultStep, Zenon DEF AhciInv
  <2>2. CASE Driver
    BY <2>1, <2>2, SetUpStep, EndStep, Zenon DEF Driver
  <2>3. CASE Fetch \/ Work
    BY <2>1, <2>3, WorkStep, Zenon
  <2>4. CASE ahci_irq_handler \/ Firmware \/ Engines \/ DeviceReady \/ Poll \/ UNCHANGED vars
    BY <2>1, <2>4, QuietStep, Zenon
  <2>5. CASE \E w \in Writes : disk_read(w[1], Len(w[2])) \/ disk_write(w[1], w[2])
    BY <2>1, <2>5, CallStep, Zenon
  <2>. QED
    BY <2>1, <2>2, <2>3, <2>4, <2>5, Zenon DEF Next, Controller
<1>. QED
  BY <1>1, <1>2, PTL DEF Spec

\* Until the device reports an error no slot is left in commandIssue between two
\* calls, also after one that gave up while the device was busy.
THEOREM AhciNoSlotLost == Spec => []NoSlotLost
<1>1. AhciInv => NoSlotLost
  <2>. SUFFICES ASSUME AhciInv PROVE NoSlotLost
    BY Zenon
  <2>1. TypeOK
    <3>1. AhciType
      BY Zenon DEF AhciInv
    <3>2. port.ci \subseteq Slots /\ dev.active \in Slots \cup {-1} /\ dev.done \in 0 .. BufferSectors
      BY <3>1, Zenon DEF AhciType, Port, Device
    <3>3. \A p \in DOMAIN engine :
            {engine[p].clb, engine[p].fb} \subseteq Whole \cup {"half", "empty"}
      BY <3>1, Zenon DEF AhciType, Engine, Lists
    <3>. QED
      BY <3>1, <3>2, <3>3, Zenon DEF AhciType, TypeOK
  <2>2. errors \in Nat
    <3>1. MaxErrors \in Nat
      BY AhciAssumption, Zenon
    <3>. QED
      BY <3>1 DEF AhciInv, AhciType
  <2>3. pc = "ready" /\ ~faulty => port.ci = {}
    BY <2>2 DEF AhciInv, CleanInv, faulty
  <2>. QED
    BY <2>1, <2>3, Zenon DEF NoSlotLost
<1>. QED
  BY <1>1, AhciState, PTL

\* disk_read and disk_write report success only for a command that the device has
\* completed since they issued it, whatever errors came before.
THEOREM AhciNoFalseSuccess == Spec => NoFalseSuccess
<1>1. /\ AhciInv /\ FaultInv /\ (AhciInv /\ FaultInv)' /\ [Next]_vars
      => [drv.call # None /\ drv'.call = None /\ drv'.ret.ok => executed]_vars
  <2>. SUFFICES ASSUME AhciInv, Next, drv.call # None, drv'.call = None, drv'.ret.ok
                PROVE  executed
    BY Zenon
  <2>1. CallInv
    BY Zenon DEF AhciInv
  <2>2. drv.call # None => pc \in {"spin", "wait"}
    BY <2>1, Zenon DEF CallInv
  <2>3. CASE Driver
    BY <2>1, <2>2, <2>3 DEF Driver, dev_ahci_bios_os_handoff, dev_ahci_init, dev_ahci_stop_cmd,
         stop_wait, dev_ahci_port_configure, dev_ahci_start_cmd, spin, wait, Return, CallInv
  <2>4. CASE ahci_irq_handler \/ Controller \/ Poll
    BY <2>4, Zenon DEF ahci_irq_handler, Controller, Poll, vars, Firmware, Engines, DeviceReady, Fetch,
         Work, Transfer, Complete, DeviceError
  <2>5. CASE \E w \in Writes : disk_read(w[1], Len(w[2])) \/ disk_write(w[1], w[2])
    BY <2>2, <2>5, Zenon DEF disk_read, disk_write
  <2>. QED
    BY <2>3, <2>4, <2>5, Zenon DEF Next
<1>. QED
  BY <1>1, AhciState, PTL DEF Spec, NoFalseSuccess

\* One engine changes, and keeps what EngineInv says of it.
LEMMA OneEngine ==
  ASSUME AhciType, EngineInv, NEW x, NEW new,
         engine' = [engine EXCEPT ![x] = new],
         x \in DOMAIN engine => HasLists(new) /\ (x = ports'[cfg'] => Configured(pc', new)),
         x = ports'[cfg'] \/ UNCHANGED <<pc, ports, cfg>>
  PROVE  EngineInv'
<1>1. DOMAIN engine' = DOMAIN engine
  BY Zenon
<1>2. ASSUME NEW p \in DOMAIN engine
      PROVE  HasLists(engine'[p]) /\ (p = ports'[cfg'] => Configured(pc', engine'[p]))
  <2>1. CASE p = x
    BY <1>1, <2>1, Zenon
  <2>2. CASE p # x
    BY <1>1, <2>2, Zenon DEF EngineInv
  <2>. QED
    BY <2>1, <2>2, Zenon
<1>. QED
  BY <1>1, <1>2, Zenon DEF EngineInv, HasLists

\* The steps of the driver on the port it configures, and those of the engines.
LEMMA EngineStep ==
  ASSUME AhciType, EngineInv, [Next]_vars
  PROVE  EngineInv'
<1>. DEFINE x == ports[cfg]
<1>1. \A p \in DOMAIN engine : engine[p] \in Engine /\ HasLists(engine[p])
  BY Zenon DEF AhciType, EngineInv
<1>2. x \in DOMAIN engine => Configured(pc, engine[x])
  BY Zenon DEF EngineInv
<1>3. CASE dev_ahci_stop_cmd
  <2>1. CASE pc = "stop"
    <3>. DEFINE new == [engine[x] EXCEPT !.st = FALSE]
    <3>1. engine' = [engine EXCEPT ![x] = new] /\ pc' = "stopfis" /\ UNCHANGED <<ports, cfg>>
      BY <1>3, <2>1, Zenon DEF dev_ahci_stop_cmd
    <3>2. x \in DOMAIN engine => HasLists(new) /\ Configured(pc', new)
      BY <1>1, <1>2, <2>1, <3>1 DEF HasLists, Configured, Engine, Whole
    <3>. HIDE DEF new
    <3>. QED
      BY <3>1, <3>2, OneEngine, Zenon
  <2>2. CASE pc = "stopfis"
    <3>. DEFINE new == [engine[x] EXCEPT !.fre = FALSE]
    <3>1. engine' = [engine EXCEPT ![x] = new] /\ pc' = "stopping" /\ UNCHANGED <<ports, cfg>>
      BY <1>3, <2>2, Zenon DEF dev_ahci_stop_cmd
    <3>2. x \in DOMAIN engine => HasLists(new) /\ Configured(pc', new)
      BY <1>1, <1>2, <2>2, <3>1 DEF HasLists, Configured, Engine, Whole
    <3>. HIDE DEF new
    <3>. QED
      BY <3>1, <3>2, OneEngine, Zenon
  <2>. QED
    BY <1>3, <2>1, <2>2, Zenon DEF dev_ahci_stop_cmd
<1>4. CASE dev_ahci_port_configure
  <2>1. CASE pc = "clb"
    <3>. DEFINE new == [engine[x] EXCEPT !.clb = "half"]
    <3>1. engine' = [engine EXCEPT ![x] = new] /\ pc' = "clbu" /\ UNCHANGED <<ports, cfg>>
      BY <1>4, <2>1, Zenon DEF dev_ahci_port_configure
    <3>2. x \in DOMAIN engine => HasLists(new) /\ Configured(pc', new)
      BY <1>1, <1>2, <2>1, <3>1 DEF HasLists, Configured, Engine, Whole
    <3>. HIDE DEF new
    <3>. QED
      BY <3>1, <3>2, OneEngine, Zenon
  <2>2. CASE pc = "clbu"
    <3>. DEFINE new == [engine[x] EXCEPT !.clb = "empty"]
    <3>1. engine' = [engine EXCEPT ![x] = new] /\ pc' = "fb" /\ UNCHANGED <<ports, cfg>>
      BY <1>4, <2>2, Zenon DEF dev_ahci_port_configure
    <3>2. x \in DOMAIN engine => HasLists(new) /\ Configured(pc', new)
      BY <1>1, <1>2, <2>2, <3>1 DEF HasLists, Configured, Engine, Whole
    <3>. HIDE DEF new
    <3>. QED
      BY <3>1, <3>2, OneEngine, Zenon
  <2>3. CASE pc = "fb"
    <3>. DEFINE new == [engine[x] EXCEPT !.fb = "half"]
    <3>1. engine' = [engine EXCEPT ![x] = new] /\ pc' = "fbu" /\ UNCHANGED <<ports, cfg>>
      BY <1>4, <2>3, Zenon DEF dev_ahci_port_configure
    <3>2. x \in DOMAIN engine => HasLists(new) /\ Configured(pc', new)
      BY <1>1, <1>2, <2>3, <3>1 DEF HasLists, Configured, Engine, Whole
    <3>. HIDE DEF new
    <3>. QED
      BY <3>1, <3>2, OneEngine, Zenon
  <2>4. CASE pc = "fbu"
    <3>. DEFINE new == [engine[x] EXCEPT !.fb = "driver"]
    <3>1. engine' = [engine EXCEPT ![x] = new] /\ pc' = "headers" /\ UNCHANGED <<ports, cfg>>
      BY <1>4, <2>4, Zenon DEF dev_ahci_port_configure
    <3>2. x \in DOMAIN engine => HasLists(new) /\ Configured(pc', new)
      BY <1>1, <1>2, <2>4, <3>1 DEF HasLists, Configured, Engine, Whole
    <3>. HIDE DEF new
    <3>. QED
      BY <3>1, <3>2, OneEngine, Zenon
  <2>5. CASE pc = "headers"
    <3>. DEFINE new == [engine[x] EXCEPT !.clb = "driver"]
    <3>1. engine' = [engine EXCEPT ![x] = new] /\ pc' = "start" /\ UNCHANGED <<ports, cfg>>
      BY <1>4, <2>5, Zenon DEF dev_ahci_port_configure
    <3>2. x \in DOMAIN engine => HasLists(new) /\ Configured(pc', new)
      BY <1>1, <1>2, <2>5, <3>1 DEF HasLists, Configured, Engine, Whole
    <3>. HIDE DEF new
    <3>. QED
      BY <3>1, <3>2, OneEngine, Zenon
  <2>. QED
    BY <1>4, <2>1, <2>2, <2>3, <2>4, <2>5, Zenon DEF dev_ahci_port_configure
<1>5. CASE dev_ahci_start_cmd
  <2>1. CASE pc = "start"
    <3>. DEFINE new == [engine[x] EXCEPT !.fre = TRUE]
    <3>1. engine' = [engine EXCEPT ![x] = new] /\ pc' = "startcmd" /\ UNCHANGED <<ports, cfg>>
      BY <1>5, <2>1, Zenon DEF dev_ahci_start_cmd
    <3>2. x \in DOMAIN engine => HasLists(new) /\ Configured(pc', new)
      BY <1>1, <1>2, <2>1, <3>1 DEF HasLists, Configured, Engine, Whole
    <3>. HIDE DEF new
    <3>. QED
      BY <3>1, <3>2, OneEngine, Zenon
  <2>2. CASE pc = "startcmd"
    <3>. DEFINE new == [engine[x] EXCEPT !.st = TRUE]
    <3>1. engine' = [engine EXCEPT ![x] = new] /\ pc' \in {"ready", "stop"}
      BY <1>5, <2>2, Zenon DEF dev_ahci_start_cmd
    <3>2. x \in DOMAIN engine => HasLists(new)
      BY <1>1, <1>2, <2>2, <3>1 DEF HasLists, Configured, Engine, Whole
    <3>3. \A e : Configured(pc', e)
      BY <3>1 DEF Configured
    <3>4. ASSUME NEW p \in DOMAIN engine
          PROVE  HasLists(engine'[p])
      BY <1>1, <3>1, <3>2, Zenon
    <3>5. DOMAIN engine' = DOMAIN engine
      BY <3>1, Zenon
    <3>. HIDE DEF new
    <3>. QED
      BY <3>3, <3>4, <3>5, Zenon DEF EngineInv, HasLists
  <2>. QED
    BY <1>5, <2>1, <2>2, Zenon DEF dev_ahci_start_cmd
<1>6. ASSUME UNCHANGED engine,
             ports'[cfg'] \in DOMAIN engine => Configured(pc', engine[ports'[cfg']])
      PROVE  EngineInv'
  BY <1>1, <1>6, Zenon DEF EngineInv, HasLists
<1>7. CASE stop_wait
  <2>1. x \in DOMAIN engine => Configured(pc', engine[x])
    BY <1>1, <1>2, <1>7 DEF stop_wait, Configured, Engine
  <2>2. UNCHANGED <<engine, ports, cfg>>
    BY <1>7, Zenon DEF stop_wait
  <2>. QED
    BY <1>6, <2>1, <2>2, Zenon
<1>8. CASE Engines
  <2>1. PICK p \in DOMAIN engine :
          \/ engine' = [engine EXCEPT ![p].cr = engine[p].st]
          \/ engine' = [engine EXCEPT ![p].fr = engine[p].fre]
    BY <1>8, Zenon DEF Engines
  <2>2. UNCHANGED <<pc, ports, cfg>>
    BY <1>8, Zenon DEF Engines
  <2>3. ASSUME NEW new \in {[engine[p] EXCEPT !.cr = engine[p].st], [engine[p] EXCEPT !.fr = engine[p].fre]}
        PROVE  HasLists(new) /\ (p = x => Configured(pc, new))
    <3>1. engine[p] \in Engine /\ HasLists(engine[p]) /\ (p = x => Configured(pc, engine[p]))
      BY <1>1, <1>2, Zenon
    <3>2. HasLists(new)
      BY <3>1 DEF HasLists, Engine
    <3>3. p = x => Configured(pc, new)
      BY <3>1 DEF Configured, Engine
    <3>. QED
      BY <3>2, <3>3, Zenon
  <2>. QED
    BY <2>1, <2>2, <2>3, OneEngine, Zenon
<1>9. CASE \/ dev_ahci_bios_os_handoff \/ dev_ahci_init \/ spin \/ wait
           \/ \E w \in Writes : disk_read(w[1], Len(w[2])) \/ disk_write(w[1], w[2])
  <2>1. /\ UNCHANGED engine
        /\ pc' \in {"owned", "release", "route", "noroute", "ready", "stop", "spin", "wait", "wild"}
    BY <1>9, Zenon DEF dev_ahci_bios_os_handoff, dev_ahci_init, spin, wait, disk_read, disk_write,
                       NullPort, Submit
  <2>2. \A e : Configured(pc', e)
    BY <2>1 DEF Configured
  <2>. QED
    BY <1>6, <2>1, <2>2, Zenon
<1>10. CASE UNCHANGED <<engine, pc, ports, cfg>>
  BY <1>2, <1>6, <1>10, Zenon
<1>11. CASE ahci_irq_handler \/ Poll \/ UNCHANGED vars \/ Firmware \/ DeviceReady \/ Fetch \/ Work
  BY <1>10, <1>11, Zenon DEF ahci_irq_handler, Poll, vars, Firmware, DeviceReady, Fetch, Work, Transfer,
                             Complete, DeviceError
<1>. QED
  BY <1>3, <1>4, <1>5, <1>7, <1>8, <1>9, <1>11, Zenon DEF Next, Driver, Controller

\* No engine of any port runs with a list that is not whole: stop_wait sees both
\* engines of the firmware idle before the first store of dev_ahci_port_configure,
\* and dev_ahci_start_cmd comes after the last.
THEOREM AhciListsWhole == Spec => []ListsWhole
<1>1. Init => EngineInv
  BY DEF Init, EngineInv, HasLists, Configured, Whole
<1>2. AhciInv /\ EngineInv /\ [Next]_vars => EngineInv'
  BY EngineStep, Zenon DEF AhciInv
<1>3. EngineInv => ListsWhole
  BY Zenon DEF EngineInv, HasLists, ListsWhole
<1>. QED
  BY <1>1, <1>2, <1>3, AhciState, PTL DEF Spec

-----------------------------------------------------------------------------
\* That the driver implements Disk: each of its steps is one of Disk or none.

\* A call is taken or refused.
LEMMA CallSimulates ==
  ASSUME AhciInv, NEW w \in Writes, disk_read(w[1], Len(w[2])) \/ disk_write(w[1], w[2])
  PROVE  [D!Next]_(D!vars)
<1>1. drv.call = None /\ drv = [call |-> drv.call, slot |-> drv.slot, ret |-> drv.ret]
  BY Zenon DEF AhciInv, AhciType, CallInv, disk_read, disk_write
<1>2. UNCHANGED store /\ UNCHANGED faulty /\ begun = FALSE /\ begun' = FALSE
  BY Zenon DEF disk_read, disk_write, faulty, begun, NullPort, Submit
<1>3. CASE NullPort
  BY <1>2, <1>3, Zenon DEF NullPort, D!vars
<1>4. ASSUME NEW c \in Calls, Submit(c) PROVE D!Next
  <2>1. CASE dev_ahci_find_cmdslot = -1
    <3>1. drv'.call = None /\ drv'.ret = [ok |-> FALSE, data |-> <<>>]
      BY <1>4, <2>1 DEF Submit, Return
    <3>. QED
      BY <1>2, <3>1, Zenon DEF D!Next, D!Refuse
  <2>2. CASE dev_ahci_find_cmdslot # -1
    <3>1. drv'.call = c /\ drv'.ret = drv.ret
      BY <1>1, <1>4, <2>2, Zenon DEF Submit
    <3>2. c # None
      BY CallFacts, Zenon
    <3>. QED
      BY <1>1, <1>2, <3>1, <3>2, Zenon DEF D!Next, D!Call
  <2>. QED
    BY <2>1, <2>2, Zenon
<1>5. CASE disk_read(w[1], Len(w[2])) /\ ~ NullPort
  <2>1. [op |-> "read", at |-> w[1], n |-> Len(w[2]), data |-> <<>>] \in Calls
    BY Zenon DEF Calls
  <2>. QED
    BY <1>4, <1>5, <2>1, Zenon DEF disk_read
<1>6. CASE disk_write(w[1], w[2]) /\ ~ NullPort
  <2>1. [op |-> "write", at |-> w[1], n |-> Len(w[2]), data |-> w[2]] \in Calls
    BY Zenon DEF Calls
  <2>. QED
    BY <1>4, <1>6, <2>1, Zenon DEF disk_write
<1>. QED
  BY <1>3, <1>5, <1>6, Zenon

\* A call that returns before the first error has what it was for, or is refused.
LEMMA EndSimulates ==
  ASSUME AhciInv, FaultInv, errors = 0, spin \/ wait
  PROVE  [D!Next]_(D!vars)
<1>1. AhciType /\ CallInv /\ CleanInv
  BY Zenon DEF AhciInv
<1>2. UNCHANGED store /\ UNCHANGED faulty
  BY Zenon DEF spin, wait, faulty
<1>3. CASE spin
  <2>1. CASE pc' = "wait" /\ UNCHANGED drv
    <3>1. begun = FALSE /\ begun' = TRUE /\ drv.call # None
      BY <1>1, <1>3, <2>1, Zenon DEF spin, begun, CallInv
    <3>. QED
      BY <1>2, <2>1, <3>1, Zenon DEF D!Next, D!Begin
  <2>2. CASE pc' = "ready" /\ Return(FALSE, <<>>)
    <3>1. begun = FALSE /\ begun' = FALSE
      BY <1>3, <2>2, Zenon DEF spin, begun
    <3>. QED
      BY <1>2, <2>2, <3>1, Zenon DEF Return, D!Next, D!Refuse
  <2>. QED
    BY <1>3, <2>1, <2>2, Zenon DEF spin
<1>4. CASE wait
  <2>1. PICK c \in Calls : c = drv.call
    BY <1>1, <1>4, Zenon DEF wait, AhciType, CallInv
  <2>2. drv.slot \notin port.ci /\ ~ port.tfes
    BY <1>4, Zenon DEF wait, FaultInv
  <2>3. /\ drv'.call = None
        /\ c.op = "read" => drv'.ret = [ok |-> TRUE, data |-> SubSeq(buffer, 1, c.n)]
        /\ c.op # "read" => drv'.ret = [ok |-> TRUE, data |-> <<>>]
    <3>1. Return(TRUE, IF c.op = "read" THEN SubSeq(buffer, 1, c.n) ELSE <<>>)
      BY <1>4, <2>1, <2>2, Zenon DEF wait
    <3>. QED
      BY <3>1, Zenon DEF Return
  <2>. DEFINE R == [i \in 1 .. c.n |-> store[c.at + i - 1]]
  <2>4. \A i \in 1 .. c.n : store[c.at + i - 1] = buffer[i]
    BY <1>1, <1>4, <2>1, <2>2, Zenon DEF CleanInv, Progress, wait
  <2>5. D!Range(drv.call) = R
    BY <2>1, Zenon DEF D!Range
  <2>6. /\ c # None /\ c.op \in {"read", "write"}
        /\ c.n \in 1 .. BufferSectors /\ c.n \in Nat /\ BufferSectors \in Nat
        /\ c.op = "write" => c.data \in Seq(Contents) /\ Len(c.data) = c.n
    BY CallFacts, Zenon
  <2>. begun = TRUE /\ begun' = FALSE
    BY <1>4, Zenon DEF wait, begun
  <2>7. CASE c.op = "read"
    <3>1. buffer \in Seq(Contents) /\ Len(buffer) = BufferSectors
      BY <1>1, <2>6, LenProperties DEF AhciType
    <3>2. SubSeq(buffer, 1, c.n) = [i \in 1 .. c.n |-> buffer[i]]
      BY <2>6, <3>1, SubSeqProperties
    <3>3. SubSeq(buffer, 1, c.n) = R
      BY <2>4, <3>2, Zenon
    <3>4. D!Return
      BY <1>2, <2>1, <2>3, <2>5, <2>6, <2>7, <3>3, Zenon DEF D!Return
    <3>. QED
      BY <3>4, Zenon DEF D!Next
  <2>8. CASE c.op = "write"
    <3>1. \A i \in 1 .. c.n : buffer[i] = c.data[i]
      BY <1>1, <2>1, <2>6, <2>8, Zenon DEF CleanInv
    <3>2. c.data = [i \in 1 .. c.n |-> c.data[i]]
      BY <2>6, <2>8
    <3>3. R = c.data
      BY <2>4, <3>1, <3>2, ZenonT(60)
    <3>4. D!Return
      BY <1>2, <2>1, <2>3, <2>5, <2>6, <2>8, <3>3, Zenon DEF D!Return
    <3>. QED
      BY <3>4, Zenon DEF D!Next
  <2>. QED
    BY <2>6, <2>7, <2>8, Zenon
<1>. QED
  BY <1>3, <1>4, Zenon

\* Before the first error the device stores what the call has written.
LEMMA TransferSimulates ==
  ASSUME AhciInv, errors = 0, Transfer
  PROVE  [D!Next]_(D!vars)
<1>1. AhciType /\ CallInv /\ CleanInv
  BY Zenon DEF AhciInv
<1>2. UNCHANGED drv /\ UNCHANGED faulty /\ UNCHANGED begun
  BY Zenon DEF Transfer, faulty, begun
<1>3. dev.active \in port.ci /\ dev.active = drv.slot /\ pc = "wait"
  BY <1>1, Zenon DEF Transfer, CallInv, CleanInv
<1>4. PICK c \in Calls : c = drv.call
  BY <1>1, <1>3, Zenon DEF AhciType, CallInv
<1>5. /\ c # None /\ c.op \in {"read", "write"} /\ c.n \in Nat
      /\ Command(c) = [write |-> c.op = "write", lba |-> c.at, n |-> c.n]
      /\ c.at \in Nat
  BY CallFacts, Zenon
<1>6. table[dev.active] = Command(c)
  BY <1>1, <1>3, <1>4, <1>5, Zenon DEF CallInv
<1>7. dev.done \in Nat /\ dev.done < c.n
  <2>1. BufferSectors \in Nat /\ dev.done \in 0 .. BufferSectors
    BY <1>1, CallFacts, <1>4, Zenon DEF AhciType, Device
  <2>. QED
    BY <1>5, <1>6, <2>1 DEF Transfer
<1>8. table[dev.active].write = (c.op = "write") /\ table[dev.active].lba = c.at
  BY <1>5, <1>6
<1>9. CASE c.op = "read"
  BY <1>2, <1>8, <1>9, Zenon DEF Transfer, D!vars
<1>10. CASE c.op = "write"
  <2>1. PICK i \in 1 .. c.n : i = dev.done + 1 /\ c.at + i - 1 = c.at + dev.done
    BY <1>5, <1>7
  <2>2. store' = [store EXCEPT ![c.at + i - 1] = buffer[i]]
    BY <1>8, <1>10, <2>1, ZenonT(60) DEF Transfer
  <2>3. buffer[i] = c.data[i]
    BY <1>1, <1>4, <1>5, <1>10, Zenon DEF CleanInv
  <2>4. D!StoreOne
    BY <1>2, <1>3, <1>4, <1>5, <1>10, <2>2, <2>3, Zenon DEF D!StoreOne, begun
  <2>. QED
    BY <2>4, Zenon DEF D!Next
<1>. QED
  BY <1>5, <1>9, <1>10, Zenon

\* disk_read and disk_write over the AHCI driver implement Disk: until the device
\* reports an error a read returns what the writes have stored, for every transfer
\* and every controller, and a refused call has changed nothing.
THEOREM AhciDisk == Spec => DiskSpec
<1>1. Init => D!Init
  BY DEF Init, D!Init, faulty, begun
<1>2. AhciInv /\ FaultInv /\ [Next]_vars => [D!Next]_(D!vars)
  <2>. SUFFICES ASSUME AhciInv, FaultInv, [Next]_vars PROVE [D!Next]_(D!vars)
    BY Zenon
  <2>1. errors \in Nat /\ MaxErrors \in Nat /\ AhciType
    <3>1. MaxErrors \in Nat
      BY AhciAssumption, Zenon
    <3>. QED
      BY <3>1 DEF AhciInv, AhciType
  <2>2. CASE errors # 0
    <3>1. errors > 0 /\ errors' > 0
      BY <2>1, <2>2, ErrorsGrow
    <3>. QED
      BY <3>1, Zenon DEF D!Next, D!Anything, faulty
  <2>3. CASE DeviceError
    <3>1. errors' > 0
      BY <2>1, <2>3, OneMore DEF DeviceError, AhciType
    <3>. QED
      BY <2>3, <3>1, Zenon DEF DeviceError, faulty, begun, D!Next, D!Fault
  <2>. SUFFICES ASSUME errors = 0 PROVE [D!Next]_(D!vars)
    BY <2>2, Zenon
  <2>4. CASE spin \/ wait
    BY <2>4, EndSimulates, Zenon
  <2>5. CASE Transfer
    BY <2>5, TransferSimulates, Zenon
  <2>6. CASE \E w \in Writes : disk_read(w[1], Len(w[2])) \/ disk_write(w[1], w[2])
    BY <2>6, CallSimulates, Zenon
  <2>7. CASE UNCHANGED <<drv, store, errors>> /\ UNCHANGED begun
    BY <2>7, Zenon DEF D!vars, faulty
  <2>8. CASE Driver /\ ~ (spin \/ wait)
    BY <2>7, <2>8, Zenon DEF Driver, dev_ahci_bios_os_handoff, dev_ahci_init, dev_ahci_stop_cmd,
         stop_wait, dev_ahci_port_configure, dev_ahci_start_cmd, begun
  <2>9. CASE ahci_irq_handler \/ Poll \/ UNCHANGED vars \/ Firmware \/ Engines \/ DeviceReady
             \/ Fetch \/ Complete
    BY <2>7, <2>9, Zenon DEF ahci_irq_handler, Poll, vars, Firmware, Engines, DeviceReady, Fetch,
         Complete, begun
  <2>. QED
    BY <2>3, <2>4, <2>5, <2>6, <2>8, <2>9, Zenon DEF Next, Controller, Work
<1>. QED
  BY <1>1, <1>2, AhciState, PTL DEF Spec, DiskSpec, D!Spec
=============================================================================
