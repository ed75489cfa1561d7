----------------------------- MODULE BootProofs -----------------------------
(***************************************************************************)
(* The boot for every machine, every set of pins and every way in which    *)
(* the firmware's memory map may change.                                   *)
(***************************************************************************)
EXTENDS Boot, TLAPS

Maps == [version : Nat, size : Nat]

\* The memory map on its way to the kernel.  A map with the firmware's version is
\* the firmware's map; from GetMap to RefreshMap, MapSize is the size of the map
\* in the buffer; at ExitBootServices it is so unless the key is stale.
EfiInv ==
  /\ efi \in {"probe", "allocate", "get", "rsdp", "refresh", "exit", "started", "stuck"}
  /\ firmware \in Maps
  /\ Map \in Maps \cup {Unknown} /\ MapKey = Map.version
  /\ MapSize \in Nat /\ capacity \in Nat
  /\ Map \in Maps => /\ Map.version <= firmware.version
                     /\ Map.version = firmware.version => Map = firmware
  /\ efi \in {"rsdp", "refresh"} => Map \in Maps /\ MapSize = Map.size /\ MapSize <= capacity
  /\ efi = "get" => MapSize = capacity
  /\ efi \in {"exit", "started"} /\ MapKey = firmware.version =>
       MapSize = firmware.size /\ MapSize <= capacity
  /\ efi = "started" => MapKey = firmware.version
  /\ efi \in {"refresh", "exit", "started"} /\ (\E i \in DOMAIN tables : tables[i] = "valid")
       => rsdp = "valid"

LEMMA EfiInit == InitBootloader => EfiInv
BY DEF InitBootloader, EfiInv, Maps, Unknown

\* What a change of the firmware's map leaves true of the copy in the buffer.
LEMMA EfiNewMap ==
  ASSUME EfiInv, NewMap
  PROVE  /\ firmware' \in Maps /\ firmware'.version > firmware.version
         /\ Map \in Maps => Map.version < firmware'.version
         /\ MapKey # firmware'.version
BY DEF NewMap, EfiInv, Maps, Unknown

\* A call of GetMemoryMap on the current map.
LEMMA EfiGetMemoryMap ==
  ASSUME EfiInv, GetMemoryMap, UNCHANGED firmware
  PROVE  /\ Map' \in Maps \cup {Unknown} /\ MapKey' = Map'.version
         /\ MapSize' = firmware.size /\ MapSize' \in Nat
         /\ Map' \in Maps => /\ Map'.version <= firmware'.version
                             /\ Map'.version = firmware'.version => Map' = firmware'
         /\ ~BufferTooSmall => Map' = firmware /\ firmware.size <= MapSize
         /\ BufferTooSmall => Map' = Map /\ firmware.size > MapSize
BY DEF GetMemoryMap, EfiInv, Maps, Unknown, BufferTooSmall

LEMMA EfiStep == EfiInv /\ [efi_main \/ FirmwareEvent]_efiVars => EfiInv'
<1>. SUFFICES ASSUME EfiInv, [efi_main \/ FirmwareEvent]_efiVars PROVE EfiInv'
  BY Zenon
<1>1. CASE ProbeSize
  BY <1>1, EfiGetMemoryMap, Zenon DEF ProbeSize, Go, EfiInv
<1>2. CASE AllocateMap
  <2>1. /\ MapSize' = MapSize + 2 /\ UNCHANGED <<tables, Map, MapKey, rsdp>>
        /\ \/ efi' = "get" /\ capacity' = MapSize'
           \/ efi' = "stuck" /\ capacity' = capacity
    BY <1>2, Zenon DEF AllocateMap, Go
  <2>2. CASE NewMap
    BY <2>1, <2>2, EfiNewMap DEF EfiInv, Maps
  <2>3. CASE UNCHANGED firmware
    BY <2>1, <2>3 DEF EfiInv
  <2>. QED
    BY <1>2, <2>2, <2>3, Zenon DEF AllocateMap, MapChanges
<1>3. CASE GetMap
  <2>1. UNCHANGED <<firmware, tables, capacity, rsdp>> /\ GetMemoryMap /\ efi = "get"
    BY <1>3, Zenon DEF GetMap, Go
  <2>2. CASE BufferTooSmall
    <3>1. efi' = "stuck"
      BY <1>3, <2>2, Zenon DEF GetMap, Go
    <3>. QED
      BY <2>1, <3>1, EfiGetMemoryMap, Zenon DEF EfiInv
  <2>3. CASE ~BufferTooSmall
    <3>1. efi' = "rsdp"
      BY <1>3, <2>3, Zenon DEF GetMap, Go
    <3>2. Map' = firmware /\ firmware.size <= MapSize
      BY <2>1, <2>3, EfiGetMemoryMap, Zenon
    <3>. QED
      BY <2>1, <3>1, <3>2, EfiGetMemoryMap, Zenon DEF EfiInv
  <2>. QED
    BY <2>2, <2>3, Zenon
<1>4. CASE FindRsdp
  <2>1. /\ efi = "rsdp" /\ efi' = "refresh"
        /\ UNCHANGED <<tables, Map, MapSize, MapKey, capacity>>
        /\ (\E i \in DOMAIN tables' : tables'[i] = "valid") => rsdp' = "valid"
    BY <1>4, Zenon DEF FindRsdp, Go
  <2>2. CASE NewMap
    BY <2>1, <2>2, EfiNewMap DEF EfiInv, Maps
  <2>3. CASE UNCHANGED firmware
    BY <2>1, <2>3, Zenon DEF EfiInv
  <2>. QED
    BY <1>4, <2>2, <2>3, Zenon DEF FindRsdp, MapChanges
<1>5. CASE RefreshMap
  <2>1. /\ UNCHANGED <<firmware, tables, capacity, rsdp>> /\ GetMemoryMap
        /\ efi = "refresh" /\ efi' = "exit"
    BY <1>5, Zenon DEF RefreshMap, Go
  <2>2. CASE BufferTooSmall
    <3>1. Map' = Map /\ MapKey' = Map.version /\ firmware.size > Map.size
      BY <2>1, <2>2, EfiGetMemoryMap, Zenon DEF EfiInv
    <3>2. MapKey' # firmware'.version
      BY <2>1, <3>1 DEF EfiInv, Maps
    <3>. QED
      BY <2>1, <3>2, EfiGetMemoryMap, Zenon DEF EfiInv
  <2>3. CASE ~BufferTooSmall
    <3>1. Map' = firmware /\ firmware.size <= MapSize
      BY <2>1, <2>3, EfiGetMemoryMap, Zenon
    <3>2. MapSize' <= capacity'
      BY <2>1, <3>1, EfiGetMemoryMap DEF EfiInv
    <3>. QED
      BY <2>1, <3>2, EfiGetMemoryMap, Zenon DEF EfiInv
  <2>. QED
    BY <2>2, <2>3, Zenon
<1>6. CASE ExitBootServices
  BY <1>6, Zenon DEF ExitBootServices, Go, EfiInv
<1>7. CASE FirmwareEvent
  <2>1. /\ efi \notin {"started", "stuck"} /\ NewMap
        /\ UNCHANGED <<efi, tables, Map, MapSize, MapKey, capacity, rsdp>>
    BY <1>7, Zenon DEF FirmwareEvent
  <2>. QED
    BY <2>1, EfiNewMap DEF EfiInv, Maps
<1>8. CASE UNCHANGED efiVars
  BY <1>8, Zenon DEF efiVars, EfiInv
<1>. QED
  BY <1>1, <1>2, <1>3, <1>4, <1>5, <1>6, <1>7, <1>8, Zenon DEF efi_main

-----------------------------------------------------------------------------
(* The kernel: an invariant for each of its concerns.                      *)

Places == Nat \X (0..(Devices - 1)) \X (0..(Functions - 1))
Late == {"hpet", "pci", "mount", "init", "idle"}
Over == {"stopped", "page_fault", "no_gate"}

\* The types, with the counters inside their ranges.
KernelType ==
  /\ m \in Machines
  /\ pc \in {"idt", "acpi", "fadt", "lapic", "ioapic"} \cup Late \cup Over
  /\ gates \in [Vectors -> Handlers \cup {None}]
  /\ entries \in [Pins -> Vectors \cup {None}]
  /\ found \in SUBSET {"lapic", "ioapic", "hpet"} /\ reach \in SUBSET DOMAIN m.sdt
  /\ at \in Places /\ at[1] <= m.end_bus
  /\ driver \in {"none", "gate", "entry", "test", "set"}
  /\ attached \in [Drivers -> DOMAIN m.pci \cup {None}]
  /\ msi \in {"off", "on", "raised"}

\* The ACPI tables: paging_init's map is never undone, and acpi_init extends it
\* to all tables of an RSDT.
TableInv ==
  /\ {i \in DOMAIN m.sdt : m.sdt[i].mapped} \subseteq reach
  /\ pc \in {"fadt", "lapic", "ioapic"} \cup Late /\ m.revision = 0 => reach = DOMAIN m.sdt
  /\ TablesMapped

\* What each stage of the boot can rely on.
StageInv ==
  /\ pc \in {"idt", "acpi", "fadt", "lapic", "ioapic"} => "ioapic" \notin found
  /\ pc = "ioapic" \/ "ioapic" \in found => "lapic" \in found
  /\ pc \in Late => "ioapic" \in found
  /\ pc \notin {"pci", "mount", "init", "idle"} \cup Over =>
       /\ "hpet" \notin found /\ driver = "none" /\ msi = "off" /\ vector = 144
       /\ attached = [d \in Drivers |-> None] /\ at = <<0, 0, 0>>
       /\ gates[144] = None /\ gates[145] = None
  /\ pc \in {"mount", "init", "idle"} => driver = "none"
  /\ pc # "idt" => gates[32] = "timer" /\ gates[33] = "keyboard"
  /\ gates[160] \in {None, "edu"}
  /\ \A p \in Pins : entries[p] # None => "ioapic" \in found
  /\ msi # "off" => "lapic" \in found /\ \E f \in DOMAIN m.pci : m.pci[f].kind = "edu"
  /\ GateBeforeInterrupt

\* A driver has a vector from SetGate on, and keeps it when its function has a
\* route.
Routed(d) ==
  \/ attached[d] # None /\ m.pci[attached[d]].pin # None
  \/ driver = "entry" /\ Kind = d
Count(d) == IF Routed(d) THEN 1 ELSE 0

\* The driver being set up, and the vectors given out.
DriverInv ==
  /\ driver # "none" => at \in Visible
  /\ driver \in {"test", "set"} => Kind = "edu"
  /\ driver = "gate" => Kind \in Drivers /\ ~Taken(Kind)
  /\ driver = "entry" =>
       /\ Kind \in Drivers /\ Pin # None
       /\ irq_num \in {144, 145} /\ gates[irq_num] = Kind
       /\ Kind = "ahci" => attached["ahci"] = at
       /\ Kind = "e1000" => ~Taken("e1000")
  /\ Taken("e1000") => m.pci[attached["e1000"]].pin # None
  /\ vector = 144 + Count("ahci") + Count("e1000")
  /\ \A v \in {144, 145} : IF v < vector THEN gates[v] \in Drivers ELSE gates[v] = None

Sources == {"timer", "keyboard"} \cup Drivers

\* The redirection entries.  Each leads to a gate that is set; on a routable
\* machine it is the entry of an active source on that pin, and every source
\* that has been set up has one.
LineInv ==
  /\ \A p \in Pins : entries[p] # None =>
       entries[p] \in {32, 33, 144, 145} /\ gates[entries[p]] \in Sources
  /\ Routable =>
       /\ \A p \in Pins : entries[p] # None =>
            Active(gates[entries[p]]) /\ Line(gates[entries[p]]) = p
       /\ "hpet" \in found => entries[Line("timer")] # None
       /\ pc \in {"init", "idle"} => entries[Line("keyboard")] # None
       /\ \A d \in Drivers :
            Routed(d) /\ ~(driver = "entry" /\ Kind = d) => entries[Line(d)] # None

\* The interrupts so far came from active sources, which stay active.
ReachedInv ==
  /\ \A r \in reached :
       r[1] \in DOMAIN IsaIrq \cup Drivers \cup {"edu"} /\ Active(r[1])
  /\ OwnHandler

\* The functions a driver can take.
Candidates(d) ==
  {f \in Visible : m.pci[f].kind = d /\ (d = "e1000" => m.pci[f].pin # None)}

\* The enumeration has passed every candidate that comes before at: a driver
\* that has none yet has missed none, one that has taken a function has taken
\* the first.
EnumInv ==
  /\ \A d \in Drivers :
       IF Taken(d)
       THEN /\ attached[d] \in Candidates(d)
            /\ \A f \in Candidates(d) \ {attached[d]} : Before(attached[d], f)
       ELSE \A f \in Candidates(d) : ~Before(f, at)
  /\ pc \in {"mount", "init", "idle"} /\ Has("MCFG") => at[1] >= m.end_bus

KernelInv ==
  /\ KernelType /\ TableInv /\ StageInv /\ DriverInv
  /\ LineInv /\ ReachedInv /\ EnumInv

\* The vectors of the interrupts are not the EDU device's.
LEMMA VectorFacts == \A v \in {32, 33, 144, 145} : v \in Vectors /\ v # 160
BY DEF Vectors

\* What the assumption says of the machine that is started.
LEMMA MachineFacts ==
  ASSUME m \in Machines
  PROVE  /\ m.revision \in Nat /\ m.base \in Nat /\ m.end_bus \in Nat
         /\ \A i \in DOMAIN m.sdt : m.sdt[i].mapped \in BOOLEAN
         /\ \A irq \in DOMAIN m.wire : m.wire[irq] \in Pins
         /\ None \notin DOMAIN m.pci
         /\ \A f \in DOMAIN m.pci :
              /\ f \in Places /\ m.pci[f].pin \in Pins \cup {None}
              /\ f[1] \in Nat /\ f[2] \in 0..(Devices - 1) /\ f[3] \in 0..(Functions - 1)
BY BootAssumption, Zenon DEF Places

LEMMA KernelInit == Init => KernelInv
<1>. SUFFICES ASSUME Init PROVE KernelInv
  BY Zenon
<1>0. m \in Machines /\ at = <<0, 0, 0>>
  BY Zenon DEF Init
<1>1. KernelType
  <2>1. at \in Places /\ at[1] <= m.end_bus
    <3>1. <<0, 0, 0>> \in Places
      BY BootAssumption DEF Places
    <3>2. m.end_bus \in Nat
      BY <1>0, MachineFacts, Zenon
    <3>. QED
      BY <1>0, <3>1, <3>2
  <2>2. attached \in [Drivers -> DOMAIN m.pci \cup {None}]
    BY Zenon DEF Init
  <2>. QED
    BY <2>1, <2>2, Zenon DEF Init, KernelType, Late, Over
<1>2. TableInv
  BY Zenon DEF Init, TableInv, TablesMapped, Late
<1>3. StageInv
  BY Zenon DEF Init, StageInv, GateBeforeInterrupt, Late, Over, Vectors
<1>4. DriverInv
  <2>1. \A d \in Drivers : ~Taken(d) /\ ~Routed(d)
    BY Zenon DEF Init, Taken, Routed
  <2>2. Count("ahci") = 0 /\ Count("e1000") = 0
    BY <2>1, Zenon DEF Count, Drivers
  <2>3. gates[144] = None /\ gates[145] = None /\ driver = "none" /\ vector = 144
    BY Zenon DEF Init, Vectors
  <2>. QED
    BY <2>1, <2>2, <2>3 DEF DriverInv, Drivers
<1>5. LineInv
  BY Zenon DEF Init, LineInv, Routed, Vectors, Drivers
<1>6. ReachedInv
  BY Zenon DEF Init, ReachedInv, OwnHandler
<1>7. EnumInv
  <2>1. \A f \in DOMAIN m.pci : ~Before(f, at)
    BY <1>0, MachineFacts DEF Before
  <2>2. \A d \in Drivers : ~Taken(d)
    BY Zenon DEF Init, Taken
  <2>. QED
    BY <2>1, <2>2, Zenon DEF Init, EnumInv, Candidates, Visible
<1>. QED
  BY <1>1, <1>2, <1>3, <1>4, <1>5, <1>6, <1>7, Zenon DEF KernelInv

\* A write to a redirection entry keeps the type of the entries.
LEMMA SetEntryType ==
  ASSUME KernelType, NEW index, NEW v \in Vectors, ioapic_set_entry(index, v)
  PROVE  entries' \in [Pins -> Vectors \cup {None}]
BY Zenon DEF KernelType, ioapic_set_entry

\* The function that comes after the one at hand is a function, and its bus is
\* within bounds.
LEMMA NextInRange ==
  ASSUME NEW b \in Nat, NEW d \in 0..(Devices - 1), NEW f \in 0..(Functions - 1),
         NEW e \in Nat, b < e
  PROVE  /\ NextFunction(b, d, f) \in Places
         /\ NextFunction(b, d, f)[1] <= e
         /\ NextDevice(b, d) \in Places
         /\ NextDevice(b, d)[1] <= e
         /\ NextBus(b) \in Places
         /\ NextBus(b)[1] <= e
BY BootAssumption DEF NextFunction, NextDevice, NextBus, Places

LEMMA ReturnInRange ==
  ASSUME KernelType, at[1] < m.end_bus, Return
  PROVE  /\ at' \in Places /\ at'[1] <= m.end_bus
         /\ driver' = "none"
<1>1. at[1] \in Nat /\ at[2] \in 0..(Devices - 1) /\ at[3] \in 0..(Functions - 1) /\ m.end_bus \in Nat
  BY MachineFacts, Zenon DEF KernelType, Places
<1>. QED
  BY <1>1, NextInRange, Zenon DEF Return, enum_function

\* The steps of the kernel keep the types.
LEMMA KernelTypeStep ==
  ASSUME KernelInv, _start \/ Interrupt
  PROVE  KernelType'
<1>. USE DEF Late, Over
<1>1. KernelType
  BY Zenon DEF KernelInv
<1>2. ASSUME NEW from, NEW to, Step(from, to)
      PROVE  pc = from /\ pc' = to /\ UNCHANGED m
  BY <1>2, Zenon DEF Step
<1>3. CASE idt_init
  <2>1. gates' \in [Vectors -> Handlers \cup {None}]
    BY <1>1, <1>3, Zenon DEF idt_init, KernelType, Vectors, Handlers, IsaIrq
  <2>. QED
    BY <1>1, <1>3, <2>1, Zenon DEF idt_init, KernelType, Step
<1>4. CASE acpi_init
  BY <1>1, <1>4, Zenon DEF acpi_init, MapTables, KernelType, Step
<1>5. CASE fadt
  <2>1. pc' \in {"lapic", "stopped", "page_fault"}
    BY <1>5, Zenon DEF fadt, Step, Found
  <2>2. gates' \in [Vectors -> Handlers \cup {None}]
    BY <1>1, <1>5 DEF fadt, KernelType, Vectors, Handlers, IsaIrq
  <2>3. entries' \in [Pins -> Vectors \cup {None}]
    <3>1. 64 \in Vectors
      BY Zenon DEF Vectors
    <3>. QED
      BY <1>1, <1>5, <3>1, SetEntryType, Zenon DEF fadt, KernelType
  <2>. QED
    BY <1>1, <1>5, <2>1, <2>2, <2>3, Zenon DEF fadt, Step, KernelType
<1>6. CASE lapic_init
  BY <1>1, <1>6, Zenon DEF lapic_init, Found, Step, KernelType
<1>7. CASE ioapic_init
  BY <1>1, <1>7, Zenon DEF ioapic_init, Step, KernelType
<1>8. CASE hpet_init
  <2>1. pc' \in {"pci", "page_fault"}
    BY <1>8, Zenon DEF hpet_init, Step, Found
  <2>2. entries' \in [Pins -> Vectors \cup {None}]
    <3>1. 32 \in Vectors
      BY Zenon DEF Vectors
    <3>. QED
      BY <1>1, <1>8, <3>1, SetEntryType, Zenon DEF hpet_init, KernelType
  <2>. QED
    BY <1>1, <1>8, <2>1, <2>2, Zenon DEF hpet_init, Step, KernelType
<1>9. CASE enum_bus
  <2>1. /\ at[1] \in Nat /\ at[2] \in 0..(Devices - 1) /\ at[3] \in 0..(Functions - 1)
        /\ m.end_bus \in Nat /\ at[1] < m.end_bus /\ UNCHANGED m
    BY <1>1, <1>9, MachineFacts, Zenon DEF KernelType, Places, enum_bus, Step
  <2>2. at' \in Places /\ at'[1] <= m.end_bus
    BY <1>1, <1>9, <2>1, NextInRange, ReturnInRange, Zenon DEF enum_bus, KernelType
  <2>3. driver' \in {"none", "gate", "entry", "test", "set"} /\ msi' \in {"off", "on", "raised"}
    BY <1>1, <1>9, Zenon DEF enum_bus, KernelType, Calls, Return
  <2>. QED
    BY <1>1, <1>9, <2>1, <2>2, <2>3, Zenon DEF enum_bus, Step, KernelType
<1>10. CASE pci_init
  BY <1>1, <1>10, Zenon DEF pci_init, Step, KernelType
<1>11. CASE SetGate
  <2>1. driver = "gate" /\ UNCHANGED m /\ pc' = "pci"
    BY <1>11, Zenon DEF SetGate, Step
  <2>2. at \in Visible /\ at[1] < m.end_bus /\ at \in DOMAIN m.pci /\ Kind \in Drivers
    BY <2>1, Zenon DEF KernelInv, DriverInv, Visible
  <2>3. at' \in Places /\ at'[1] <= m.end_bus /\ driver' \in {"none", "entry"}
    BY <1>1, <1>11, <2>2, ReturnInRange, Zenon DEF SetGate, KernelType
  <2>4. attached' \in [Drivers -> DOMAIN m.pci \cup {None}]
    BY <1>1, <1>11, <2>2, Zenon DEF SetGate, TakeFirst, KernelType
  <2>5. gates' \in [Vectors -> Handlers \cup {None}]
    BY <1>1, <1>11, <2>2, Zenon DEF SetGate, KernelType, Handlers
  <2>. QED
    BY <1>1, <1>11, <2>1, <2>3, <2>4, <2>5, Zenon DEF SetGate, KernelType
<1>12. CASE SetEntry
  <2>1. driver = "entry" /\ UNCHANGED m /\ pc' = "pci"
    BY <1>12, Zenon DEF SetEntry, Step
  <2>2. at \in Visible /\ at[1] < m.end_bus /\ at \in DOMAIN m.pci /\ irq_num \in Vectors
    BY <2>1, Zenon DEF KernelInv, DriverInv, Visible, Vectors
  <2>3. at' \in Places /\ at'[1] <= m.end_bus /\ driver' = "none"
    BY <1>1, <1>12, <2>2, ReturnInRange, Zenon DEF SetEntry
  <2>4. attached' \in [Drivers -> DOMAIN m.pci \cup {None}]
    BY <1>1, <1>12, <2>2, Zenon DEF SetEntry, TakeLast, KernelType
  <2>5. entries' \in [Pins -> Vectors \cup {None}]
    BY <1>1, <1>12, <2>2, SetEntryType, Zenon DEF SetEntry
  <2>. QED
    BY <1>1, <1>12, <2>1, <2>3, <2>4, <2>5, Zenon DEF SetEntry, KernelType
<1>13. CASE edu_test \/ edu_gate
  <2>1. driver \in {"test", "set"} /\ UNCHANGED m /\ pc' = "pci"
    BY <1>13, Zenon DEF edu_test, edu_gate, Step
  <2>2. at[1] < m.end_bus
    BY <2>1, Zenon DEF KernelInv, DriverInv, Visible
  <2>3. at' \in Places /\ at'[1] <= m.end_bus /\ driver' \in {"none", "set"}
    BY <1>1, <1>13, <2>2, ReturnInRange, Zenon DEF edu_test, edu_gate, KernelType
  <2>4. gates' \in [Vectors -> Handlers \cup {None}] /\ msi' \in {"off", "on", "raised"}
    BY <1>1, <1>13, Zenon DEF edu_test, edu_gate, KernelType, Handlers
  <2>. QED
    BY <1>1, <1>13, <2>1, <2>3, <2>4, Zenon DEF edu_test, edu_gate, KernelType
<1>14. CASE keyboard
  <2>1. 33 \in Vectors
    BY Zenon DEF Vectors
  <2>. QED
    BY <1>1, <1>14, <2>1, SetEntryType, Zenon DEF keyboard, Step, KernelType
<1>15. CASE init
  BY <1>1, <1>15, Zenon DEF init, Step, KernelType
<1>16. CASE Interrupt
  BY <1>1, <1>16, Zenon DEF Interrupt, Deliver, KernelType
<1>. QED
  BY <1>3, <1>4, <1>5, <1>6, <1>7, <1>8, <1>9, <1>10, <1>11, <1>12, <1>13, <1>14, <1>15, <1>16, Zenon
  DEF _start

\* A search that meets a header that is not mapped happens only with an XSDT and
\* a table outside paging_init's map.
LEMMA FaultOnlyUnmapped ==
  ASSUME KernelType, TableInv, pc \in {"fadt", "lapic", "hpet", "pci"},
         NEW sig, ~(Reads(sig) \subseteq reach)
  PROVE  m.revision > 0 /\ \E i \in DOMAIN m.sdt : ~m.sdt[i].mapped
<1>1. PICK i \in DOMAIN m.sdt : i \notin reach
  BY Zenon DEF Reads
<1>2. ~m.sdt[i].mapped
  BY <1>1, Zenon DEF TableInv
<1>3. m.revision # 0
  BY <1>1, Zenon DEF TableInv, Late
<1>. QED
  BY <1>2, <1>3, MachineFacts DEF KernelType

\* The tables stay mapped, and no search faults without a reason.
LEMMA TableStep ==
  ASSUME KernelInv, _start \/ Interrupt
  PROVE  TableInv'
<1>1. KernelType /\ TableInv
  BY Zenon DEF KernelInv
<1>2. UNCHANGED m
  BY Zenon DEF _start, idt_init, acpi_init, fadt, lapic_init, ioapic_init, hpet_init, enum_bus,
         pci_init, SetGate, SetEntry, edu_test, edu_gate, keyboard, init, Interrupt, Step
<1>3. CASE idt_init
  BY <1>1, <1>2, <1>3, Zenon DEF idt_init, Step, TableInv, TablesMapped, Late
<1>4. CASE acpi_init
  <2>1. m.revision \in Nat
    BY <1>1, MachineFacts, Zenon DEF KernelType
  <2>. QED
    BY <1>1, <1>2, <1>4, <2>1 DEF acpi_init, MapTables, Step, TableInv, TablesMapped, Late
<1>5. ASSUME UNCHANGED <<m, reach>>, NEW sig,
             pc \in {"fadt", "lapic", "hpet", "pci"},
             \/ pc' \in {"lapic", "ioapic", "pci", "mount", "stopped"}
             \/ pc' = "page_fault" /\ ~(Reads(sig) \subseteq reach)
      PROVE  TableInv'
  BY <1>1, <1>5, FaultOnlyUnmapped, Zenon DEF TableInv, TablesMapped, Late
<1>6. CASE fadt
  <2>1. /\ UNCHANGED <<m, reach>> /\ pc \in {"fadt", "lapic", "hpet", "pci"}
        /\ \/ pc' \in {"lapic", "stopped"}
           \/ pc' = "page_fault" /\ ~(Reads("FACP") \subseteq reach)
    BY <1>6, Zenon DEF fadt, Step, Found
  <2>. QED
    BY <1>5, <2>1
<1>7. CASE lapic_init
  <2>1. /\ UNCHANGED <<m, reach>> /\ pc \in {"fadt", "lapic", "hpet", "pci"}
        /\ \/ pc' \in {"ioapic", "stopped"}
           \/ pc' = "page_fault" /\ ~(Reads("APIC") \subseteq reach)
    BY <1>7, Zenon DEF lapic_init, Step, Found
  <2>. QED
    BY <1>5, <2>1
<1>8. CASE hpet_init
  <2>1. /\ UNCHANGED <<m, reach>> /\ pc \in {"fadt", "lapic", "hpet", "pci"}
        /\ \/ pc' \in {"pci"}
           \/ pc' = "page_fault" /\ ~(Reads("HPET") \subseteq reach)
    BY <1>8, Zenon DEF hpet_init, Step, Found
  <2>. QED
    BY <1>5, <2>1
<1>9. CASE pci_init
  <2>1. /\ UNCHANGED <<m, reach>> /\ pc \in {"fadt", "lapic", "hpet", "pci"}
        /\ \/ pc' \in {"mount"}
           \/ pc' = "page_fault" /\ ~(Reads("MCFG") \subseteq reach)
    BY <1>9, Zenon DEF pci_init, Step, Found
  <2>. QED
    BY <1>5, <2>1
<1>10. ASSUME UNCHANGED <<m, reach>>,
              pc \in {"ioapic"} \cup Late, pc' \in Late \cup {"stopped"}
       PROVE  TableInv'
  BY <1>1, <1>10, Zenon DEF TableInv, TablesMapped, Late
<1>11. CASE ioapic_init \/ enum_bus \/ SetGate \/ SetEntry \/ edu_test \/ edu_gate
              \/ keyboard \/ init
  BY <1>10, <1>11, Zenon DEF ioapic_init, enum_bus, SetGate, SetEntry, edu_test, edu_gate,
                      keyboard, init, Step, Late
<1>12. CASE Interrupt
  BY <1>1, <1>2, <1>12 DEF Interrupt, Deliver, TableInv, TablesMapped, Late
<1>. QED
  BY <1>3, <1>4, <1>6, <1>7, <1>8, <1>9, <1>11, <1>12, Zenon DEF _start

\* An active source is wired to a pin.
LEMMA LineIsPin ==
  ASSUME KernelType, NEW s \in DOMAIN IsaIrq \cup Drivers, Active(s)
  PROVE  Line(s) \in Pins
<1>1. CASE s \in Drivers
  <2>1. attached[s] \in DOMAIN m.pci /\ m.pci[attached[s]].pin # None
    BY <1>1, Zenon DEF KernelType, Active, Drivers
  <2>. QED
    BY <1>1, <2>1, MachineFacts, Zenon DEF KernelType, Line
<1>2. CASE s \in DOMAIN IsaIrq /\ s \notin Drivers
  <2>1. IsaIrq[s] \in Pins
    BY <1>2, BootAssumption, Zenon
  <2>. QED
    BY <1>2, <2>1, MachineFacts, Zenon DEF KernelType, Line
<1>. QED
  BY <1>1, <1>2, Zenon

\* What the stages rely on is in place when they are reached.
LEMMA StageStep ==
  ASSUME KernelInv, KernelType', _start \/ Interrupt
  PROVE  StageInv'
<1>. USE DEF Late, Over
<1>1. KernelType /\ StageInv /\ GateBeforeInterrupt
  BY Zenon DEF KernelInv, StageInv
<1>2. CASE idt_init
  <2>1. /\ gates'[32] = "timer" /\ gates'[33] = "keyboard"
        /\ \A v \in {144, 145, 160} : gates'[v] = gates[v]
    BY <1>1, <1>2 DEF idt_init, KernelType, Vectors
  <2>. QED
    BY <1>1, <1>2, <2>1 DEF idt_init, Step, StageInv, GateBeforeInterrupt
<1>3. CASE acpi_init
  BY <1>1, <1>3 DEF acpi_init, Step, StageInv, GateBeforeInterrupt
<1>4. CASE fadt
  <2>1. \A v \in {32, 33, 144, 145, 160} : gates'[v] = gates[v]
    BY <1>1, <1>4 DEF fadt, KernelType, Vectors
  <2>2. UNCHANGED entries
    BY <1>1, <1>4, Zenon DEF fadt, Step, ioapic_set_entry, StageInv
  <2>3. pc = "fadt" /\ pc' \in {"lapic", "stopped", "page_fault"}
    BY <1>4, Zenon DEF fadt, Step, Found
  <2>. QED
    BY <1>1, <1>4, <2>1, <2>2, <2>3 DEF fadt, Step, StageInv, GateBeforeInterrupt
<1>5. CASE lapic_init
  <2>1. pc = "lapic" /\ pc' \in {"ioapic", "stopped", "page_fault"}
    BY <1>5, Zenon DEF lapic_init, Step, Found
  <2>. QED
    BY <1>1, <1>5, <2>1 DEF lapic_init, Step, StageInv, GateBeforeInterrupt
<1>6. CASE ioapic_init
  BY <1>1, <1>6, Zenon DEF ioapic_init, Step, StageInv, GateBeforeInterrupt
<1>7. CASE hpet_init
  <2>1. pc = "hpet" /\ pc' \in {"pci", "page_fault"}
    BY <1>7, Zenon DEF hpet_init, Step, Found
  <2>. QED
    BY <1>1, <1>7, <2>1 DEF hpet_init, Step, StageInv, GateBeforeInterrupt
<1>8. CASE enum_bus
  <2>1. Calls = "test" => at \in DOMAIN m.pci /\ m.pci[at].kind = "edu"
    <3>1. at = <<at[1], at[2], at[3]>>
      BY <1>1 DEF KernelType, Places
    <3>. QED
      BY <3>1, Zenon DEF Calls, Present
  <2>2. /\ pc = "pci" /\ pc' = "pci" /\ msi' \in {msi, "on"}
        /\ msi' # msi => Calls = "test"
    BY <1>8, Zenon DEF enum_bus, Step
  <2>. QED
    BY <1>1, <1>8, <2>1, <2>2 DEF enum_bus, Step, StageInv, GateBeforeInterrupt
<1>9. CASE pci_init
  BY <1>1, <1>9 DEF pci_init, Step, StageInv, GateBeforeInterrupt
<1>10. CASE SetGate
  <2>1. \A v \in {32, 33, 160} : gates'[v] = gates[v]
    <3>1. vector \in {144, 145, 146}
      BY DEF KernelInv, DriverInv, Count
    <3>. QED
      BY <1>1, <1>10, <3>1 DEF SetGate, KernelType, Vectors
  <2>. QED
    BY <1>1, <1>10, <2>1 DEF SetGate, Step, StageInv, GateBeforeInterrupt
<1>11. CASE SetEntry
  BY <1>1, <1>11, Zenon DEF SetEntry, Step, StageInv, GateBeforeInterrupt
<1>12. CASE edu_test
  BY <1>1, <1>12 DEF edu_test, Step, StageInv, GateBeforeInterrupt
<1>13. CASE edu_gate
  <2>1. \A v \in {32, 33} : gates'[v] = gates[v]
    BY <1>1, <1>13 DEF edu_gate, KernelType, Vectors
  <2>2. gates'[160] \in {None, "edu"}
    BY <1>1, <1>13 DEF edu_gate, KernelType, Vectors, StageInv
  <2>. QED
    BY <1>1, <1>13, <2>1, <2>2 DEF edu_gate, Step, StageInv, GateBeforeInterrupt
<1>14. CASE keyboard
  BY <1>1, <1>14 DEF keyboard, Step, StageInv, GateBeforeInterrupt
<1>15. CASE init
  BY <1>1, <1>15 DEF init, Step, StageInv, GateBeforeInterrupt
<1>16. CASE Interrupt
  <2>. SUFFICES ASSUME NEW s, NEW v, Deliver(s, v),
                       \/ /\ s \in DOMAIN IsaIrq \cup Drivers /\ Active(s) /\ msi' = msi
                          /\ v = entries[Line(s)] /\ v # None
                       \/ s = "edu" /\ v = 160 /\ m.edu /\ msi = "raised" /\ msi' = "on"
                PROVE  StageInv'
    BY <1>16, Zenon DEF Interrupt
  <2>1. "lapic" \in found
    BY <1>1, LineIsPin DEF StageInv
  <2>2. \/ pc' = pc
        \/ pc' = "no_gate" /\ m.edu /\ msi = "raised"
    <3>1. ASSUME s \in DOMAIN IsaIrq \cup Drivers, Active(s), v = entries[Line(s)], v # None
          PROVE  gates[v] # None
      <4>1. gates[v] \in Sources
        BY <1>1, <3>1, LineIsPin, Zenon DEF KernelInv, LineInv
      <4>. QED
        BY <4>1, BootAssumption DEF Sources, Handlers, IsaIrq
    <3>. QED
      BY <3>1, Zenon DEF Deliver
  <2>. QED
    BY <1>1, <1>16, <2>1, <2>2 DEF Interrupt, StageInv, GateBeforeInterrupt
<1>. QED
  BY <1>2, <1>3, <1>4, <1>5, <1>6, <1>7, <1>8, <1>9, <1>10, <1>11, <1>12, <1>13, <1>14, <1>15, <1>16, Zenon
  DEF _start

\* Facts about the function at hand.
LEMMA AtFacts ==
  ASSUME KernelType, at \in Visible
  PROVE  /\ at \in DOMAIN m.pci /\ at # None
         /\ Pin \in Pins \cup {None}
BY MachineFacts, Zenon DEF KernelType, Visible, Pin

\* What is known of the drivers depends on nothing else.
LEMMA DriverKept ==
  ASSUME DriverInv,
         UNCHANGED <<m, at, driver, attached, vector, irq_num, gates[144], gates[145]>>
  PROVE  DriverInv'
<1>1. Kind' = Kind /\ Pin' = Pin
  BY Zenon DEF Kind, Pin
<1>2. UNCHANGED Visible
  BY Zenon DEF Visible, Present
<1>3. \A d \in Drivers : Count(d)' = Count(d)
  BY <1>1, Zenon DEF Count, Routed
<1>4. Count("ahci")' = Count("ahci") /\ Count("e1000")' = Count("e1000")
  BY <1>3, Zenon DEF Drivers
<1>. QED
  BY <1>1, <1>2, <1>4 DEF DriverInv, Taken

\* Between the drivers nothing happens to the vectors.
LEMMA DriverMoves ==
  ASSUME DriverInv, UNCHANGED <<m, attached, vector, gates[144], gates[145]>>,
         driver # "entry", driver' \in {"none", "test", "set", "gate"},
         driver' # "none" => at' \in Visible',
         driver' \in {"test", "set"} => Kind' = "edu",
         driver' = "gate" => Kind' \in Drivers /\ attached'[Kind'] = None
  PROVE  DriverInv'
<1>1. driver' # "entry"
  BY Zenon
<1>2. \A d \in Drivers : Count(d)' = Count(d)
  BY <1>1, Zenon DEF Count, Routed
<1>3. Count("ahci")' = Count("ahci") /\ Count("e1000")' = Count("e1000")
  BY <1>2, Zenon DEF Drivers
<1>4. /\ attached["e1000"] # None => m.pci[attached["e1000"]].pin # None
      /\ vector = 144 + Count("ahci") + Count("e1000")
      /\ \A v \in {144, 145} : IF v < vector THEN gates[v] \in Drivers ELSE gates[v] = None
  BY Zenon DEF DriverInv, Taken
<1>5. \A v \in {144, 145} : IF v < vector' THEN gates'[v] \in Drivers ELSE gates'[v] = None
  BY <1>4
<1>. QED
  BY <1>1, <1>3, <1>4, <1>5, Zenon DEF DriverInv, Taken

\* The steps of the kernel keep what is known of the drivers.
LEMMA DriverStep ==
  ASSUME KernelInv, KernelType', _start \/ Interrupt
  PROVE  DriverInv'
<1>1. KernelType /\ DriverInv /\ StageInv
  BY Zenon DEF KernelInv
<1>2. UNCHANGED m
  BY Zenon DEF _start, idt_init, acpi_init, fadt, lapic_init, ioapic_init, hpet_init, enum_bus,
         pci_init, SetGate, SetEntry, edu_test, edu_gate, keyboard, init, Interrupt, Step
<1>3. UNCHANGED Visible
  BY <1>2, Zenon DEF Visible, Present
<1>4. ASSUME UNCHANGED <<at, driver, attached, vector, irq_num, gates[144], gates[145]>>
      PROVE  DriverInv'
  BY <1>1, <1>2, <1>4, DriverKept, Zenon
<1>5. CASE idt_init \/ fadt
  BY <1>1, <1>4, <1>5 DEF idt_init, fadt, KernelType, Vectors
<1>6. CASE acpi_init \/ lapic_init \/ ioapic_init \/ hpet_init \/ pci_init \/ keyboard \/ init
             \/ Interrupt
  BY <1>4, <1>6, Zenon DEF acpi_init, lapic_init, ioapic_init, hpet_init, pci_init, keyboard, init, Interrupt
<1>7. ASSUME driver \in {"none", "test", "set"}, driver' = "none",
             UNCHANGED <<attached, vector, gates[144], gates[145]>>
      PROVE  DriverInv'
  BY <1>1, <1>2, <1>7, DriverMoves, Zenon
<1>8. CASE enum_bus
  <2>1. CASE driver' = "none"
    BY <1>7, <1>8, <2>1, Zenon DEF enum_bus
  <2>2. CASE driver' # "none"
    <3>1. /\ driver = "none" /\ driver' = Calls /\ UNCHANGED at
          /\ Present(at[1], 0, 0) /\ Present(at[1], at[2], 0) /\ at[1] < m.end_bus
      BY <1>8, <2>2, Zenon DEF enum_bus, Return
    <3>2. at = <<at[1], at[2], at[3]>>
      BY <1>1 DEF KernelType, Places
    <3>3. at \in Visible /\ (Calls = "test" => Kind = "edu")
          /\ (Calls = "gate" => Kind \in Drivers /\ ~Taken(Kind)) /\ Calls \in {"test", "gate"}
      BY <2>2, <3>1, <3>2, Zenon DEF Visible, Calls, Present, Kind
    <3>. QED
      <4>1. UNCHANGED <<attached, vector, gates>>
        BY <1>8, Zenon DEF enum_bus
      <4>2. Kind' = Kind
        BY <1>2, <3>1, Zenon DEF Kind
      <4>3. /\ driver # "entry" /\ driver' \in {"test", "gate"} /\ at' \in Visible'
            /\ driver' \in {"test", "set"} => Kind' = "edu"
            /\ driver' = "gate" => Kind' \in Drivers /\ attached'[Kind'] = None
        BY <1>3, <3>1, <3>3, <4>1, <4>2, Zenon DEF Taken
      <4>. QED
        BY <1>1, <1>2, <4>1, <4>3, DriverMoves, Zenon
  <2>. QED
    BY <2>1, <2>2, Zenon
<1>9. CASE edu_test
  <2>1. CASE driver' = "none"
    BY <1>7, <1>9, <2>1, Zenon DEF edu_test
  <2>2. CASE driver' # "none"
    <3>1. driver = "test" /\ driver' = "set" /\ UNCHANGED at
      BY <1>9, <2>2, Zenon DEF edu_test, Return
    <3>. QED
      <4>1. UNCHANGED <<attached, vector, gates>>
        BY <1>9, Zenon DEF edu_test
      <4>2. Kind' = "edu" /\ at' \in Visible'
        BY <1>1, <1>2, <1>3, <3>1, Zenon DEF DriverInv, Kind
      <4>. QED
        BY <1>1, <1>2, <3>1, <4>1, <4>2, DriverMoves, Zenon
  <2>. QED
    BY <2>1, <2>2, Zenon
<1>10. CASE edu_gate
  <2>1. UNCHANGED <<gates[144], gates[145]>>
    <3>1. gates' \in {gates, [gates EXCEPT ![160] = "edu"]}
      BY <1>10, Zenon DEF edu_gate
    <3>2. DOMAIN gates = Vectors /\ 144 \in Vectors /\ 145 \in Vectors
      BY <1>1, VectorFacts, Zenon DEF KernelType
    <3>3. 144 # 160 /\ 145 # 160
      BY VectorFacts, Zenon
    <3>. QED
      BY <3>1, <3>2, <3>3
  <2>. QED
    BY <1>7, <1>10, <2>1, Zenon DEF edu_gate, Return
<1>11. CASE SetGate
  <2>1. /\ driver = "gate" /\ at \in Visible /\ Kind \in Drivers /\ attached[Kind] = None
        /\ at \in DOMAIN m.pci /\ at # None
    BY <1>1, <1>11, AtFacts, Zenon DEF SetGate, DriverInv, Taken
  <2>2. CASE Pin = None
    <3>1. /\ UNCHANGED <<vector, gates>> /\ driver' = "none"
          /\ attached' \in [Drivers -> DOMAIN m.pci \cup {None}]
      BY <1>2, <1>11, <2>2, Zenon DEF SetGate, Return, KernelType
    <3>2. attached'["e1000"] = attached["e1000"]
      BY <1>1, <1>11, Zenon DEF SetGate, TakeFirst, KernelType, Drivers
    <3>3. \/ attached'["ahci"] = attached["ahci"]
          \/ Kind = "ahci" /\ attached'["ahci"] = at
      BY <1>1, <1>11, Zenon DEF SetGate, TakeFirst, KernelType, Drivers
    <3>4. Count("ahci")' = Count("ahci") /\ Count("e1000")' = Count("e1000")
      BY <1>2, <2>1, <2>2, <3>1, <3>2, <3>3, Zenon DEF Count, Routed, Kind, Pin
    <3>. QED
      BY <1>1, <1>2, <3>1, <3>2, <3>4 DEF DriverInv, Taken
  <2>3. CASE Pin # None
    <3>1. /\ irq_num' = vector /\ vector' = vector + 1 /\ driver' = "entry" /\ UNCHANGED at
          /\ gates' = [gates EXCEPT ![vector] = Kind] /\ UNCHANGED <<Kind, Pin>>
      BY <1>2, <1>11, <2>3, Zenon DEF SetGate, pci_alloc_int_handler, Kind, Pin
    <3>2. CASE Kind = "ahci"
      <4>1. attached'["ahci"] = at /\ attached'["e1000"] = attached["e1000"]
        BY <1>1, <1>11, <3>2, Zenon DEF SetGate, TakeFirst, KernelType, Drivers
      <4>2. Count("ahci") = 0 /\ Count("ahci")' = 1 /\ Count("e1000")' = Count("e1000")
        BY <1>2, <2>1, <2>3, <3>1, <3>2, <4>1, Zenon DEF Count, Routed
      <4>3. vector \in {144, 145} /\ Count("e1000") \in {0, 1}
        BY <1>1, <4>2 DEF DriverInv, Count
      <4>4. gates'[vector] = "ahci" /\ \A v \in {144, 145} : v # vector => gates'[v] = gates[v]
        BY <1>1, <3>1, <3>2, <4>3, Zenon DEF KernelType, Vectors
      <4>. QED
        BY <1>1, <1>2, <1>3, <2>1, <2>3, <3>1, <3>2, <4>1, <4>2, <4>3, <4>4 DEF DriverInv, Taken, Drivers
    <3>3. CASE Kind = "e1000"
      <4>1. attached' = attached
        BY <1>1, <1>11, <3>3, Zenon DEF SetGate, TakeFirst
      <4>2. Count("e1000") = 0 /\ Count("e1000")' = 1 /\ Count("ahci")' = Count("ahci")
        BY <1>2, <2>1, <2>3, <3>1, <3>3, <4>1, Zenon DEF Count, Routed
      <4>3. vector \in {144, 145} /\ Count("ahci") \in {0, 1}
        BY <1>1, <4>2 DEF DriverInv, Count
      <4>4. gates'[vector] = "e1000" /\ \A v \in {144, 145} : v # vector => gates'[v] = gates[v]
        BY <1>1, <3>1, <3>3, <4>3 DEF KernelType, Vectors
      <4>. QED
        BY <1>1, <1>2, <1>3, <2>1, <2>3, <3>1, <3>3, <4>1, <4>2, <4>3, <4>4 DEF DriverInv, Taken, Drivers
    <3>. QED
      BY <2>1, <3>2, <3>3, Zenon DEF Drivers
  <2>. QED
    BY <2>2, <2>3, Zenon
<1>12. CASE SetEntry
  <2>1. /\ driver = "entry" /\ driver' = "none" /\ at \in Visible /\ at \in DOMAIN m.pci /\ at # None
        /\ Kind \in Drivers /\ Pin # None /\ UNCHANGED <<vector, gates, irq_num>>
    BY <1>1, <1>12, AtFacts, Zenon DEF SetEntry, DriverInv, Return
  <2>2. attached'["ahci"] = attached["ahci"]
    BY <1>1, <1>12, Zenon DEF SetEntry, TakeLast, KernelType, Drivers
  <2>3. attached'["e1000"] = IF Kind = "e1000" THEN at ELSE attached["e1000"]
    BY <1>1, <1>12, Zenon DEF SetEntry, TakeLast, KernelType, Drivers
  <2>4. Count("ahci")' = Count("ahci")
    <3>1. Routed("ahci") <=> attached["ahci"] # None /\ m.pci[attached["ahci"]].pin # None
      BY <1>1, <2>1, Zenon DEF Routed, DriverInv, Kind, Pin
    <3>. QED
      BY <1>2, <2>1, <2>2, <3>1, Zenon DEF Count, Routed
  <2>5. Count("e1000")' = Count("e1000")
    <3>1. CASE Kind = "e1000"
      <4>1. Routed("e1000") /\ attached'["e1000"] = at /\ m.pci[at].pin # None
        BY <2>1, <2>3, <3>1, Zenon DEF Routed, Pin
      <4>. QED
        BY <1>2, <2>1, <4>1, Zenon DEF Count, Routed
    <3>2. CASE Kind # "e1000"
      BY <1>2, <2>1, <2>3, <3>2, Zenon DEF Count, Routed
    <3>. QED
      BY <3>1, <3>2, Zenon
  <2>. QED
    BY <1>1, <1>2, <2>1, <2>2, <2>3, <2>4, <2>5 DEF DriverInv, Taken, Kind, Pin
<1>. QED
  BY <1>5, <1>6, <1>8, <1>9, <1>10, <1>11, <1>12, Zenon DEF _start

\* A driver whose entry is written.
Entered(d) == Routed(d) /\ ~(driver = "entry" /\ Kind = d)

\* A source that is active stays so, on the same line.
LEMMA ActiveStays ==
  ASSUME KernelInv, _start \/ Interrupt,
         NEW s \in DOMAIN IsaIrq \cup Drivers \cup {"edu"}, Active(s)
  PROVE  Active(s)' /\ Line(s)' = Line(s)
<1>1. KernelType /\ DriverInv
  BY Zenon DEF KernelInv
<1>2. UNCHANGED m
  BY Zenon DEF _start, idt_init, acpi_init, fadt, lapic_init, ioapic_init, hpet_init, enum_bus,
         pci_init, SetGate, SetEntry, edu_test, edu_gate, keyboard, init, Interrupt, Step
<1>3. "hpet" \in found => "hpet" \in found'
  BY Zenon DEF _start, idt_init, acpi_init, fadt, lapic_init, ioapic_init, hpet_init, enum_bus,
         pci_init, SetGate, SetEntry, edu_test, edu_gate, keyboard, init, Interrupt
<1>4. ASSUME s \in Drivers PROVE attached'[s] = attached[s]
  <2>1. attached[s] # None
    BY <1>4, Zenon DEF Active, Drivers
  <2>2. CASE SetGate
    <3>1. attached[Kind] = None
      BY <1>1, <2>2, Zenon DEF SetGate, DriverInv, Taken
    <3>. QED
      BY <1>1, <1>4, <2>1, <2>2, <3>1, Zenon DEF SetGate, TakeFirst, KernelType, Drivers
  <2>3. CASE SetEntry
    <3>1. Kind = "e1000" => attached["e1000"] = None
      BY <1>1, <2>3, Zenon DEF SetEntry, DriverInv, Taken
    <3>. QED
      BY <1>1, <1>4, <2>1, <2>3, <3>1, Zenon DEF SetEntry, TakeLast, KernelType, Drivers
  <2>4. CASE attached' = attached
    BY <2>4, Zenon
  <2>. QED
    BY <2>2, <2>3, <2>4, Zenon
    DEF _start, idt_init, acpi_init, fadt, lapic_init, ioapic_init, hpet_init, enum_bus,
        pci_init, edu_test, edu_gate, keyboard, init, Interrupt
<1>5. CASE s \in Drivers
  BY <1>2, <1>4, <1>5, Zenon DEF Active, Line, Drivers
<1>6. CASE s \notin Drivers
  BY <1>2, <1>3, <1>6, Zenon DEF Active, Line, Drivers
<1>. QED
  BY <1>5, <1>6, Zenon

LEMMA RoutableStays ==
  ASSUME UNCHANGED m
  PROVE  Routable' = Routable
BY Zenon DEF Routable

\* Steps that write no entry.
LEMMA LineKeep ==
  ASSUME KernelInv, _start \/ Interrupt, UNCHANGED <<m, entries>>,
         \A p \in Pins : entries[p] # None => gates'[entries[p]] = gates[entries[p]],
         "hpet" \in found' => "hpet" \in found,
         pc' \in {"init", "idle"} => pc \in {"init", "idle"},
         \A d \in Drivers : Entered(d)' => Entered(d)
  PROVE  LineInv'
<1>1. KernelType /\ LineInv
  BY Zenon DEF KernelInv
<1>2. \A p \in Pins : entries'[p] # None =>
        entries'[p] \in {32, 33, 144, 145} /\ gates'[entries'[p]] \in Sources
  BY <1>1, Zenon DEF LineInv
<1>3. ASSUME Routable'
      PROVE  /\ (\A p \in Pins : entries[p] # None =>
                   Active(gates[entries[p]]) /\ Line(gates[entries[p]]) = p)'
             /\ "hpet" \in found' => entries'[Line("timer")'] # None
             /\ pc' \in {"init", "idle"} => entries'[Line("keyboard")'] # None
             /\ \A d \in Drivers : Entered(d)' => entries'[Line(d)'] # None
  <2>1. Routable
    BY <1>3, RoutableStays, Zenon
  <2>2. ASSUME NEW p \in Pins, entries'[p] # None
        PROVE  (Active(gates[entries[p]]) /\ Line(gates[entries[p]]) = p)'
    <3>1. PICK g \in Sources : g = gates[entries[p]] /\ Active(g) /\ Line(g) = p
      BY <1>1, <2>1, <2>2 DEF LineInv
    <3>2. Active(g)' /\ Line(g)' = p
      BY <3>1, ActiveStays, Zenon DEF Sources, IsaIrq
    <3>3. gates'[entries'[p]] = g
      BY <2>2, <3>1, Zenon
    <3>. QED
      BY <3>2, <3>3, Zenon DEF Active, Line
  <2>3. "hpet" \in found' => entries'[Line("timer")'] # None
    <3>1. Line("timer")' = Line("timer")
      BY Zenon DEF Line, Drivers
    <3>. QED
      BY <1>1, <2>1, <3>1, Zenon DEF LineInv
  <2>4. pc' \in {"init", "idle"} => entries'[Line("keyboard")'] # None
    <3>1. Line("keyboard")' = Line("keyboard")
      BY Zenon DEF Line, Drivers
    <3>. QED
      BY <1>1, <2>1, <3>1, Zenon DEF LineInv
  <2>5. ASSUME NEW d \in Drivers, Entered(d)' PROVE entries'[Line(d)'] # None
    <3>1. Entered(d)
      BY <2>5, Zenon
    <3>2. Active(d)
      BY <3>1, Zenon DEF Entered, Routed, Active, Drivers
    <3>3. Line(d)' = Line(d)
      BY <3>2, ActiveStays, Zenon
    <3>. QED
      BY <1>1, <2>1, <3>1, <3>3 DEF LineInv, Entered
  <2>. QED
    BY <2>2, <2>3, <2>4, <2>5, Zenon
<1>. QED
  BY <1>1, <1>2, <1>3, Zenon DEF LineInv, Entered

\* Steps that write the entry of a source.
LEMMA LineWrite ==
  ASSUME KernelInv, _start \/ Interrupt, UNCHANGED <<m, gates>>, "ioapic" \in found,
         NEW s \in Sources, NEW index, NEW v \in {32, 33, 144, 145}, gates[v] = s,
         ioapic_set_entry(index, v),
         Routable => index \in Pins /\ index = Line(s)' /\ Active(s)',
         "hpet" \in found' => "hpet" \in found \/ s = "timer",
         pc' \in {"init", "idle"} => pc \in {"init", "idle"} \/ s = "keyboard",
         \A d \in Drivers : Entered(d)' => Entered(d) \/ s = d
  PROVE  LineInv'
<1>1. KernelType /\ LineInv
  BY Zenon DEF KernelInv
<1>2. None # v
  BY BootAssumption, Zenon DEF Vectors
<1>3. ASSUME NEW p \in Pins PROVE entries'[p] \in {entries[p], v}
  BY <1>1 DEF ioapic_set_entry, KernelType
<1>4. \A p \in Pins : entries'[p] # None =>
        entries'[p] \in {32, 33, 144, 145} /\ gates'[entries'[p]] \in Sources
  <2>1. \A p \in Pins : entries[p] # None =>
          entries[p] \in {32, 33, 144, 145} /\ gates[entries[p]] \in Sources
    BY <1>1, Zenon DEF LineInv
  <2>2. v \in {32, 33, 144, 145} /\ gates' = gates /\ gates[v] \in Sources
    BY Zenon
  <2>3. ASSUME NEW p \in Pins, entries'[p] # None
        PROVE  entries'[p] \in {32, 33, 144, 145} /\ gates'[entries'[p]] \in Sources
    <3>1. CASE entries'[p] = v
      BY <2>2, <3>1, Zenon
    <3>2. CASE entries'[p] = entries[p]
      BY <2>1, <2>2, <2>3, <3>2, Zenon
    <3>. QED
      BY <1>3, <3>1, <3>2, Zenon
  <2>. QED
    BY <2>3, Zenon
<1>5. ASSUME Routable'
      PROVE  /\ (\A p \in Pins : entries[p] # None =>
                   Active(gates[entries[p]]) /\ Line(gates[entries[p]]) = p)'
             /\ "hpet" \in found' => entries'[Line("timer")'] # None
             /\ pc' \in {"init", "idle"} => entries'[Line("keyboard")'] # None
             /\ \A d \in Drivers : Entered(d)' => entries'[Line(d)'] # None
  <2>1. Routable /\ index \in Pins /\ index = Line(s)' /\ Active(s)'
    BY <1>5, RoutableStays, Zenon
  <2>2. entries' = [entries EXCEPT ![index] = v]
    <3>1. m.base = 0 /\ index \in Nat
      BY <2>1, BootAssumption, Zenon DEF Routable
    <3>2. m.base + index = index
      BY <3>1
    <3>. QED
      BY <2>1, <3>2, ZenonT(30) DEF ioapic_set_entry
  <2>3. entries'[index] = v /\ \A p \in Pins : p # index => entries'[p] = entries[p]
    <3>1. entries \in [Pins -> Vectors \cup {None}]
      BY <1>1, Zenon DEF KernelType
    <3>2. index \in Pins
      BY <2>1, Zenon
    <3>. QED
      BY <2>2, <3>1, <3>2
  <2>4. ASSUME NEW p \in Pins, entries'[p] # None
        PROVE  (Active(gates[entries[p]]) /\ Line(gates[entries[p]]) = p)'
    <3>1. PICK g \in Sources : g = gates'[entries'[p]] /\ Active(g)' /\ Line(g)' = p
      <4>1. CASE p = index
        BY <2>1, <2>3, <4>1, Zenon
      <4>2. CASE p # index
        <5>1. PICK g \in Sources : g = gates[entries[p]] /\ Active(g) /\ Line(g) = p
          BY <1>1, <2>1, <2>3, <2>4, <4>2, Zenon DEF LineInv
        <5>2. Active(g)' /\ Line(g)' = p
          <6>1. g \in DOMAIN IsaIrq \cup Drivers \cup {"edu"}
            BY Zenon DEF Sources, IsaIrq
          <6>. QED
            BY <5>1, <6>1, ActiveStays, Zenon
        <5>. QED
          BY <2>3, <4>2, <5>1, <5>2, Zenon
      <4>. QED
        BY <4>1, <4>2, Zenon
    <3>. QED
      BY <3>1, Zenon DEF Active, Line
  <2>5. ASSUME NEW p \in Pins, p = index \/ entries[p] # None PROVE entries'[p] # None
    BY <1>2, <2>3, <2>5, Zenon
  <2>6. \A t \in {"timer", "keyboard"} : Line(t)' = Line(t) /\ Line(t) \in Pins
    <3>1. Line("timer")' = Line("timer") /\ Line("keyboard")' = Line("keyboard")
      BY Zenon DEF Line, Drivers
    <3>2. 0 \in Pins /\ 1 \in Pins
      BY BootAssumption DEF IsaIrq
    <3>3. Line("timer") \in Pins /\ Line("keyboard") \in Pins
      <4>1. \A irq \in DOMAIN m.wire : m.wire[irq] \in Pins
        BY <1>1, MachineFacts, Zenon DEF KernelType
      <4>2. /\ "timer" \notin Drivers /\ "keyboard" \notin Drivers
            /\ IsaIrq["timer"] \in Pins /\ IsaIrq["keyboard"] \in Pins
        BY <3>2, Zenon DEF Drivers, IsaIrq
      <4>. QED
        BY <4>1, <4>2, Zenon DEF Line
    <3>. QED
      BY <3>1, <3>3, Zenon
  <2>10. /\ "hpet" \in found => entries[Line("timer")] # None
         /\ pc \in {"init", "idle"} => entries[Line("keyboard")] # None
         /\ \A d \in Drivers : Entered(d) => entries[Line(d)] # None
    BY <1>1, <2>1, Zenon DEF LineInv, Entered
  <2>7. "hpet" \in found' => entries'[Line("timer")'] # None
    <3>. SUFFICES ASSUME "hpet" \in found' PROVE entries'[Line("timer")'] # None
      BY Zenon
    <3>1. CASE "hpet" \in found
      <4>1. PICK p \in Pins : p = Line("timer") /\ p = Line("timer")' /\ entries[p] # None
        BY <2>6, <2>10, <3>1, Zenon
      <4>. QED
        BY <2>5, <4>1
    <3>2. CASE s = "timer"
      BY <2>1, <2>5, <3>2, Zenon
    <3>. QED
      BY <3>1, <3>2, Zenon
  <2>8. pc' \in {"init", "idle"} => entries'[Line("keyboard")'] # None
    <3>. SUFFICES ASSUME pc' \in {"init", "idle"} PROVE entries'[Line("keyboard")'] # None
      BY Zenon
    <3>1. CASE pc \in {"init", "idle"}
      <4>1. PICK p \in Pins : p = Line("keyboard") /\ p = Line("keyboard")' /\ entries[p] # None
        BY <2>6, <2>10, <3>1, Zenon
      <4>. QED
        BY <2>5, <4>1
    <3>2. CASE s = "keyboard"
      BY <2>1, <2>5, <3>2, Zenon
    <3>. QED
      BY <3>1, <3>2, Zenon
  <2>9. ASSUME NEW d \in Drivers, Entered(d)' PROVE entries'[Line(d)'] # None
    <3>1. CASE s = d
      BY <2>1, <2>5, <3>1, Zenon
    <3>2. CASE Entered(d)
      <4>1. Active(d)
        BY <3>2, Zenon DEF Entered, Routed, Active, Drivers
      <4>2. Line(d)' = Line(d) /\ Line(d) \in Pins
        BY <1>1, <4>1, ActiveStays, LineIsPin, Zenon
      <4>. QED
        <5>1. PICK p \in Pins : p = Line(d) /\ p = Line(d)' /\ entries[p] # None
          BY <2>10, <3>2, <4>2
        <5>. QED
          BY <2>5, <5>1
    <3>. QED
      BY <2>9, <3>1, <3>2, Zenon
  <2>. QED
    BY <2>4, <2>7, <2>8, <2>9, Zenon
<1>. QED
  BY <1>1, <1>4, <1>5, Zenon DEF LineInv, Entered

\* Each step writes the entry of one source, if any, whose gate is set by then.
LEMMA LineStep ==
  ASSUME KernelInv, _start \/ Interrupt
  PROVE  LineInv'
<1>1. KernelType /\ StageInv /\ DriverInv /\ LineInv
  BY Zenon DEF KernelInv
<1>2. UNCHANGED m
  BY Zenon DEF _start, idt_init, acpi_init, fadt, lapic_init, ioapic_init, hpet_init, enum_bus,
         pci_init, SetGate, SetEntry, edu_test, edu_gate, keyboard, init, Interrupt, Step
<1>3. ASSUME UNCHANGED <<attached, driver, at>> PROVE \A d \in Drivers : Entered(d)' => Entered(d)
  BY <1>2, <1>3, Zenon DEF Entered, Routed, Kind
<1>4. ASSUME UNCHANGED attached, driver # "entry", driver' # "entry"
      PROVE  \A d \in Drivers : Entered(d)' => Entered(d)
  BY <1>2, <1>4, Zenon DEF Entered, Routed
<1>5. CASE idt_init \/ acpi_init \/ fadt \/ lapic_init \/ ioapic_init
  <2>1. /\ "ioapic" \notin found /\ \A p \in Pins : entries[p] = None
        /\ "hpet" \in found' => "hpet" \in found
        /\ pc' \notin {"init", "idle"} /\ UNCHANGED <<attached, driver, at>>
    BY <1>1, <1>5 DEF StageInv, idt_init, acpi_init, fadt, lapic_init, ioapic_init, Step, Found
  <2>2. entries' = entries
    <3>1. CASE ioapic_init
      BY <1>1, <2>1, <3>1, Zenon DEF ioapic_init, KernelType
    <3>. QED
      BY <1>5, <2>1, <3>1, Zenon DEF idt_init, acpi_init, fadt, lapic_init, ioapic_set_entry
  <2>. QED
    BY <1>2, <1>3, <2>1, <2>2, LineKeep, Zenon
<1>6. CASE hpet_init
  <2>1. /\ "ioapic" \in found /\ gates[32] = "timer" /\ UNCHANGED <<gates, attached, driver, at>>
        /\ pc' \notin {"init", "idle"}
    BY <1>1, <1>6, Zenon DEF hpet_init, StageInv, Late, Step, Found
  <2>2. CASE UNCHANGED <<found, entries>>
    BY <1>2, <1>3, <2>1, <2>2, LineKeep, Zenon
  <2>3. CASE /\ found' = found \cup {"hpet"}
             /\ ioapic_set_entry(ioapic_remap_irq(IsaIrq.timer), 32)
    <3>1. /\ ioapic_remap_irq(IsaIrq.timer) = Line("timer")' /\ Active("timer")'
          /\ ioapic_remap_irq(IsaIrq.timer) \in Pins
      <4>1. 0 \in Pins /\ IsaIrq["timer"] = 0 /\ IsaIrq.timer = 0
        BY BootAssumption, Zenon DEF IsaIrq
      <4>. QED
        BY <1>1, <1>2, <2>1, <2>3, <4>1, MachineFacts, Zenon
        DEF ioapic_remap_irq, Line, Active, Drivers, KernelType
    <3>. QED
      BY <1>2, <1>3, <2>1, <2>3, <3>1, LineWrite, Zenon DEF Sources
  <2>. QED
    BY <1>6, <2>2, <2>3, Zenon DEF hpet_init
<1>7. CASE enum_bus
  <2>1. driver = "none" /\ driver' # "entry" /\ pc' \notin {"init", "idle"}
    BY <1>7, Zenon DEF enum_bus, Calls, Return, Step
  <2>. QED
    BY <1>2, <1>4, <1>7, <2>1, LineKeep, Zenon DEF enum_bus
<1>8. CASE pci_init
  <2>1. pc' \notin {"init", "idle"}
    BY <1>8, Zenon DEF pci_init, Step
  <2>. QED
    BY <1>2, <1>3, <1>8, <2>1, LineKeep, Zenon DEF pci_init
<1>9. CASE SetGate
  <2>1. driver = "gate" /\ at \in DOMAIN m.pci /\ Kind \in Drivers /\ attached[Kind] = None
    BY <1>1, <1>9, Zenon DEF SetGate, DriverInv, Taken, Visible
  <2>2. UNCHANGED <<entries, found>> /\ pc' \notin {"init", "idle"}
    BY <1>9, Zenon DEF SetGate, Step
  <2>3. ASSUME NEW d \in Drivers PROVE attached'[d] = attached[d] \/ (d = Kind /\ attached'[d] = at)
    BY <1>1, <1>9, Zenon DEF SetGate, TakeFirst, KernelType, Drivers
  <2>4. CASE Pin = None
    <3>1. UNCHANGED gates /\ driver' = "none"
      BY <1>9, <2>4, Zenon DEF SetGate, Return
    <3>2. ASSUME NEW d \in Drivers, Entered(d)' PROVE Entered(d)
      <4>1. attached'[d] # None /\ m.pci[attached'[d]].pin # None
        BY <1>2, <3>1, <3>2, Zenon DEF Entered, Routed
      <4>2. attached'[d] = attached[d]
        BY <2>3, <2>4, <4>1, Zenon DEF Pin
      <4>. QED
        BY <2>1, <4>1, <4>2, Zenon DEF Entered, Routed
    <3>. QED
      BY <1>2, <2>2, <3>1, <3>2, LineKeep, Zenon
  <2>5. CASE Pin # None
    <3>1. /\ gates' = [gates EXCEPT ![vector] = Kind] /\ driver' = "entry" /\ UNCHANGED at
      BY <1>9, <2>5, Zenon DEF SetGate
    <3>2. ASSUME NEW p \in Pins, entries[p] # None PROVE gates'[entries[p]] = gates[entries[p]]
      <4>1. entries[p] \in {32, 33, 144, 145} /\ gates[entries[p]] # None
        <5>1. entries[p] \in {32, 33, 144, 145} /\ gates[entries[p]] \in Sources
          BY <1>1, <3>2, Zenon DEF LineInv
        <5>2. None \notin Sources
          BY BootAssumption, Zenon DEF Sources, Handlers, IsaIrq
        <5>. QED
          BY <5>1, <5>2, Zenon
      <4>2. vector \in Nat /\ \A v \in {144, 145} : v >= vector => gates[v] = None
        BY <1>1 DEF DriverInv, Count
      <4>3. vector >= 144
        BY <1>1 DEF DriverInv, Count
      <4>4. entries[p] # vector
        BY <4>1, <4>2, <4>3
      <4>. QED
        BY <1>1, <3>1, <4>1, <4>4, Zenon DEF KernelType, Vectors
    <3>3. ASSUME NEW d \in Drivers, Entered(d)' PROVE Entered(d)
      <4>1. d # Kind /\ attached'[d] # None /\ m.pci[attached'[d]].pin # None
        BY <1>2, <3>1, <3>3, Zenon DEF Entered, Routed, Kind
      <4>. QED
        BY <2>1, <2>3, <4>1, Zenon DEF Entered, Routed
    <3>. QED
      BY <1>2, <2>2, <3>2, <3>3, LineKeep, Zenon
  <2>. QED
    BY <2>4, <2>5, Zenon
<1>10. CASE SetEntry
  <2>1. /\ driver = "entry" /\ at \in DOMAIN m.pci /\ at # None /\ Kind \in Drivers
        /\ Pin \in Pins /\ Pin # None /\ irq_num \in {144, 145} /\ gates[irq_num] = Kind
        /\ Kind = "ahci" => attached["ahci"] = at
    BY <1>1, <1>10, AtFacts, BootAssumption, Zenon DEF SetEntry, DriverInv
  <2>2. /\ UNCHANGED <<gates, found>> /\ pc' \notin {"init", "idle"} /\ driver' = "none"
        /\ ioapic_set_entry(ioapic_remap_irq(Pin), irq_num)
    BY <1>10, Zenon DEF SetEntry, Step, Return
  <2>3. "ioapic" \in found
    BY <1>1, <1>10, Zenon DEF SetEntry, Step, StageInv, Late
  <2>4. attached'[Kind] = at /\ \A d \in Drivers : d # Kind => attached'[d] = attached[d]
    BY <1>1, <1>10, <2>1, Zenon DEF SetEntry, TakeLast, KernelType, Drivers
  <2>5. ASSUME Routable
        PROVE  /\ ioapic_remap_irq(Pin) \in Pins
               /\ \A k \in Drivers : k = Kind => ioapic_remap_irq(Pin) = Line(k)' /\ Active(k)'
    <3>1. ioapic_remap_irq(Pin) = Pin
      BY <2>1, <2>5, Zenon DEF Routable, ioapic_remap_irq, Pin
    <3>. QED
      BY <1>2, <2>1, <2>4, <3>1, Zenon DEF Line, Active, Drivers, Pin
  <2>6. ASSUME NEW d \in Drivers, Entered(d)' PROVE Entered(d) \/ d = Kind
    BY <1>2, <2>1, <2>2, <2>4, <2>6, Zenon DEF Entered, Routed
  <2>7. PICK k \in Drivers : k = Kind
    BY <2>1
  <2>8. PICK v \in {32, 33, 144, 145} : v = irq_num
    BY <2>1, Zenon
  <2>9. PICK index : index = ioapic_remap_irq(Pin)
    BY Zenon
  <2>10. /\ gates[v] = k /\ k \in Sources /\ ioapic_set_entry(index, v)
         /\ Routable => index \in Pins /\ index = Line(k)' /\ Active(k)'
         /\ \A d \in Drivers : Entered(d)' => Entered(d) \/ k = d
    BY <2>1, <2>2, <2>5, <2>6, <2>7, <2>8, <2>9 DEF Sources
  <2>. QED
    BY <1>2, <2>2, <2>3, <2>10, LineWrite
<1>11. CASE edu_test \/ edu_gate
  <2>1. \A p \in Pins : entries[p] # None => gates'[entries[p]] = gates[entries[p]]
    <3>1. gates' \in {gates, [gates EXCEPT ![160] = "edu"]}
      BY <1>11, Zenon DEF edu_test, edu_gate
    <3>2. \A p \in Pins : entries[p] # None => entries[p] \in {32, 33, 144, 145}
      BY <1>1, Zenon DEF LineInv
    <3>3. DOMAIN gates = Vectors /\ \A v \in {32, 33, 144, 145} : v \in Vectors /\ v # 160
      BY <1>1, VectorFacts, Zenon DEF KernelType
    <3>. QED
      BY <3>1, <3>2, <3>3
  <2>2. driver # "entry" /\ driver' # "entry" /\ pc' \notin {"init", "idle"}
    BY <1>11, Zenon DEF edu_test, edu_gate, Return, Step
  <2>. QED
    BY <1>2, <1>4, <1>11, <2>1, <2>2, LineKeep, Zenon DEF edu_test, edu_gate
<1>12. CASE keyboard
  <2>1. /\ "ioapic" \in found /\ gates[33] = "keyboard"
        /\ UNCHANGED <<found, gates, attached, driver, at>>
    BY <1>1, <1>12, Zenon DEF keyboard, StageInv, Late, Step
  <2>2. /\ ioapic_remap_irq(IsaIrq.keyboard) = Line("keyboard")' /\ Active("keyboard")'
        /\ ioapic_remap_irq(IsaIrq.keyboard) \in Pins
    <3>1. 1 \in Pins /\ IsaIrq["keyboard"] = 1 /\ IsaIrq.keyboard = 1
      BY BootAssumption, Zenon DEF IsaIrq
    <3>. QED
      BY <1>1, <1>2, <2>1, <3>1, MachineFacts, Zenon
      DEF ioapic_remap_irq, Line, Active, Drivers, KernelType
  <2>. QED
    BY <1>2, <1>3, <1>12, <2>1, <2>2, LineWrite, Zenon DEF keyboard, Sources
<1>13. CASE init
  BY <1>2, <1>3, <1>13, LineKeep, Zenon DEF init, Step
<1>14. CASE Interrupt
  BY <1>2, <1>3, <1>14, LineKeep, Zenon DEF Interrupt, Deliver
<1>. QED
  BY <1>5, <1>6, <1>7, <1>8, <1>9, <1>10, <1>11, <1>12, <1>13, <1>14, Zenon DEF _start

\* An interrupt comes from an active source and runs a handler of its line.
LEMMA ReachedStep ==
  ASSUME KernelInv, _start \/ Interrupt
  PROVE  ReachedInv'
<1>1. KernelType /\ StageInv /\ LineInv /\ ReachedInv
  BY Zenon DEF KernelInv
<1>2. UNCHANGED m
  BY Zenon DEF _start, idt_init, acpi_init, fadt, lapic_init, ioapic_init, hpet_init, enum_bus,
         pci_init, SetGate, SetEntry, edu_test, edu_gate, keyboard, init, Interrupt, Step
<1>3. Routable' = Routable
  BY <1>2, RoutableStays, Zenon
<1>. DEFINE Own(r) == \/ r[2] \in {r[1], None}
                      \/ /\ {r[1], r[2]} \subseteq DOMAIN IsaIrq \cup Drivers
                         /\ Active(r[2]) /\ Line(r[1]) = Line(r[2])
            Source(r) == r[1] \in DOMAIN IsaIrq \cup Drivers \cup {"edu"} /\ Active(r[1])
<1>4. ASSUME NEW r, Source(r), Routable => Own(r)
      PROVE  Source(r)' /\ (Routable => Own(r)')
  <2>1. Active(r[1])' /\ Line(r[1])' = Line(r[1])
    BY <1>4, ActiveStays, Zenon
  <2>2. Active(r[2]) /\ r[2] \in DOMAIN IsaIrq \cup Drivers => Active(r[2])' /\ Line(r[2])' = Line(r[2])
    BY ActiveStays, Zenon
  <2>. QED
    BY <1>4, <2>1, <2>2, Zenon
<1>5. \A r \in reached : Source(r) /\ (Routable => Own(r))
  BY <1>1, Zenon DEF ReachedInv, OwnHandler
<1>6. SUFFICES \A r \in reached' : Source(r) /\ (Routable => Own(r))
  <2>1. \A r \in reached' : Source(r)' /\ (Routable => Own(r)')
    BY <1>4, <1>6, Zenon
  <2>. QED
    BY <1>3, <2>1, Zenon DEF ReachedInv, OwnHandler
<1>. SUFFICES ASSUME Interrupt, NEW r \in reached' \ reached
              PROVE  Source(r) /\ (Routable => Own(r))
  BY <1>5, Zenon DEF _start, idt_init, acpi_init, fadt, lapic_init, ioapic_init, hpet_init, enum_bus,
              pci_init, SetGate, SetEntry, edu_test, edu_gate, keyboard, init
<1>7. CASE r = <<"edu", gates[160]>>
  BY <1>1, <1>7 DEF StageInv, Active, Drivers
<1>8. ASSUME NEW s \in DOMAIN IsaIrq \cup Drivers, Active(s), entries[Line(s)] # None,
             r = <<s, gates[entries[Line(s)]]>>
      PROVE  Source(r) /\ (Routable => Own(r))
  <2>1. Line(s) \in Pins
    BY <1>1, <1>8, LineIsPin, Zenon
  <2>2. gates[entries[Line(s)]] \in DOMAIN IsaIrq \cup Drivers
    BY <1>1, <1>8, <2>1, Zenon DEF LineInv, Sources, IsaIrq
  <2>3. Routable => Active(gates[entries[Line(s)]]) /\ Line(gates[entries[Line(s)]]) = Line(s)
    BY <1>1, <1>8, <2>1, Zenon DEF LineInv
  <2>. QED
    BY <1>8, <2>2, <2>3, Zenon
<1>. QED
  BY <1>7, <1>8, Zenon DEF Interrupt, Deliver

\* The order of the functions is total, and the next function, device or bus
\* leaves nothing out.
LEMMA OrderTotal ==
  ASSUME NEW f \in Places, NEW g \in Places, f # g, ~Before(f, g)
  PROVE  Before(g, f)
BY DEF Before, Places

LEMMA OrderStrict ==
  ASSUME NEW f \in Places, NEW g \in Places, Before(f, g)
  PROVE  ~Before(g, f) /\ f # g
BY DEF Before, Places

LEMMA NothingSkipped ==
  ASSUME NEW f \in Places, NEW a \in Places, ~Before(f, a)
  PROVE  /\ Before(f, NextFunction(a[1], a[2], a[3])) => f = a
         /\ Before(f, NextDevice(a[1], a[2])) => f[1] = a[1] /\ f[2] = a[2]
         /\ Before(f, NextBus(a[1])) => f[1] = a[1]
<1>1. /\ f[1] \in Nat /\ f[2] \in 0..(Devices - 1) /\ f[3] \in 0..(Functions - 1)
      /\ a[1] \in Nat /\ a[2] \in 0..(Devices - 1) /\ a[3] \in 0..(Functions - 1)
      /\ f = <<f[1], f[2], f[3]>> /\ a = <<a[1], a[2], a[3]>>
  BY DEF Places
<1>2. Devices \in Nat \ {0} /\ Functions \in Nat \ {0}
  BY BootAssumption, Zenon
<1>3. Before(f, NextFunction(a[1], a[2], a[3])) => f = a
  BY <1>1, <1>2 DEF Before, NextFunction
<1>4. Before(f, NextDevice(a[1], a[2])) => f[1] = a[1] /\ f[2] = a[2]
  BY <1>1, <1>2 DEF Before, NextDevice, NextFunction
<1>5. Before(f, NextBus(a[1])) => f[1] = a[1]
  BY <1>1 DEF Before, NextBus
<1>. QED
  BY <1>3, <1>4, <1>5, Zenon

\* What EnumInv says of one driver.
First(d) ==
  IF Taken(d)
  THEN /\ attached[d] \in Candidates(d)
       /\ \A f \in Candidates(d) \ {attached[d]} : Before(attached[d], f)
  ELSE \A f \in Candidates(d) : ~Before(f, at)

LEMMA EnumStep ==
  ASSUME KernelInv, _start \/ Interrupt
  PROVE  EnumInv'
<1>1. KernelType /\ StageInv /\ DriverInv /\ EnumInv
  BY Zenon DEF KernelInv
<1>2. UNCHANGED m
  BY Zenon DEF _start, idt_init, acpi_init, fadt, lapic_init, ioapic_init, hpet_init, enum_bus,
         pci_init, SetGate, SetEntry, edu_test, edu_gate, keyboard, init, Interrupt, Step
<1>3. \A d : Candidates(d)' = Candidates(d)
  BY <1>2, Zenon DEF Candidates, Visible, Present
<1>4. /\ at \in Places /\ None \notin DOMAIN m.pci
      /\ \A d \in Drivers : \A f \in Candidates(d) : f \in Places /\ f \in Visible /\ f \in DOMAIN m.pci
  BY <1>1, MachineFacts, Zenon DEF KernelType, Candidates, Visible
<1>5. \A d \in Drivers : First(d)
  BY <1>1, Zenon DEF EnumInv, First
<1>6. (pc \in {"mount", "init", "idle"} /\ Has("MCFG") => at[1] >= m.end_bus)'
  <2>1. CASE pci_init
    BY <1>2, <2>1, Zenon DEF pci_init, Step, Found, Has
  <2>2. CASE pc \in {"mount", "init", "idle"} /\ UNCHANGED at
    BY <1>1, <1>2, <2>2, Zenon DEF EnumInv, Has
  <2>3. CASE pc' \notin {"mount", "init", "idle"}
    BY <2>3, Zenon
  <2>. QED
    BY <2>1, <2>2, <2>3, Zenon
    DEF _start, idt_init, acpi_init, fadt, lapic_init, ioapic_init, hpet_init, enum_bus,
        SetGate, SetEntry, edu_test, edu_gate, keyboard, init, Interrupt, Step, Found, Deliver
<1>7. ASSUME NEW d \in Drivers, attached'[d] = attached[d], UNCHANGED at
      PROVE  First(d)'
  BY <1>3, <1>5, <1>7, Zenon DEF First, Taken
<1>8. ASSUME NEW d \in Drivers, attached'[d] = attached[d], Return,
             at \notin Candidates(d) \/ Taken(d)
      PROVE  First(d)'
  <2>1. \A f \in Candidates(d) : ~Before(f, at) /\ f # at => ~Before(f, at')
    BY <1>4, <1>8, NothingSkipped, Zenon DEF Return, enum_function
  <2>. QED
    BY <1>3, <1>5, <1>8, <2>1, Zenon DEF First, Taken
<1>9. ASSUME NEW d \in Drivers, at \in Candidates(d), ~Taken(d), attached'[d] = at
      PROVE  First(d)'
  <2>1. \A f \in Candidates(d) \ {at} : Before(at, f)
    BY <1>4, <1>5, <1>9, OrderTotal, Zenon DEF First
  <2>2. attached'[d] # None
    BY <1>4, <1>9, Zenon
  <2>. QED
    BY <1>3, <1>9, <2>1, <2>2, Zenon DEF First, Taken
<1>10. ASSUME NEW d \in Drivers PROVE First(d)'
  <2>1. CASE enum_bus
    <3>1. UNCHANGED attached
      BY <2>1, Zenon DEF enum_bus
    <3>2. CASE UNCHANGED at
      BY <1>7, <3>1, <3>2, Zenon
    <3>3. CASE ~Present(at[1], 0, 0) /\ at' = NextBus(at[1])
      <4>1. \A f \in Candidates(d) : ~Before(f, at) => ~Before(f, at')
        BY <1>4, <3>3, NothingSkipped, Zenon DEF Visible
      <4>. QED
        BY <1>3, <1>5, <3>1, <4>1, Zenon DEF First, Taken
    <3>4. CASE ~Present(at[1], at[2], 0) /\ at' = NextDevice(at[1], at[2])
      <4>1. \A f \in Candidates(d) : ~Before(f, at) => ~Before(f, at')
        BY <1>4, <3>4, NothingSkipped, Zenon DEF Visible
      <4>. QED
        BY <1>3, <1>5, <3>1, <4>1, Zenon DEF First, Taken
    <3>5. CASE Calls = "none" /\ Return
      <4>1. at \notin Candidates(d) \/ Taken(d)
        <5>1. at = <<at[1], at[2], at[3]>>
          BY <1>4 DEF Places
        <5>. QED
          BY <3>5, <5>1, Zenon DEF Calls, Candidates, Visible, Present, Drivers
      <4>. QED
        BY <1>8, <3>1, <3>5, <4>1, Zenon
    <3>. QED
      BY <2>1, <3>2, <3>3, <3>4, <3>5, Zenon DEF enum_bus
  <2>2. CASE SetGate
    <3>1. at \in Visible /\ Kind \in Drivers /\ ~Taken(Kind)
      BY <1>1, <2>2, Zenon DEF SetGate, DriverInv
    <3>2. CASE d = Kind /\ d = "ahci"
      <4>1. at \in Candidates(d) /\ attached'[d] = at
        BY <1>1, <2>2, <3>1, <3>2, Zenon DEF Candidates, Kind, SetGate, TakeFirst, KernelType
      <4>. QED
        BY <1>9, <3>1, <3>2, <4>1, Zenon
    <3>3. CASE ~(d = Kind /\ d = "ahci")
      <4>1. attached'[d] = attached[d]
        BY <1>1, <2>2, <3>3, Zenon DEF SetGate, TakeFirst, KernelType, Drivers
      <4>2. CASE Pin = None
        <5>1. at \notin Candidates(d)
          BY <3>3, <4>2, Zenon DEF Candidates, Kind, Pin, Drivers
        <5>. QED
          BY <1>8, <2>2, <4>1, <4>2, <5>1, Zenon DEF SetGate
      <4>3. CASE Pin # None
        BY <1>7, <2>2, <4>1, <4>3, Zenon DEF SetGate
      <4>. QED
        BY <4>2, <4>3, Zenon
    <3>. QED
      BY <3>2, <3>3, Zenon
  <2>3. CASE SetEntry
    <3>1. /\ at \in Visible /\ Kind \in Drivers /\ Pin # None /\ Return
          /\ Kind = "ahci" => attached["ahci"] = at
          /\ Kind = "e1000" => ~Taken("e1000")
      BY <1>1, <2>3, Zenon DEF SetEntry, DriverInv
    <3>2. CASE d = Kind /\ d = "e1000"
      <4>1. at \in Candidates(d) /\ attached'[d] = at
        BY <1>1, <2>3, <3>1, <3>2, Zenon DEF Candidates, Kind, Pin, SetEntry, TakeLast, KernelType
      <4>. QED
        BY <1>9, <3>1, <3>2, <4>1, Zenon
    <3>3. CASE ~(d = Kind /\ d = "e1000")
      <4>1. attached'[d] = attached[d]
        BY <1>1, <2>3, <3>3, Zenon DEF SetEntry, TakeLast, KernelType, Drivers
      <4>2. at \notin Candidates(d) \/ Taken(d)
        BY <1>4, <3>1, <3>3, Zenon DEF Candidates, Kind, Taken, Drivers, Visible
      <4>. QED
        BY <1>8, <3>1, <4>1, <4>2, Zenon
    <3>. QED
      BY <3>2, <3>3, Zenon
  <2>4. CASE edu_test \/ edu_gate
    <3>1. at \notin Candidates(d) /\ attached' = attached
      BY <1>1, <2>4, Zenon DEF edu_test, edu_gate, DriverInv, Kind, Candidates, Drivers
    <3>. QED
      BY <1>7, <1>8, <2>4, <3>1, Zenon DEF edu_test, edu_gate
  <2>5. CASE UNCHANGED <<attached, at>>
    BY <1>7, <2>5, Zenon
  <2>. QED
    BY <2>1, <2>2, <2>3, <2>4, <2>5, Zenon
    DEF _start, idt_init, acpi_init, fadt, lapic_init, ioapic_init, hpet_init, pci_init,
        keyboard, init, Interrupt
<1>. QED
  BY <1>6, <1>10, Zenon DEF EnumInv, First

LEMMA KernelStutters ==
  ASSUME KernelInv, UNCHANGED kernelVars
  PROVE  KernelInv'
<1>. USE DEF kernelVars
<1>1. KernelType' /\ TableInv' /\ StageInv'
  <2>1. KernelType'
    BY Zenon DEF KernelInv, KernelType
  <2>2. TableInv'
    BY Zenon DEF KernelInv, TableInv, TablesMapped
  <2>3. StageInv'
    BY DEF KernelInv, StageInv, GateBeforeInterrupt
  <2>. QED
    BY <2>1, <2>2, <2>3, Zenon
<1>2. DriverInv'
  BY DriverKept, Zenon DEF KernelInv
<1>3. LineInv'
  BY Zenon DEF KernelInv, LineInv, Routable, Active, Line, Routed, Kind
<1>4. ReachedInv'
  BY Zenon DEF KernelInv, ReachedInv, OwnHandler, Routable, Active, Line
<1>5. EnumInv'
  BY Zenon DEF KernelInv, EnumInv, Taken, Candidates, Visible, Present, Has
<1>. QED
  BY <1>1, <1>2, <1>3, <1>4, <1>5, Zenon DEF KernelInv

\* The state of the boot: the memory map and the kernel's set-up are consistent
\* after every step of efi_main, of _start and of an interrupt.
THEOREM BootState == Spec => [](EfiInv /\ KernelInv)
<1>1. Init => EfiInv /\ KernelInv
  BY EfiInit, KernelInit, Zenon DEF Init
<1>2. EfiInv /\ KernelInv /\ [Next]_vars => (EfiInv /\ KernelInv)'
  <2>. SUFFICES ASSUME EfiInv, KernelInv, [Next]_vars PROVE EfiInv' /\ KernelInv'
    BY Zenon
  <2>1. CASE _start \/ Interrupt
    <3>1. UNCHANGED efiVars
      BY <2>1, Zenon DEF _start, idt_init, acpi_init, fadt, lapic_init, ioapic_init, hpet_init, enum_bus,
                  pci_init, SetGate, SetEntry, edu_test, edu_gate, keyboard, init, Interrupt, Step
    <3>2. KernelType' /\ TableInv'
      BY <2>1, KernelTypeStep, TableStep, Zenon
    <3>3. StageInv' /\ DriverInv'
      BY <2>1, <3>2, StageStep, DriverStep, Zenon
    <3>4. LineInv' /\ ReachedInv' /\ EnumInv'
      BY <2>1, LineStep, ReachedStep, EnumStep, Zenon
    <3>. QED
      BY <3>1, <3>2, <3>3, <3>4, EfiStep, Zenon DEF KernelInv
  <2>2. CASE Firmware \/ Event
    BY <2>2, EfiStep, KernelStutters, Zenon DEF Firmware, Event
  <2>3. CASE UNCHANGED vars
    BY <2>3, EfiStep, KernelStutters, Zenon DEF vars
  <2>. QED
    BY <2>1, <2>2, <2>3, Zenon DEF Next
<1>. QED
  BY <1>1, <1>2, PTL DEF Spec

\* The kernel is started with the firmware's current memory map, whole, and with
\* a valid RSDP when there is one (efi_main of the boot loader).
THEOREM BootMapIsCurrent == Spec => []MapIsCurrent
<1>1. EfiInv => MapIsCurrent
  <2>1. Unknown \notin Maps /\ \A v \in Nat : Unknown.version # v
    BY DEF Unknown, Maps
  <2>. QED
    BY <2>1, Zenon DEF EfiInv, MapIsCurrent, Maps
<1>. QED
  BY <1>1, BootState, PTL

\* No search of acpi_find_table reads a header that is not mapped, unless there
\* is an XSDT and a table outside paging_init's map.
THEOREM BootTablesMapped == Spec => []TablesMapped
<1>1. KernelInv => TablesMapped
  BY Zenon DEF KernelInv, TableInv
<1>. QED
  BY <1>1, BootState, PTL

\* Interrupts find their gates set and the local APIC known from idt_init on, with
\* the EDU device as the only exception.
THEOREM BootGateBeforeInterrupt == Spec => []GateBeforeInterrupt
<1>1. KernelInv => GateBeforeInterrupt
  BY Zenon DEF KernelInv, StageInv
<1>. QED
  BY <1>1, BootState, PTL

\* On a machine whose lines the kernel can route, an interrupt during the boot
\* runs a handler of its own line.
THEOREM BootOwnHandler == Spec => []OwnHandler
<1>1. KernelInv => OwnHandler
  BY Zenon DEF KernelInv, ReachedInv
<1>. QED
  BY <1>1, BootState, PTL

\* On those machines every device that is set up has an entry that leads to its
\* handler at the end of the boot, unless it shares a line.
THEOREM BootRoutedAtEnd == Spec => []RoutedAtEnd
<1>1. KernelInv => RoutedAtEnd
  <2>. SUFFICES ASSUME KernelInv, pc = "idle", Routable, NEW s \in Sources, Active(s),
                       \A t \in Sources \ {s} : ~(Active(t) /\ Line(t) = Line(s))
                PROVE  entries[Line(s)] # None /\ gates[entries[Line(s)]] = s
    BY Zenon DEF RoutedAtEnd, Sources
  <2>1. Line(s) \in Pins
    BY LineIsPin, Zenon DEF KernelInv, Sources, IsaIrq
  <2>2. entries[Line(s)] # None
    <3>1. CASE s = "timer"
      BY <3>1, Zenon DEF KernelInv, LineInv, Active, Drivers
    <3>2. CASE s = "keyboard"
      BY <3>2, Zenon DEF KernelInv, LineInv
    <3>3. CASE s \in Drivers
      <4>1. Routed(s) /\ driver = "none"
        BY <3>3 DEF KernelInv, StageInv, Active, Routed, Drivers
      <4>. QED
        BY <3>3, <4>1, Zenon DEF KernelInv, LineInv
    <3>. QED
      BY <3>1, <3>2, <3>3, Zenon DEF Sources
  <2>3. /\ gates[entries[Line(s)]] \in Sources
        /\ Active(gates[entries[Line(s)]]) /\ Line(gates[entries[Line(s)]]) = Line(s)
    BY <2>1, <2>2, Zenon DEF KernelInv, LineInv
  <2>. QED
    BY <2>2, <2>3, Zenon
<1>. QED
  BY <1>1, BootState, PTL

\* When pci_init has returned, each driver has the first function it can have.
THEOREM BootAttached == Spec => []Attached
<1>1. KernelInv => TypeOK
  <2>. SUFFICES ASSUME KernelInv PROVE TypeOK
    BY Zenon
  <2>1. vector \in 144..146
    <3>1. vector = 144 + Count("ahci") + Count("e1000")
      BY Zenon DEF KernelInv, DriverInv
    <3>2. Count("ahci") \in {0, 1} /\ Count("e1000") \in {0, 1}
      BY Zenon DEF Count
    <3>. QED
      BY <3>1, <3>2
  <2>. QED
    BY <2>1, Zenon DEF KernelInv, KernelType, TypeOK, Places
<1>2. ASSUME KernelInv, pc \in {"mount", "init", "idle"}, Has("MCFG"), NEW d \in Drivers
      PROVE  attached[d] = FirstOf(Candidates(d))
  <2>1. /\ at \in Places /\ m.end_bus \in Nat /\ at[1] >= m.end_bus
        /\ \A f \in Candidates(d) : f \in Places /\ f[1] < m.end_bus
    BY <1>2, MachineFacts, Zenon DEF KernelInv, KernelType, EnumInv, Candidates, Visible
  <2>2. CASE ~Taken(d)
    <3>1. \A f \in Candidates(d) : Before(f, at)
      BY <2>1 DEF Before, Places
    <3>2. Candidates(d) = {}
      BY <1>2, <2>2, <3>1, Zenon DEF KernelInv, EnumInv
    <3>. QED
      BY <2>2, <3>2, Zenon DEF FirstOf, Taken
  <2>3. CASE Taken(d)
    <3>1. /\ attached[d] \in Candidates(d)
          /\ \A f \in Candidates(d) \ {attached[d]} : Before(attached[d], f)
      BY <1>2, <2>3, Zenon DEF KernelInv, EnumInv
    <3>2. ASSUME NEW f \in Candidates(d), \A g \in Candidates(d) \ {f} : Before(f, g)
          PROVE  f = attached[d]
      BY <2>1, <3>1, <3>2, OrderStrict, Zenon
    <3>. QED
      BY <3>1, <3>2, Zenon DEF FirstOf
  <2>. QED
    BY <2>2, <2>3, Zenon
<1>3. KernelInv => Attached
  <2>1. /\ Candidates("ahci") = {f \in Visible : m.pci[f].kind = "ahci"}
        /\ Candidates("e1000") = {f \in Visible : m.pci[f].kind = "e1000" /\ m.pci[f].pin # None}
    BY Zenon DEF Candidates
  <2>. QED
    BY <1>1, <1>2, <2>1, Zenon DEF Attached, Drivers
<1>. QED
  BY <1>3, BootState, PTL
=============================================================================
