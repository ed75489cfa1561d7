-------------------------------- MODULE Boot --------------------------------
(***************************************************************************)
(* The start of the kernel: _start of kernel.c with idt.c, acpi.c,         *)
(* lapic.c, ioapic.c, hpet.c, pci.c and the parts of the AHCI, E1000 and   *)
(* EDU drivers that hook up their interrupts.  Interrupts are on from      *)
(* idt_init to the end, so every step of the set-up of the ACPI tables,    *)
(* redirection entries and gates may be followed by an interrupt of        *)
(* whatever is enabled by then.                                            *)
(*                                                                         *)
(* The machine is a record:                                                *)
(*   revision   of the RSDP: only a positive one has an XSDT               *)
(*   sdt        the table of tables, as a sequence of [sig, mapped]:       *)
(*              whether paging_init's identity map reaches the table       *)
(*   wire       the pin of the IOAPICs each ISA interrupt is wired to; an  *)
(*              override tells of each that is not its own number          *)
(*   base       the first pin of the last IOAPIC the MADT lists            *)
(*   pci        what answers at [bus, device, function]: [kind, pin], pin  *)
(*              is None when AML has no route                              *)
(*   end_bus    of the only segment, which starts at bus 0                 *)
(*   edu        whether the firmware left the EDU device as bus master     *)
(***************************************************************************)
EXTENDS Bootloader

CONSTANTS
  Machines,                    \* the machines to start
  Devices, Functions, Pins,    \* 32 and 8 of the code; the pins in use
  SciIrq,                      \* sci_irq of the FADT
  None

Vectors == {32, 33, 64, 144, 145, 160}
IsaIrq == [timer |-> 0, keyboard |-> 1, sci |-> SciIrq]
Drivers == {"ahci", "e1000"}
Handlers == DOMAIN IsaIrq \cup Drivers \cup {"edu"}

(* Every line that is wired somewhere is a pin, and what answers on PCI    *)
(* does so at a device and a function that exist.                          *)
ASSUME BootAssumption ==
  /\ Devices \in Nat \ {0} /\ Functions \in Nat \ {0}
  /\ Pins \subseteq Nat /\ {IsaIrq[s] : s \in DOMAIN IsaIrq} \subseteq Pins
  /\ None \notin Vectors /\ None \notin Handlers /\ None \notin Pins
  /\ \A k \in Machines :
       /\ k.revision \in Nat /\ k.base \in Nat /\ k.end_bus \in Nat
       /\ \A i \in DOMAIN k.sdt : k.sdt[i].mapped \in BOOLEAN
       /\ DOMAIN k.wire \subseteq Nat /\ \A irq \in DOMAIN k.wire : k.wire[irq] \in Pins
       /\ DOMAIN k.pci \subseteq Nat \X (0..(Devices - 1)) \X (0..(Functions - 1))
       /\ None \notin DOMAIN k.pci
       /\ \A f \in DOMAIN k.pci : k.pci[f].pin \in Pins \cup {None}

VARIABLES
  pc,          \* the next call of _start
  m,           \* the machine
  gates,       \* idt: the handler of each vector
  entries,     \* the redirection entry of each pin: a vector or None
  found,       \* what is known by now: "lapic", "ioapic"; "hpet" runs
  reach,       \* the ACPI tables that can be read
  at,          \* current_bus, current_device, current_func
  driver,      \* the next step of the driver being set up for it
  attached,    \* the function each driver has taken
  vector,      \* currentIntHandlerNum
  irq_num,     \* of the driver being set up
  msi,         \* the EDU device's message: off, on or raised
  reached      \* history: <<source, handler>> of each interrupt so far

kernelVars == <<pc, m, gates, entries, found, reach, at, driver, attached,
                vector, irq_num, msi, reached>>
vars == <<efiVars, kernelVars>>

Init ==
  /\ InitBootloader
  /\ pc = "idt"
  /\ m \in Machines
  /\ gates = [v \in Vectors |-> None]
  /\ entries = [p \in Pins |-> None]
  /\ found = {} /\ reach = {i \in DOMAIN m.sdt : m.sdt[i].mapped}
  /\ at = <<0, 0, 0>> /\ driver = "none"
  /\ attached = [d \in Drivers |-> None]
  /\ vector = 144 /\ irq_num = 0 /\ msi = "off" /\ reached = {}

Step(from, to) == efi = "started" /\ pc = from /\ pc' = to /\ UNCHANGED <<efiVars, m>>

-----------------------------------------------------------------------------
(* Interrupt descriptors and the tables of ACPI.                           *)

(* idt_init sets the gates of timer and keyboard and turns interrupts on.  *)
idt_init ==
  /\ Step("idt", IF rsdp = NULL THEN "stopped" ELSE "acpi")
  /\ gates' = [gates EXCEPT ![32] = "timer", ![33] = "keyboard"]
  /\ UNCHANGED <<entries, found, reach, at, driver, attached, vector, irq_num, msi, reached>>

(* acpi_find_table reads the header of every table up to the one it looks  *)
(* for, or of all of them.                                                 *)
Has(sig) == \E i \in DOMAIN m.sdt : m.sdt[i].sig = sig
Reads(sig) == {i \in DOMAIN m.sdt : \A j \in 1..(i - 1) : m.sdt[j].sig # sig}
Found(sig, next, otherwise) ==
  IF ~(Reads(sig) \subseteq reach) THEN "page_fault"
  ELSE IF Has(sig) THEN next ELSE otherwise

MapTables_Never == UNCHANGED reach

(* The loop over the tables uses rsdt.  With an XSDT rsdt is NULL, and the *)
(* addresses are what lies at the bottom of memory.                        *)
MapTables ==
  IF m.revision > 0
  THEN \E more \in SUBSET DOMAIN m.sdt : reach' = reach \cup more
  ELSE reach' = DOMAIN m.sdt

acpi_init ==
  /\ Step("acpi", "fadt")
  /\ MapTables
  /\ UNCHANGED <<gates, entries, found, at, driver, attached, vector, irq_num, msi, reached>>

-----------------------------------------------------------------------------
(* The IOAPIC.                                                             *)

(* ioapic_remap_irq knows the overrides once ioapic_init has set madt.     *)
ioapic_remap_irq_None(irq) == irq

ioapic_remap_irq(irq) ==
  IF "ioapic" \in found /\ irq \in DOMAIN m.wire THEN m.wire[irq] ELSE irq

(* ioapic_set_entry takes a pin for an index of the last IOAPIC.  Before   *)
(* ioapic_init the two stores go to the addresses 0 and 16.                *)
ioapic_set_entry(index, v) ==
  entries' = IF "ioapic" \in found /\ m.base + index \in Pins
             THEN [entries EXCEPT ![m.base + index] = v]
             ELSE entries

(* The rest of acpi_init: the gate of the SCI and its entry.               *)
fadt ==
  /\ Step("fadt", Found("FACP", "lapic", "stopped"))
  /\ IF pc' = "lapic"
     THEN /\ gates' = [gates EXCEPT ![64] = "sci"]
          /\ ioapic_set_entry(ioapic_remap_irq(IsaIrq.sci), 64)
     ELSE UNCHANGED <<gates, entries>>
  /\ UNCHANGED <<found, reach, at, driver, attached, vector, irq_num, msi, reached>>

lapic_init ==
  /\ Step("lapic", Found("APIC", "ioapic", "stopped"))
  /\ found' = IF pc' = "ioapic" THEN found \cup {"lapic"} ELSE found
  /\ UNCHANGED <<gates, entries, reach, at, driver, attached, vector, irq_num, msi, reached>>

(* ioapic_init masks every entry of the IOAPIC.                            *)
ioapic_init ==
  /\ Step("ioapic", "hpet")
  /\ found' = found \cup {"ioapic"}
  /\ entries' = [p \in Pins |-> IF p >= m.base THEN None ELSE entries[p]]
  /\ UNCHANGED <<gates, reach, at, driver, attached, vector, irq_num, msi, reached>>

(* Without an HPET the kernel goes on, and nothing will ever schedule.     *)
hpet_init ==
  /\ Step("hpet", Found("HPET", "pci", "pci"))
  /\ IF pc' = "pci" /\ Has("HPET")
     THEN /\ found' = found \cup {"hpet"}
          /\ ioapic_set_entry(ioapic_remap_irq(IsaIrq.timer), 32)
     ELSE UNCHANGED <<found, entries>>
  /\ UNCHANGED <<gates, reach, at, driver, attached, vector, irq_num, msi, reached>>

-----------------------------------------------------------------------------
(* PCI enumeration.                                                        *)

Present(b, d, f) == <<b, d, f>> \in DOMAIN m.pci

NextFunction(b, d, f) ==
  IF f + 1 < Functions THEN <<b, d, f + 1>>
  ELSE IF d + 1 < Devices THEN <<b, d + 1, 0>> ELSE <<b + 1, 0, 0>>
NextDevice(b, d) == NextFunction(b, d, Functions - 1)
NextBus(b) == <<b + 1, 0, 0>>

(* Which driver's init function is called for a function, and does not     *)
(* return at its first test.                                               *)
Taken(d) == attached[d] # None

Calls ==
  IF ~Present(at[1], at[2], at[3]) THEN "none"
  ELSE LET kind == m.pci[at].kind IN
       IF kind = "edu" THEN "test"
       ELSE IF kind \in Drivers /\ ~Taken(kind) THEN "gate" ELSE "none"

(* A function that does not answer ends the device.                        *)
enum_function_Stop(b, d, f) ==
  IF Present(b, d, f) THEN NextFunction(b, d, f) ELSE NextDevice(b, d)

(* What comes after a function, present or not.                            *)
enum_function(b, d, f) == NextFunction(b, d, f)

Return == driver' = "none" /\ at' = enum_function(at[1], at[2], at[3])

(* A bus is skipped when its device 0 does not answer, a device when its   *)
(* function 0 does not.  end_bus itself is not visited.                    *)
enum_bus ==
  /\ driver = "none" /\ at[1] < m.end_bus
  /\ Found("MCFG", "pci", "mount") = "pci" /\ Step("pci", "pci")
  /\ LET b == at[1]  d == at[2] IN
     CASE ~Present(b, 0, 0) -> at' = NextBus(b) /\ UNCHANGED <<driver, msi>>
       [] Present(b, 0, 0) /\ ~Present(b, d, 0) ->
            at' = NextDevice(b, d) /\ UNCHANGED <<driver, msi>>
       [] Present(b, 0, 0) /\ Present(b, d, 0) /\ Calls # "none" ->
            /\ driver' = Calls
            /\ msi' \in IF Calls = "test" THEN {"on", msi} ELSE {msi}
            /\ UNCHANGED at
       [] OTHER -> Return /\ UNCHANGED msi
  /\ UNCHANGED <<gates, entries, found, reach, attached, vector, irq_num, reached>>

(* pci_init returns: no MCFG, or all buses done.                           *)
pci_init ==
  /\ driver = "none"
  /\ Found("MCFG", "pci", "mount") = "pci" => at[1] >= m.end_bus
  /\ Step("pci", IF Found("MCFG", "pci", "mount") = "page_fault" THEN "page_fault" ELSE "mount")
  /\ UNCHANGED <<gates, entries, found, reach, at, driver, attached, vector, irq_num, msi, reached>>

-----------------------------------------------------------------------------
(* The drivers.                                                            *)

Kind == m.pci[at].kind
Pin == m.pci[at].pin

pci_alloc_int_handler_Same == irq_num' = vector /\ UNCHANGED vector

pci_alloc_int_handler == irq_num' = vector /\ vector' = vector + 1

(* dev_ahci_init takes the function before it looks for a route, and       *)
(* dev_e1000_init only when it is done: it may try another function.       *)
TakeFirst == attached' = IF Kind = "ahci" THEN [attached EXCEPT !["ahci"] = at] ELSE attached
TakeLast == attached' = IF Kind = "e1000" THEN [attached EXCEPT !["e1000"] = at] ELSE attached

SetGate_Forgotten ==
  /\ driver = "gate" /\ Step("pci", "pci")
  /\ TakeFirst
  /\ IF Pin = None
     THEN Return /\ UNCHANGED <<vector, irq_num>>
     ELSE pci_alloc_int_handler /\ driver' = "entry" /\ UNCHANGED at
  /\ UNCHANGED <<gates, entries, found, reach, msi, reached>>

SetGate ==
  /\ driver = "gate" /\ Step("pci", "pci")
  /\ TakeFirst
  /\ IF Pin = None
     THEN Return /\ UNCHANGED <<vector, irq_num, gates>>
     ELSE /\ gates' = [gates EXCEPT ![vector] = Kind]
          /\ pci_alloc_int_handler
          /\ driver' = "entry" /\ UNCHANGED at
  /\ UNCHANGED <<entries, found, reach, msi, reached>>

SetEntry ==
  /\ driver = "entry" /\ Step("pci", "pci")
  /\ ioapic_set_entry(ioapic_remap_irq(Pin), irq_num)
  /\ TakeLast /\ Return
  /\ UNCHANGED <<gates, found, reach, vector, irq_num, msi, reached>>

(* dev_edu_init: the message is enabled by now.  dev_edu_factorial writes  *)
(* to the register that raises an interrupt, the gate comes last.          *)
edu_test ==
  /\ driver = "test" /\ Step("pci", "pci")
  /\ \/ Return /\ UNCHANGED msi
     \/ /\ msi' = IF msi = "on" THEN "raised" ELSE msi
        /\ driver' = "set" /\ UNCHANGED at
  /\ UNCHANGED <<gates, entries, found, reach, attached, vector, irq_num, reached>>

edu_gate ==
  /\ driver = "set" /\ Step("pci", "pci")
  /\ gates' \in {gates, [gates EXCEPT ![160] = "edu"]}
  /\ Return
  /\ UNCHANGED <<entries, found, reach, attached, vector, irq_num, msi, reached>>

-----------------------------------------------------------------------------
(* The rest of _start.                                                     *)

keyboard ==
  /\ Step("mount", "init")
  /\ ioapic_set_entry(ioapic_remap_irq(IsaIrq.keyboard), 33)
  /\ UNCHANGED <<gates, found, reach, at, driver, attached, vector, irq_num, msi, reached>>

(* /init is opened, read and closed, which may fail.                       *)
init ==
  /\ \E result \in {"idle", "stopped"} : Step("init", result)
  /\ UNCHANGED <<gates, entries, found, reach, at, driver, attached, vector, irq_num, msi, reached>>

_start ==
  \/ idt_init \/ acpi_init \/ fadt \/ lapic_init \/ ioapic_init \/ hpet_init
  \/ enum_bus \/ pci_init \/ SetGate \/ SetEntry \/ edu_test \/ edu_gate
  \/ keyboard \/ init

(* The sources of interrupts and where they are wired to.                  *)
Active(s) ==
  CASE s = "timer" -> "hpet" \in found
    [] s \in Drivers -> attached[s] # None /\ m.pci[attached[s]].pin # None
    [] OTHER -> TRUE
Line(s) ==
  IF s \in Drivers THEN m.pci[attached[s]].pin
  ELSE IF IsaIrq[s] \in DOMAIN m.wire THEN m.wire[IsaIrq[s]] ELSE IsaIrq[s]

Deliver(s, v) ==
  /\ reached' = reached \cup {<<s, gates[v]>>}
  /\ pc' = IF gates[v] = None THEN "no_gate" ELSE pc

(* An interrupt arrives.  The firmware leaves every source masked.         *)
Interrupt ==
  /\ efi = "started" /\ pc \notin {"idt", "stopped", "page_fault", "no_gate"}
  /\ \/ /\ \E s \in DOMAIN IsaIrq \cup Drivers :
             Active(s) /\ entries[Line(s)] # None /\ Deliver(s, entries[Line(s)])
        /\ UNCHANGED msi
     \/ msi = "raised" /\ m.edu /\ msi' = "on" /\ Deliver("edu", 160)
  /\ UNCHANGED <<efiVars, m, gates, entries, found, reach, at, driver, attached, vector, irq_num>>

Firmware == efi_main /\ UNCHANGED kernelVars
Event == FirmwareEvent /\ UNCHANGED kernelVars

Next == Firmware \/ Event \/ _start \/ Interrupt

Spec == Init /\ [][Next]_vars

-----------------------------------------------------------------------------

TypeOK ==
  /\ gates \in [Vectors -> Handlers \cup {None}]
  /\ entries \in [Pins -> Vectors \cup {None}]
  /\ found \subseteq {"lapic", "ioapic", "hpet"} /\ reach \subseteq DOMAIN m.sdt
  /\ at[1] <= m.end_bus /\ at[2] \in 0..(Devices - 1) /\ at[3] \in 0..(Functions - 1)
  /\ driver \in {"none", "gate", "entry", "test", "set"}
  /\ attached \in [Drivers -> DOMAIN m.pci \cup {None}]
  /\ vector \in 144..146 /\ msi \in {"off", "on", "raised"}

(* A search for a table reads no header that is not mapped: acpi_init maps *)
(* all of them first.  With an XSDT it cannot (acpi.c:105), and the kernel *)
(* depends on paging_init's map reaching the tables.                       *)
TablesMapped ==
  pc = "page_fault" => m.revision > 0 /\ \E i \in DOMAIN m.sdt : ~m.sdt[i].mapped

(* With interrupts on since idt_init, whatever is unmasked by then finds   *)
(* its gate set and the local APIC's address known to the stub that        *)
(* acknowledges it.  The only exception is the EDU device, whose message   *)
(* is enabled, and raised by its self-test, before its gate (pci.c:113).   *)
GateBeforeInterrupt ==
  /\ pc = "no_gate" => m.edu /\ \E f \in DOMAIN m.pci : m.pci[f].kind = "edu"
  /\ reached # {} => "lapic" \in found

(* The machines whose interrupts reach the entry the kernel writes: there  *)
(* is one IOAPIC, and no PCI device has a pin with the number of an ISA    *)
(* interrupt that is wired elsewhere, since the drivers pass their pins    *)
(* through the overrides too (ahci.c:348, e1000.c:239).                    *)
Routable ==
  /\ m.base = 0
  /\ \A f \in DOMAIN m.pci :
       m.pci[f].pin \in DOMAIN m.wire => m.wire[m.pci[f].pin] = m.pci[f].pin

(* On those, an interrupt runs the handler of its own device or of one on  *)
(* the same line, at any time during the boot (the vectors of              *)
(* pci_alloc_int_handler, the overrides, the shared entries).              *)
OwnHandler ==
  Routable =>
    \A r \in reached :
      \/ r[2] \in {r[1], None}
      \/ /\ {r[1], r[2]} \subseteq DOMAIN IsaIrq \cup Drivers
         /\ Active(r[2]) /\ Line(r[1]) = Line(r[2])

(* On those, at the end of the boot the timer, the keyboard and every      *)
(* driver's device have an entry that leads to their handler, unless two   *)
(* of them share a line.  The SCI has none: acpi_init writes its entry     *)
(* before ioapic_init, which masks them all (acpi.c:122, ioapic.c:84).     *)
RoutedAtEnd ==
  pc = "idle" /\ Routable =>
    \A s \in {"timer", "keyboard"} \cup Drivers :
      \/ ~Active(s)
      \/ \E t \in ({"timer", "keyboard"} \cup Drivers) \ {s} : Active(t) /\ Line(t) = Line(s)
      \/ entries[Line(s)] # None /\ gates[entries[Line(s)]] = s

(* What the enumeration can see: the functions of devices with a function  *)
(* 0 on buses with a device 0, in order.                                   *)
Visible == {f \in DOMAIN m.pci :
              f[1] < m.end_bus /\ Present(f[1], 0, 0) /\ Present(f[1], f[2], 0)}
Before(f, g) ==
  \/ f[1] < g[1]
  \/ f[1] = g[1] /\ f[2] < g[2]
  \/ f[1] = g[1] /\ f[2] = g[2] /\ f[3] < g[3]
FirstOf(set) ==
  IF set = {} THEN None ELSE CHOOSE f \in set : \A g \in set \ {f} : Before(f, g)

(* When pci_init has returned, the AHCI driver has the first visible       *)
(* controller, even one without a route, and the E1000 driver the first    *)
(* visible card that has one (the loops of pci.c against the early returns *)
(* of the drivers).  The enumeration never leaves the bus.                 *)
Attached ==
  /\ TypeOK
  /\ pc \in {"mount", "init", "idle"} /\ Has("MCFG") =>
    /\ attached["ahci"] = FirstOf({f \in Visible : m.pci[f].kind = "ahci"})
    /\ attached["e1000"] =
         FirstOf({f \in Visible : m.pci[f].kind = "e1000" /\ m.pci[f].pin # None})
=============================================================================
