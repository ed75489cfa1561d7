------------------------------- MODULE MCBoot -------------------------------
(* Machines for Boot: with an RSDT or an XSDT, tables inside and outside   *)
(* the identity map, with and without HPET and MCFG, one or two IOAPICs,   *)
(* the timer rewired or not or a line of the PCI devices, and PCI buses    *)
(* with shared and missing routes, two cards, a hole before a device and   *)
(* one before a function.                                                  *)
EXTENDS Boot, TLC

Table(sig, mapped) == [sig |-> sig, mapped |-> mapped]
Sdts == {
  <<Table("FACP", TRUE), Table("APIC", TRUE), Table("HPET", TRUE), Table("MCFG", TRUE)>>,
  <<Table("APIC", FALSE), Table("FACP", TRUE), Table("MCFG", FALSE), Table("HPET", TRUE)>>,
  <<Table("FACP", TRUE), Table("APIC", TRUE), Table("MCFG", TRUE)>>,
  <<Table("FACP", TRUE), Table("APIC", TRUE), Table("HPET", FALSE)>>,
  <<Table("FACP", TRUE), Table("HPET", TRUE)>>,
  <<Table("APIC", TRUE)>>}

Fn(kind, pin) == [kind |-> kind, pin |-> pin]
One(f, x) == [g \in {f} |-> x]
Buses == {
  One(<<0, 0, 0>>, Fn("host", None)) @@ One(<<0, 1, 0>>, Fn("ahci", 4)) @@
    One(<<0, 2, 0>>, Fn("e1000", 5)),
  One(<<0, 0, 0>>, Fn("e1000", None)) @@ One(<<0, 0, 2>>, Fn("ahci", 4)) @@
    One(<<1, 0, 0>>, Fn("e1000", 4)) @@ One(<<1, 2, 0>>, Fn("ahci", 5)),
  One(<<0, 0, 0>>, Fn("edu", None)) @@ One(<<0, 2, 0>>, Fn("e1000", 5)) @@
    One(<<0, 2, 1>>, Fn("e1000", 4)) @@ One(<<1, 1, 0>>, Fn("ahci", 4)),
  One(<<0, 0, 0>>, Fn("ahci", None)) @@ One(<<0, 1, 1>>, Fn("e1000", 5)) @@
    One(<<1, 0, 0>>, Fn("e1000", 3)) @@ One(<<2, 0, 0>>, Fn("ahci", 4))}

Machine(revision, sdt, wire, base, pci, edu) ==
  [revision |-> revision, sdt |-> sdt, wire |-> wire, base |-> base, pci |-> pci,
   end_bus |-> 2, edu |-> edu]
Plain == CHOOSE s \in Sdts : Len(s) = 4 /\ s[1].sig = "FACP"
Small == One(<<0, 0, 0>>, Fn("e1000", 4))

MCMachines ==
  {Machine(r, s, One(0, 2), 0, Small, FALSE) : r \in {0, 2}, s \in Sdts} \cup
  {Machine(0, Plain, w, 0, p, e) : w \in {One(0, 2), One(5, 5)}, p \in Buses, e \in BOOLEAN} \cup
  {Machine(0, Plain, One(0, 2), 4, p, FALSE) : p \in Buses} \cup
  {Machine(0, Plain, One(4, 6), 0, p, FALSE) : p \in Buses}

MCPins == 0..7
MCRsdp == {<<>>, <<"broken", "valid", "broken">>, <<"broken">>}
=============================================================================
