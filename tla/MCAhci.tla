--------------------------------- MODULE MCAhci ---------------------------------
EXTENDS Ahci

P(d, s) == [det |-> d, ipm |-> TRUE, sig |-> s]

\* A disk and an empty port, a CD drive before a disk, no drive; from one
\* slot to 32.
MCHardware ==
  {[ports |-> <<P(FALSE, "SATA"), P(TRUE, "SATA")>>, ncs |-> 2],
   [ports |-> <<P(TRUE, "SATAPI"), P(TRUE, "SATA")>>, ncs |-> 1],
   [ports |-> <<P(TRUE, "PM")>>, ncs |-> 31],
   [ports |-> <<P(TRUE, "SATA")>>, ncs |-> 0],
   [ports |-> <<P(TRUE, "SATA")>>, ncs |-> 17]}

MCWrites == {<<1, <<"a", "b">>>>, <<1, <<"b", "b">>>>, <<65537, <<"a">>>>}
=============================================================================
