------------------------------- MODULE MCPmm -------------------------------
(***************************************************************************)
(* Memory maps for the allocator's runs: a segment above the kernel, one   *)
(* below it (pmm_init locks the kernel image), one whose machine has more  *)
(* pages than the bitmap's own pages have bits, one smaller than the       *)
(* bitmap, and three of which the second is the largest.                   *)
(***************************************************************************)
EXTENDS Pmm

Reserved == 0

Desc(type, physAddr, numPages) ==
  [type |-> type, physAddr |-> physAddr, numPages |-> numPages]

MCMemoryMaps ==
  {<<Desc(EfiConventionalMemory, 30, 6), Desc(Reserved, 41, 1)>>,
   <<Desc(Reserved, 0, 1), Desc(EfiConventionalMemory, 1, 5),
     Desc(Reserved, 6, 1)>>,
   <<Desc(EfiConventionalMemory, 30, 15)>>,
   <<Desc(EfiConventionalMemory, 30, 1), Desc(EfiConventionalMemory, 50, 5)>>,
   <<Desc(EfiConventionalMemory, 30, 5), Desc(EfiConventionalMemory, 50, 7),
     Desc(EfiConventionalMemory, 60, 3)>>}

\* A page full of zeroes, one full of ones, and one with a single bit set.
MCPageContents == {{}, 0 .. 40, {13}}
============================================================================
