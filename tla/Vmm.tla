---------------------------------- MODULE Vmm ----------------------------------
(***************************************************************************)
(* mmap and munmap, mm/vmm/vmm.c: a process's region of virtual pages, of  *)
(* which a bitmap says which are taken.  A call is a system call, made     *)
(* with interrupts off: one step.  Pages are counted from VMM_ADDR_START;  *)
(* Paging shows that mapping and unmapping a page changes nothing else, so *)
(* a directory is the set of the pages of the region that it maps.         *)
(*                                                                         *)
(* make_proc and make_proc_from_elf never set process_t.bitmap: they store *)
(* the address and the size of the bitmap through the pointer they find in *)
(* the fresh page.  In clear memory that is NULL for every process, and    *)
(* they all share the one bitmap_t at address 0.  Memory that is not clear *)
(* is not followed.                                                        *)
(***************************************************************************)
EXTENDS Processes, Integers

CONSTANTS
  PageBits,    \* bits in the one page that each bitmap is given: 0x8000
  SizePages,   \* VMM_SIZE_PAGES, the bits that its size promises: 0x80000
  IntPages,    \* 2^32, what is left of a page number in an int
  VirtPages,   \* 2^36, what a directory tells apart: bits 12 to 47 of an address
  AddrPages,   \* bound: the addresses handed to munmap
  MaxRequest   \* bound: the pages of one call

Region == 0 .. (PageBits - 1)

ASSUME VmmAssumption ==
  /\ PageBits \in Nat /\ SizePages \in Nat /\ AddrPages \in Nat /\ MaxRequest \in Nat
  /\ IntPages \in Nat \ {0} /\ VirtPages \in Nat \ {0}
  /\ PageBits <= IntPages /\ \E k \in 1 .. VirtPages : VirtPages = k * IntPages

VARIABLES
  made,     \* the processes that exist
  bits,     \* per process, the page allocated for its bitmap
  bitmap,   \* the process whose page the bitmap_t at address 0 refers to
  mapped,   \* per process, the pages its directory maps
  stray,    \* ghost: munmap has cleared the bit of a page that it did not unmap
  past      \* ghost: a call has gone where the model does not follow it

vmmVars == <<made, bits, bitmap, mapped, stray, past>>

InitVmm ==
  /\ made = {}
  /\ bits = [p \in MadeProcs |-> {}]
  /\ bitmap = NULL
  /\ mapped = [p \in MadeProcs |-> {}]
  /\ stray = FALSE /\ past = FALSE

\* process_init makes Idle, the programs follow.
make_proc(p) ==
  /\ p \notin made /\ (p = Idle \/ Idle \in made)
  /\ made' = made \cup {p}
  /\ bitmap' = p
  /\ bits' = [bits EXCEPT ![p] = {}]
  /\ UNCHANGED <<mapped, stray, past>>

\* Mutant: only the first page has to be free.
Free_First(idx, pages) == idx \notin bits[bitmap]

Free(idx, pages) == idx .. (idx + pages - 1) \cap bits[bitmap] = {}

\* The first run of free pages.
Found(idx, pages) == Free(idx, pages) /\ \A i \in 0 .. (idx - 1) : ~Free(i, pages)

\* No pages: NULL.  A run that does not fit is looked for, and found, in whatever
\* follows the bitmap's page; the search for a negative number never ends.
mmap(p, pages) ==
  /\ ~past
  /\ \/ pages = 0 /\ UNCHANGED <<bits, mapped, past>>
     \/ /\ pages > 0
        /\ \E idx \in 0 .. (PageBits - pages) :
             /\ Found(idx, pages)
             /\ bits' = [bits EXCEPT ![bitmap] = @ \cup (idx .. (idx + pages - 1))]
             /\ mapped' = [mapped EXCEPT ![p] = @ \cup (idx .. (idx + pages - 1))]
        /\ UNCHANGED past
     \/ /\ pages < 0 \/ \A idx \in 0 .. (PageBits - pages) : ~Free(idx, pages)
        /\ past' = TRUE
        /\ UNCHANGED <<bits, mapped>>
  /\ UNCHANGED <<made, bitmap, stray>>

\* The pages of a call, from the page at a distance of v from VMM_ADDR_START, as
\* bitmap_set is given them in an int and as __paging_unmap takes them.
Indices(v, pages) == {a % IntPages : a \in v .. (v + pages - 1)}
Unmapped(v, pages) == {a % VirtPages : a \in v .. (v + pages - 1)}

\* Mutant: the bit of the first page only is cleared.
munmap_OneBit(p, v, pages) ==
  /\ ~past
  /\ bits' = [bits EXCEPT ![bitmap] = @ \ (Indices(v, pages) \cap {v % IntPages})]
  /\ mapped' = [mapped EXCEPT ![p] = @ \ Unmapped(v, pages)]
  /\ stray' = (stray \/ (Indices(v, pages) \cap Region) \ Unmapped(v, pages) # {})
  /\ past' = (Indices(v, pages) \cap (PageBits .. SizePages) # {})
  /\ UNCHANGED <<made, bitmap>>

\* Any address is taken: the pages need not have been mapped, nor together, nor be
\* pages of the region.  bitmap_set ignores an index above the size, not the size
\* itself.  The pages outside the region that are unmapped are not followed.
munmap(p, v, pages) ==
  /\ ~past
  /\ bits' = [bits EXCEPT ![bitmap] = @ \ Indices(v, pages)]
  /\ mapped' = [mapped EXCEPT ![p] = @ \ Unmapped(v, pages)]
  /\ stray' = (stray \/ (Indices(v, pages) \cap Region) \ Unmapped(v, pages) # {})
  /\ past' = (Indices(v, pages) \cap (PageBits .. SizePages) # {})
  /\ UNCHANGED <<made, bitmap>>

\* The calls mmap_syscall and munmap_syscall make for a process; -1 stands for
\* the negative numbers of pages.
memory_syscall(p) ==
  \E pages \in -1 .. MaxRequest :
    mmap(p, pages) \/ \E v \in 0 .. (AddrPages - 1) : munmap(p, v, pages)
-----------------------------------------------------------------------------
\* "Look for free pages" (vmm.c:17): what mmap would return now are pages that the
\* caller has not mapped, whatever overlapping pieces it has mapped and unmapped.
\* There are two exceptions.  A second program replaces the bitmap that both of
\* them use, and the pages of the first look free.  And an address handed to
\* munmap that agrees with a page of the region in the low 32 bits of its page
\* number only has cleared the bit of that page, which stays mapped (stray).
FindsFreePages ==
  ~past /\ ~stray =>
    \A p \in Users, pages \in 1 .. MaxRequest, idx \in 0 .. (PageBits - 1) :
      made = {Idle, p} /\ idx + pages <= PageBits /\ Found(idx, pages) =>
        idx .. (idx + pages - 1) \cap mapped[p] = {}

\* A page that no process has mapped can be found again: no sequence of
\* overlapping mmap and munmap calls of any of them, with any addresses, leaves
\* its bit set in the bitmap in use.
NoPageLost ==
  ~past /\ bitmap # NULL => bits[bitmap] \subseteq UNION {mapped[p] : p \in made}
=============================================================================
