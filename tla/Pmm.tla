--------------------------------- MODULE Pmm ---------------------------------
(***************************************************************************)
(* The physical page allocator, mm/pmm/pmm.c.  Addresses and sizes are     *)
(* counted in pages of 0x1000 bytes.  pmm_init picks one conventional      *)
(* segment of the firmware's memory map, puts the bitmap in its first      *)
(* BitmapPages pages and hands out the pages that follow; page i is the    *)
(* address start_of_mem + i.                                               *)
(*                                                                         *)
(* A bit index of BitmapBits or more lies outside the pages set aside for  *)
(* the bitmap: its bit is stored in page 0, the first page handed out.     *)
(* pmm_init does not clear it and the owner of page 0 overwrites it.       *)
(***************************************************************************)
EXTENDS Bitmap, Sequences

CONSTANTS
  MemoryMaps,    \* the memory maps the firmware may pass: sequences of
                 \* [type, physAddr, numPages]
  KernStart,     \* _kern_start, in pages
  KernPages,     \* (_kern_end - _kern_start) / 0x1000
  BitmapPages,   \* pages reserved for the bitmap: 0x4000 bytes, 4 pages
  PageBits,      \* bits held by one page: 0x1000 * 8 in the code
  AddressPages,  \* pages in the 64-bit address space, the modulus of uint64_t
  PageContents,  \* what a page may contain, as sets of bit indices
  MaxRequest,    \* bound: the largest pmm_getpages request
  MaxFrees       \* bound: number of pmm_freepage calls

EfiConventionalMemory == 7

\* No segment is larger than the address space.
Descriptors == [type : Nat, physAddr : Nat, numPages : 0 .. (AddressPages - 1)]

BitmapBits == BitmapPages * PageBits

\* Mutant: sizes are not compared.
ConsiderSegment_Last(acc, desc) ==
  IF desc.type = EfiConventionalMemory
  THEN [seg   |-> desc.physAddr + BitmapPages,
        size  |-> (desc.numPages - BitmapPages) % AddressPages,
        pages |-> desc.numPages]
  ELSE acc

\* One iteration of the loop of pmm_init over the descriptors.  The size that
\* is remembered is BitmapPages smaller than the size that is compared, and
\* it wraps for a segment smaller than the bitmap.  pages remembers numPages
\* of the chosen descriptor; the code does not keep it.
ConsiderSegment(acc, desc) ==
  IF desc.type = EfiConventionalMemory /\ desc.numPages > acc.size
  THEN [seg   |-> desc.physAddr + BitmapPages,
        size  |-> (desc.numPages - BitmapPages) % AddressPages,
        pages |-> desc.numPages]
  ELSE acc

ChosenSegment(map) ==
  LET acc[i \in 0 .. Len(map)] ==
        IF i = 0 THEN [seg |-> 0, size |-> 0, pages |-> 0]
        ELSE ConsiderSegment(acc[i - 1], map[i])
  IN acc[Len(map)]

\* Every descriptor counts, whatever its type.
get_mem_size(map) ==
  LET sum[i \in 0 .. Len(map)] == IF i = 0 THEN 0 ELSE sum[i - 1] + map[i].numPages
  IN sum[Len(map)]

ASSUME PmmAssumption ==
  /\ MemoryMaps \subseteq Seq(Descriptors)
  /\ KernStart \in Nat /\ KernPages \in Nat
  /\ BitmapPages \in Nat /\ PageBits \in Nat
  /\ AddressPages \in Nat \ {0}
  /\ PageContents \subseteq SUBSET Nat
  /\ MaxRequest \in Nat /\ MaxFrees \in Nat

VARIABLES
  phase,         \* "boot" until pmm_init has returned, then "ready"
  mmap,          \* the firmware's memory map
  pmm_bitmap,    \* [size, bits]
  start_of_mem,  \* address of page 0
  segPages,      \* ghost: numPages of the segment pmm_init chose
  held,          \* ghost: pages handed out and not freed
  granted,       \* ghost: pages the last call handed out
  frees          \* ghost: number of pmm_freepage calls so far

vars == <<phase, mmap, pmm_bitmap, start_of_mem, segPages, held, granted, frees>>

\* The bits kept in page 0, when the machine has that much memory.
Spilled(bm) == BitmapBits .. (bm.size * 8)

-----------------------------------------------------------------------------
Init ==
  /\ phase = "boot"
  /\ mmap \in MemoryMaps
  /\ pmm_bitmap = [size |-> 0, bits |-> {}]
  /\ start_of_mem = 0
  /\ segPages = 0
  /\ held = {} /\ granted = {} /\ frees = 0

pmm_lockpages(bm, start, addr, pages) ==
  bitmap_set_range(bm, addr - start, pages, 1)

pmm_init ==
  /\ phase = "boot"
  /\ phase' = "ready"
  /\ LET chosen  == ChosenSegment(mmap)
         size    == (get_mem_size(mmap) \div 8) + 1
     IN \E garbage \in PageContents :
          LET cleared == [size |-> size,
                          bits |-> garbage \cap Spilled([size |-> size])] IN
          /\ pmm_bitmap' = IF chosen.seg < KernStart
                           THEN pmm_lockpages(cleared, chosen.seg, KernStart,
                                              KernPages + 1)
                           ELSE cleared
          /\ start_of_mem' = chosen.seg
          /\ segPages' = chosen.pages
  /\ UNCHANGED <<mmap, held, granted, frees>>

\* while (bitmap_get(&pmm_bitmap, idx) != 0) idx++;  The search always ends:
\* the first index out of range reads as free.
Searched == 0 .. (pmm_bitmap.size * 8 + 1)

\* Mutant: any free page will do.
FirstFree_Any(idx) == bitmap_get(pmm_bitmap, idx) = 0

FirstFree(idx) ==
  /\ bitmap_get(pmm_bitmap, idx) = 0
  /\ \A j \in 0 .. (idx - 1) : bitmap_get(pmm_bitmap, j) # 0

\* Mutant: the page is not marked.
pmm_getpage_Unmarked ==
  /\ phase = "ready"
  /\ \E idx \in Searched :
       FirstFree(idx) /\ granted' = {idx} /\ held' = held \cup {idx}
  /\ UNCHANGED <<phase, mmap, pmm_bitmap, start_of_mem, segPages, frees>>

pmm_getpage ==
  /\ phase = "ready"
  /\ \E idx \in Searched :
       /\ FirstFree(idx)
       /\ pmm_bitmap' = bitmap_set(pmm_bitmap, idx, 1)
       /\ granted' = {idx}
       /\ held' = held \cup {idx}
  /\ UNCHANGED <<phase, mmap, start_of_mem, segPages, frees>>

\* Only the first page of the run is known to be free.
pmm_getpages(pages) ==
  /\ phase = "ready"
  /\ \E idx \in Searched :
       /\ FirstFree(idx)
       /\ pmm_bitmap' = bitmap_set_range(pmm_bitmap, idx, pages, 1)
       /\ granted' = idx .. (idx + pages - 1)
       /\ held' = held \cup (idx .. (idx + pages - 1))
  /\ UNCHANGED <<phase, mmap, start_of_mem, segPages, frees>>

\* The caller passes the address start_of_mem + idx of a page it holds.
pmm_freepage(idx) ==
  /\ phase = "ready"
  /\ frees < MaxFrees
  /\ pmm_bitmap' = bitmap_set(pmm_bitmap, idx, 0)
  /\ held' = held \ {idx}
  /\ granted' = {}
  /\ frees' = frees + 1
  /\ UNCHANGED <<phase, mmap, start_of_mem, segPages>>

\* The owner of page 0 writes to it, and with it to the bits stored there.
WritePageZero ==
  /\ phase = "ready"
  /\ 0 \in held
  /\ Spilled(pmm_bitmap) # {}
  /\ \E written \in PageContents :
       pmm_bitmap' = [pmm_bitmap EXCEPT !.bits =
                        (@ \ Spilled(pmm_bitmap))
                          \cup (written \cap Spilled(pmm_bitmap))]
  /\ granted' = {}
  /\ UNCHANGED <<phase, mmap, start_of_mem, segPages, held, frees>>

Next ==
  \/ pmm_init
  \/ pmm_getpage
  \/ \E pages \in 1 .. MaxRequest : pmm_getpages(pages)
  \/ \E idx \in held : pmm_freepage(idx)
  \/ WritePageZero

Spec == Init /\ [][Next]_vars
-----------------------------------------------------------------------------
TypeOK ==
  /\ phase \in {"boot", "ready"}
  /\ mmap \in MemoryMaps
  /\ pmm_bitmap \in [size : Nat, bits : SUBSET Nat]
  /\ start_of_mem \in Nat
  /\ segPages \in Nat
  /\ held \in SUBSET Nat
  /\ granted \in SUBSET Nat
  /\ frees \in Nat

\* The pages of the chosen segment that follow the bitmap and whose bit is
\* stored in the bitmap's own pages.
Usable == {i \in 0 .. (segPages - BitmapPages - 1) : i < BitmapBits}

\* The pages of the kernel image, when pmm_init locks them and their bits are
\* in range and in the bitmap's own pages.
KernelImage ==
  {i \in (KernStart - start_of_mem) .. (KernStart - start_of_mem + KernPages) :
     /\ start_of_mem < KernStart
     /\ i < BitmapBits
     /\ InRange(pmm_bitmap, i)}

\* What makes the properties below inductive.  A held usable page is marked in
\* the bitmap.  Until a page is freed the allocator only moves forward: every
\* page below a held usable one is marked, and so is the locked kernel image.
\* The bitmap covers the segment.
MarkedInv ==
  /\ phase = "boot" => held = {} /\ segPages = 0 /\ frees = 0
  /\ segPages <= pmm_bitmap.size * 8
  /\ held \cap Usable \subseteq pmm_bitmap.bits
  /\ frees = 0 =>
       /\ \A h \in held \cap Usable : 0 .. h \subseteq pmm_bitmap.bits
       /\ phase = "ready" => KernelImage \subseteq pmm_bitmap.bits

\* A usable page is handed out only while nobody holds it.  For pmm_getpage
\* this holds in every mix of calls.  For pmm_getpages, which marks a run after
\* checking its first page only, it holds as long as no page was ever freed,
\* which is how load_elf, its one caller, uses it.
NeverHandedOutTwice ==
  [][\/ pmm_getpage
     \/ frees = 0 /\ \E pages \in 1 .. MaxRequest : pmm_getpages(pages)
     => granted' \cap held \cap Usable = {}]_vars

\* While a usable page is free, pmm_getpage returns a usable page: it does not
\* run past the segment (whose pages it must not touch: other firmware
\* memory, or memory that is not there) before the segment is used up.
SegmentFirst ==
  [][pmm_getpage /\ (\E i \in Usable : bitmap_get(pmm_bitmap, i) = 0)
     => granted' \subseteq Usable]_vars

\* pmm_getpage never returns a page of the kernel image that pmm_init locked.
\* (Once pages have been freed this is no longer so: a run of pmm_getpages may
\* have swallowed locked pages, and freeing it unlocks them.)
KernelStaysLocked ==
  [][pmm_getpage /\ frees = 0 => granted' \cap KernelImage = {}]_vars

\* Until a page is freed, pmm_getpage skips nothing but the locked kernel image:
\* the pages that successive calls return are neighbours, which is what
\* heap_init takes the 512 pages of the heap for, unless the image lies among
\* them.
SuccessivePages ==
  [][pmm_getpage /\ frees = 0
     => \A g \in granted' \cap Usable : 0 .. (g - 1) \subseteq held \cup KernelImage]_vars

\* The log line of pmm_init (pmm.c:82), "Located largest free memory segment":
\* no conventional segment of the map is larger than the one chosen.  So it is
\* when no segment is smaller than the bitmap and no two of them differ by less;
\* otherwise a later, smaller one may replace the largest.
Conventional == {i \in 1 .. Len(mmap) : mmap[i].type = EfiConventionalMemory}
LocatedLargest ==
  /\ phase = "ready"
  /\ \A i \in Conventional : mmap[i].numPages >= BitmapPages
  /\ \A i, j \in Conventional :
       mmap[i].numPages < mmap[j].numPages =>
         mmap[i].numPages + BitmapPages <= mmap[j].numPages
  => \A i \in Conventional : mmap[i].numPages <= segPages
=============================================================================
