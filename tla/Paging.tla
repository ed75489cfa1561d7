-------------------------------- MODULE Paging --------------------------------
(***************************************************************************)
(* Page directories, mm/vmm/paging.c: trees of four levels of tables in    *)
(* pages from pmm_getpage, the directory the processor uses, and its cache *)
(* of translations.  Addresses are page numbers; tables are numbered in    *)
(* the order in which their pages are allocated, none being ever freed.    *)
(***************************************************************************)
EXTENDS Integers, Sequences, FiniteSets

CONSTANTS
  Fan,                  \* entries of a table: 512
  Virtuals,             \* the virtual pages in use
  Physicals,            \* [frame, low], see AddressSpace
  AddrFrames,           \* 2^28, see AddressSpace
  PRESENT, READWRITE, CACHE_DISABLED, WRITE_THROUGH,
  MemPages,             \* get_mem_size / 0x1000
  KernStart, KernEnd,   \* the kernel's image is KernStart .. (KernEnd - 1)
  FbStart, FbEnd,       \* the framebuffer, with the page after it
  DevicePages,          \* the pages that drivers map
  UserPages,            \* the virtual pages that load_elf and mmap map
  UserFlags,            \* the flags programs pass to mmap
  Garbage,              \* an entry of a table that has not been cleared
  Firmware,             \* the firmware's directory
  MaxTables,            \* bound: pages for tables
  MaxDirs               \* bound: directories

PAGE_NORMAL == {PRESENT, READWRITE}
DriverFlags == {PAGE_NORMAL, PAGE_NORMAL \cup {CACHE_DISABLED}}
FB_FLAGS == PAGE_NORMAL \cup {CACHE_DISABLED, WRITE_THROUGH}
AllFlags == FB_FLAGS \cup UNION UserFlags \cup UNION {p.low : p \in Physicals}
NoEntry == [addr |-> 0, flags |-> {}]
Entries == [addr : 0 .. (AddrFrames - 1), flags : SUBSET AllFlags]
NotCached == [page |-> 0, pte |-> NoEntry]
NoLoop == [dir |-> Firmware, todo |-> <<>>]

VARIABLES
  used,    \* how many tables there are
  entry,   \* the entries of each table
  level,   \* ghost: 1 for a PML4, 4 for a table of pages
  roots,   \* the directories
  pml4, cr3,
  loop,    \* the loop of paging_init or create_page_table: directory, pages left
  tlb      \* a translation the processor has cached: any one of those it has
           \* used and not dropped

vars == <<used, entry, level, roots, pml4, cr3, loop, tlb>>
Memory == [used |-> used, entry |-> entry, level |-> level]

\* The indices of a page at the four levels.
pmidx_init(v) ==
  <<(v \div (Fan * Fan * Fan)) % Fan, (v \div (Fan * Fan)) % Fan,
    (v \div Fan) % Fan, v % Fan>>

Path == [v \in Virtuals |-> pmidx_init(v)]

ASSUME PagingAssumption ==
  /\ Fan \in Nat \ {0} /\ MaxTables \in Nat /\ MaxDirs \in Nat
  /\ AddrFrames \in Nat \ {0} /\ MaxTables <= AddrFrames
  /\ Virtuals \subseteq Nat /\ Firmware \notin Nat
  /\ Physicals \subseteq [frame : Nat, low : SUBSET AllFlags]
  /\ Garbage \in Entries
  /\ {KernStart, KernEnd, MemPages, FbStart, FbEnd} \subseteq Nat
  /\ KernStart <= KernEnd /\ KernEnd < MemPages /\ MemPages <= AddrFrames
  /\ (0 .. (MemPages - 1)) \cup (FbStart .. (FbEnd - 1)) \subseteq Virtuals
  /\ DevicePages \subseteq Virtuals
  /\ UserPages \subseteq Virtuals \ (0 .. (MemPages - 1))

\* Distinct pages have distinct paths.
ASSUME PathAssumption ==
  \A v, w \in Virtuals : Path[v] = Path[w] => v = w

Present(e) == PRESENT \in e.flags

pde_setaddress(pde, physical) ==
  [addr  |-> physical.frame % AddrFrames,
   flags |-> pde.flags \cup physical.low]
pde_getaddress(pde) == pde.addr

Aligned(frame) == [frame |-> frame, low |-> {}]

\* Mutant: a new table is not cleared.
NewTable_Dirty(m, lev) ==
  [m EXCEPT !.used = @ + 1, !.level = [@ EXCEPT ![m.used] = lev]]

\* pmm_getpage and memset.
NewTable(m, lev) ==
  [used  |-> m.used + 1,
   entry |-> [m.entry EXCEPT ![m.used] = [i \in 0 .. (Fan - 1) |-> NoEntry]],
   level |-> [m.level EXCEPT ![m.used] = lev]]

Store(m, t, i, pde) == [m EXCEPT !.entry[t][i] = pde]

\* Mutant: a table is allocated although there is one.
Ensure_Always(m, t, i, flags) ==
  LET pde == pde_setaddress(m.entry[t][i], Aligned(m.used)) IN
  Store(NewTable(m, m.level[t] + 1), t, i, [pde EXCEPT !.flags = @ \cup flags])

\* One level of __paging_map: the entry leads to a table, a new one if need be.
Ensure(m, t, i, flags) ==
  IF Present(m.entry[t][i]) THEN m
  ELSE LET pde == pde_setaddress(m.entry[t][i], Aligned(m.used)) IN
       Store(NewTable(m, m.level[t] + 1), t, i,
             [pde EXCEPT !.flags = @ \cup flags])

Child(m, t, i) == pde_getaddress(m.entry[t][i])

__paging_map(m, dir, v, physical, flags) ==
  LET ix  == Path[v]
      m1  == Ensure(m, dir, ix[1], flags)
      pdp == Child(m1, dir, ix[1])
      m2  == Ensure(m1, pdp, ix[2], flags)
      pd  == Child(m2, pdp, ix[2])
      m3  == Ensure(m2, pd, ix[3], flags)
      pt  == Child(m3, pd, ix[3])
      pde == pde_setaddress(m3.entry[pt][ix[4]], physical)
  IN Store(m3, pt, ix[4], [pde EXCEPT !.flags = @ \cup flags])

\* What the processor finds in the tables.
Translate(tables, dir, v) ==
  LET ix  == Path[v]
      pdp == pde_getaddress(tables[dir][ix[1]])
      pd  == pde_getaddress(tables[pdp][ix[2]])
      pt  == pde_getaddress(tables[pd][ix[3]])
  IN IF /\ Present(tables[dir][ix[1]])
        /\ Present(tables[pdp][ix[2]])
        /\ Present(tables[pd][ix[3]])
     THEN tables[pt][ix[4]] ELSE NoEntry

__paging_unmap(m, dir, v) ==
  LET ix  == Path[v]
      pdp == Child(m, dir, ix[1])
      pd  == Child(m, pdp, ix[2])
      pt  == Child(m, pd, ix[3])
  IN IF Present(Translate(m.entry, dir, v)) THEN Store(m, pt, ix[4], NoEntry) ELSE m

-----------------------------------------------------------------------------
Init ==
  /\ used = 0
  /\ entry = [t \in 0 .. (MaxTables - 1) |-> [i \in 0 .. (Fan - 1) |-> Garbage]]
  /\ level = [t \in 0 .. (MaxTables - 1) |-> 0]
  /\ roots = {}
  /\ pml4 = Firmware /\ cr3 = Firmware
  /\ loop = NoLoop
  /\ tlb = NotCached

SetMemory(m) == used' = m.used /\ entry' = m.entry /\ level' = m.level

\* The iterations of a loop that maps the pages from .. (to - 1) to themselves.
Identity(from, to, flags) ==
  [i \in 1 .. (to - from) |-> [page |-> from + i - 1, flags |-> flags]]

\* A new directory, to be filled by the iterations of todo.
Begin(todo) ==
  /\ used < MaxTables
  /\ SetMemory(NewTable(Memory, 1))
  /\ roots' = roots \cup {used}
  /\ loop' = [dir |-> used, todo |-> todo]
  /\ UNCHANGED <<cr3, tlb>>

paging_init ==
  /\ roots = {}
  /\ Begin(Identity(0, MemPages, PAGE_NORMAL) \o Identity(FbStart, FbEnd, FB_FLAGS))
  /\ pml4' = used

\* Mutant: the kernel's own pages are left out.
create_page_table_NoKernel ==
  /\ cr3 # Firmware /\ loop = NoLoop
  /\ Cardinality(roots) < MaxDirs
  /\ Begin(Identity(KernEnd + 1, MemPages, PAGE_NORMAL))
  /\ UNCHANGED pml4

create_page_table ==
  /\ cr3 # Firmware /\ loop = NoLoop
  /\ Cardinality(roots) < MaxDirs
  /\ Begin(Identity(KernStart, KernEnd + 1, PAGE_NORMAL)
             \o Identity(KernEnd + 1, MemPages, PAGE_NORMAL))
  /\ UNCHANGED pml4

\* One iteration of the loop; after the last one paging_init loads cr3.
map_next ==
  /\ loop.todo # <<>>
  /\ used + 3 <= MaxTables
  /\ LET it == Head(loop.todo) IN
       SetMemory(__paging_map(Memory, loop.dir, it.page, Aligned(it.page), it.flags))
  /\ LET last == Len(loop.todo) = 1 IN
       /\ loop' = IF last THEN NoLoop ELSE [loop EXCEPT !.todo = Tail(@)]
       /\ cr3' = IF last /\ cr3 = Firmware THEN pml4 ELSE cr3
  /\ UNCHANGED <<roots, pml4, tlb>>

invlpg(v) == IF tlb.page = v THEN NotCached ELSE tlb

\* Mutant: invlpg is left out.
paging_map_NoInvlpg(v, flags) ==
  /\ cr3 # Firmware
  /\ used + 3 <= MaxTables
  /\ SetMemory(__paging_map(Memory, pml4, v, Aligned(v), flags))
  /\ UNCHANGED <<roots, pml4, cr3, loop, tlb>>

\* The drivers map the pages of their devices to themselves.
paging_map(v, flags) ==
  /\ cr3 # Firmware
  /\ used + 3 <= MaxTables
  /\ SetMemory(__paging_map(Memory, pml4, v, Aligned(v), flags))
  /\ tlb' = invlpg(v)
  /\ UNCHANGED <<roots, pml4, cr3, loop>>

paging_unmap(v) ==
  /\ cr3 # Firmware
  /\ SetMemory(__paging_unmap(Memory, pml4, v))
  /\ tlb' = invlpg(v)
  /\ UNCHANGED <<roots, pml4, cr3, loop>>

\* The calls of __paging_map and __paging_unmap on the directory of a process,
\* which is complete and not in use: the stubs have switched to the kernel's.
Idle(dir) == dir \in roots /\ dir \notin {cr3, loop.dir}

map_page(dir, v, physical, flags) ==
  /\ Idle(dir)
  /\ used + 3 <= MaxTables
  /\ SetMemory(__paging_map(Memory, dir, v, physical, flags))
  /\ UNCHANGED <<roots, pml4, cr3, loop, tlb>>

unmap_page(dir, v) ==
  /\ Idle(dir)
  /\ SetMemory(__paging_unmap(Memory, dir, v))
  /\ UNCHANGED <<roots, pml4, cr3, loop, tlb>>

\* Writing cr3 empties the cache.
paging_change_dir(dir) ==
  /\ cr3 # Firmware /\ dir \in roots /\ dir # loop.dir
  /\ pml4' = dir /\ cr3' = dir
  /\ tlb' = NotCached
  /\ UNCHANGED <<used, entry, level, roots, loop>>

\* The processor uses a page, and remembers where it is.
Access(v) ==
  /\ cr3 # Firmware
  /\ Present(Translate(entry, cr3, v))
  /\ tlb' = [page |-> v, pte |-> Translate(entry, cr3, v)]
  /\ UNCHANGED <<used, entry, level, roots, pml4, cr3, loop>>

\* Drivers use uncached pages for registers; load_elf maps sections that need
\* not be aligned; make_proc_from_elf maps the stack; mmap aligns, and adds
\* PAGE_PRESENT to the flags it is given.
Next ==
  \/ paging_init \/ create_page_table \/ map_next
  \/ \E v \in DevicePages :
       \/ \E flags \in DriverFlags : paging_map(v, flags)
       \/ v < KernStart /\ paging_unmap(v)
  \/ \E dir \in roots :
       \/ paging_change_dir(dir)
       \/ \E v \in KernEnd .. (MemPages - 1) :
            map_page(dir, v, Aligned(v), PAGE_NORMAL)
       \/ \E v \in UserPages :
            \/ \E physical \in Physicals : map_page(dir, v, physical, PAGE_NORMAL)
            \/ \E physical \in Physicals, flags \in UserFlags :
                 map_page(dir, v, Aligned(physical.frame), flags \cup {PRESENT})
            \/ unmap_page(dir, v)
  \/ \E v \in Virtuals : Access(v)

Spec == Init /\ [][Next]_vars
-----------------------------------------------------------------------------
TypeOK ==
  /\ used \in 0 .. MaxTables
  /\ entry \in [0 .. (MaxTables - 1) -> [0 .. (Fan - 1) -> Entries]]
  /\ level \in [0 .. (MaxTables - 1) -> 0 .. 4]
  /\ roots \subseteq 0 .. (used - 1)
  /\ pml4 \in roots \cup {Firmware} /\ cr3 \in {pml4, Firmware}
  /\ loop.dir \in roots \cup {Firmware}
  /\ loop.todo \in Seq([page : Virtuals, flags : SUBSET AllFlags])
  /\ tlb \in [page : Virtuals \cup {0}, pte : Entries]

\* The entries through which one table leads to the next.
Links == {l \in (0 .. (used - 1)) \X (0 .. (Fan - 1)) :
            level[l[1]] < 4 /\ Present(entry[l[1]][l[2]])}

\* The tables form one tree per directory, of uniform depth: each entry leads
\* to a table of the next level, and no two entries, of whatever directories,
\* lead to the same table.  The state has its types.
TreeInv ==
  /\ TypeOK
  /\ \A d \in roots : level[d] = 1
  /\ \A t \in 0 .. (used - 1) : level[t] \in 1 .. 4
  /\ \A l \in Links :
       LET c == pde_getaddress(entry[l[1]][l[2]])
       IN c \in 0 .. (used - 1) /\ level[c] = level[l[1]] + 1
  /\ \A k, l \in Links :
       pde_getaddress(entry[k[1]][k[2]]) = pde_getaddress(entry[l[1]][l[2]]) => k = l

\* The processor never uses a translation that the tables no longer contain:
\* what __paging_map and __paging_unmap change without invlpg belongs to a
\* directory that is not loaded, and loading it empties the cache.
TlbFresh ==
  Present(tlb.pte) => tlb.pte = Translate(entry, cr3, tlb.page)

\* Whatever directory is in use, the kernel's image and the memory above it are
\* where the interrupt stubs, which run before the switch to the kernel's
\* directory, expect them.
KernelMapped ==
  cr3 # Firmware =>
    \A v \in KernStart .. (MemPages - 1) :
      LET e == Translate(entry, cr3, v)
      IN e.addr = v /\ PAGE_NORMAL \subseteq e.flags

Space ==
  INSTANCE AddressSpace WITH
    Dirs <- 0 .. (MaxTables - 1),
    Physicals <- Physicals \cup {Aligned(p.frame) : p \in Physicals}
                   \cup {Aligned(v) : v \in Virtuals},
    FlagSets <- DriverFlags \cup {FB_FLAGS} \cup {f \cup {PRESENT} : f \in UserFlags},
    space <- [d \in roots |-> [v \in Virtuals |-> Translate(entry, d, v)]]

\* The trees implement one table per directory: __paging_map and __paging_unmap
\* change the translation of one page of one directory, although they add
\* tables on the way that other pages share.
SpaceSpec == Space!Spec
=============================================================================
