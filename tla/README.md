# ChronOS: models, checks and proofs

ChronOS is a small x86-64 kernel started by a UEFI bootloader. This directory
holds TLA+ models of its boot, memory management, scheduling, system calls, disk and
network drivers and file system, the TLC configurations that check them on small
instances, and TLAPS proofs about the page allocator, the scheduler, the heap and its free lists,
the page directories, the system calls, the disk and network drivers and the boot for
every instance. `PROJECT.json` maps each definition to the lines it models and
lists the runs, mutants, findings, hazards and theorems. Paths below are relative to
`src/kernel/src/`.

    tlc -workers 2 -config MCPmm.cfg MCPmm     # a run: the table below
    tlapm PmmProofs.tla                        # the proofs of one component

## 1. The system and its parts

One processor. After `_start` (kernel.c) has initialised memory, tables, interrupt
controllers, timer, PCI devices and the file system, `process_init` turns the boot
thread into the first process and the timer interrupt switches between processes.
Interrupt handlers and system calls run with interrupts off; the boot thread runs
with interrupts on from `idt_init`. There are no locks.

| Part | State | Operations | What makes it hard |
|---|---|---|---|
| Bit array, `ds/bitmap.c` | bytes and a size | get, set | the bound check is off by one |
| Page allocator, `mm/pmm/pmm.c` | bitmap inside the chosen segment, `start_of_mem` | init, getpage, getpages, freepage, lockpages | wrap of unsigned sizes; bits stored outside the bitmap; runs that are not checked; memory used up |
| Scheduler, `process/process.c`, `idt/interrupts.asm` | the ring of `process_t`, `cur_proc`, saved and live registers, cr3 | process_init, make_proc, make_proc_from_elf, the timer stub with schedule | a tick between any two stores; fresh pages with arbitrary contents |
| Heap, `shmall/heap.c`, `shmall_wrapper.c` | headers, footers, bins | heap_init, heap_alloc, heap_free | stale boundary tags; the first and the last block; sizes at the limits |
| Free lists, `shmall/llist.c` | doubly linked nodes inside free memory | add_node, remove_node, get_best_fit | stale `prev` fields, payload over links |
| Page directories, `mm/vmm/paging.c` | trees of tables, cr3, the processor's cache | paging_init, create_page_table, map, unmap, change_dir | tables shared between pages; stale translations; half-built directories |
| Regions, `mm/vmm/vmm.c` | one bitmap per process | mmap, munmap | partial and overlapping unmaps; the bitmap's address |
| System calls, `idt/syscall.c` | `process_t.files` | open, close (mmap, munmap) | slots that are never emptied; failures half-way |
| ELF loader, `loader/elf.c` | pages and mappings of a program | load_elf | returns with interrupts off on failure |
| AHCI, `drivers/storage/ahci`, `fs/fat/diskio.c` | command slots, one buffer per port | probe, configure, read, write, irq | device answers late or never, errors, slots and sector numbers at their limits |
| File system, `fs/fat/ff.c` | window, FAT, directories, file objects | f_open to f_rename, f_readdir, f_getfree | power and disk fail between two writes; buffers newer than the disk; a full volume |
| E1000, `drivers/ethernet` | receive and transmit rings | init, irq, receive, send | several causes in one interrupt; ring indices |
| ARP, IPv4, `net/` | none | net_handle, arp_handle, ipv4_handle | runs inside the interrupt and allocates |
| ACPI, IOAPIC, LAPIC, HPET, PCI, IDT, EDU driver | table pointers, redirection entries, gates, vectors | init, find_table, set_entry, enumeration | order of initialisation with interrupts on; which table pointer is valid; shared lines |
| Terminal, printk, logging | cursor, framebuffer, one text buffer | putc, scroll, vsprintf | bounds of the framebuffer; the buffer is shared with interrupts |
| Device table, LAI host functions | small tables | register, look up, forward | little: see PROJECT.json |
| GDT, strings, port I/O, panic | set once | set-up | nothing to check beyond a test |
| UEFI bootloader, `src/gnu-efi/bootloader` | memory map and its key | efi_main | the map may change between two firmware calls |
| LAI, gnu-efi | | | third party, not modelled |

Interactions: everything takes pages from the page allocator; the heap is built on
512 of them; paging takes its tables from it; a process is a page, a stack page and
a directory; mmap works on the directory and the bitmap of the current process;
open puts heap objects into its descriptors; the timer stub switches directory and
registers together; the network card's interrupt allocates from the heap; FatFs
reads and writes sectors through the AHCI driver; the drivers get their vectors and
redirection entries from PCI, ACPI and the IOAPIC; the bootloader hands the memory
map to the page allocator and the RSDP to ACPI.

What correctness means, part by part:

* pages: no page is given to two owners, the kernel's image to none, and the
  segment the firmware called free is used before anything else;
* scheduling: at every instant a tick finds a complete ring, a switch loses no
  registers, a process sees its own memory, every process runs again and again;
* heap: blocks tile the region, held blocks are intact, free neighbours are merged,
  and every list contains exactly the free blocks of its sizes, in order;
* paging: the tables are trees, mapping one page changes one page, the processor
  never uses an entry that is gone, the kernel is always mapped;
* regions and descriptors: what is handed out is free, what is released can be
  handed out again, a stale handle reaches nothing else;
* disk: what was written is read, a call that reports success has happened, no slot
  is lost to a late answer, every call returns;
* network: frames are handled once each and in order, answers go to their sender;
* files: clusters have one owner, a file holds what was written to it, also after the
  loss of power once it was synced;
* boot: the kernel gets the current memory map, reads only what is mapped, and an
  interrupt at any time finds the handler of its line.

## 2. The modules

**Bitmap, Pmm, MCPmm, PmmProofs.** A bitmap is the set of its 1 bits with the size
that the bound check uses. `Pmm` counts in pages. `pmm_init` goes through the
firmware's map with the code's unsigned wrap, and its effects on bits outside the
four pages reserved for the bitmap are followed: those bits live in the first page
that is handed out, so they start with any contents and change when its owner
writes (`WritePageZero`). Ghost variables say which pages callers hold and which
were granted last.

**Processes, Scheduler, MCScheduler, ProcessProofs.** `Processes` has the names that
Scheduler and Syscall share. The boot thread is at a line (`pc`)
and executes one store to shared state per step; `timer_irq` is the whole stub from
`pushaq` to `iretq`, as its gate turns interrupts off. A register file is: whose
code, how far, on which stack. `popaq` leaves out rsp, so the stack stays that of
the interrupted process. Fresh pages hold NULL or garbage in `next`, and a machine
that loads a directory or registers that are not there is no longer `Alive`.
`load_elf` turns interrupts off and, for a file that `elf_check` rejects, returns
without turning them on; the process is made nevertheless. The kernel starts one
program; `Users` with two elements stands for further calls of
`make_proc_from_elf`. What a process does to the data on a stack that is not its
own is not followed.

**Bin, FreeList, Llist, MCLlist, LlistProofs.** `Bin` has the free lists as sequences
sorted by size; `FreeList` is their specification, `Llist` the pointers: `next` and `prev`
lie in the block, are left stale by `remove_node` and overwritten by the owner of a
block. `Llist` implements `FreeList` (`ListSpec`).

**BlockHeap, Heap, HeapProofs.** `BlockHeap` is what the heap promises: a
region tiled by blocks. `Heap` has headers, footers and bins as the code does, and
implements it (`BlocksSpec`). Both follow the code at its edges: `heap_alloc`
returns NULL, with the block gone, when the last block has become small;
`heap_free` of the first block merges nothing; `heap_free` of the last block takes
bin 0, which lies behind the region, for a header. In that last case the block grows
past the region, and the models stop there (`past`). The page of the bins
is clear and lies below 4 GB, as the 32-bit casts of the code need.

**AddressSpace, Paging, MCPaging, PagingProofs.** `AddressSpace` is one table from pages to
entries per directory. `Paging` has the four-level trees, cr3 and the global `pml4`,
and one translation that the processor has cached (staleness is a matter of single
pages, so one that may be any of those used is enough). The loops of `paging_init`
and `create_page_table` take one step per page, so switches and other mappings fall
between. `paging_map` and `paging_unmap` act on the loaded directory and flush;
`map_page` and `unmap_page` are the direct calls of `__paging_map` and
`__paging_unmap` by `make_proc_from_elf`, `load_elf`, `mmap` and `munmap`, on a
directory that is not loaded since the stubs have switched to the kernel's. Assumed
of the callers: drivers map their pages to themselves, LAI unmaps only
pages below the kernel, programs map and unmap only pages outside physical memory's
identity mapping. A translation is the entry of the last level; that the processor
also asks the upper levels for the write bit is not modelled. Tables get fresh pages (that is `Pmm`'s subject) and are never
freed, as in the code.

**Vmm.** mmap and munmap with the set of taken bits and the set of mapped pages.
`make_proc` and `make_proc_from_elf` never set `process_t.bitmap`: they write
through it. In clear memory it is NULL, and all processes share the `bitmap_t` at
address 0, which refers to the bits of the process made last. munmap takes any
address: its page number is cut to an int for the bitmap (`Indices`) and to the bits
that a directory looks at for the unmapping (`Unmapped`), and the ghost `stray` says that
a bit was cleared whose page was not unmapped. Numbers of pages may be zero (refused) or
negative (the search never ends). A call that leaves the one page the bitmap is given, or
never ends, ends the behaviour (`past`).

**Syscall, MCSyscall, ProcessProofs.** The programs' calls: those of Vmm, and open and
close with the possible results of FatFs and of `kmalloc`. The loop in open does
not stop at the first free slot; failed opens and closes leave the object in the slot. read, write
and test change no state another call reads. Memory and files share no state, so the
instance has programs that use one or the other. Neither the number of a call nor the
descriptor of close is checked; one outside of its array ends the behaviour (`Outside`).

**Disk, Ahci, MCAhci, AhciProofs.** `Disk` is an array of sectors with one call at a time,
which may be refused before it has begun and not afterwards.
`Ahci` is the driver from the BIOS handoff to the calls of `disk_read` and
`disk_write`: the probe of the ports, stopping and starting the engines, each store of
the addresses of the lists, the search for a slot, the two waits. A step of the driver is one access to the controller that
matters to it, and between two of them the controller does what it likes: fetch
commands in any order, move a sector, complete, be busy, report an error, stop, or
execute a failed command again. `Ahci` implements `Disk` until the first error
(`DiskSpec`). The only call of `dev_ahci_reset` is commented out (ahci.c:337).
Transfers fit the port's buffer of one page (ahci.c:368); FatFs clips its own to a
cluster, which is one sector on the Makefile's image (`-c 1`).

**Net, E1000, MCE1000, E1000Proofs.** `Net` is what ARP and IPv4 make of a frame, with the byte
order of the code: the test for a request compares `hardware_type` with
`ARP_REQUEST`, both 1, so replies are answered too. `E1000` is the initialisation
with interrupts on, the handler, both rings and the wait for the card. The causes
are tested with else-if and reading them clears them; the ghost `swallowed` says
that a receive cause was lost this way.

**FatVolume, FatDir, FatFile, FatPath, FatFs, Files, MCFat.** `ff.c` as the kernel
configures it (long names, one volume, no locks), on a FAT16 volume, which is a choice
of the model: the code decides by the number of clusters. `FatVolume` has the window
onto one sector, the FAT with its copy and the cluster chains; `FatDir` the
directories with long and numbered short names; `FatFile` and `FatPath` the calls.
Each operation of `ff.c` is an operator from the state of the file system to the next
and goes through the same disk accesses in the same order, so that a fault, chosen
when the call begins, hits any of them: the disk refuses one access, or power fails
after some write. `FatFs` makes the calls in any order within a scene. After a loss of
power the volume is mounted again with nothing in memory. `Files` is the promise:
named files with contents. A file that has not been synced is `unsettled` and may be
changed by the loss of power, one on which a call has failed is `doubtful`. FatFs
implements Files (`KeepsFiles`). A name of the instance says what `create_name` finds in
its characters: parts, short body, whether something is lost or capitals are mixed.
Sectors hold records; the parsing of paths, times and attributes are left out, and
so are the functions the configuration compiles away. Of `mount_volume` the model has the
read of the boot sector and what is set up for a volume that is in order; the checks of
that sector are left out, and so is the clip of `f_write` at 4 GiB.

**Bootloader, Boot, MCBoot, BootProofs.** `Bootloader` is `efi_main` from the first
`GetMemoryMap` to the call of the kernel, with a firmware that may change its map
inside the calls that allocate or print and between any two of them, and that may have
no memory for the map. `Boot` goes on
with `_start`: each call of an init function is a step, or several where an
interrupt in between matters (the gate and the entry of a driver, the self-test of
the EDU device), and the enumeration takes a step for each place on the bus. A
machine is a record of its tables, wiring and functions, with one MCFG segment that
begins at bus 0; the line of the SCI is any (`SciIrq`). An interrupt of whatever is
unmasked may arrive after every step. It is an assumption of the model that the
firmware leaves all sources masked.

## 3. The runs

| Run | Shows | Instance |
|---|---|---|
| `pmm` | `LocatedLargest`, `NeverHandedOutTwice`, `SegmentFirst`, `SuccessivePages` | five maps: segment above the kernel, below it, more pages than bits, smaller than the bitmap, three segments |
| `scheduler` | `RingInv`, `ContextInv`, `LostOnlyInWindow`; liveness `EveryProcessRuns` | boot thread, idle, two programs, accepted or rejected |
| `scheduler_stack` | **violated:** `OwnStack` | the same |
| `block_heap` | `HeldIntact` | 20 units, three request sizes, zero included |
| `heap` | `BinsInv`, with the footers; `BlocksSpec`: Heap implements BlockHeap | 19 units, three bins, two request sizes |
| `llist` | `BestFitIsBest`; `ListSpec`: Llist implements FreeList | four nodes, two sizes |
| `paging` | `TreeInv`, `TlbFresh`, `KernelMapped`; `SpaceSpec`: Paging implements AddressSpace | tables of two entries, two directories, four pages of memory, five virtual pages |
| `syscall` | `FindsFreePages`, `NoPageLost`; `DescriptorsInv`, `NoAlias` | two programs; four pages, calls of -1 to two pages, addresses that the int and the directory cut; slots 2 and 3, four file objects |
| `ahci` | `DiskSpec`: Ahci implements Disk; `NoFalseSuccess`, `NoSlotLost`, `ListsWhole`; liveness `CallReturns` | five controllers of 1 to 32 slots, sectors on both sides of 2^16, one error |
| `net` | `RingInOrder`, `AnswersItsSender`; liveness `FramesHandled` | rings of four and two descriptors, five frames of four kinds |
| `fat` | `ChainsApart`, `NothingLost`, `NamesDiffer`, `ListedAll`; `KeepsFiles`: FatFs implements Files | four clusters; six scenes of two to six calls, three of them with one fault |
| `boot` | `MapIsCurrent`, `TablesMapped`, `GateBeforeInterrupt`, `OwnHandler`, `RoutedAtEnd`, `Attached` | 36 machines, a map that grows by up to three descriptors |

The types of the state are a conjunct of `BinsInv`, `TreeInv`, `NoSlotLost`,
`RingInOrder`, `ChainsApart` and `Attached`. `MarkedInv`, `KernelStaysLocked`, `LinkInv`,
`OwnAddressSpace`, `Tiling` and `Coalesced` are in no run, since section 5 proves them.

Why the bounds suffice for the cases of interest:

* `pmm`: the segment can be used up, and one map has bits beyond the bitmap's
  pages. Two frees are enough for `pmm_getpages` to swallow a held page, and
  requests of two pages for a run to cross one.
* `scheduler`: two programs put an insertion into a ring that already has more
  than one other process; progress modulo three distinguishes a saved context from
  an older one.
* `heap`, `block_heap`: blocks on either side can be holes at once, the remainder of
  a cut falls on both sides of the threshold, the last block gets too small, and the
  fake header behind the region occurs. `heap` takes fewer sizes because addresses,
  footers and bins multiply the states.
* `llist`: four nodes give head, two middle positions and tail; two sizes give ties.
* `paging`: a device and the kernel share a table, a program's page shares only the
  root; two directories over these pages need 16 tables, so the bound of 19 never
  keeps a call from happening; of two frames to map one does not fit in an entry
  and is not aligned, so that masking, flags and remapping matter.
* `syscall`: enough pages for two separated holes and an unmap across them; an int of
  8 pages and directories of 16 keep the code's order (the bitmap's page, its size, an
  int, a directory), and 20 addresses reach a page that the int cuts to the region and one
  that both do; every slot can be used up with objects left over.
* `ahci`: the firmware leaves either engine of a port running or not; one transfer of two sectors can be interrupted, another one of a different
  length aliases it if an address byte is lost; the slot of a failed command stays
  taken, so a later call uses another one.
* `net`: five frames go round the receive ring of four, with a burst that fills it,
  and their answers round the transmit ring.
* `fat`: a file of five units spans three sectors and two clusters of the four, so the
  volume fills up within a scene; the FAT spans two sectors; the root directory spans three,
  and two long names get the same short name. Data (`data`: two files open, four calls;
  `long`: five calls, no fault), whole files (`files`: four calls), names (`names`: three
  calls without a fault; `broken`: two with one) and a listing with changes in between
  (`listing`: six calls, so that it comes to its end). A fault is in any one access.
* `boot`: the map can outgrow the two spare descriptors; tables lie before and behind
  the one looked for; a bus has a hole before a device and one before a function; two
  drivers share a line, a card has no route, another comes first.

Deadlock is checked but where a final state is real: in the scheduler's two runs (a
wild cr3 during `process_init` stops the machine), `net` and `fat` (the bounded number
of frames and calls is used up) and `boot` (it ends in the idle loop, or stuck).

**Fairness.** `scheduler`: weak fairness of `timer_irq`, since the HPET's comparator is
periodic and a pending interrupt is taken once the flag allows; strong fairness of the
boot thread's step, since a time slice is long compared with an instruction, so a
thread scheduled again and again gets somewhere. `ahci`: weak fairness of the driver,
which polls, and of the controller, which executes what it has fetched; after an error
it need not. `net`: weak fairness of the two threads and of the card's transmitter.
The other specifications assume no fairness, and no run shows that the boot ends.

## 4. Findings

* `scheduler_stack`: each process gets "The stack" and an rsp in it, but the stub
  skips the saved rsp, so a process runs on the stack of the one it replaced.

Where the code falls short of one of its comments only in some cases, the property is
stated with the condition under which it holds, and the run shows that the condition
is enough:

* `LocatedLargest`: `pmm_init` logs "Located largest free memory segment", but compares
  a full size with one already reduced by the bitmap's four pages, so a later,
  smaller segment can win when sizes are close.
* `FindsFreePages`: mmap's "Look for free pages" finds pages the process has mapped,
  once a second program has been made (the kernel as it stands makes one), or once munmap
  was given an address outside the region that its int cuts to a page of the region
  (vmm.c:50), whose bit is then cleared while it stays mapped.
* `TablesMapped`: "Mapped every table to memory" does not hold with an XSDT, where the
  loop reads the RSDT's pointer, which is NULL (acpi.c:18 has a TODO for XSDT support).
* `GateBeforeInterrupt`: the message of the EDU device is enabled before its gate.
* `OwnHandler`, `RoutedAtEnd`: for machines with one IOAPIC on which no PCI pin has the
  number of an ISA interrupt that is wired elsewhere (`Routable`). The drivers pass their
  pins through the overrides of the ISA interrupts too.
* `FramesHandled`: a frame whose cause is read together with another one waits for the
  next receive cause, which need not come.

open, "Ignoring 0 and 1 because they are for i/o", returns 1 when it has no slot left;
the model does so too, no property is about it.

Also visible in the models, with nothing in the repository that says otherwise: a
tick between the stores of `process_init` can stop the machine (`LostOnlyInWindow`
shows that this is the only window, apart from a rejected ELF file); a block is lost
when `heap_alloc` gives up; freeing the last block can reach past the heap; slots of
descriptors are never reused; memory below the kernel is not mapped in the
directories of processes; a controller with 1 or 17 slots cannot be used; a device that
stops after an error holds the next call for ever; the SCI stays masked, since its
entry is written before `ioapic_init`; two devices on one line share the handler of the
later one; with several IOAPICs the entries go to the last; `efi_main` does not try
`ExitBootServices` again. Of FatFs there are three states after which nothing is promised.
Power lost or a disk error in what the comments of `f_rename` call its critical section
leaves two names for one chain. Power lost between a truncation to nothing and the sync
leaves a name for free clusters. Power lost or a disk error between linking a cluster to a
directory and clearing it leaves old data that are read as entries. These states end the
exploration (`damaged`), and `ChainsApart`, `NamesDiffer` and `KeepsFiles` except them;
every other state after a fault is checked, those of a rename that failed elsewhere
included. `f_sync` forgets a failure of its last write.

## 5. The proofs

Everything below holds for all values of the constants that satisfy the named
assumptions; TLC evaluates the assumptions on the instances. Each proof has a
lemma or a step per action, and the theorem puts them together.

**PmmProofs** (`PmmAssumption`): `PmmType`, `PmmMarked`, `PmmNeverHandedOutTwice`,
`PmmSegmentFirst`, `PmmKernelStaysLocked`, `PmmSuccessivePages`, `PmmLocatedLargest`.
That a page is not handed out twice is not inductive: it needs that held pages are
marked. That the locked kernel stays locked, and that `pmm_getpages` may trust the
pages behind the first free one, needs more: until something is freed, everything
below a held page is marked. Both are `MarkedInv`. That no gaps arise is the converse,
`OnlyHeldMarked`: until then only held pages and the kernel's are marked.
`LocatedLargest` is about the loop over a memory map of any length and is shown by
induction on the descriptors seen: the remembered size is that of a largest one so far
without the bitmap, so a later segment above that size is, by the condition on the map,
not smaller than the chosen one. The library's induction theorems cannot be
instantiated, so the induction looks at the least number of descriptors for which
the claim fails (`LeastNatural`, `Induct`), and the loop is a recursive function whose
existence is shown in the same way (`SegmentsRun`, `SumsRun`).

**ProcessProofs**, first part (`SchedulerAssumption`, any set of programs), the
scheduler: `SchedulerType`, `SchedulerRing`, `SchedulerContext`, `SchedulerAddressSpace`. The invariant `IInv`
conjoins all the safety properties with `LinkInv`, which says what the boot thread
has established at each of its lines. The ring is expressed through pids (the
successor of a process has the pid before its own), which makes "one ring through
all processes" a statement about single links. One lemma per store and two for the
tick, inside and outside the window of `process_init`.

**ProcessProofs**, second part (`ProcessesAssumption`, `VmmAssumption`,
`SyscallAssumption`), the system calls: `SyscallState`,
`SyscallFindsFreePages`, `SyscallNoPageLost`, `SyscallDescriptors`, `SyscallNoAlias`.
`MemoryInv` needs both directions between bits and mappings, the one from mappings to
bits only while there is one program and no bit was cleared astray. That an unmapped page
always loses its bit, so that no page is lost, rests on the int being a part of what a
directory looks at (`RemainderByPart`); that a page keeps its bit, on `stray`. `FilesInv` says that an object in a slot is not
free, which is why `kmalloc` cannot return it again, and that open objects are the held
ones.

**HeapProofs** (`HeapAssumption`: any region, sizes of header and footer, thresholds,
number of bins and requests): `HeapIInv`, `HeapBins`, `HeapImplementsBlocks`, and through
the refinement `HeapType`, `HeapTiling`, `HeapHeldIntact`, `HeapCoalesced`. It begins with
lists: an insertion puts a node where a sorted list stays sorted, a deletion keeps the
other nodes in their order, and the best fit of a sorted list is the smallest node that is
large enough (`BinOK`). The blocks come next (`BlocksInv`): their four properties are
inductive only together. The neighbours of a freed block are found through the tiling,
which gives that no two blocks end at the same place; a merge keeps held blocks intact
because they are not holes; and a cut keeps free blocks apart because the hole that was
cut had none beside it. `HeapInv` joins this with the footers, each leading to its header,
and with the bins, each holding the holes of its sizes. It is what the refinement needs:
`foot[p - FootSize]` is the block before p because two footers never share a place;
`remove_node` finds its node because a hole is in the bin of its size; and the first bin
that serves a request holds the smallest hole of the whole heap because a larger bin
holds larger blocks (`get_bin_index` is monotone, shown by induction on the size). Each of
`heap_alloc` and `heap_free` is then a step of BlockHeap.

**LlistProofs** (`LlistAssumption`: any finite set of nodes, any sizes): `ListIInv`,
`PointersImplementList`, `PointersBestFit`. `ListInv` says that `head` and `next` lead
along a sequence without repetition, sorted by size, and that `prev` leads back from
every node but the first, whose `prev` may be anything; of a node off the list it says
nothing, as its owner writes there. The list itself is what the walk along `next`
meets, so every lemma shows a sequence that the new pointers lead along, and that the
walk meets exactly that: the walk is a recursive function, whose values are found by
induction (`Unrolled`), and it is long enough because a list without repetition has no
more nodes than there are (`Bounded`). Then each of the four cases of `add_node` is the
insertion of FreeList and each case of `remove_node` its deletion. The lemmas on sorted
sequences are those of HeapProofs, for nodes instead of addresses: Heap and Llist both
have the code's `size` and cannot be extended together.

**PagingProofs** (`PagingAssumption`, `PathAssumption`: tables of any size, any layout
of memory, any number of directories; distinct pages have distinct paths): `PagingState`,
`PagingTree`, `PagingTlbFresh`, `PagingKernelMapped`, `PagingSpace`. The first part is
about one memory at a time: `Forest` says that entries lead to tables of the next level
and no two to the same table; creating a table on the way (`Ensure`), mapping and
unmapping keep it and change the translation of one page of one directory. The crux is
that two walks meet in a table only if they began in the same root and have followed
the same path. `PagingInv` adds to this what the loops have done so far: the directory
being filled is in no use, except that `paging_init`'s is loaded when complete, and what
the kernel lacks in it is still to come. `PagingSpace` is the refinement: each step is a
step of `AddressSpace` on the plain tables or changes none.

**AhciProofs** (`AhciAssumption`: transfers that fit the buffer, sector numbers of 24
bits, at most 32 slots): `AhciState`, `AhciNoSlotLost`, `AhciNoFalseSuccess`,
`AhciListsWhole`, `AhciDisk`. `CallInv` says that commands are issued only in the
slots of calls, and that the call in progress has one that no command of before has;
`CleanInv` that until an error there is no command but its own, and that the sectors the
device is done with are equal in the buffer and on the disk. From these `AhciDisk`
follows, the refinement of `Disk`: a call that is refused has stored nothing, a write stores its sectors one by one and returns when
all are stored, a read returns what is stored then. `EngineInv` follows the registers of
the port being configured: what has been seen idle cannot start again before its start bit
is set, and at each store it says which list is whole.

**E1000Proofs** (`E1000Assumption`, rings of at least two descriptors): `E1000State`,
`E1000RingInOrder`, `E1000AnswersItsSender`. The rings are followed by their distance
from `rx_cur` and `tx_cur`, which turns the arithmetic modulo the size into additions:
the card's head is ahead of `rx_cur` by the frames that wait, the tail one behind, so
the ring is never full of waiting frames.

**BootProofs** (`GrowthAssumption`, `BootAssumption`, any machines): `BootState`,
`BootMapIsCurrent`, `BootTablesMapped`, `BootGateBeforeInterrupt`, `BootOwnHandler`,
`BootRoutedAtEnd`, `BootAttached`. `EfiInv` follows the map to the kernel: a map with
the firmware's version is the firmware's map, and a key that is not stale says so.
`KernelInv` says what each stage of `_start` may rely on: the tables mapped, each
unmasked entry leading to a gate that is set, the sources set up so far having theirs,
the vectors given out, and that the enumeration has passed no function that a driver
without one could have used.

**Only model-checked:**

* liveness (`EveryProcessRuns`, `CallReturns`, `FramesHandled`), which needs ENABLED;
* FatFs (`ChainsApart`, `NothingLost`, `NamesDiffer`, `ListedAll`, `KeepsFiles`), whose
  operators are recursive in the way the prover cannot use.

## 6. What is not modelled

* **LAI and gnu-efi** are third-party and reached through a few calls: the route of a
  PCI function and the boot services are external actions of Boot and Bootloader. More
  than half of the source lines of the repository are theirs. Of `ff.c` the parts the
  configuration leaves out, exFAT, FAT12 and FAT32, code pages and `f_mkfs`, are not
  modelled.
* **Terminal, printk, logging**: text and drawing. The one buffer of printk
  (printk.c:229) is shared with interrupts: one that prints during another printk mixes
  the two texts.
* **Set-up in a straight line** (GDT, SSE, `enable_sce`), byte loops, port I/O, panic.
* **The heap under interrupts.** The card's handler allocates and may interrupt the
  boot thread inside `heap_alloc`. Heap's steps are whole calls, so its results are
  about calls that are not interrupted; the hazard is listed.
* **Data in the transfers**: the sections of an ELF file, the contents of IPv4 packets.
* Races between a preempted boot thread inside `pmm_getpage` and the system calls of a
  program do not occur in the present boot, which makes its only program last.

Next, in proofs: FatFs. Its operators would have to be written as recursive functions, and
`ChainsApart` shown for chains of any length, before `KeepsFiles` comes into reach.
