----------------------------- MODULE AddressSpace -----------------------------
(***************************************************************************)
(* What the paging code promises, without its trees of tables: for every   *)
(* page directory a table from virtual pages to entries.  Mapping or       *)
(* unmapping a page changes that page of that directory and nothing else.  *)
(***************************************************************************)
EXTENDS Integers

CONSTANTS
  Dirs,        \* the pages a directory may be in
  Virtuals,    \* the virtual pages, as page numbers
  Physicals,   \* what is mapped: [frame, low], low the flags named by the low
               \* twelve bits of an address that is not page aligned
  FlagSets,    \* the flags callers pass
  AddrFrames   \* frames that pde_setaddress can express: 2^28

VARIABLE space   \* per directory, the entry of each virtual page

NoEntry == [addr |-> 0, flags |-> {}]

\* pde_setaddress, pde |= flags: the address is cut to 40 bits and replaces the
\* old one; its low bits and the flags are added to the flags already there.
Entry(pde, physical, flags) ==
  [addr  |-> physical.frame % AddrFrames,
   flags |-> pde.flags \cup physical.low \cup flags]

Init == space = [d \in {} |-> [v \in Virtuals |-> NoEntry]]

Create(dir) ==
  /\ DOMAIN space' = DOMAIN space \cup {dir}
  /\ space' = [d \in DOMAIN space' |->
                 IF d = dir THEN [v \in Virtuals |-> NoEntry] ELSE space[d]]

Set(dir, v, e) == space' = [space EXCEPT ![dir] = [@ EXCEPT ![v] = e]]

\* Some page is mapped with some flags.  Repeating a mapping is a stutter.
Map(dir, v) ==
  \E old \in {space[dir][v]}, new \in {space'[dir][v]} :
    /\ new # old
    /\ \E physical \in Physicals, flags \in FlagSets :
         new = Entry(old, physical, flags)
    /\ Set(dir, v, new)

Unmap(dir, v) ==
  /\ space[dir][v] # NoEntry /\ space'[dir][v] = NoEntry
  /\ Set(dir, v, NoEntry)

Next ==
  /\ space' # space
  /\ \/ \E dir \in (DOMAIN space' \ DOMAIN space) \cap Dirs : Create(dir)
     \/ \E dir \in DOMAIN space, v \in Virtuals : Map(dir, v) \/ Unmap(dir, v)

Spec == Init /\ [][Next]_space
=============================================================================
