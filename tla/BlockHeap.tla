------------------------------ MODULE BlockHeap ------------------------------
(***************************************************************************)
(* What the kernel heap promises, without its boundary tags and free       *)
(* lists: a region [0, End) tiled by blocks, each a header, a payload and  *)
(* a footer.  Heap is shown to implement it.                               *)
(***************************************************************************)
EXTENDS Integers, FiniteSets

CONSTANTS
  End,           \* HEAP_INIT_SIZE
  Overhead,      \* header and footer of a block
  MIN_ALLOC_SZ,
  MIN_WILDERNESS,
  SmallSize,     \* blocks below this size belong to bin 0
  Requests       \* the sizes callers ask for

ASSUME BlockHeapAssumption ==
  /\ End \in Nat /\ Overhead \in Nat \ {0} /\ Overhead <= End
  /\ MIN_ALLOC_SZ \in Nat /\ MIN_WILDERNESS \in Nat /\ SmallSize \in Nat
  /\ Requests \subseteq Nat

VARIABLES
  size,   \* the blocks: payload size per header address
  hole,   \* the headers of the free blocks
  out,    \* the blocks that callers hold, with the size they asked for
  past,   \* a block reaches past End
  merged  \* FALSE once the first block has been freed, which merges nothing

vars == <<size, hole, out, past, merged>>

After(h) == h + size[h] + Overhead
Before(h) == {g \in DOMAIN size : After(g) = h}
Wilderness(sz) == CHOOSE h \in DOMAIN sz : h + sz[h] + Overhead = End

Init ==
  /\ size = [h \in {0} |-> End - Overhead]
  /\ hole = {0}
  /\ out = [h \in {} |-> 0]
  /\ past = FALSE
  /\ merged = TRUE

\* Mutant: the header and footer are counted as payload.
BestHole_Overhead(f, n) ==
  /\ f \in hole /\ size[f] + Overhead >= n
  /\ \A g \in hole : size[g] + Overhead >= n => size[f] <= size[g]

\* The smallest hole that is large enough, and no larger than it has to be.
BestHole(f, n) ==
  /\ f \in hole /\ size[f] >= n
  /\ \A g \in hole : size[g] >= n => size[f] <= size[g]

\* A block is cut in two when the rest is worth a block of its own.
Cut(f, n) ==
  IF size[f] - n > Overhead + MIN_ALLOC_SZ
  THEN [h \in DOMAIN size \cup {f + n + Overhead} |->
          IF h = f THEN n
          ELSE IF h = f + n + Overhead THEN size[f] - n - Overhead
          ELSE size[h]]
  ELSE size

\* When the last block has become too small the caller gets nothing, and the
\* block that was taken is nobody's.
Alloc(n) ==
  /\ ~past
  /\ \E f \in DOMAIN size :
       /\ BestHole(f, n)
       /\ size' = Cut(f, n)
       /\ hole' = (hole \ {f}) \cup (DOMAIN size' \ DOMAIN size)
       /\ out' = IF size'[Wilderness(size')] < MIN_WILDERNESS THEN out
                 ELSE [h \in DOMAIN out \cup {f} |-> IF h = f THEN n ELSE out[h]]
  /\ UNCHANGED <<past, merged>>

\* No hole is large enough.
AllocNothing(n) ==
  /\ ~past
  /\ \A h \in hole : size[h] < n
  /\ UNCHANGED vars

Release(p) == out' = [h \in DOMAIN out \ {p} |-> out[h]]

FreeFirst ==
  /\ ~past /\ 0 \in DOMAIN out
  /\ hole' = hole \cup {0}
  /\ merged' = FALSE
  /\ Release(0)
  /\ UNCHANGED <<size, past>>

\* A freed block is merged with the holes before and after it.  What follows
\* the last block is bin 0: if that is not empty it is taken for a hole with
\* an empty payload.
Free(p) ==
  /\ ~past /\ p \in DOMAIN out /\ p # 0
  /\ LET left  == Before(p) \cap hole
         right == {After(p)} \cap hole
         fake  == After(p) = End /\ \E h \in hole \ left : size[h] < SmallSize
         first == IF left = {} THEN p ELSE CHOOSE h \in left : TRUE
         last  == IF right = {} THEN p ELSE After(p)
         heads == (DOMAIN size \ (right \cup {p})) \cup {first}
     IN /\ size' = [h \in heads |->
                      IF h # first THEN size[h]
                      ELSE After(last) - first - (IF fake THEN 0 ELSE Overhead)]
        /\ hole' = (hole \ right) \cup {first}
        /\ past' = fake
  /\ Release(p)
  /\ UNCHANGED merged

\* What the heap does from then on is not followed.
Beyond == past /\ UNCHANGED vars

Next ==
  \/ \E n \in Requests : Alloc(n) \/ AllocNothing(n)
  \/ FreeFirst
  \/ \E p \in DOMAIN out : Free(p)
  \/ Beyond

Spec == Init /\ [][Next]_vars
-----------------------------------------------------------------------------
TypeOK ==
  /\ DOMAIN size \subseteq Nat /\ size \in [DOMAIN size -> Nat]
  /\ hole \subseteq DOMAIN size
  /\ DOMAIN out \subseteq DOMAIN size /\ out \in [DOMAIN out -> Nat]
  /\ past \in BOOLEAN /\ merged \in BOOLEAN

\* The blocks tile the region: nothing overlaps, nothing is lost, whatever
\* sequence of heap_alloc and heap_free has cut and merged them.
Tiling ==
  ~past =>
    /\ 0 \in DOMAIN size
    /\ \A h \in DOMAIN size : After(h) \in DOMAIN size \cup {End} /\ After(h) <= End
    /\ \A g, h \in DOMAIN size : g < h => After(g) <= h

\* A block that a caller holds is not free, and is still as large as it was
\* asked to be.
HeldIntact ==
  \A h \in DOMAIN out : h \notin hole /\ size[h] >= out[h]

\* As long as the first block has not been freed, no two free blocks are
\* neighbours: heap_free leaves nothing unmerged.
Coalesced ==
  merged /\ ~past => \A h \in hole : After(h) \notin hole
=============================================================================
