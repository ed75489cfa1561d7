-------------------------------- MODULE Heap --------------------------------
(***************************************************************************)
(* The kernel heap, shmall/heap.c and shmall_wrapper.c: boundary tags in   *)
(* the region [0, HEAP_INIT_SIZE) and segregated free lists.  Addresses    *)
(* are offsets into the region.  Behind its end lies the page of the bins, *)
(* where the heads of the lists are kept; bin 0 is at the end itself.      *)
(***************************************************************************)
EXTENDS Bin

CONSTANTS
  HEAP_INIT_SIZE, MIN_ALLOC_SZ, MIN_WILDERNESS, BIN_COUNT,
  NodeSize, FootSize,   \* sizeof(node_t), sizeof(footer_t)
  MinBinSize,           \* sizes below 2 * MinBinSize share bin 0: 4
  Requests,             \* the sizes callers pass to kmalloc
  NULL

ASSUME HeapAssumption ==
  /\ HEAP_INIT_SIZE \in Nat /\ NodeSize \in Nat /\ FootSize \in Nat \ {0}
  /\ NodeSize + FootSize <= HEAP_INIT_SIZE
  /\ MIN_ALLOC_SZ \in Nat /\ MIN_WILDERNESS \in Nat /\ BIN_COUNT \in Nat \ {0, 1}
  /\ MinBinSize \in {1, 2, 4}
  /\ Requests \subseteq Nat
  /\ NULL \notin Nat

BIN_MAX_IDX == BIN_COUNT - 1
overhead == NodeSize + FootSize
start == 0
end == HEAP_INIT_SIZE

VARIABLES
  size,   \* node_t.size of the blocks: a header that a merge leaves inside a
          \* block is never read again and not kept
  hole,   \* node_t.hole of the blocks
  foot,   \* footer_t.header per footer address, stale footers included
  bins,
  out,    \* ghost: the blocks callers hold, with the size they asked for
  past,   \* ghost: a block reaches past the end of the region
  merged  \* ghost: FALSE once the first block has been freed

vars == <<size, hole, foot, bins, out, past, merged>>

\* The position of the leading bit, counted from the third.
Log2[n \in Nat] == IF n < 2 THEN 0 ELSE 1 + Log2[n \div 2]

get_bin_index(sz) ==
  LET index == Log2[IF sz < MinBinSize THEN MinBinSize ELSE sz] - Log2[MinBinSize]
  IN IF index > BIN_MAX_IDX THEN BIN_MAX_IDX ELSE index

get_foot(node, sz) == node + NodeSize + sz

create_foot(ft, head, sz) == [ft EXCEPT ![get_foot(head, sz)] = head]

\* A header is written at x.
Put(f, x, y) == [z \in DOMAIN f \cup {x} |-> IF z = x THEN y ELSE f[z]]

\* heap_init and init_heap, the page of the bins being clear.
Init ==
  LET sz == HEAP_INIT_SIZE - NodeSize - FootSize IN
  /\ size = [h \in {start} |-> sz]
  /\ hole = [h \in {start} |-> 1]
  /\ foot = create_foot([a \in 0 .. (end + NodeSize) |-> NULL], start, sz)
  /\ bins = [i \in 0 .. BIN_MAX_IDX |->
               IF i = get_bin_index(sz) THEN <<start>> ELSE <<>>]
  /\ out = [h \in {} |-> 0]
  /\ past = FALSE
  /\ merged = TRUE

get_wilderness(ft) == ft[end - FootSize]

\* Mutant: the bin for the size itself is skipped.
Serving_Above(n) ==
  {i \in (get_bin_index(n) + 1) .. BIN_MAX_IDX : Fits(bins[i], n, size)}

\* The bins that can serve n, from the one for its size upwards.
Serving(n) == {i \in get_bin_index(n) .. BIN_MAX_IDX : Fits(bins[i], n, size)}

\* heap_alloc up to the removal of found: the block, cut in two if the rest is
\* large enough, leaves the list it was in.
Take(index, found, n) ==
  LET rest  == size[found] - n - overhead
      split == found + overhead + n
      list  == Delete(bins[index], found)
  IN IF size[found] - n > overhead + MIN_ALLOC_SZ
     THEN LET sizes   == Put(size, split, rest)
              new_idx == get_bin_index(rest)
              added   == [bins EXCEPT ![new_idx] = Insert(@, split, sizes)]
          IN /\ size' = Put(sizes, found, n)
             /\ hole' = Put(Put(hole, split, 1), found, 0)
             /\ foot' = create_foot(create_foot(foot, split, rest), found, n)
             /\ bins' = [added EXCEPT ![index] = Delete(@, found)]
     ELSE /\ hole' = [hole EXCEPT ![found] = 0]
          /\ bins' = [bins EXCEPT ![index] = list]
          /\ UNCHANGED <<size, foot>>

\* expand does nothing and says so: with a small wilderness the block is taken
\* and NULL returned.  MAX_WILDERNESS is larger than the region.
heap_alloc(n) ==
  /\ ~past
  /\ Serving(n) # {}
  /\ LET index == Min(Serving(n))
         found == BestFit(bins[index], n, size)
     IN /\ Take(index, found, n)
        /\ out' = IF size'[get_wilderness(foot')] < MIN_WILDERNESS THEN out
                  ELSE Put(out, found, n)
  /\ UNCHANGED <<past, merged>>

heap_alloc_NULL(n) ==
  /\ ~past
  /\ Serving(n) = {}
  /\ UNCHANGED vars

\* Mutant: the bin is chosen by the size before merging.
AddTo_OldSize(bs, node, sizes) ==
  [bs EXCEPT ![get_bin_index(size[node])] = Insert(@, node, sizes)]

AddTo(bs, node, sizes) ==
  [bs EXCEPT ![get_bin_index(sizes[node])] = Insert(@, node, sizes)]
RemoveFrom(bs, node) ==
  [bs EXCEPT ![get_bin_index(size[node])] = Delete(@, node)]

Without(f, S) == [x \in DOMAIN f \ S |-> f[x]]

heap_free_first ==
  /\ ~past /\ start \in DOMAIN out
  /\ hole' = [hole EXCEPT ![start] = 1]
  /\ bins' = AddTo(bins, start, size)
  /\ out' = Without(out, {start})
  /\ merged' = FALSE
  /\ UNCHANGED <<size, foot, past>>

\* At the end of the region next is not a node_t but bin 0: hole reads the low
\* half of the pointer to its first node, size the high half, which is 0, and
\* clearing hole empties the bin.
heap_free(p) ==
  /\ ~past /\ p \in DOMAIN out /\ p # start
  /\ LET next     == get_foot(p, size[p]) + FootSize
         prev     == foot[p - FootSize]
         joinPrev == hole[prev] = 1
         head     == IF joinPrev THEN prev ELSE p
         bins1    == IF joinPrev THEN RemoveFrom(bins, prev) ELSE bins
         size1    == IF joinPrev THEN size[prev] + overhead + size[p] ELSE size[p]
         foot1    == [foot EXCEPT ![get_foot(p, size[p])] = head]
         fake     == next = end /\ bins1[0] # <<>>
         joinNext == IF next = end THEN fake ELSE hole[next] = 1
         bins2    == IF fake THEN [bins1 EXCEPT ![0] = <<>>]
                     ELSE IF joinNext THEN RemoveFrom(bins1, next) ELSE bins1
         nextSize == IF fake THEN 0 ELSE size[next]
         size2    == IF joinNext THEN size1 + overhead + nextSize ELSE size1
         gone     == (IF joinPrev THEN {p} ELSE {})
                       \cup (IF joinNext /\ ~fake THEN {next} ELSE {})
         sizes    == Put(size, head, size2)
     IN /\ size' = Without(sizes, gone)
        /\ hole' = Without(Put(hole, head, 1), gone)
        /\ foot' = IF ~joinNext THEN foot1
                   ELSE create_foot([foot1 EXCEPT ![get_foot(next, nextSize)] = NULL],
                                    head, size2)
        /\ bins' = AddTo(bins2, head, sizes)
        /\ past' = fake
  /\ out' = Without(out, {p})
  /\ UNCHANGED merged

\* What the heap does from then on is not followed.
Beyond == past /\ UNCHANGED vars

Next ==
  \/ \E n \in Requests : heap_alloc(n) \/ heap_alloc_NULL(n)
  \/ heap_free_first
  \/ \E p \in DOMAIN out : heap_free(p)
  \/ Beyond

Spec == Init /\ [][Next]_vars
-----------------------------------------------------------------------------
Heads == DOMAIN size
Free == {h \in Heads : hole[h] = 1}

TypeOK ==
  /\ Heads \subseteq 0 .. (end - 1) /\ \A h \in Heads : size[h] \in Nat
  /\ DOMAIN hole = Heads /\ \A h \in Heads : hole[h] \in {0, 1}
  /\ \A a \in DOMAIN foot : foot[a] \in Nat \cup {NULL}
  /\ bins \in [0 .. BIN_MAX_IDX -> Seq(Heads)]
  /\ DOMAIN out \subseteq Heads
  /\ past \in BOOLEAN /\ merged \in BOOLEAN

\* Every block's footer leads back to its header, after any sequence of cuts
\* and merges, stale footers notwithstanding: heap_free finds the true
\* predecessor, get_wilderness the last block.
FootersInv ==
  ~past => \A h \in Heads : foot[get_foot(h, size[h])] = h

\* The free lists hold every hole once, in the bin of its size, smallest first,
\* and nothing else: a hole that is in no list is lost to heap_alloc, a block
\* in use that is in one would be handed out twice.  With it, the types and the
\* footers.
BinsInv ==
  /\ TypeOK /\ FootersInv
  /\ ~past =>
    /\ \A i \in 0 .. BIN_MAX_IDX :
         /\ Sorted(bins[i], size)
         /\ IsInjective(bins[i])
         /\ Range(bins[i]) = {h \in Free : get_bin_index(size[h]) = i}

Blocks ==
  INSTANCE BlockHeap WITH End <- end, Overhead <- overhead,
    SmallSize <- 2 * MinBinSize, hole <- Free

\* The boundary tags and the bins implement a region tiled by blocks: every
\* allocation takes the smallest adequate hole of the whole heap, every free
\* merges with its true neighbours.
BlocksSpec == Blocks!Spec
=============================================================================
