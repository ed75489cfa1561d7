----------------------------- MODULE PmmProofs -----------------------------
(***************************************************************************)
(* The physical allocator's properties for every memory map, bitmap size   *)
(* and kernel image.                                                       *)
(***************************************************************************)
EXTENDS Pmm, WellFoundedInduction, TLAPS

-----------------------------------------------------------------------------
\* The loops of pmm_init and get_mem_size over the memory map.  What they compute
\* is shown by induction on the number of descriptors, as the least one for which a
\* claim would fail.

LEMMA LeastNatural ==
  ASSUME NEW T \in SUBSET Nat, T # {}
  PROVE  \E x \in T : \A y \in T : x <= y
<1>. DEFINE R == OpToRel(<, Nat)
<1>1. IsWellFoundedOn(R, Nat)
  BY NatLessThanWellFounded, Zenon
<1>2. \A x, y \in Nat : y < x => <<y, x>> \in R
  BY Zenon DEF OpToRel
<1>. HIDE DEF R
<1>3. PICK x \in T : \A y \in T : ~ (<<y, x>> \in R)
  BY <1>1, WFMin, Zenon
<1>4. ASSUME NEW y \in T
      PROVE  x <= y
  <2>1. x \in Nat /\ y \in Nat
    BY Zenon
  <2>2. ~ (y < x)
    BY <1>2, <1>3, <2>1, Zenon
  <2>. QED
    BY <2>1, <2>2
<1>. QED
  BY <1>4, Zenon

\* A set of numbers that contains 0 and the successor of each member below n.
LEMMA Induct ==
  ASSUME NEW n \in Nat, NEW S, 0 \in S, \A k \in 0 .. (n - 1) : k \in S => k + 1 \in S
  PROVE  0 .. n \subseteq S
<1>. SUFFICES ASSUME NEW j \in 0 .. n, j \notin S PROVE FALSE
  BY Zenon
<1>. DEFINE T == {k \in 0 .. n : k \notin S}
<1>1. T \in SUBSET Nat /\ T # {}
  OBVIOUS
<1>2. PICK k \in T : \A y \in T : k <= y
  BY <1>1, LeastNatural, Zenon
<1>3. k # 0 /\ k \in Nat
  BY <1>2
<1>4. k - 1 \notin T /\ k - 1 \in 0 .. (n - 1)
  BY <1>2, <1>3
<1>5. k - 1 \in S /\ (k - 1) + 1 = k
  BY <1>3, <1>4
<1>. QED
  BY <1>2, <1>4, <1>5, Zenon

Start == [seg |-> 0, size |-> 0, pages |-> 0]

\* The values of the two loop variables after each descriptor.
Segments(map) ==
  LET acc[i \in 0 .. Len(map)] ==
        IF i = 0 THEN [seg |-> 0, size |-> 0, pages |-> 0]
        ELSE ConsiderSegment(acc[i - 1], map[i])
  IN acc
Sums(map) ==
  LET sum[i \in 0 .. Len(map)] == IF i = 0 THEN 0 ELSE sum[i - 1] + map[i].numPages
  IN sum

LEMMA SegmentsRun ==
  ASSUME NEW map \in Seq(Descriptors)
  PROVE  /\ ChosenSegment(map) = Segments(map)[Len(map)]
         /\ Segments(map)[0] = Start
         /\ \A i \in 1 .. Len(map) : Segments(map)[i] = ConsiderSegment(Segments(map)[i - 1], map[i])
<1>. DEFINE Run(h, n) == h = [i \in 0 .. n |-> IF i = 0 THEN Start ELSE ConsiderSegment(h[i - 1], map[i])]
            N == Len(map)
            S == {n \in 0 .. N : \E h : Run(h, n)}
<1>1. N \in Nat
  OBVIOUS
<1>2. Segments(map) = CHOOSE h : Run(h, N)
  BY Zenon DEF Segments, Start
<1>3. ChosenSegment(map) = Segments(map)[N]
  BY Zenon DEF ChosenSegment, Segments
<1>. HIDE DEF N
<1>4. 0 \in S
  <2>1. Run([i \in 0 .. 0 |-> Start], 0)
    OBVIOUS
  <2>2. 0 \in 0 .. N
    BY <1>1
  <2>. HIDE DEF Run
  <2>. QED
    BY <2>1, <2>2, Zenon
<1>5. ASSUME NEW k \in 0 .. (N - 1), k \in S PROVE k + 1 \in S
  <2>1. PICK g : Run(g, k)
    BY <1>5, Zenon
  <2>. DEFINE last == ConsiderSegment(g[k], map[k + 1])
              h == [i \in 0 .. (k + 1) |-> IF i = k + 1 THEN last ELSE g[i]]
  <2>2. \A i \in 0 .. k : g[i] = IF i = 0 THEN Start ELSE ConsiderSegment(g[i - 1], map[i])
    BY <2>1, Zenon
  <2>3. k \in Nat /\ k + 1 \in 0 .. N
    BY <1>1
  <2>4. \A i \in 0 .. k : h[i] = g[i]
    BY <2>3
  <2>5. h[k + 1] = last
    BY <2>3
  <2>6. h = [i \in 0 .. (k + 1) |-> h[i]]
    BY Zenon
  <2>. HIDE DEF h
  <2>7. ASSUME NEW i \in 0 .. (k + 1)
        PROVE  h[i] = IF i = 0 THEN Start ELSE ConsiderSegment(h[i - 1], map[i])
    <3>1. CASE i = k + 1
      <4>1. i # 0 /\ i - 1 = k /\ k \in 0 .. k
        BY <2>3, <3>1
      <4>. QED
        BY <2>4, <2>5, <3>1, <4>1, Zenon
    <3>2. CASE i \in 0 .. k
      <4>1. i # 0 => i - 1 \in 0 .. k
        BY <2>3, <3>2
      <4>. QED
        BY <2>2, <2>4, <3>2, <4>1, Zenon
    <3>. QED
      BY <2>3, <3>1, <3>2
  <2>8. Run(h, k + 1)
    BY <2>6, <2>7, Zenon
  <2>. QED
    BY <2>3, <2>8, Zenon
<1>6. N \in S
  <2>. HIDE DEF S
  <2>1. 0 .. N \subseteq S
    BY <1>1, <1>4, <1>5, Induct, Zenon
  <2>. QED
    BY <1>1, <2>1
<1>7. PICK g : Run(g, N)
  BY <1>6, Zenon
<1>8. Run(CHOOSE h : Run(h, N), N)
  <2>. HIDE DEF Run
  <2>. QED
    BY <1>7, Zenon
<1>9. PICK acc : acc = Segments(map) /\ Run(acc, N)
  BY <1>2, <1>8, Zenon
<1>10. \A i \in 0 .. N : acc[i] = IF i = 0 THEN Start ELSE ConsiderSegment(acc[i - 1], map[i])
  BY <1>9, Zenon
<1>. QED
  BY <1>1, <1>3, <1>9, <1>10 DEF N

LEMMA SumsRun ==
  ASSUME NEW map \in Seq(Descriptors)
  PROVE  /\ get_mem_size(map) = Sums(map)[Len(map)]
         /\ Sums(map)[0] = 0
         /\ \A i \in 1 .. Len(map) : Sums(map)[i] = Sums(map)[i - 1] + map[i].numPages
<1>. DEFINE Run(h, n) == h = [i \in 0 .. n |-> IF i = 0 THEN 0 ELSE h[i - 1] + map[i].numPages]
            N == Len(map)
            S == {n \in 0 .. N : \E h : Run(h, n)}
<1>1. N \in Nat
  OBVIOUS
<1>2. Sums(map) = CHOOSE h : Run(h, N)
  BY Zenon DEF Sums
<1>3. get_mem_size(map) = Sums(map)[N]
  BY Zenon DEF get_mem_size, Sums
<1>. HIDE DEF N
<1>4. 0 \in S
  <2>1. Run([i \in 0 .. 0 |-> 0], 0)
    OBVIOUS
  <2>2. 0 \in 0 .. N
    BY <1>1
  <2>. HIDE DEF Run
  <2>. QED
    BY <2>1, <2>2, Zenon
<1>5. ASSUME NEW k \in 0 .. (N - 1), k \in S PROVE k + 1 \in S
  <2>1. PICK g : Run(g, k)
    BY <1>5, Zenon
  <2>. DEFINE last == g[k] + map[k + 1].numPages
              h == [i \in 0 .. (k + 1) |-> IF i = k + 1 THEN last ELSE g[i]]
  <2>2. \A i \in 0 .. k : g[i] = IF i = 0 THEN 0 ELSE g[i - 1] + map[i].numPages
    BY <2>1, Zenon
  <2>3. k \in Nat /\ k + 1 \in 0 .. N
    BY <1>1
  <2>4. \A i \in 0 .. k : h[i] = g[i]
    BY <2>3
  <2>5. h[k + 1] = last
    BY <2>3
  <2>6. h = [i \in 0 .. (k + 1) |-> h[i]]
    BY Zenon
  <2>. HIDE DEF h
  <2>7. ASSUME NEW i \in 0 .. (k + 1)
        PROVE  h[i] = IF i = 0 THEN 0 ELSE h[i - 1] + map[i].numPages
    <3>1. CASE i = k + 1
      <4>1. i # 0 /\ i - 1 = k /\ k \in 0 .. k
        BY <2>3, <3>1
      <4>. QED
        BY <2>4, <2>5, <3>1, <4>1, Zenon
    <3>2. CASE i \in 0 .. k
      <4>1. i # 0 => i - 1 \in 0 .. k
        BY <2>3, <3>2
      <4>. QED
        BY <2>2, <2>4, <3>2, <4>1, Zenon
    <3>. QED
      BY <2>3, <3>1, <3>2
  <2>8. Run(h, k + 1)
    BY <2>6, <2>7, Zenon
  <2>. QED
    BY <2>3, <2>8, Zenon
<1>6. N \in S
  <2>. HIDE DEF S
  <2>1. 0 .. N \subseteq S
    BY <1>1, <1>4, <1>5, Induct, Zenon
  <2>. QED
    BY <1>1, <2>1
<1>7. PICK g : Run(g, N)
  BY <1>6, Zenon
<1>8. Run(CHOOSE h : Run(h, N), N)
  <2>. HIDE DEF Run
  <2>. QED
    BY <1>7, Zenon
<1>9. PICK acc : acc = Sums(map) /\ Run(acc, N)
  BY <1>2, <1>8, Zenon
<1>10. \A i \in 0 .. N : acc[i] = IF i = 0 THEN 0 ELSE acc[i - 1] + map[i].numPages
  BY <1>9, Zenon
<1>. QED
  BY <1>1, <1>3, <1>9, <1>10 DEF N

\* What one descriptor changes.
LEMMA Considered ==
  ASSUME NEW acc, NEW desc, NEW new, new = ConsiderSegment(acc, desc)
  PROVE  \/ /\ desc.type = EfiConventionalMemory /\ desc.numPages > acc.size
            /\ new.seg = desc.physAddr + BitmapPages
            /\ new.size = (desc.numPages - BitmapPages) % AddressPages
            /\ new.pages = desc.numPages
         \/ /\ ~ (desc.type = EfiConventionalMemory /\ desc.numPages > acc.size)
            /\ new = acc
BY Zenon DEF ConsiderSegment

\* The chosen segment is one of the map's, and the memory holds it.
LEMMA MapFacts ==
  ASSUME NEW map \in MemoryMaps
  PROVE  /\ ChosenSegment(map).seg \in Nat /\ ChosenSegment(map).pages \in Nat
         /\ get_mem_size(map) \in Nat /\ ChosenSegment(map).pages <= get_mem_size(map)
<1>1. map \in Seq(Descriptors) /\ BitmapPages \in Nat /\ AddressPages \in Nat \ {0}
  BY PmmAssumption, Zenon
<1>. DEFINE acc == Segments(map)
            sum == Sums(map)
            N == Len(map)
            S == {i \in 0 .. N : /\ acc[i].seg \in Nat /\ acc[i].pages \in Nat
                                 /\ sum[i] \in Nat /\ acc[i].pages <= sum[i]}
<1>2. /\ N \in Nat
      /\ ChosenSegment(map) = acc[N] /\ get_mem_size(map) = sum[N] /\ acc[0] = Start /\ sum[0] = 0
      /\ \A i \in 1 .. N : acc[i] = ConsiderSegment(acc[i - 1], map[i])
      /\ \A i \in 1 .. N : sum[i] = sum[i - 1] + map[i].numPages
  <2>1. N \in Nat
    BY <1>1
  <2>2. /\ ChosenSegment(map) = acc[N] /\ acc[0] = Start
        /\ \A i \in 1 .. N : acc[i] = ConsiderSegment(acc[i - 1], map[i])
    BY <1>1, SegmentsRun, Zenon
  <2>3. /\ get_mem_size(map) = sum[N] /\ sum[0] = 0
        /\ \A i \in 1 .. N : sum[i] = sum[i - 1] + map[i].numPages
    BY <1>1, SumsRun, Zenon
  <2>. QED
    BY <2>1, <2>2, <2>3, Zenon
<1>3. \A i \in 1 .. N : map[i].physAddr \in Nat /\ map[i].numPages \in Nat
  <2>1. \A i \in 1 .. N : map[i] \in Descriptors
    BY <1>1
  <2>. QED
    BY <1>1, <2>1 DEF Descriptors
<1>. HIDE DEF acc, sum, N
<1>4. 0 \in S
  BY <1>2 DEF Start
<1>5. ASSUME NEW k \in 0 .. (N - 1), k \in S PROVE k + 1 \in S
  <2>1. /\ acc[k].seg \in Nat /\ acc[k].pages \in Nat
        /\ sum[k] \in Nat /\ acc[k].pages <= sum[k]
    BY <1>5, Zenon
  <2>2. PICK j \in 1 .. N : j = k + 1 /\ j - 1 = k
    BY <1>2
  <2>3. acc[j] = ConsiderSegment(acc[k], map[j]) /\ sum[j] = sum[k] + map[j].numPages
    BY <1>2, <2>2, Zenon
  <2>4. sum[j] \in Nat /\ sum[k] <= sum[j] /\ map[j].numPages <= sum[j]
    BY <1>3, <2>1, <2>3
  <2>5. acc[j].seg \in Nat /\ acc[j].pages \in Nat /\ acc[j].pages <= sum[j]
    <3>1. CASE acc[j] = acc[k]
      BY <2>1, <2>4, <3>1
    <3>2. CASE acc[j].seg = map[j].physAddr + BitmapPages /\ acc[j].pages = map[j].numPages
      BY <1>1, <1>3, <2>4, <3>2
    <3>. QED
      BY <2>3, <3>1, <3>2, Considered, Zenon
  <2>. QED
    BY <1>2, <2>2, <2>4, <2>5
<1>6. N \in S
  <2>. HIDE DEF S
  <2>1. 0 .. N \subseteq S
    BY <1>2, <1>4, <1>5, Induct, Zenon
  <2>. QED
    BY <1>2, <2>1
<1>. QED
  BY <1>2, <1>6, Zenon

\* When no conventional segment is smaller than the bitmap and no two of them
\* differ by less, none is larger than the one chosen.  Of the segments seen so far
\* the chosen one is the largest, and the size remembered for it is its own size
\* without the bitmap: a later segment above that size is not below the chosen one.
LEMMA ChosenIsLargest ==
  ASSUME NEW map \in MemoryMaps, NEW C,
         C = {i \in 1 .. Len(map) : map[i].type = EfiConventionalMemory},
         \A i \in C : map[i].numPages >= BitmapPages,
         \A i, j \in C : map[i].numPages < map[j].numPages =>
                           map[i].numPages + BitmapPages <= map[j].numPages
  PROVE  \A i \in C : map[i].numPages <= ChosenSegment(map).pages
<1>1. map \in Seq(Descriptors) /\ BitmapPages \in Nat /\ AddressPages \in Nat \ {0}
  BY PmmAssumption, Zenon
<1>. DEFINE acc == Segments(map)
            N == Len(map)
            Size(i) == map[i].numPages
            Own(i) == \/ acc[i].pages = 0 /\ acc[i].size = 0
                      \/ \E k \in C : acc[i].pages = Size(k) /\ acc[i].size = Size(k) - BitmapPages
            S == {i \in 0 .. N : Own(i) /\ \A j \in C : j <= i => Size(j) <= acc[i].pages}
<1>2. /\ N \in Nat
      /\ ChosenSegment(map) = acc[N] /\ acc[0] = Start
      /\ \A i \in 1 .. N : acc[i] = ConsiderSegment(acc[i - 1], map[i])
  <2>1. N \in Nat
    BY <1>1
  <2>2. /\ ChosenSegment(map) = acc[N] /\ acc[0] = Start
        /\ \A i \in 1 .. N : acc[i] = ConsiderSegment(acc[i - 1], map[i])
    BY <1>1, SegmentsRun, Zenon
  <2>. QED
    BY <2>1, <2>2, Zenon
<1>3. \A i \in 1 .. N : Size(i) \in Nat /\ Size(i) < AddressPages
  <2>1. \A i \in 1 .. N : map[i] \in Descriptors
    BY <1>1
  <2>. QED
    BY <1>1, <2>1 DEF Descriptors
<1>4. C \subseteq 1 .. N /\ \A i \in 1 .. N : i \in C <=> map[i].type = EfiConventionalMemory
  BY Zenon
<1>5. /\ \A i \in C : Size(i) >= BitmapPages
      /\ \A i, j \in C : Size(i) < Size(j) => Size(i) + BitmapPages <= Size(j)
  BY Zenon
<1>6. \A j \in 1 .. N : \/ /\ j \in C /\ Size(j) > acc[j - 1].size
                           /\ acc[j].pages = Size(j)
                           /\ acc[j].size = (Size(j) - BitmapPages) % AddressPages
                        \/ ~ (j \in C /\ Size(j) > acc[j - 1].size) /\ acc[j] = acc[j - 1]
  BY <1>2, <1>4, Considered, Zenon
<1>7. \A j \in C : (Size(j) - BitmapPages) % AddressPages = Size(j) - BitmapPages
  <2>1. \A x \in 0 .. (AddressPages - 1) : x % AddressPages = x
    BY <1>1
  <2>2. \A j \in C : Size(j) - BitmapPages \in 0 .. (AddressPages - 1)
    BY <1>1, <1>3, <1>4, <1>5
  <2>. QED
    BY <2>1, <2>2, Zenon
<1>. HIDE DEF acc, N, Size
<1>8. 0 \in S
  <2>1. acc[0].pages = 0 /\ acc[0].size = 0
    BY <1>2 DEF Start
  <2>2. \A j \in C : ~ (j <= 0)
    BY <1>2, <1>4
  <2>. QED
    BY <1>2, <2>1, <2>2
<1>9. ASSUME NEW k \in 0 .. (N - 1), k \in S PROVE k + 1 \in S
  <2>1. PICK j \in 1 .. N : j = k + 1 /\ j - 1 = k
    BY <1>2
  <2>2. Own(k) /\ \A i \in C : i <= k => Size(i) <= acc[k].pages
    BY <1>9, Zenon
  <2>3. \A i \in C : i <= j => i <= k \/ i = j
    BY <1>2, <1>4, <2>1
  <2>4. /\ acc[k].pages \in Nat /\ acc[k].size \in Nat /\ acc[k].size <= acc[k].pages
    BY <1>1, <1>3, <1>4, <1>5, <2>2
  <2>5. CASE /\ j \in C /\ Size(j) > acc[k].size
             /\ acc[j].pages = Size(j) /\ acc[j].size = Size(j) - BitmapPages
    <3>1. acc[k].pages <= Size(j)
      <4>1. CASE acc[k].pages = 0
        BY <1>3, <4>1
      <4>2. ASSUME NEW m \in C, acc[k].pages = Size(m), acc[k].size = Size(m) - BitmapPages
            PROVE  acc[k].pages <= Size(j)
        <5>1. Size(m) \in Nat /\ Size(j) \in Nat
          BY <1>3, <1>4, Zenon
        <5>2. Size(j) < Size(m) => Size(j) + BitmapPages <= Size(m)
          BY <1>5, <2>5, Zenon
        <5>. QED
          BY <1>1, <2>5, <4>2, <5>1, <5>2
      <4>. QED
        BY <2>2, <4>1, <4>2, Zenon
    <3>2. \A i \in C : i <= j => Size(i) <= acc[j].pages
      BY <1>3, <1>4, <2>2, <2>3, <2>4, <2>5, <3>1
    <3>3. Own(j)
      BY <2>5, Zenon
    <3>4. j \in 0 .. N
      BY <1>2
    <3>. HIDE DEF Own
    <3>. QED
      BY <2>1, <3>2, <3>3, <3>4, Zenon
  <2>6. CASE ~ (j \in C /\ Size(j) > acc[k].size) /\ acc[j] = acc[k]
    <3>1. j \in C => Size(j) <= acc[j].pages
      BY <1>3, <2>4, <2>6
    <3>2. \A i \in C : i <= j => Size(i) <= acc[j].pages
      BY <2>2, <2>3, <2>6, <3>1, Zenon
    <3>3. Own(j)
      BY <2>2, <2>6, Zenon
    <3>4. j \in 0 .. N
      BY <1>2
    <3>. HIDE DEF Own
    <3>. QED
      BY <2>1, <3>2, <3>3, <3>4, Zenon
  <2>. QED
    BY <1>6, <1>7, <2>1, <2>5, <2>6, Zenon
<1>10. N \in S
  <2>. HIDE DEF S
  <2>1. 0 .. N \subseteq S
    BY <1>2, <1>8, <1>9, Induct, Zenon
  <2>. QED
    BY <1>2, <2>1
<1>. QED
  <2>. HIDE DEF Own
  <2>1. \A j \in C : j <= N
    BY <1>2, <1>4
  <2>2. \A j \in C : Size(j) <= acc[N].pages
    BY <1>10, <2>1, Zenon
  <2>. QED
    BY <1>2, <2>2, Zenon DEF Size
-----------------------------------------------------------------------------

\* The bound on an index, and the types of the derived constants.
LEMMA BitmapBitsNat == BitmapBits \in Nat
BY PmmAssumption DEF BitmapBits

\* Reading and writing a bit: bitmap_get sees the bits in range, bitmap_set and
\* the loops over it keep the size and the type of the bitmap.
LEMMA BitmapSetRange ==
  ASSUME NEW bm \in [size : Nat, bits : SUBSET Nat],
         NEW first \in Nat, NEW n \in Nat, NEW v \in {0, 1}
  PROVE  LET new == bitmap_set_range(bm, first, n, v)
             hit == {idx \in first .. (first + n - 1) : InRange(bm, idx)}
         IN /\ new \in [size : Nat, bits : SUBSET Nat]
            /\ new.size = bm.size
            /\ v = 1 => new.bits = bm.bits \cup hit
            /\ v = 0 => new.bits = bm.bits \ hit
<1>. DEFINE hit == {idx \in first .. (first + n - 1) : InRange(bm, idx)}
            val == IF v = 0 THEN bm.bits \ hit ELSE bm.bits \cup hit
            new == bitmap_set_range(bm, first, n, v)
<1>1. new = [bm EXCEPT !.bits = val]
  BY Zenon DEF bitmap_set_range
<1>2. val \in SUBSET Nat
  OBVIOUS
<1>. HIDE DEF val, new
<1>3. new = [size |-> bm.size, bits |-> val]
  BY <1>1, Zenon
<1>4. new.size = bm.size /\ new.bits = val /\ new \in [size : Nat, bits : SUBSET Nat]
  BY <1>2, <1>3, Zenon
<1>. QED
  BY <1>4 DEF val, new

\* The same for one bitmap_set.
LEMMA BitmapSet ==
  ASSUME NEW bm \in [size : Nat, bits : SUBSET Nat],
         NEW idx \in Nat, NEW v \in {0, 1}
  PROVE  LET new == bitmap_set(bm, idx, v)
         IN /\ new \in [size : Nat, bits : SUBSET Nat]
            /\ new.size = bm.size
            /\ v = 1 /\ InRange(bm, idx) => new.bits = bm.bits \cup {idx}
            /\ v = 0 /\ InRange(bm, idx) => new.bits = bm.bits \ {idx}
            /\ ~InRange(bm, idx) => new.bits = bm.bits
BY DEF bitmap_set

\* Between pmm_init and the end, the sets of the properties are fixed by
\* segPages, start_of_mem and the size of the bitmap.
LEMMA FixedSets ==
  ASSUME TypeOK, UNCHANGED <<segPages, start_of_mem>>,
         pmm_bitmap'.size = pmm_bitmap.size
  PROVE  Usable' = Usable /\ KernelImage' = KernelImage
BY Zenon DEF Usable, KernelImage, InRange

\* Usable pages are in the range of the bitmap, and so is everything below.
LEMMA UsableInRange ==
  ASSUME TypeOK, MarkedInv, NEW h \in Usable
  PROVE  /\ h \in Nat
         /\ h < BitmapBits
         /\ \A j \in 0 .. h : InRange(pmm_bitmap, j)
         /\ \A j \in 0 .. h : j \in Usable
BY PmmAssumption, BitmapBitsNat DEF Usable, MarkedInv, TypeOK, InRange

\* Every call of the allocator keeps the types of its state.
LEMMA TypeStep == TypeOK /\ [Next]_vars => TypeOK'
<1>. SUFFICES ASSUME TypeOK, [Next]_vars PROVE TypeOK'
  BY Zenon
<1>1. CASE pmm_init
  <2>. DEFINE chosen == ChosenSegment(mmap)
              size   == (get_mem_size(mmap) \div 8) + 1
  <2>1. chosen.seg \in Nat /\ chosen.pages \in Nat /\ size \in Nat
    BY MapFacts DEF TypeOK
  <2>2. PICK garbage \in PageContents :
          LET cleared == [size |-> size,
                          bits |-> garbage \cap Spilled([size |-> size])]
          IN /\ pmm_bitmap' = IF chosen.seg < KernStart
                              THEN pmm_lockpages(cleared, chosen.seg, KernStart,
                                                 KernPages + 1)
                              ELSE cleared
             /\ start_of_mem' = chosen.seg
             /\ segPages' = chosen.pages
    BY <1>1, Zenon DEF pmm_init
  <2>. DEFINE cleared == [size |-> size,
                          bits |-> garbage \cap Spilled([size |-> size])]
  <2>3. cleared \in [size : Nat, bits : SUBSET Nat]
    BY <2>1, PmmAssumption, Zenon
  <2>. HIDE DEF size, chosen, cleared
  <2>4. pmm_bitmap' \in [size : Nat, bits : SUBSET Nat]
    <3>1. CASE chosen.seg < KernStart
      <4>1. KernStart - chosen.seg \in Nat /\ KernPages + 1 \in Nat
        BY <2>1, <3>1, PmmAssumption
      <4>. QED
        BY <2>2, <2>3, <3>1, <4>1, BitmapSetRange, Zenon
        DEF pmm_lockpages, cleared, chosen, size
    <3>. QED
      BY <2>2, <2>3, <3>1, Zenon DEF cleared, chosen, size
  <2>. QED
    BY <1>1, <2>1, <2>2, <2>4, Zenon DEF TypeOK, pmm_init, chosen
<1>2. CASE pmm_getpage
  <2>1. PICK idx \in Searched : /\ pmm_bitmap' = bitmap_set(pmm_bitmap, idx, 1)
                                /\ granted' = {idx}
                                /\ held' = held \cup {idx}
    BY <1>2, Zenon DEF pmm_getpage
  <2>2. idx \in Nat
    BY DEF Searched
  <2>. QED
    BY <1>2, <2>1, <2>2, BitmapSet, Zenon DEF TypeOK, pmm_getpage
<1>3. ASSUME NEW pages \in 1 .. MaxRequest, pmm_getpages(pages)
      PROVE  TypeOK'
  <2>1. PICK idx \in Searched :
          /\ pmm_bitmap' = bitmap_set_range(pmm_bitmap, idx, pages, 1)
          /\ granted' = idx .. (idx + pages - 1)
          /\ held' = held \cup (idx .. (idx + pages - 1))
    BY <1>3, Zenon DEF pmm_getpages
  <2>2. idx \in Nat /\ pages \in Nat
    BY PmmAssumption DEF Searched
  <2>3. pmm_bitmap' \in [size : Nat, bits : SUBSET Nat]
    BY <2>1, <2>2, BitmapSetRange, Zenon DEF TypeOK
  <2>. QED
    BY <1>3, <2>1, <2>2, <2>3 DEF TypeOK, pmm_getpages
<1>4. ASSUME NEW idx \in held, pmm_freepage(idx)
      PROVE  TypeOK'
  BY <1>4, BitmapSet DEF TypeOK, pmm_freepage
<1>5. CASE WritePageZero
  <2>1. PICK written \in PageContents :
          pmm_bitmap' = [pmm_bitmap EXCEPT !.bits =
                           (@ \ Spilled(pmm_bitmap))
                             \cup (written \cap Spilled(pmm_bitmap))]
    BY <1>5, Zenon DEF WritePageZero
  <2>2. pmm_bitmap' \in [size : Nat, bits : SUBSET Nat]
    BY <2>1, PmmAssumption, Zenon DEF TypeOK
  <2>. QED
    BY <1>5, <2>2, Zenon DEF TypeOK, WritePageZero
<1>6. CASE UNCHANGED vars
  BY <1>6, Zenon DEF TypeOK, vars
<1>. QED
  BY <1>1, <1>2, <1>3, <1>4, <1>5, <1>6, Zenon DEF Next

\* pmm_init, which clears the bitmap and locks the kernel image, establishes
\* the marks.
LEMMA InitMarks == TypeOK /\ TypeOK' /\ MarkedInv /\ pmm_init => MarkedInv'
<1>. SUFFICES ASSUME TypeOK, TypeOK', MarkedInv, pmm_init PROVE MarkedInv'
  BY Zenon
<1>. DEFINE chosen == ChosenSegment(mmap)
            size   == (get_mem_size(mmap) \div 8) + 1
<1>1. /\ chosen.seg \in Nat /\ chosen.pages \in Nat /\ size \in Nat
      /\ chosen.pages <= size * 8
  BY MapFacts DEF TypeOK
<1>2. PICK garbage \in PageContents :
        LET cleared == [size |-> size,
                        bits |-> garbage \cap Spilled([size |-> size])]
        IN /\ pmm_bitmap' = IF chosen.seg < KernStart
                            THEN pmm_lockpages(cleared, chosen.seg, KernStart,
                                               KernPages + 1)
                            ELSE cleared
           /\ start_of_mem' = chosen.seg
           /\ segPages' = chosen.pages
  BY Zenon DEF pmm_init
<1>. DEFINE cleared == [size |-> size,
                        bits |-> garbage \cap Spilled([size |-> size])]
<1>3. cleared \in [size : Nat, bits : SUBSET Nat] /\ cleared.size = size
  BY <1>1, PmmAssumption, Zenon
<1>4. phase' = "ready" /\ held' = {}
  BY Zenon DEF pmm_init, MarkedInv
<1>. HIDE DEF size, chosen, cleared
<1>5. pmm_bitmap'.size = size /\ KernelImage' \subseteq pmm_bitmap'.bits
  <2>1. CASE chosen.seg < KernStart
    <3>1. KernStart - chosen.seg \in Nat /\ KernPages + 1 \in Nat
      BY <1>1, <2>1, PmmAssumption
    <3>. DEFINE first == KernStart - chosen.seg
                hit == {idx \in first .. (first + (KernPages + 1) - 1) :
                          InRange(cleared, idx)}
    <3>2. pmm_bitmap' = bitmap_set_range(cleared, first, KernPages + 1, 1)
      BY <1>2, <2>1, Zenon DEF pmm_lockpages, cleared, chosen, size
    <3>3. pmm_bitmap'.size = cleared.size /\ hit \subseteq pmm_bitmap'.bits
      <4>1. cleared \in [size : Nat, bits : SUBSET Nat] /\ first \in Nat
        BY <1>3, <3>1, Zenon
      <4>2. KernPages + 1 \in Nat /\ 1 \in {0, 1}
        BY <3>1, Zenon
      <4>. HIDE DEF first
      <4>3. LET marked == bitmap_set_range(cleared, first, KernPages + 1, 1)
            IN /\ marked.size = cleared.size
               /\ marked.bits = cleared.bits \cup hit
        BY <4>1, <4>2, BitmapSetRange, ZenonT(60)
      <4>. QED
        BY <3>2, <4>3, Zenon DEF first
    <3>4. KernelImage' \subseteq hit
      <4>1. start_of_mem' = chosen.seg
        BY <1>2, Zenon DEF chosen
      <4>2. first + (KernPages + 1) - 1 = first + KernPages
        BY <3>1, PmmAssumption
      <4>. QED
        BY <1>3, <3>3, <4>1, <4>2, Zenon DEF KernelImage, InRange
    <3>. QED
      BY <1>3, <3>3, <3>4, Zenon
  <2>2. CASE ~(chosen.seg < KernStart)
    <3>1. pmm_bitmap' = cleared /\ start_of_mem' = chosen.seg
      BY <1>2, <2>2, Zenon DEF cleared, chosen, size
    <3>. QED
      BY <1>3, <2>2, <3>1, Zenon DEF KernelImage
  <2>. QED
    BY <2>1, <2>2, Zenon
<1>6. segPages' <= pmm_bitmap'.size * 8
  BY <1>1, <1>2, <1>5, Zenon DEF chosen
<1>. QED
  BY <1>4, <1>5, <1>6, Zenon DEF MarkedInv

\* A search of pmm_getpage and pmm_getpages that ends at idx has seen every
\* index below it marked.
LEMMA BelowFirstFree ==
  ASSUME TypeOK, MarkedInv, NEW idx \in Nat, FirstFree(idx),
         NEW h \in Usable
  PROVE  /\ h < idx => 0 .. h \subseteq pmm_bitmap.bits
         /\ h >= idx => idx \notin pmm_bitmap.bits /\ (idx > 0 => 0 .. (idx - 1) \subseteq pmm_bitmap.bits)
<1>1. h \in Nat /\ \A j \in 0 .. h : InRange(pmm_bitmap, j)
  BY UsableInRange, Zenon
<1>2. \A j \in 0 .. h : j < idx => j \in pmm_bitmap.bits
  BY <1>1 DEF FirstFree, bitmap_get
<1>3. h >= idx => idx \notin pmm_bitmap.bits
  BY <1>1 DEF FirstFree, bitmap_get
<1>. QED
  BY <1>1, <1>2, <1>3

\* A step that marks a run starting at the first free page, as pmm_getpage and
\* pmm_getpages do, keeps the marks.
LEMMA GrantMarks ==
  ASSUME TypeOK, MarkedInv, phase = "ready",
         NEW idx \in Nat, NEW n \in Nat, FirstFree(idx),
         pmm_bitmap'.size = pmm_bitmap.size,
         pmm_bitmap'.bits = pmm_bitmap.bits \cup
           {i \in idx .. (idx + n - 1) : InRange(pmm_bitmap, i)},
         held' = held \cup (idx .. (idx + n - 1)),
         UNCHANGED <<phase, start_of_mem, segPages, frees>>
  PROVE  MarkedInv'
<1>1. Usable' = Usable /\ KernelImage' = KernelImage
  BY FixedSets, Zenon
<1>2. held' \cap Usable \subseteq pmm_bitmap'.bits
  BY UsableInRange DEF MarkedInv
<1>3. ASSUME frees = 0, NEW h \in held' \cap Usable
      PROVE  0 .. h \subseteq pmm_bitmap'.bits
  <2>1. h \in Nat /\ \A j \in 0 .. h : InRange(pmm_bitmap, j)
    BY UsableInRange, Zenon
  <2>2. CASE h \in held
    BY <1>3, <2>2, Zenon DEF MarkedInv
  <2>3. CASE h \in idx .. (idx + n - 1)
    <3>1. ASSUME NEW j \in 0 .. h PROVE j \in pmm_bitmap'.bits
      <4>1. CASE j < idx
        <5>1. h >= idx /\ idx > 0 /\ j \in 0 .. (idx - 1)
          BY <2>1, <2>3, <4>1
        <5>. QED
          BY <5>1, BelowFirstFree, Zenon
      <4>2. CASE j >= idx
        BY <2>1, <2>3, <4>2
      <4>. QED
        BY <2>1, <4>1, <4>2
    <3>. QED
      BY <3>1, Zenon
  <2>. QED
    BY <2>2, <2>3, Zenon
<1>4. frees = 0 => KernelImage \subseteq pmm_bitmap'.bits
  BY Zenon DEF MarkedInv
<1>. QED
  BY <1>1, <1>2, <1>3, <1>4, Zenon DEF MarkedInv

\* Every call keeps the marks.
LEMMA MarkedStep == TypeOK /\ TypeOK' /\ MarkedInv /\ [Next]_vars => MarkedInv'
<1>. SUFFICES ASSUME TypeOK, TypeOK', MarkedInv, [Next]_vars PROVE MarkedInv'
  BY Zenon
<1>1. CASE pmm_init
  BY <1>1, InitMarks, Zenon
<1>2. CASE pmm_getpage
  <2>1. PICK idx \in Searched : /\ FirstFree(idx)
                                /\ pmm_bitmap' = bitmap_set(pmm_bitmap, idx, 1)
                                /\ held' = held \cup {idx}
    BY <1>2, Zenon DEF pmm_getpage
  <2>2. idx \in Nat
    BY DEF Searched
  <2>3. /\ pmm_bitmap'.size = pmm_bitmap.size
        /\ InRange(pmm_bitmap, idx) => pmm_bitmap'.bits = pmm_bitmap.bits \cup {idx}
        /\ ~InRange(pmm_bitmap, idx) => pmm_bitmap'.bits = pmm_bitmap.bits
    BY <2>1, <2>2, BitmapSet, Zenon DEF TypeOK
  <2>4. idx .. (idx + 1 - 1) = {idx}
    BY <2>2
  <2>5. pmm_bitmap'.bits = pmm_bitmap.bits \cup
          {i \in idx .. (idx + 1 - 1) : InRange(pmm_bitmap, i)}
    BY <2>3, <2>4, Zenon
  <2>. QED
    BY <1>2, <2>1, <2>2, <2>3, <2>4, <2>5, GrantMarks, Zenon DEF pmm_getpage
<1>3. ASSUME NEW pages \in 1 .. MaxRequest, pmm_getpages(pages)
      PROVE  MarkedInv'
  <2>1. PICK idx \in Searched :
          /\ FirstFree(idx)
          /\ pmm_bitmap' = bitmap_set_range(pmm_bitmap, idx, pages, 1)
          /\ held' = held \cup (idx .. (idx + pages - 1))
    BY <1>3, Zenon DEF pmm_getpages
  <2>2. idx \in Nat /\ pages \in Nat
    BY PmmAssumption DEF Searched
  <2>3. pmm_bitmap \in [size : Nat, bits : SUBSET Nat]
    BY Zenon DEF TypeOK
  <2>4. /\ pmm_bitmap'.size = pmm_bitmap.size
        /\ pmm_bitmap'.bits = pmm_bitmap.bits \cup
             {i \in idx .. (idx + pages - 1) : InRange(pmm_bitmap, i)}
    BY <2>1, <2>2, <2>3, BitmapSetRange, ZenonT(60)
  <2>. QED
    BY <1>3, <2>1, <2>2, <2>4, GrantMarks, Zenon DEF pmm_getpages
<1>4. ASSUME NEW idx \in held, pmm_freepage(idx)
      PROVE  MarkedInv'
  <2>1. pmm_bitmap'.size = pmm_bitmap.size /\ pmm_bitmap.bits \ {idx} \subseteq pmm_bitmap'.bits
    BY <1>4, BitmapSet, SMTT(30) DEF TypeOK, pmm_freepage
  <2>2. Usable' = Usable /\ frees' # 0
    BY <1>4, <2>1, FixedSets DEF pmm_freepage, TypeOK
  <2>. QED
    BY <1>4, <2>1, <2>2, Zenon DEF MarkedInv, pmm_freepage, TypeOK
<1>5. CASE WritePageZero
  <2>1. PICK written \in PageContents :
          pmm_bitmap' = [pmm_bitmap EXCEPT !.bits =
                           (@ \ Spilled(pmm_bitmap))
                             \cup (written \cap Spilled(pmm_bitmap))]
    BY <1>5, Zenon DEF WritePageZero
  <2>2. pmm_bitmap'.size = pmm_bitmap.size
    BY <2>1, Zenon DEF TypeOK
  <2>3. \A i \in pmm_bitmap.bits : i < BitmapBits => i \in pmm_bitmap'.bits
    BY <2>1, BitmapBitsNat DEF TypeOK, Spilled
  <2>4. Usable' = Usable /\ KernelImage' = KernelImage
    BY <1>5, <2>2, FixedSets, Zenon DEF WritePageZero
  <2>5. held' \cap Usable' \subseteq pmm_bitmap'.bits
    BY <1>5, <2>3, <2>4, Zenon DEF MarkedInv, WritePageZero, Usable
  <2>6. ASSUME frees = 0, NEW h \in held \cap Usable
        PROVE  0 .. h \subseteq pmm_bitmap'.bits
    <3>1. 0 .. h \subseteq pmm_bitmap.bits
      BY <2>6, Zenon DEF MarkedInv
    <3>2. \A j \in 0 .. h : j < BitmapBits
      BY UsableInRange, BitmapBitsNat, Zenon
    <3>. QED
      BY <2>3, <3>1, <3>2, Zenon
  <2>7. frees = 0 => KernelImage' \subseteq pmm_bitmap'.bits
    BY <1>5, <2>3, <2>4, Zenon DEF MarkedInv, WritePageZero, KernelImage
  <2>. QED
    BY <1>5, <2>2, <2>4, <2>5, <2>6, <2>7, Zenon DEF MarkedInv, WritePageZero
<1>6. CASE UNCHANGED vars
  <2>1. Usable' = Usable /\ KernelImage' = KernelImage
    BY <1>6, FixedSets, Zenon DEF vars
  <2>. QED
    BY <1>6, <2>1, Zenon DEF MarkedInv, vars
<1>. QED
  BY <1>1, <1>2, <1>3, <1>4, <1>5, <1>6, Zenon DEF Next

\* The allocator's state is well typed in every reachable state.
THEOREM PmmType == Spec => []TypeOK
<1>1. Init => TypeOK
  BY DEF Init, TypeOK
<1>. QED
  BY <1>1, TypeStep, PTL DEF Spec

\* Held usable pages are marked, and until the first free the marks form a
\* prefix that the kernel image stays part of: the inductive invariant behind
\* the three theorems that follow.
THEOREM PmmMarked == Spec => []MarkedInv
<1>1. Init => MarkedInv
  BY PmmAssumption DEF Init, MarkedInv, Usable
<1>. QED
  BY <1>1, PmmType, MarkedStep, PTL DEF Spec

\* pmm_getpage never hands out a usable page that somebody holds, nor does
\* pmm_getpages before the first free.
THEOREM PmmNeverHandedOutTwice == Spec => NeverHandedOutTwice
<1>1. ASSUME TypeOK, MarkedInv, pmm_getpage
      PROVE  granted' \cap held \cap Usable = {}
  <2>1. PICK idx \in Searched : FirstFree(idx) /\ granted' = {idx}
    BY <1>1, Zenon DEF pmm_getpage
  <2>2. idx \in Nat
    BY DEF Searched
  <2>. QED
    BY <1>1, <2>1, <2>2, BelowFirstFree, UsableInRange DEF MarkedInv
<1>2. ASSUME TypeOK, MarkedInv, frees = 0,
             NEW pages \in 1 .. MaxRequest, pmm_getpages(pages)
      PROVE  granted' \cap held \cap Usable = {}
  <2>1. PICK idx \in Searched : /\ FirstFree(idx)
                                /\ granted' = idx .. (idx + pages - 1)
    BY <1>2, Zenon DEF pmm_getpages
  <2>2. idx \in Nat
    BY DEF Searched
  <2>3. SUFFICES ASSUME NEW h \in held \cap Usable, h \in granted' PROVE FALSE
    BY Zenon
  <2>4. h \in Nat /\ h >= idx /\ idx \in 0 .. h
    BY <1>2, <2>1, <2>2, <2>3, UsableInRange
  <2>5. idx \in pmm_bitmap.bits
    BY <1>2, <2>3, <2>4, Zenon DEF MarkedInv
  <2>. QED
    BY <1>2, <2>1, <2>2, <2>3, <2>4, <2>5, BelowFirstFree, Zenon
<1>3. TypeOK /\ MarkedInv /\ [Next]_vars =>
        [\/ pmm_getpage
         \/ frees = 0 /\ \E pages \in 1 .. MaxRequest : pmm_getpages(pages)
         => granted' \cap held \cap Usable = {}]_vars
  BY <1>1, <1>2, Zenon
<1>. QED
  BY <1>3, PmmType, PmmMarked, PTL DEF Spec, NeverHandedOutTwice

\* While a usable page is free, pmm_getpage returns one.
THEOREM PmmSegmentFirst == Spec => SegmentFirst
<1>1. ASSUME TypeOK, MarkedInv, pmm_getpage,
             NEW i \in Usable, bitmap_get(pmm_bitmap, i) = 0
      PROVE  granted' \subseteq Usable
  <2>1. PICK idx \in Searched : FirstFree(idx) /\ granted' = {idx}
    BY <1>1, Zenon DEF pmm_getpage
  <2>2. idx \in Nat /\ i \in Nat
    BY <1>1, UsableInRange DEF Searched
  <2>3. idx <= i
    BY <1>1, <2>1, <2>2 DEF FirstFree
  <2>. QED
    BY <1>1, <2>1, <2>2, <2>3, UsableInRange
<1>2. TypeOK /\ MarkedInv /\ [Next]_vars =>
        [pmm_getpage /\ (\E i \in Usable : bitmap_get(pmm_bitmap, i) = 0)
         => granted' \subseteq Usable]_vars
  BY <1>1, Zenon
<1>. QED
  BY <1>2, PmmType, PmmMarked, PTL DEF Spec, SegmentFirst

\* pmm_getpage never returns a locked page of the kernel image before the
\* first free.
THEOREM PmmKernelStaysLocked == Spec => KernelStaysLocked
<1>1. ASSUME TypeOK, MarkedInv, pmm_getpage, frees = 0
      PROVE  granted' \cap KernelImage = {}
  <2>1. PICK idx \in Searched : FirstFree(idx) /\ granted' = {idx}
    BY <1>1, Zenon DEF pmm_getpage
  <2>2. KernelImage \subseteq pmm_bitmap.bits
    BY <1>1, Zenon DEF MarkedInv, pmm_getpage
  <2>. QED
    BY <2>1, <2>2 DEF FirstFree, bitmap_get, KernelImage
<1>2. TypeOK /\ MarkedInv /\ [Next]_vars =>
        [pmm_getpage /\ frees = 0 => granted' \cap KernelImage = {}]_vars
  BY <1>1, Zenon
<1>. QED
  BY <1>2, PmmType, PmmMarked, PTL DEF Spec, KernelStaysLocked

\* Until the first free, a mark in the bitmap's own pages is the mark of a held
\* page or of the locked kernel image.
OnlyHeldMarked ==
  frees = 0 =>
    \A i \in pmm_bitmap.bits : i < BitmapBits => i \in held \cup KernelImage

\* pmm_init leaves no mark but those of the kernel image.
LEMMA InitOnlyHeld == TypeOK /\ pmm_init => OnlyHeldMarked'
<1>. SUFFICES ASSUME TypeOK, pmm_init, NEW i \in pmm_bitmap'.bits, i < BitmapBits
              PROVE  i \in KernelImage'
  BY Zenon DEF OnlyHeldMarked
<1>. DEFINE chosen == ChosenSegment(mmap)
            size   == (get_mem_size(mmap) \div 8) + 1
<1>1. chosen.seg \in Nat /\ size \in Nat
  BY MapFacts DEF TypeOK
<1>2. PICK garbage \in PageContents :
        LET cleared == [size |-> size,
                        bits |-> garbage \cap Spilled([size |-> size])]
        IN /\ pmm_bitmap' = IF chosen.seg < KernStart
                            THEN pmm_lockpages(cleared, chosen.seg, KernStart,
                                               KernPages + 1)
                            ELSE cleared
           /\ start_of_mem' = chosen.seg
  BY Zenon DEF pmm_init
<1>. DEFINE cleared == [size |-> size,
                        bits |-> garbage \cap Spilled([size |-> size])]
<1>3. /\ cleared \in [size : Nat, bits : SUBSET Nat] /\ cleared.size = size
      /\ i \notin cleared.bits
  BY <1>1, PmmAssumption, BitmapBitsNat DEF Spilled
<1>. HIDE DEF size, chosen, cleared
<1>4. chosen.seg < KernStart
  BY <1>2, <1>3, Zenon DEF cleared, chosen, size
<1>. DEFINE first == KernStart - chosen.seg
            hit == {idx \in first .. (first + (KernPages + 1) - 1) :
                      InRange(cleared, idx)}
<1>5. first \in Nat /\ KernPages + 1 \in Nat /\ first + (KernPages + 1) - 1 = first + KernPages
  BY <1>1, <1>4, PmmAssumption
<1>6. pmm_bitmap' = bitmap_set_range(cleared, first, KernPages + 1, 1)
  BY <1>2, <1>4, Zenon DEF pmm_lockpages, cleared, chosen, size
<1>. HIDE DEF first
<1>7. pmm_bitmap'.size = cleared.size /\ pmm_bitmap'.bits = cleared.bits \cup hit
  <2>1. 1 \in {0, 1}
    BY Zenon
  <2>2. LET marked == bitmap_set_range(cleared, first, KernPages + 1, 1)
        IN marked.size = cleared.size /\ marked.bits = cleared.bits \cup hit
    BY <1>3, <1>5, <2>1, BitmapSetRange, ZenonT(60)
  <2>. QED
    BY <1>6, <2>2, Zenon
<1>8. i \in hit
  BY <1>3, <1>7, Zenon
<1>9. start_of_mem' = chosen.seg
  BY <1>2, Zenon DEF chosen
<1>. QED
  BY <1>4, <1>5, <1>7, <1>8, <1>9, Zenon DEF KernelImage, InRange, first

\* Marking a run and handing it out, as pmm_getpage and pmm_getpages do, adds no
\* other mark.
LEMMA GrantOnlyHeld ==
  ASSUME TypeOK, OnlyHeldMarked, NEW run,
         pmm_bitmap'.size = pmm_bitmap.size,
         pmm_bitmap'.bits \subseteq pmm_bitmap.bits \cup run,
         held' = held \cup run,
         UNCHANGED <<start_of_mem, segPages, frees>>
  PROVE  OnlyHeldMarked'
<1>1. KernelImage' = KernelImage
  BY FixedSets, Zenon
<1>. QED
  BY <1>1, Zenon DEF OnlyHeldMarked

\* Every call of the allocator keeps that.
LEMMA OnlyHeldStep == TypeOK /\ OnlyHeldMarked /\ [Next]_vars => OnlyHeldMarked'
<1>. SUFFICES ASSUME TypeOK, OnlyHeldMarked, [Next]_vars PROVE OnlyHeldMarked'
  BY Zenon
<1>1. CASE pmm_init
  BY <1>1, InitOnlyHeld, Zenon
<1>2. CASE pmm_getpage
  <2>1. PICK idx \in Searched : /\ pmm_bitmap' = bitmap_set(pmm_bitmap, idx, 1)
                                /\ held' = held \cup {idx}
    BY <1>2, Zenon DEF pmm_getpage
  <2>2. idx \in Nat
    BY DEF Searched
  <2>3. /\ pmm_bitmap'.size = pmm_bitmap.size
        /\ pmm_bitmap'.bits \subseteq pmm_bitmap.bits \cup {idx}
    BY <2>1, <2>2, BitmapSet, Zenon DEF TypeOK
  <2>. QED
    BY <1>2, <2>1, <2>3, GrantOnlyHeld, Zenon DEF pmm_getpage
<1>3. ASSUME NEW pages \in 1 .. MaxRequest, pmm_getpages(pages)
      PROVE  OnlyHeldMarked'
  <2>1. PICK idx \in Searched :
          /\ pmm_bitmap' = bitmap_set_range(pmm_bitmap, idx, pages, 1)
          /\ held' = held \cup (idx .. (idx + pages - 1))
    BY <1>3, Zenon DEF pmm_getpages
  <2>2. idx \in Nat /\ pages \in Nat /\ pmm_bitmap \in [size : Nat, bits : SUBSET Nat]
    BY PmmAssumption DEF Searched, TypeOK
  <2>3. /\ pmm_bitmap'.size = pmm_bitmap.size
        /\ pmm_bitmap'.bits = pmm_bitmap.bits \cup
             {i \in idx .. (idx + pages - 1) : InRange(pmm_bitmap, i)}
    BY <2>1, <2>2, BitmapSetRange, ZenonT(60)
  <2>. QED
    BY <1>3, <2>1, <2>3, GrantOnlyHeld, SMTT(30) DEF pmm_getpages
<1>4. ASSUME NEW idx \in held, pmm_freepage(idx)
      PROVE  OnlyHeldMarked'
  BY <1>4 DEF pmm_freepage, OnlyHeldMarked, TypeOK
<1>5. CASE WritePageZero
  <2>1. PICK written \in PageContents :
          pmm_bitmap' = [pmm_bitmap EXCEPT !.bits =
                           (@ \ Spilled(pmm_bitmap))
                             \cup (written \cap Spilled(pmm_bitmap))]
    BY <1>5, Zenon DEF WritePageZero
  <2>2. /\ pmm_bitmap'.size = pmm_bitmap.size
        /\ \A i \in pmm_bitmap'.bits : i < BitmapBits => i \in pmm_bitmap.bits
    BY <2>1, BitmapBitsNat DEF TypeOK, Spilled
  <2>3. KernelImage' = KernelImage
    BY <1>5, <2>2, FixedSets, Zenon DEF WritePageZero
  <2>. QED
    BY <1>5, <2>2, <2>3, Zenon DEF OnlyHeldMarked, WritePageZero
<1>6. CASE UNCHANGED vars
  BY <1>6, FixedSets, Zenon DEF OnlyHeldMarked, vars
<1>. QED
  BY <1>1, <1>2, <1>3, <1>4, <1>5, <1>6, Zenon DEF Next

\* Until a page is freed, pmm_getpage skips nothing but held pages and the
\* locked kernel image, so that successive pages are neighbours.
THEOREM PmmSuccessivePages == Spec => SuccessivePages
<1>1. Init => OnlyHeldMarked
  BY DEF Init, OnlyHeldMarked
<1>2. Spec => []OnlyHeldMarked
  BY <1>1, OnlyHeldStep, PmmType, PTL DEF Spec
<1>3. ASSUME TypeOK, MarkedInv, OnlyHeldMarked, pmm_getpage, frees = 0,
             NEW g \in granted' \cap Usable
      PROVE  0 .. (g - 1) \subseteq held \cup KernelImage
  <2>1. PICK idx \in Searched : FirstFree(idx) /\ granted' = {idx}
    BY <1>3, Zenon DEF pmm_getpage
  <2>2. idx = g /\ g \in Nat /\ g < BitmapBits
    BY <1>3, <2>1, UsableInRange, Zenon
  <2>3. 0 .. (g - 1) \subseteq pmm_bitmap.bits
    BY <2>1, <2>2, Zenon DEF FirstFree, bitmap_get
  <2>. QED
    BY <1>3, <2>2, <2>3, BitmapBitsNat DEF OnlyHeldMarked
<1>4. TypeOK /\ MarkedInv /\ OnlyHeldMarked /\ [Next]_vars =>
        [pmm_getpage /\ frees = 0
         => \A g \in granted' \cap Usable : 0 .. (g - 1) \subseteq held \cup KernelImage]_vars
  BY <1>3, Zenon
<1>. QED
  BY <1>2, <1>4, PmmType, PmmMarked, PTL DEF Spec, SuccessivePages

-----------------------------------------------------------------------------
\* The segment that pmm_init chose stays the one the loop over the map found.
ChosenInv == phase = "ready" => segPages = ChosenSegment(mmap).pages

\* pmm_init locates the largest conventional segment of every memory map whose
\* segments are no smaller than the bitmap and do not differ by less.
THEOREM PmmLocatedLargest == Spec => []LocatedLargest
<1>1. Init => ChosenInv
  BY Zenon DEF Init, ChosenInv
<1>2. ChosenInv /\ [Next]_vars => ChosenInv'
  <2>. SUFFICES ASSUME ChosenInv, [Next]_vars
                PROVE  ChosenInv'
    BY Zenon
  <2>1. CASE pmm_init
    BY <2>1, Zenon DEF pmm_init, ChosenInv
  <2>2. CASE UNCHANGED <<phase, mmap, segPages>>
    BY <2>2, Zenon DEF ChosenInv
  <2>3. Next => pmm_init \/ UNCHANGED <<phase, mmap, segPages>>
    BY Zenon DEF Next, pmm_getpage, pmm_getpages, pmm_freepage, WritePageZero
  <2>4. UNCHANGED vars => UNCHANGED <<phase, mmap, segPages>>
    BY Zenon DEF vars
  <2>. QED
    BY <2>1, <2>2, <2>3, <2>4, Zenon
<1>3. TypeOK /\ ChosenInv => LocatedLargest
  BY ChosenIsLargest, Zenon DEF TypeOK, ChosenInv, LocatedLargest, Conventional
<1>. QED
  BY <1>1, <1>2, <1>3, PmmType, PTL DEF Spec
=============================================================================
