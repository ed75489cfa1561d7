------------------------------ MODULE HeapProofs ------------------------------
(***************************************************************************)
(* The kernel heap for every region size, every size of header and footer  *)
(* and every sequence of calls: the free lists hold the holes, the footers *)
(* lead to their headers, and the heap implements the blocks of BlockHeap. *)
(***************************************************************************)
EXTENDS Heap, WellFoundedInduction, TLAPS

-----------------------------------------------------------------------------
\* Least and greatest numbers.

\* Every nonempty set of natural numbers has a least member.
LEMMA LeastNatural ==
  ASSUME NEW T \in SUBSET Nat, T # {}
  PROVE  \E x \in T : \A y \in T : x <= y
<1>. DEFINE R == OpToRel(<, Nat)
<1>1. IsWellFoundedOn(R, Nat)
  BY NatLessThanWellFounded, Zenon
<1>2. \A x, y \in Nat : y < x => <<y, x>> \in R
  BY Zenon DEF OpToRel
<1>. HIDE DEF R
<1>3. PICK x \in T : \A y \in T : ~ (<<y, x>> \in R)
  BY <1>1, WFMin, Zenon
<1>4. ASSUME NEW y \in T
      PROVE  x <= y
  <2>1. x \in Nat /\ y \in Nat
    BY Zenon
  <2>2. ~ (y < x)
    BY <1>2, <1>3, <2>1, Zenon
  <2>. QED
    BY <2>1, <2>2
<1>. QED
  BY <1>4, Zenon

\* Min is that member.
LEMMA MinOf ==
  ASSUME NEW I \in SUBSET Nat, I # {}
  PROVE  Min(I) \in I /\ \A i \in I : Min(I) <= i
BY LeastNatural, Zenon DEF Min

\* The greatest number of a set below a bound.
LEMMA Greatest ==
  ASSUME NEW b \in Nat, NEW T, T \subseteq 0 .. b, T # {}
  PROVE  \E x \in T : \A y \in T : y <= x
<1>. DEFINE U == {b - x : x \in T}
<1>1. U \in SUBSET Nat /\ U # {}
  <2>1. \A x \in T : x \in 0 .. b
    BY Zenon
  <2>2. \A x \in 0 .. b : b - x \in Nat
    OBVIOUS
  <2>. QED
    BY <2>1, <2>2, Zenon
<1>2. PICK u \in U : \A v \in U : u <= v
  BY <1>1, LeastNatural, Zenon
<1>3. PICK x \in T : u = b - x
  BY <1>2, Zenon
<1>4. ASSUME NEW y \in T PROVE y <= x
  <2>1. b - y \in U
    BY Zenon
  <2>2. b - x <= b - y
    BY <1>2, <1>3, <2>1, Zenon
  <2>. QED
    BY <2>2
<1>. QED
  BY <1>4, Zenon

-----------------------------------------------------------------------------
\* The list of one bin.

\* The list holds the nodes of S, each once, smallest first.
BinOK(list, S, sz) ==
  /\ list \in Seq(Nat)
  /\ \A i, j \in 1 .. Len(list) : i # j => list[i] # list[j]
  /\ \A i, j \in 1 .. Len(list) : i < j => sz[list[i]] <= sz[list[j]]
  /\ S = {list[i] : i \in 1 .. Len(list)}

\* The new list is the old one with node at position k.
InsertedAt(new, list, k, node) ==
  /\ new \in Seq(Nat) /\ Len(new) = Len(list) + 1
  /\ new[k] = node
  /\ \A j \in 1 .. Len(list) : new[IF j < k THEN j ELSE j + 1] = list[j]

\* What a concatenation has at each place.
LEMMA Concatenated ==
  ASSUME NEW s \in Seq(Nat), NEW t \in Seq(Nat)
  PROVE  /\ s \o t \in Seq(Nat) /\ Len(s \o t) = Len(s) + Len(t)
         /\ \A i \in 1 .. (Len(s) + Len(t)) : (s \o t)[i] = IF i <= Len(s) THEN s[i] ELSE t[i - Len(s)]
OBVIOUS

\* A sequence cut before k, with node put between the parts.
LEMMA InsertShape ==
  ASSUME NEW list \in Seq(Nat), NEW node \in Nat, NEW k \in 1 .. Len(list) + 1
  PROVE  InsertedAt(SubSeq(list, 1, k - 1) \o <<node>> \o SubSeq(list, k, Len(list)), list, k, node)
<1>. DEFINE a == SubSeq(list, 1, k - 1)
            b == SubSeq(list, k, Len(list))
            c == a \o <<node>>
<1>0. Len(list) \in Nat /\ k \in Nat
  OBVIOUS
<1>1. a \in Seq(Nat) /\ Len(a) = k - 1 /\ \A j \in 1 .. (k - 1) : a[j] = list[j]
  OBVIOUS
<1>2. /\ b \in Seq(Nat) /\ Len(b) = Len(list) + 1 - k
      /\ \A j \in 1 .. (Len(list) + 1 - k) : b[j] = list[k + j - 1]
  OBVIOUS
<1>. HIDE DEF a, b
<1>3. /\ c \in Seq(Nat) /\ Len(c) = k /\ c[k] = node
      /\ \A j \in 1 .. (k - 1) : c[j] = list[j]
  <2>1. <<node>> \in Seq(Nat) /\ Len(<<node>>) = 1 /\ <<node>>[1] = node
    OBVIOUS
  <2>2. /\ c \in Seq(Nat) /\ Len(c) = Len(a) + 1
        /\ \A i \in 1 .. (Len(a) + 1) : c[i] = IF i <= Len(a) THEN a[i] ELSE <<node>>[i - Len(a)]
    BY <1>1, <2>1, Concatenated, Zenon
  <2>3. k - (k - 1) = 1 /\ ~ (k <= k - 1) /\ (k - 1) + 1 = k /\ k \in 1 .. k
        /\ \A j \in 1 .. (k - 1) : j \in 1 .. k /\ j <= k - 1
    BY <1>0
  <2>. HIDE DEF c
  <2>4. /\ Len(c) = k
        /\ \A i \in 1 .. k : c[i] = IF i <= k - 1 THEN a[i] ELSE <<node>>[i - (k - 1)]
    BY <1>1, <2>2, <2>3, Zenon
  <2>5. c[k] = node
    BY <2>1, <2>3, <2>4, Zenon
  <2>6. \A j \in 1 .. (k - 1) : c[j] = list[j]
    BY <1>1, <2>3, <2>4, Zenon
  <2>. QED
    BY <2>2, <2>4, <2>5, <2>6, Zenon
<1>. HIDE DEF c
<1>4. /\ c \o b \in Seq(Nat) /\ Len(c \o b) = Len(list) + 1
      /\ \A j \in 1 .. k : (c \o b)[j] = c[j]
      /\ \A j \in (k + 1) .. (Len(list) + 1) : (c \o b)[j] = b[j - k]
  <2>1. /\ c \o b \in Seq(Nat) /\ Len(c \o b) = Len(c) + Len(b)
        /\ \A i \in 1 .. (Len(c) + Len(b)) : (c \o b)[i] = IF i <= Len(c) THEN c[i] ELSE b[i - Len(c)]
    BY <1>2, <1>3, Concatenated, Zenon
  <2>2. /\ k + (Len(list) + 1 - k) = Len(list) + 1
        /\ \A j \in 1 .. k : j \in 1 .. (Len(list) + 1) /\ j <= k
        /\ \A j \in (k + 1) .. (Len(list) + 1) : j \in 1 .. (Len(list) + 1) /\ ~ (j <= k)
    BY <1>0
  <2>. QED
    BY <1>2, <1>3, <2>1, <2>2, Zenon
<1>5. ASSUME NEW j \in 1 .. Len(list)
      PROVE  (c \o b)[IF j < k THEN j ELSE j + 1] = list[j]
  <2>1. CASE j < k
    BY <1>0, <1>3, <1>4, <2>1
  <2>2. CASE ~ (j < k)
    <3>1. j + 1 \in (k + 1) .. (Len(list) + 1) /\ (j + 1) - k \in 1 .. (Len(list) + 1 - k)
      BY <1>0, <2>2
    <3>2. (c \o b)[j + 1] = b[(j + 1) - k] /\ b[(j + 1) - k] = list[k + ((j + 1) - k) - 1]
      BY <1>2, <1>4, <3>1, Zenon
    <3>3. k + ((j + 1) - k) - 1 = j
      BY <1>0
    <3>4. (c \o b)[j + 1] = list[j]
      BY <3>2, <3>3, Zenon
    <3>. QED
      BY <2>2, <3>4, Zenon
  <2>. QED
    BY <2>1, <2>2, Zenon
<1>6. (c \o b)[k] = node
  BY <1>0, <1>3, <1>4
<1>. QED
  BY <1>4, <1>5, <1>6, Zenon DEF InsertedAt, a, b, c

\* Put where no node before it is larger and none behind it smaller, the node
\* leaves the list in order.
LEMMA InsertedOK ==
  ASSUME NEW list, NEW S, NEW sz, BinOK(list, S, sz), \A x \in S : sz[x] \in Nat,
         NEW node \in Nat, node \notin S, sz[node] \in Nat,
         NEW k \in 1 .. (Len(list) + 1), NEW new, InsertedAt(new, list, k, node),
         \A j \in 1 .. Len(list) : IF j < k THEN sz[list[j]] <= sz[node] ELSE sz[node] <= sz[list[j]]
  PROVE  BinOK(new, S \cup {node}, sz)
<1>. DEFINE n == Len(list)
            up(j) == IF j < k THEN j ELSE j + 1
<1>1. n \in Nat /\ k \in 1 .. (n + 1) /\ Len(new) = n + 1 /\ new \in Seq(Nat) /\ new[k] = node
  BY DEF BinOK, InsertedAt
<1>2. \A j \in 1 .. n : new[up(j)] = list[j] /\ list[j] \in S
  BY Zenon DEF BinOK, InsertedAt
<1>. HIDE DEF n
<1>3. \A i \in 1 .. (n + 1) : i = k \/ \E j \in 1 .. n : i = up(j)
  <2>. SUFFICES ASSUME NEW i \in 1 .. (n + 1), i # k PROVE \E j \in 1 .. n : i = up(j)
    BY Zenon
  <2>1. CASE i < k
    <3>1. i \in 1 .. n /\ i = up(i)
      BY <1>1, <2>1
    <3>. QED
      BY <3>1, Zenon
  <2>2. CASE ~ (i < k)
    <3>1. i - 1 \in 1 .. n /\ i = up(i - 1)
      BY <1>1, <2>2
    <3>. QED
      BY <3>1, Zenon
  <2>. QED
    BY <2>1, <2>2, Zenon
<1>4. \A i, j \in 1 .. n : (up(i) < up(j) <=> i < j) /\ up(i) # k /\ (up(i) < k <=> i < k) /\ up(i) \in 1 .. (n + 1)
  BY <1>1
<1>. HIDE DEF up
<1>5. \A i, j \in 1 .. n : i # j => list[i] # list[j]
  BY Zenon DEF BinOK, n
<1>6. \A i, j \in 1 .. n : i < j => sz[list[i]] <= sz[list[j]]
  BY Zenon DEF BinOK, n
<1>7. ASSUME NEW i \in 1 .. (n + 1), NEW j \in 1 .. (n + 1), i # j PROVE new[i] # new[j]
  <2>1. CASE i = k \/ j = k
    BY <1>1, <1>2, <1>3, <1>7, <2>1, Zenon
  <2>2. CASE i # k /\ j # k
    <3>1. PICK a \in 1 .. n : i = up(a)
      BY <1>3, <2>2, Zenon
    <3>2. PICK b \in 1 .. n : j = up(b)
      BY <1>3, <2>2, Zenon
    <3>. QED
      BY <1>2, <1>5, <1>7, <3>1, <3>2, Zenon
  <2>. QED
    BY <2>1, <2>2, Zenon
<1>8. ASSUME NEW i \in 1 .. (n + 1), NEW j \in 1 .. (n + 1), i < j PROVE sz[new[i]] <= sz[new[j]]
  <2>1. CASE i = k
    <3>1. PICK b \in 1 .. n : j = up(b)
      BY <1>1, <1>3, <1>8, <2>1
    <3>2. ~ (b < k)
      BY <1>1, <1>4, <1>8, <2>1, <3>1
    <3>. QED
      BY <1>1, <1>2, <2>1, <3>1, <3>2, Zenon DEF n
  <2>2. CASE j = k
    <3>1. PICK a \in 1 .. n : i = up(a)
      BY <1>1, <1>3, <1>8, <2>2
    <3>2. a < k
      BY <1>1, <1>4, <1>8, <2>2, <3>1, Zenon
    <3>. QED
      BY <1>1, <1>2, <2>2, <3>1, <3>2, Zenon DEF n
  <2>3. CASE i # k /\ j # k
    <3>1. PICK a \in 1 .. n : i = up(a)
      BY <1>3, <2>3, Zenon
    <3>2. PICK b \in 1 .. n : j = up(b)
      BY <1>3, <2>3, Zenon
    <3>3. a < b
      BY <1>4, <1>8, <3>1, <3>2, Zenon
    <3>. QED
      BY <1>2, <1>6, <3>1, <3>2, <3>3, Zenon
  <2>. QED
    BY <2>1, <2>2, <2>3, Zenon
<1>9. S \cup {node} = {new[i] : i \in 1 .. (n + 1)}
  <2>1. ASSUME NEW x \in S PROVE \E i \in 1 .. (n + 1) : x = new[i]
    <3>1. PICK j \in 1 .. n : x = list[j]
      BY Zenon DEF BinOK, n
    <3>. QED
      BY <1>2, <1>4, <3>1, Zenon
  <2>2. \E i \in 1 .. (n + 1) : node = new[i]
    BY <1>1, Zenon
  <2>3. \A i \in 1 .. (n + 1) : new[i] \in S \cup {node}
    BY <1>1, <1>2, <1>3, Zenon
  <2>. QED
    BY <2>1, <2>2, <2>3, Zenon
<1>. QED
  BY <1>1, <1>7, <1>8, <1>9, Zenon DEF BinOK

\* add_node keeps the list in order.
LEMMA InsertOK ==
  ASSUME NEW list, NEW S, NEW sz, BinOK(list, S, sz), \A x \in S : sz[x] \in Nat,
         NEW node \in Nat, node \notin S, sz[node] \in Nat
  PROVE  BinOK(Insert(list, node, sz), S \cup {node}, sz)
<1>. DEFINE I == {i \in 1 .. Len(list) : sz[list[i]] > sz[node]}
<1>1. list \in Seq(Nat) /\ Len(list) \in Nat /\ \A j \in 1 .. Len(list) : list[j] \in S /\ sz[list[j]] \in Nat
  BY DEF BinOK
<1>0. DOMAIN list = 1 .. Len(list)
  BY <1>1
<1>2. I \in SUBSET Nat
  OBVIOUS
<1>3. CASE I = {}
  <2>. DEFINE k == Len(list) + 1
  <2>1. Insert(list, node, sz) = SubSeq(list, 1, k - 1) \o <<node>> \o SubSeq(list, k, Len(list))
    BY <1>0, <1>3, Zenon DEF Insert
  <2>2. \A j \in 1 .. Len(list) : j < Len(list) + 1 /\ sz[list[j]] <= sz[node]
    BY <1>1, <1>3
  <2>3. Len(list) + 1 \in 1 .. (Len(list) + 1)
    BY <1>1
  <2>4. InsertedAt(Insert(list, node, sz), list, k, node)
    BY <1>1, <2>1, <2>3, InsertShape, Zenon
  <2>. QED
    BY <2>2, <2>3, <2>4, InsertedOK, Zenon
<1>4. CASE I # {}
  <2>1. PICK k \in I : k = Min(I) /\ \A i \in I : k <= i
    BY <1>2, <1>4, MinOf, Zenon
  <2>2. k \in 1 .. (Len(list) + 1) /\ k \in 1 .. Len(list) /\ k \in Nat \ {0} /\ sz[list[k]] > sz[node]
    BY <1>1, <2>1
  <2>3. Insert(list, node, sz) = SubSeq(list, 1, k - 1) \o <<node>> \o SubSeq(list, k, Len(list))
    BY <1>0, <1>4, <2>1, Zenon DEF Insert
  <2>4. ASSUME NEW j \in 1 .. Len(list)
        PROVE  IF j < k THEN sz[list[j]] <= sz[node] ELSE sz[node] <= sz[list[j]]
    <3>1. CASE j < k
      <4>1. j \notin I
        BY <2>1, <2>2, <3>1
      <4>. QED
        BY <1>1, <3>1, <4>1
    <3>2. CASE ~ (j < k)
      <4>1. sz[list[k]] <= sz[list[j]]
        BY <1>1, <2>2, <3>2 DEF BinOK
      <4>. QED
        BY <1>1, <2>2, <3>2, <4>1
    <3>. QED
      BY <3>1, <3>2, Zenon
  <2>. QED
    BY <1>1, <2>2, <2>3, <2>4, InsertShape, InsertedOK, Zenon
<1>. QED
  BY <1>3, <1>4, Zenon

\* The new list is the old one without its position k.
DeletedAt(new, list, k) ==
  /\ new \in Seq(Nat) /\ Len(new) = Len(list) - 1
  /\ \A j \in 1 .. (Len(list) - 1) : new[j] = list[IF j < k THEN j ELSE j + 1]

\* A sequence without its place k.
LEMMA DeleteShape ==
  ASSUME NEW list \in Seq(Nat), NEW k \in 1 .. Len(list)
  PROVE  DeletedAt(SubSeq(list, 1, k - 1) \o SubSeq(list, k + 1, Len(list)), list, k)
<1>. DEFINE a == SubSeq(list, 1, k - 1)
            b == SubSeq(list, k + 1, Len(list))
<1>0. Len(list) \in Nat /\ k \in Nat
  OBVIOUS
<1>1. a \in Seq(Nat) /\ Len(a) = k - 1 /\ \A j \in 1 .. (k - 1) : a[j] = list[j]
  OBVIOUS
<1>2. /\ b \in Seq(Nat) /\ Len(b) = Len(list) - k
      /\ \A j \in 1 .. (Len(list) - k) : b[j] = list[(k + 1) + j - 1]
  OBVIOUS
<1>. HIDE DEF a, b
<1>3. /\ a \o b \in Seq(Nat) /\ Len(a \o b) = Len(a) + Len(b)
      /\ \A i \in 1 .. (Len(a) + Len(b)) : (a \o b)[i] = IF i <= Len(a) THEN a[i] ELSE b[i - Len(a)]
  BY <1>1, <1>2, Concatenated, Zenon
<1>4. (k - 1) + (Len(list) - k) = Len(list) - 1
  BY <1>0
<1>5. ASSUME NEW j \in 1 .. (Len(list) - 1)
      PROVE  (a \o b)[j] = list[IF j < k THEN j ELSE j + 1]
  <2>1. CASE j < k
    <3>1. j \in 1 .. (k - 1) /\ j <= k - 1
      BY <1>0, <2>1
    <3>. QED
      BY <1>1, <1>2, <1>3, <1>4, <2>1, <3>1, Zenon
  <2>2. CASE ~ (j < k)
    <3>1. /\ ~ (j <= k - 1) /\ j - (k - 1) \in 1 .. (Len(list) - k)
          /\ (k + 1) + (j - (k - 1)) - 1 = j + 1
      BY <1>0, <2>2
    <3>. QED
      BY <1>1, <1>2, <1>3, <1>4, <2>2, <3>1, Zenon
  <2>. QED
    BY <2>1, <2>2, Zenon
<1>. QED
  BY <1>1, <1>2, <1>3, <1>4, <1>5, Zenon DEF DeletedAt, a, b

\* remove_node takes the node out and keeps the order of the others.
LEMMA DeleteOK ==
  ASSUME NEW list, NEW S, NEW sz, BinOK(list, S, sz), NEW node
  PROVE  BinOK(Delete(list, node), S \ {node}, sz)
<1>. DEFINE n == Len(list)
            I == {i \in 1 .. n : list[i] = node}
<1>1. /\ list \in Seq(Nat) /\ n \in Nat /\ DOMAIN list = 1 .. n
      /\ \A i, j \in 1 .. n : i # j => list[i] # list[j]
      /\ \A i, j \in 1 .. n : i < j => sz[list[i]] <= sz[list[j]]
      /\ S = {list[i] : i \in 1 .. n}
  BY DEF BinOK
<1>2. CASE I = {}
  <2>1. Delete(list, node) = list
    BY <1>1, <1>2, Zenon DEF Delete
  <2>2. node \notin S
    BY <1>1, <1>2, Zenon
  <2>3. S \ {node} = S
    BY <2>2, Zenon
  <2>. QED
    BY <2>1, <2>3, Zenon
<1>3. CASE I # {}
  <2>0. I \in SUBSET Nat
    OBVIOUS
  <2>1. PICK k \in I : k = Min(I)
    BY <1>3, <2>0, MinOf, Zenon
  <2>2. k \in 1 .. n /\ list[k] = node
    BY <2>1, Zenon
  <2>3. Delete(list, node) = SubSeq(list, 1, k - 1) \o SubSeq(list, k + 1, Len(list))
    BY <1>1, <1>3, <2>1, Zenon DEF Delete
  <2>4. PICK new : new = Delete(list, node) /\ DeletedAt(new, list, k)
    BY <1>1, <2>2, <2>3, DeleteShape, Zenon
  <2>. DEFINE up(j) == IF j < k THEN j ELSE j + 1
  <2>. HIDE DEF n, I
  <2>5. new \in Seq(Nat) /\ Len(new) = n - 1 /\ \A j \in 1 .. (n - 1) : new[j] = list[up(j)]
    BY <2>4, Zenon DEF DeletedAt, n
  <2>6. /\ \A j \in 1 .. (n - 1) : up(j) \in 1 .. n /\ up(j) # k
        /\ \A i, j \in 1 .. (n - 1) : (i < j => up(i) < up(j)) /\ (i # j => up(i) # up(j))
    BY <1>1, <2>2
  <2>7. \A i \in 1 .. n : i # k => \E j \in 1 .. (n - 1) : i = up(j)
    <3>. SUFFICES ASSUME NEW i \in 1 .. n, i # k PROVE \E j \in 1 .. (n - 1) : i = up(j)
      BY Zenon
    <3>1. CASE i < k
      <4>1. i \in 1 .. (n - 1) /\ i = up(i)
        BY <1>1, <2>2, <3>1
      <4>. QED
        BY <4>1, Zenon
    <3>2. CASE ~ (i < k)
      <4>1. i - 1 \in 1 .. (n - 1) /\ i = up(i - 1)
        BY <1>1, <2>2, <3>2
      <4>. QED
        BY <4>1, Zenon
    <3>. QED
      BY <3>1, <3>2, Zenon
  <2>. HIDE DEF up
  <2>8. \A i, j \in 1 .. (n - 1) : i # j => new[i] # new[j]
    BY <1>1, <2>5, <2>6, Zenon
  <2>9. \A i, j \in 1 .. (n - 1) : i < j => sz[new[i]] <= sz[new[j]]
    BY <1>1, <2>5, <2>6, Zenon
  <2>10. S \ {node} = {new[i] : i \in 1 .. (n - 1)}
    <3>1. ASSUME NEW x \in S, x # node PROVE \E i \in 1 .. (n - 1) : x = new[i]
      <4>1. PICK i \in 1 .. n : x = list[i]
        BY <1>1, Zenon
      <4>2. PICK j \in 1 .. (n - 1) : i = up(j)
        BY <2>2, <2>7, <3>1, <4>1, Zenon
      <4>. QED
        BY <2>5, <4>1, <4>2, Zenon
    <3>2. \A i \in 1 .. (n - 1) : new[i] \in S /\ new[i] # node
      BY <1>1, <2>2, <2>5, <2>6, Zenon
    <3>. QED
      BY <3>1, <3>2, Zenon
  <2>. QED
    BY <2>4, <2>5, <2>8, <2>9, <2>10, Zenon DEF BinOK
<1>. QED
  BY <1>2, <1>3, Zenon

\* Only the sizes of the nodes in the list matter.
LEMMA AgreeOK ==
  ASSUME NEW list, NEW S, NEW sz, NEW other, BinOK(list, S, sz),
         \A x \in S : other[x] = sz[x]
  PROVE  BinOK(list, S, other)
<1>1. \A i \in 1 .. Len(list) : other[list[i]] = sz[list[i]]
  BY Zenon DEF BinOK
<1>. QED
  BY <1>1, Zenon DEF BinOK

\* get_best_fit returns the smallest node that is large enough.
LEMMA BestFitOK ==
  ASSUME NEW list, NEW S, NEW sz, BinOK(list, S, sz), \A x \in S : sz[x] \in Nat, NEW want \in Nat
  PROVE  /\ Fits(list, want, sz) <=> \E x \in S : sz[x] >= want
         /\ Fits(list, want, sz) =>
              /\ BestFit(list, want, sz) \in S /\ sz[BestFit(list, want, sz)] >= want
              /\ \A x \in S : sz[x] >= want => sz[BestFit(list, want, sz)] <= sz[x]
<1>. DEFINE I == {i \in 1 .. Len(list) : sz[list[i]] >= want}
<1>1. /\ list \in Seq(Nat) /\ Len(list) \in Nat /\ DOMAIN list = 1 .. Len(list)
      /\ S = {list[i] : i \in 1 .. Len(list)}
  BY DEF BinOK
<1>2. Fits(list, want, sz) <=> I # {}
  BY <1>1, Zenon DEF Fits
<1>3. I # {} <=> \E x \in S : sz[x] >= want
  BY <1>1, Zenon
<1>4. ASSUME I # {}
      PROVE  /\ BestFit(list, want, sz) \in S /\ sz[BestFit(list, want, sz)] >= want
             /\ \A x \in S : sz[x] >= want => sz[BestFit(list, want, sz)] <= sz[x]
  <2>0. I \in SUBSET Nat
    OBVIOUS
  <2>1. PICK k \in I : k = Min(I) /\ \A i \in I : k <= i
    BY <1>4, <2>0, MinOf, Zenon
  <2>2. BestFit(list, want, sz) = list[k]
    BY <1>1, <2>1, Zenon DEF BestFit
  <2>3. k \in 1 .. Len(list) /\ sz[list[k]] >= want /\ list[k] \in S /\ sz[list[k]] \in Nat
    BY <1>1, <2>1, Zenon
  <2>4. ASSUME NEW x \in S, sz[x] >= want PROVE sz[list[k]] <= sz[x]
    <3>1. PICK i \in I : x = list[i] /\ k <= i
      BY <1>1, <2>1, <2>4, Zenon
    <3>2. i \in 1 .. Len(list)
      BY Zenon
    <3>3. CASE i = k
      BY <2>3, <3>1, <3>3
    <3>4. CASE i # k
      <4>1. k < i
        BY <1>1, <2>3, <3>1, <3>2, <3>4
      <4>. QED
        BY <2>3, <3>1, <3>2, <4>1, Zenon DEF BinOK
    <3>. QED
      BY <3>3, <3>4, Zenon
  <2>. QED
    BY <2>2, <2>3, <2>4, Zenon
<1>. QED
  BY <1>2, <1>3, <1>4, Zenon

-----------------------------------------------------------------------------
\* The bin of a size.

\* Halving.
LEMMA Half ==
  /\ \A n \in Nat : n \div 2 \in Nat /\ (n >= 2 => n \div 2 >= 1 /\ n \div 2 < n)
  /\ \A m, n \in Nat : m <= n => m \div 2 <= n \div 2
OBVIOUS

\* Log2 is what its defining equation says: there is a function on 0 .. n that
\* satisfies it, for every n, and any two agree where both are defined.
LEMMA Log2Runs == \A n \in Nat : Log2[n] = IF n < 2 THEN 0 ELSE 1 + Log2[n \div 2]
<1>. DEFINE Runs(h, n) == h = [i \in 0 .. n |-> IF i < 2 THEN 0 ELSE 1 + h[i \div 2]]
            At(h, i) == h[i] = IF i < 2 THEN 0 ELSE 1 + h[i \div 2]
<1>1. \A n \in Nat : \A h : Runs(h, n) => \A i \in 0 .. n : At(h, i)
  BY Zenon
<1>2. ASSUME NEW m \in Nat, NEW n \in Nat, NEW g, NEW h, Runs(g, m), Runs(h, n), m <= n,
             NEW j \in 0 .. m, g[j] # h[j]
      PROVE  FALSE
  <2>. DEFINE T == {i \in 0 .. m : g[i] # h[i]}
  <2>1. T \in SUBSET Nat /\ T # {}
    <3>1. T \in SUBSET Nat
      OBVIOUS
    <3>2. j \in T
      BY <1>2, Zenon
    <3>. QED
      BY <3>1, <3>2, Zenon
  <2>2. PICK x \in T : \A y \in T : x <= y
    BY <2>1, LeastNatural, Zenon
  <2>3. x \in 0 .. m /\ x \in 0 .. n /\ g[x] # h[x] /\ x \in Nat
    BY <1>2
  <2>4. At(g, x) /\ At(h, x)
    BY <1>1, <1>2, <2>3, Zenon
  <2>5. ~ (x < 2)
    BY <2>3, <2>4, Zenon
  <2>6. x \div 2 \in 0 .. m /\ ~ (x <= x \div 2)
    BY <2>3, <2>5, Half
  <2>7. g[x \div 2] = h[x \div 2]
    BY <2>2, <2>6, Zenon
  <2>. QED
    BY <2>3, <2>4, <2>5, <2>7, Zenon
<1>3. ASSUME NEW n \in Nat PROVE \E h : Runs(h, n)
  <2>. SUFFICES ASSUME ~ \E h : Runs(h, n) PROVE FALSE
    BY Zenon
  <2>. DEFINE T == {i \in Nat : ~ \E h : Runs(h, i)}
  <2>1. T \in SUBSET Nat /\ T # {}
    BY Zenon
  <2>2. PICK x \in T : \A y \in T : x <= y
    BY <2>1, LeastNatural, Zenon
  <2>3. CASE x = 0
    <3>. DEFINE h == [i \in 0 .. 0 |-> 0]
    <3>1. \A i \in 0 .. 0 : i < 2
      OBVIOUS
    <3>2. Runs(h, 0)
      BY <3>1, Zenon
    <3>. QED
      BY <2>2, <2>3, <3>2, Zenon
  <2>4. CASE x # 0
    <3>1. x \in Nat /\ x - 1 \in Nat /\ ~ (x <= x - 1)
      BY <2>4
    <3>2. PICK h : Runs(h, x - 1)
      BY <2>2, <3>1, Zenon
    <3>. DEFINE v == IF x < 2 THEN 0 ELSE 1 + h[x \div 2]
                k == [i \in 0 .. x |-> IF i = x THEN v ELSE h[i]]
    <3>3. \A i \in 0 .. (x - 1) : i \in 0 .. x /\ i # x /\ (~ (i < 2) => i \div 2 \in 0 .. (x - 1))
      BY <3>1, Half
    <3>4. \A i \in 0 .. x : i = x \/ i \in 0 .. (x - 1)
      BY <3>1
    <3>5. ~ (x < 2) => x \div 2 \in 0 .. (x - 1)
      BY <3>1, Half
    <3>6. \A i \in 0 .. (x - 1) : k[i] = h[i] /\ At(h, i)
      BY <1>1, <3>1, <3>2, <3>3, Zenon
    <3>7. ASSUME NEW i \in 0 .. x
          PROVE  (IF i = x THEN v ELSE h[i]) = IF i < 2 THEN 0 ELSE 1 + k[i \div 2]
      <4>1. CASE i = x
        BY <3>5, <3>6, <4>1, Zenon
      <4>2. CASE i # x
        <5>1. i \in 0 .. (x - 1)
          BY <3>4, <4>2, Zenon
        <5>. QED
          BY <3>3, <3>6, <4>2, <5>1, Zenon
      <4>. QED
        BY <4>1, <4>2, Zenon
    <3>8. Runs(k, x)
      BY <3>7, Zenon
    <3>. QED
      BY <2>2, <3>8, Zenon
  <2>. QED
    BY <2>3, <2>4, Zenon
<1>. DEFINE H(n) == CHOOSE h : Runs(h, n)
            log == [n \in Nat |-> H(n)[n]]
<1>4. \A n \in Nat : Runs(H(n), n)
  BY <1>3, Zenon
<1>. HIDE DEF H
<1>5. ASSUME NEW n \in Nat
      PROVE  log[n] = IF n < 2 THEN 0 ELSE 1 + log[n \div 2]
  <2>1. log[n] = H(n)[n]
    BY Zenon
  <2>2. n \in 0 .. n
    OBVIOUS
  <2>3. At(H(n), n)
    BY <1>1, <1>4, <2>2, Zenon
  <2>4. CASE n < 2
    BY <2>1, <2>3, <2>4, Zenon
  <2>5. CASE ~ (n < 2)
    <3>1. n \div 2 \in Nat /\ n \div 2 <= n /\ n \div 2 \in 0 .. (n \div 2)
      BY Half
    <3>2. H(n \div 2)[n \div 2] = H(n)[n \div 2]
      <4>1. Runs(H(n \div 2), n \div 2) /\ Runs(H(n), n)
        BY <1>4, <3>1, Zenon
      <4>. HIDE DEF Runs
      <4>. QED
        BY <1>2, <3>1, <4>1, Zenon
    <3>3. log[n \div 2] = H(n)[n \div 2]
      BY <3>1, <3>2, Zenon
    <3>. QED
      BY <2>1, <2>3, <2>5, <3>3, Zenon
  <2>. QED
    BY <2>4, <2>5, Zenon
<1>. DEFINE Solves(f) == f = [n \in Nat |-> IF n < 2 THEN 0 ELSE 1 + f[n \div 2]]
<1>6. Solves(log)
  <2>1. log = [n \in Nat |-> log[n]]
    BY Zenon
  <2>. HIDE DEF log
  <2>. QED
    BY <1>5, <2>1, Zenon
<1>7. Log2 = CHOOSE f : Solves(f)
  BY Zenon DEF Log2
<1>8. Solves(Log2)
  <2>. HIDE DEF Solves, log
  <2>. QED
    BY <1>6, <1>7, Zenon
<1>. QED
  BY <1>8, Zenon

\* The leading bit of a size has a natural number for its position.
LEMMA Log2Nat == \A n \in Nat : Log2[n] \in Nat
<1>. SUFFICES ASSUME NEW n \in Nat, Log2[n] \notin Nat PROVE FALSE
  BY Zenon
<1>. DEFINE T == {i \in Nat : Log2[i] \notin Nat}
<1>1. T \in SUBSET Nat /\ T # {}
  BY Zenon
<1>2. PICK x \in T : \A y \in T : x <= y
  BY <1>1, LeastNatural, Zenon
<1>3. x \in Nat /\ Log2[x] \notin Nat
  BY Zenon
<1>4. ~ (x < 2) /\ Log2[x] = 1 + Log2[x \div 2]
  BY <1>3, Log2Runs
<1>5. x \div 2 \in Nat /\ ~ (x <= x \div 2)
  BY <1>3, <1>4, Half
<1>6. Log2[x \div 2] \in Nat
  BY <1>2, <1>5, Zenon
<1>. QED
  BY <1>3, <1>4, <1>6

\* A larger size has no lower leading bit: larger blocks are in later bins.
LEMMA Log2Monotone == \A m, n \in Nat : m <= n => Log2[m] <= Log2[n]
<1>. SUFFICES ASSUME NEW m \in Nat, NEW n \in Nat, m <= n, ~ (Log2[m] <= Log2[n]) PROVE FALSE
  BY Zenon
<1>. DEFINE T == {i \in Nat : \E j \in Nat : j <= i /\ ~ (Log2[j] <= Log2[i])}
<1>1. T \in SUBSET Nat /\ T # {}
  BY Zenon
<1>2. PICK x \in T : \A y \in T : x <= y
  BY <1>1, LeastNatural, Zenon
<1>3. PICK z \in Nat : z <= x /\ ~ (Log2[z] <= Log2[x])
  BY <1>2, Zenon
<1>4. x \in Nat /\ Log2[x] \in Nat /\ Log2[z] \in Nat
  BY Log2Nat, Zenon
<1>5. ~ (z < 2) /\ Log2[z] = 1 + Log2[z \div 2]
  BY <1>3, <1>4, Log2Runs
<1>6. ~ (x < 2)
  BY <1>3, <1>4, <1>5
<1>7. Log2[x] = 1 + Log2[x \div 2]
  BY <1>4, <1>6, Log2Runs, Zenon
<1>8. x \div 2 \in Nat /\ z \div 2 \in Nat /\ ~ (x <= x \div 2) /\ z \div 2 <= x \div 2
  BY <1>3, <1>4, <1>6, Half
<1>9. Log2[z \div 2] <= Log2[x \div 2]
  BY <1>2, <1>8, Zenon
<1>10. Log2[z \div 2] \in Nat /\ Log2[x \div 2] \in Nat
  BY <1>8, Log2Nat, Zenon
<1>. QED
  BY <1>3, <1>5, <1>7, <1>9, <1>10

\* The sizes that are folded into bin 0, for each MinBinSize.
LEMMA Log2Small ==
  /\ Log2[0] = 0 /\ Log2[1] = 0 /\ Log2[2] = 1 /\ Log2[3] = 1
  /\ Log2[4] = 2 /\ Log2[5] = 2 /\ Log2[6] = 2 /\ Log2[7] = 2 /\ Log2[8] = 3
<1>1. Log2[0] = 0 /\ Log2[1] = 0
  BY Log2Runs
<1>2. Log2[2] = 1 + Log2[1] /\ Log2[3] = 1 + Log2[1]
  <2>1. 2 \div 2 = 1 /\ 3 \div 2 = 1 /\ ~ (2 < 2) /\ ~ (3 < 2) /\ 2 \in Nat /\ 3 \in Nat
    OBVIOUS
  <2>. QED
    BY <2>1, Log2Runs, Zenon
<1>3. Log2[4] = 1 + Log2[2] /\ Log2[5] = 1 + Log2[2] /\ Log2[6] = 1 + Log2[3] /\ Log2[7] = 1 + Log2[3]
  <2>1. /\ 4 \div 2 = 2 /\ 5 \div 2 = 2 /\ 6 \div 2 = 3 /\ 7 \div 2 = 3
        /\ ~ (4 < 2) /\ ~ (5 < 2) /\ ~ (6 < 2) /\ ~ (7 < 2)
        /\ 4 \in Nat /\ 5 \in Nat /\ 6 \in Nat /\ 7 \in Nat
    OBVIOUS
  <2>. QED
    BY <2>1, Log2Runs, Zenon
<1>4. Log2[8] = 1 + Log2[4]
  <2>1. 8 \div 2 = 4 /\ ~ (8 < 2) /\ 8 \in Nat
    OBVIOUS
  <2>. QED
    BY <2>1, Log2Runs, Zenon
<1>. QED
  BY <1>1, <1>2, <1>3, <1>4

\* get_bin_index is one of the bins, grows with the size, and is 0 exactly for the
\* sizes below twice the smallest.
LEMMA BinIndex ==
  /\ 0 \in 0 .. BIN_MAX_IDX /\ BIN_MAX_IDX \in Nat \ {0}
  /\ \A s \in Nat : get_bin_index(s) \in 0 .. BIN_MAX_IDX
  /\ \A s, t \in Nat : s <= t => get_bin_index(s) <= get_bin_index(t)
  /\ \A s \in Nat : get_bin_index(s) = 0 <=> s < 2 * MinBinSize
<1>. DEFINE up(s) == IF s < MinBinSize THEN MinBinSize ELSE s
            idx(s) == Log2[up(s)] - Log2[MinBinSize]
<1>1. MinBinSize \in Nat /\ BIN_MAX_IDX \in Nat \ {0}
  BY HeapAssumption DEF BIN_MAX_IDX
<1>2. \A s, t \in Nat : up(s) \in Nat /\ MinBinSize <= up(s) /\ (s <= t => up(s) <= up(t))
  BY <1>1
<1>3. \A s \in Nat : get_bin_index(s) = IF idx(s) > BIN_MAX_IDX THEN BIN_MAX_IDX ELSE idx(s)
  BY Zenon DEF get_bin_index
<1>4. Log2[MinBinSize] \in Nat
  BY <1>1, Log2Nat, Zenon
<1>5. ASSUME NEW s \in Nat
      PROVE  up(s) < 2 * MinBinSize <=> Log2[up(s)] = Log2[MinBinSize]
  <2>1. up(s) \in Nat /\ MinBinSize <= up(s)
    BY <1>2, Zenon
  <2>. HIDE DEF up
  <2>2. CASE MinBinSize = 1
    BY <2>1, <2>2, Log2Small, Log2Nat, Log2Monotone
  <2>3. CASE MinBinSize = 2
    BY <2>1, <2>3, Log2Small, Log2Nat, Log2Monotone
  <2>4. CASE MinBinSize = 4
    BY <2>1, <2>4, Log2Small, Log2Nat, Log2Monotone
  <2>. QED
    BY <2>2, <2>3, <2>4, HeapAssumption, Zenon
<1>6. \A s \in Nat : up(s) < 2 * MinBinSize <=> s < 2 * MinBinSize
  BY <1>1, HeapAssumption
<1>. HIDE DEF up
<1>7. \A s \in Nat : Log2[up(s)] \in Nat /\ Log2[MinBinSize] <= Log2[up(s)]
  BY <1>1, <1>2, Log2Nat, Log2Monotone, Zenon
<1>8. \A s, t \in Nat : s <= t => Log2[up(s)] <= Log2[up(t)]
  BY <1>2, Log2Monotone, Zenon
<1>9. ASSUME NEW s \in Nat
      PROVE  get_bin_index(s) \in 0 .. BIN_MAX_IDX /\ (get_bin_index(s) = 0 <=> Log2[up(s)] = Log2[MinBinSize])
  BY <1>1, <1>3, <1>4, <1>7
<1>10. ASSUME NEW s \in Nat, NEW t \in Nat, s <= t PROVE get_bin_index(s) <= get_bin_index(t)
  <2>1. Log2[up(s)] <= Log2[up(t)]
    BY <1>8, <1>10, Zenon
  <2>. QED
    BY <1>1, <1>3, <1>4, <1>7, <2>1
<1>. QED
  <2>1. 0 \in 0 .. BIN_MAX_IDX
    BY <1>1
  <2>. QED
    BY <1>1, <1>5, <1>6, <1>9, <1>10, <2>1, Zenon

-----------------------------------------------------------------------------
\* The blocks.

\* What the invariant says of the blocks.
BlocksInv == Blocks!TypeOK /\ Blocks!Tiling /\ Blocks!HeldIntact /\ Blocks!Coalesced

\* What HeapAssumption says of the region of blocks.
LEMMA Constants ==
  /\ end \in Nat /\ overhead \in Nat \ {0} /\ overhead <= end
  /\ MIN_ALLOC_SZ \in Nat /\ MIN_WILDERNESS \in Nat
  /\ Requests \subseteq Nat
BY HeapAssumption DEF end, overhead

\* Addresses are numbers, and a block ends behind its header.
LEMMA AfterNat ==
  ASSUME Blocks!TypeOK, NEW h \in DOMAIN size
  PROVE  Blocks!After(h) \in Nat /\ Blocks!After(h) > h /\ h \in Nat /\ size[h] \in Nat
BY Constants DEF Blocks!TypeOK, Blocks!After

\* Two blocks do not end at the same place.
LEMMA BeforeUnique ==
  ASSUME Blocks!TypeOK, Blocks!Tiling, ~past, NEW g \in DOMAIN size, NEW h \in DOMAIN size,
         Blocks!After(g) = Blocks!After(h)
  PROVE  g = h
BY AfterNat DEF Blocks!Tiling

\* Initially one hole fills the region.
LEMMA BlocksInit == Blocks!Init => BlocksInv
<1>. SUFFICES ASSUME Blocks!Init PROVE BlocksInv
  BY Zenon
<1>1. DOMAIN size = {0} /\ size[0] = end - overhead /\ end - overhead \in Nat
  BY Constants DEF Blocks!Init
<1>2. Blocks!After(0) = end
  BY <1>1, Constants DEF Blocks!After
<1>3. Blocks!TypeOK
  BY <1>1 DEF Blocks!Init, Blocks!TypeOK
<1>4. Blocks!Tiling
  BY <1>1, <1>2, Constants DEF Blocks!Tiling
<1>5. Blocks!HeldIntact
  BY Zenon DEF Blocks!Init, Blocks!HeldIntact
<1>6. Blocks!Coalesced
  BY <1>1, <1>2, AfterNat, <1>3 DEF Blocks!Init, Blocks!Coalesced
<1>. QED
  BY <1>3, <1>4, <1>5, <1>6, Zenon DEF BlocksInv

\* Taking a hole whole, or cutting it in two.
LEMMA BlocksTake ==
  ASSUME Blocks!TypeOK, Blocks!Tiling, Blocks!Coalesced, UNCHANGED <<past, merged>>, ~past,
         NEW n \in Nat, NEW f \in DOMAIN size, Blocks!BestHole(f, n), size' = Blocks!Cut(f, n),
         Free' = (Free \ {f}) \cup (DOMAIN size' \ DOMAIN size)
  PROVE  /\ DOMAIN size' \subseteq Nat /\ size' \in [DOMAIN size' -> Nat] /\ Free' \subseteq DOMAIN size'
         /\ DOMAIN size \subseteq DOMAIN size' /\ \A h \in DOMAIN size \ {f} : size'[h] = size[h]
         /\ size'[f] >= n /\ f \notin Free' /\ Free' \cap DOMAIN size \subseteq Free
         /\ Blocks!Tiling' /\ Blocks!Coalesced'
<1>. USE Constants
<1>0. n \in Nat /\ ~past /\ past' = past /\ merged' = merged
  BY Zenon
<1>1. /\ Blocks!BestHole(f, n)
      /\ size' = Blocks!Cut(f, n)
      /\ Free' = (Free \ {f}) \cup (DOMAIN size' \ DOMAIN size)
  BY Zenon
<1>2. f \in Free /\ size[f] >= n /\ f \in Nat /\ size[f] \in Nat
  BY <1>1, AfterNat, Zenon DEF Blocks!BestHole
<1>3. CASE ~(size[f] - n > overhead + MIN_ALLOC_SZ)
  <2>1. size' = size /\ Free' = Free \ {f} /\ \A h \in DOMAIN size : Blocks!After(h)' = Blocks!After(h)
    BY <1>1, <1>3, Zenon DEF Blocks!Cut, Blocks!After
  <2>3. Blocks!Tiling'
    BY <1>0, <2>1, Zenon DEF Blocks!Tiling
  <2>5. Blocks!Coalesced'
    BY <1>0, <2>1 DEF Blocks!Coalesced, Blocks!TypeOK
  <2>. QED
    BY <1>2, <2>1, <2>3, <2>5, Zenon DEF Blocks!TypeOK
<1>4. CASE size[f] - n > overhead + MIN_ALLOC_SZ
  <2>. DEFINE s == f + n + overhead
  <2>1. size' = [h \in DOMAIN size \cup {s} |->
                   IF h = f THEN n ELSE IF h = s THEN size[f] - n - overhead
                   ELSE size[h]]
    BY <1>1, <1>4, Zenon DEF Blocks!Cut
  <2>2. s \in Nat /\ f < s /\ s < Blocks!After(f) /\ size[f] - n - overhead \in Nat
    BY <1>0, <1>2, <1>4 DEF Blocks!After
  <2>3. s \notin DOMAIN size
    BY <2>2, <1>0, AfterNat DEF Blocks!Tiling
  <2>. HIDE DEF s
  <2>4. /\ DOMAIN size' = DOMAIN size \cup {s} /\ size'[f] = n
        /\ size'[s] = size[f] - n - overhead
        /\ \A h \in DOMAIN size \ {f} : size'[h] = size[h]
    BY <2>1, <2>2, <2>3, Zenon
  <2>5. Free' = (Free \ {f}) \cup {s}
    BY <1>1, <2>3, <2>4, Zenon
  <2>6. /\ Blocks!After(f)' = s /\ Blocks!After(s)' = Blocks!After(f)
        /\ \A h \in DOMAIN size \ {f} : Blocks!After(h)' = Blocks!After(h)
    BY <1>0, <1>2, <2>2, <2>4 DEF Blocks!After, s
  <2>7. size' \in [DOMAIN size' -> Nat] /\ DOMAIN size' \subseteq Nat /\ Free' \subseteq DOMAIN size'
    BY <1>0, <2>1, <2>2, <2>4, <2>5 DEF Blocks!TypeOK
  <2>8. Blocks!Tiling'
    <3>1. 0 \in DOMAIN size'
      BY <1>0, <2>4, Zenon DEF Blocks!Tiling
    <3>2. ASSUME NEW h \in DOMAIN size'
          PROVE  Blocks!After(h)' \in DOMAIN size' \cup {end} /\ Blocks!After(h)' <= end
      BY <1>0, <2>2, <2>4, <2>6, AfterNat DEF Blocks!Tiling
    <3>3. ASSUME NEW g \in DOMAIN size', NEW h \in DOMAIN size', g < h
          PROVE  Blocks!After(g)' <= h
      <4>1. CASE g \in DOMAIN size \ {f} /\ h \in DOMAIN size
        BY <4>1, <3>3, <1>0, <2>6, Zenon DEF Blocks!Tiling
      <4>2. CASE g \in DOMAIN size \ {f} /\ h = s
        <5>1. g # f /\ g \in Nat /\ Blocks!After(g) \in Nat /\ g < s
          BY <4>2, <3>3, AfterNat, Zenon
        <5>2. ~(f < g)
          BY <5>1, <4>2, <1>0, <1>2, <2>2, AfterNat DEF Blocks!Tiling
        <5>3. g < f
          BY <5>1, <5>2, <1>2
        <5>. QED
          BY <5>1, <5>3, <4>2, <1>0, <1>2, <2>2, <2>6 DEF Blocks!Tiling
      <4>3. CASE g = f
        BY <4>3, <3>3, <1>0, <1>2, <2>2, <2>4, <2>6, AfterNat DEF Blocks!Tiling
      <4>4. CASE g = s
        <5>1. h \in DOMAIN size /\ h \in Nat /\ f < h
          BY <4>4, <3>3, <2>2, <2>4, <1>2, AfterNat
        <5>. QED
          BY <5>1, <4>4, <1>0, <2>6, Zenon DEF Blocks!Tiling
      <4>. QED
        BY <4>1, <4>2, <4>3, <4>4, <2>4, Zenon
    <3>. QED
      BY <3>1, <3>2, <3>3, Zenon DEF Blocks!Tiling
  <2>9. f \notin Free' /\ Free' \cap DOMAIN size \subseteq Free /\ size'[f] >= n
    BY <1>0, <2>2, <2>3, <2>4, <2>5
  <2>10. Blocks!Coalesced'
    <3>. SUFFICES ASSUME merged, NEW h \in Free' PROVE Blocks!After(h)' \notin Free'
      BY <1>0 DEF Blocks!Coalesced
    <3>1. \A x \in Free : Blocks!After(x) \notin Free
      BY <1>0, Zenon DEF Blocks!Coalesced
    <3>2. CASE h = s
      BY <3>2, <3>1, <1>2, <2>2, <2>5, <2>6, AfterNat
    <3>3. CASE h \in Free \ {f}
      <4>1. Blocks!After(h)' = Blocks!After(h) /\ Blocks!After(h) \notin Free
        BY <3>3, <3>1, <2>6, Zenon DEF Blocks!TypeOK
      <4>2. Blocks!After(h) # s
        BY <3>3, <1>0, <2>2, <2>3, AfterNat DEF Blocks!Tiling, Blocks!TypeOK
      <4>. QED
        BY <4>1, <4>2, <2>5, Zenon
    <3>. QED
      BY <3>2, <3>3, <2>5, Zenon
  <2>. QED
    BY <2>4, <2>7, <2>8, <2>9, <2>10, Zenon
<1>. QED
  BY <1>3, <1>4, Zenon

\* An allocation, served from whichever hole, keeps the invariant.
LEMMA BlocksAlloc ==
  ASSUME BlocksInv, NEW n \in Requests, Blocks!Alloc(n)
  PROVE  BlocksInv'
<1>1. PICK f \in DOMAIN size :
        /\ Blocks!BestHole(f, n)
        /\ size' = Blocks!Cut(f, n)
        /\ Free' = (Free \ {f}) \cup (DOMAIN size' \ DOMAIN size)
        /\ out' = IF size'[Blocks!Wilderness(size')] < MIN_WILDERNESS THEN out
                  ELSE [h \in DOMAIN out \cup {f} |-> IF h = f THEN n ELSE out[h]]
  BY Zenon DEF Blocks!Alloc
<1>2. n \in Nat /\ ~past /\ UNCHANGED <<past, merged>> /\ Blocks!TypeOK /\ Blocks!Tiling
      /\ Blocks!Coalesced /\ Blocks!HeldIntact
  BY Constants, Zenon DEF Blocks!Alloc, BlocksInv
<1>3. /\ DOMAIN size' \subseteq Nat /\ size' \in [DOMAIN size' -> Nat] /\ Free' \subseteq DOMAIN size'
      /\ DOMAIN size \subseteq DOMAIN size' /\ \A h \in DOMAIN size \ {f} : size'[h] = size[h]
      /\ size'[f] >= n /\ f \notin Free' /\ Free' \cap DOMAIN size \subseteq Free
      /\ Blocks!Tiling' /\ Blocks!Coalesced'
  BY <1>1, <1>2, BlocksTake, Zenon
<1>4. f \notin DOMAIN out
  BY <1>1, <1>2, Zenon DEF Blocks!BestHole, Blocks!HeldIntact
<1>5. /\ DOMAIN out' \subseteq DOMAIN out \cup {f} /\ out' \in [DOMAIN out' -> Nat]
      /\ \A h \in DOMAIN out' : (h = f => out'[h] = n) /\ (h # f => h \in DOMAIN out /\ out'[h] = out[h])
  <2>1. CASE out' = out
    BY <1>2, <1>4, <2>1, Zenon DEF Blocks!TypeOK
  <2>2. CASE out' = [h \in DOMAIN out \cup {f} |-> IF h = f THEN n ELSE out[h]]
    BY <1>2, <1>4, <2>2, Zenon DEF Blocks!TypeOK
  <2>. QED
    BY <1>1, <2>1, <2>2, Zenon
<1>6. Blocks!TypeOK'
  BY <1>2, <1>3, <1>5, Zenon DEF Blocks!TypeOK
<1>7. Blocks!HeldIntact'
  <2>. SUFFICES ASSUME NEW h \in DOMAIN out' PROVE h \notin Free' /\ size'[h] >= out'[h]
    BY Zenon DEF Blocks!HeldIntact
  <2>1. CASE h = f
    BY <1>3, <1>5, <2>1, Zenon
  <2>2. CASE h # f
    <3>1. h \in DOMAIN out /\ out'[h] = out[h] /\ h \in DOMAIN size
      BY <1>2, <1>5, <2>2, Zenon DEF Blocks!TypeOK
    <3>2. size'[h] = size[h] /\ h \notin Free /\ size[h] >= out[h]
      BY <1>2, <1>3, <2>2, <3>1, Zenon DEF Blocks!HeldIntact
    <3>. QED
      BY <1>3, <3>1, <3>2, Zenon
  <2>. QED
    BY <2>1, <2>2, Zenon
<1>. QED
  BY <1>3, <1>6, <1>7, Zenon DEF BlocksInv

\* Freeing the first block changes no block.
LEMMA BlocksFreeFirst == BlocksInv /\ Blocks!FreeFirst => BlocksInv'
<1>. SUFFICES ASSUME BlocksInv, Blocks!FreeFirst PROVE BlocksInv'
  BY Zenon
<1>. USE DEF BlocksInv
<1>1. /\ size' = size /\ Free' = Free \cup {0} /\ past' = past /\ merged' = FALSE
      /\ DOMAIN out' = DOMAIN out \ {0} /\ 0 \in DOMAIN out
      /\ out' = [h \in DOMAIN out \ {0} |-> out[h]]
  BY Zenon DEF Blocks!FreeFirst, Blocks!Release
<1>2. Blocks!TypeOK'
  BY <1>1, Zenon DEF Blocks!TypeOK
<1>4. Blocks!HeldIntact' /\ Blocks!Coalesced'
  BY <1>1, Zenon DEF Blocks!HeldIntact, Blocks!Coalesced
<1>3. Blocks!Tiling'
  BY <1>1, Zenon DEF Blocks!Tiling, Blocks!After
<1>. QED
  BY <1>2, <1>3, <1>4, Zenon

\* Merging a freed block with the holes beside it.
LEMMA BlocksFree ==
  ASSUME BlocksInv, NEW p \in DOMAIN out, Blocks!Free(p)
  PROVE  BlocksInv'
<1>. USE Constants DEF BlocksInv
<1>. DEFINE left  == Blocks!Before(p) \cap Free
            right == {Blocks!After(p)} \cap Free
            last  == IF right = {} THEN p ELSE Blocks!After(p)
            fake  == Blocks!After(p) = end /\ \E h \in Free \ left : size[h] < 2 * MinBinSize
<1>0. PICK first : first = IF left = {} THEN p ELSE CHOOSE h \in left : TRUE
  BY Zenon
<1>. DEFINE heads == (DOMAIN size \ (right \cup {p})) \cup {first}
            len   == Blocks!After(last) - first - (IF fake THEN 0 ELSE overhead)
<1>1. /\ size' = [h \in heads |-> IF h # first THEN size[h] ELSE len]
      /\ Free' = (Free \ right) \cup {first}
      /\ past' = fake /\ ~past /\ merged' = merged /\ p # 0
      /\ out' = [h \in DOMAIN out \ {p} |-> out[h]]
  BY <1>0, Zenon DEF Blocks!Free, Blocks!Release
<1>2. p \in DOMAIN size /\ p \notin Free /\ p \in Nat /\ size[p] \in Nat
      /\ Blocks!After(p) \in Nat /\ Blocks!After(p) > p
  BY AfterNat, Zenon DEF Blocks!TypeOK, Blocks!HeldIntact
<1>3. \/ left = {} /\ first = p
      \/ first \in Free /\ Blocks!After(first) = p /\ first \in left
  <2>1. left # {} => (CHOOSE h \in left : TRUE) \in left
    BY Zenon
  <2>. QED
    BY <1>0, <2>1, Zenon DEF Blocks!Before
<1>4. \/ right = {} /\ last = p /\ Blocks!After(p) \notin Free
      \/ right = {Blocks!After(p)} /\ last = Blocks!After(p) /\ Blocks!After(p) \in Free
  BY Zenon
<1>5. \A h \in DOMAIN size : h \in heads <=> h \notin right \cup {p} \/ h = first
  BY Zenon
<1>6. left = {} => \A h \in Free : Blocks!After(h) # p
  BY Zenon DEF Blocks!Before, Blocks!TypeOK
<1>7. fake \in BOOLEAN
  BY Zenon
<1>. HIDE DEF left, right, last, fake
<1>19. len = IF fake THEN Blocks!After(last) - first - 0 ELSE Blocks!After(last) - first - overhead
  BY Zenon
<1>. HIDE DEF len
<1>8. first \in DOMAIN size /\ last \in DOMAIN size /\ first <= p /\ p <= last
      /\ first \in Nat /\ last \in Nat /\ Blocks!After(last) \in Nat /\ Blocks!After(last) > last
      /\ Blocks!After(first) \in Nat
  BY <1>2, <1>3, <1>4, AfterNat DEF Blocks!TypeOK
<1>9. len \in Nat /\ (~fake => first + len + overhead = Blocks!After(last))
  <2>1. Blocks!After(last) - first >= overhead
    BY <1>8, AfterNat DEF Blocks!After, Blocks!TypeOK
  <2>. QED
    BY <2>1, <1>19, <1>8
<1>10. /\ heads \subseteq DOMAIN size /\ first \in heads /\ DOMAIN size' = heads
       /\ size'[first] = len /\ \A h \in heads \ {first} : size'[h] = size[h]
  <2>1. DOMAIN size' = heads /\ \A h \in heads : size'[h] = IF h # first THEN size[h] ELSE len
    BY <1>1, Zenon
  <2>2. heads \subseteq DOMAIN size /\ first \in heads
    BY <1>1, <1>8, Zenon
  <2>. QED
    BY <2>1, <2>2, Zenon
<1>11. \A h \in heads \ {first} : h \in DOMAIN size /\ h # p /\ h \notin right
  BY <1>10, <1>1, Zenon
<1>12. right \subseteq Free
  BY <1>4
<1>13. Blocks!TypeOK'
  <2>1. size' \in [DOMAIN size' -> Nat]
    BY <1>1, <1>9, <1>10, Zenon DEF Blocks!TypeOK
  <2>2. Free' \subseteq DOMAIN size'
    BY <1>1, <1>2, <1>10, Zenon DEF Blocks!TypeOK
  <2>3. DOMAIN out' \subseteq DOMAIN size' /\ out' \in [DOMAIN out' -> Nat]
    BY <1>1, <1>10, <1>12, Zenon DEF Blocks!TypeOK, Blocks!HeldIntact
  <2>. QED
    BY <2>1, <2>2, <2>3, <1>1, <1>7, <1>10, Zenon DEF Blocks!TypeOK
<1>14. Blocks!HeldIntact'
  <2>. SUFFICES ASSUME NEW h \in DOMAIN out' PROVE h \notin Free' /\ size'[h] >= out'[h]
    BY Zenon DEF Blocks!HeldIntact
  <2>1. h \in DOMAIN out /\ h # p /\ out'[h] = out[h] /\ h \notin Free /\ size[h] >= out[h]
    BY <1>1, Zenon DEF Blocks!HeldIntact
  <2>2. h # first /\ h \in heads
    BY <2>1, <1>1, <1>3, <1>12, Zenon DEF Blocks!TypeOK
  <2>. QED
    BY <2>1, <2>2, <1>1, <1>10, Zenon
<1>17. \A g, h \in DOMAIN size : Blocks!After(g) = Blocks!After(h) => g = h
  BY <1>1, BeforeUnique, Zenon
<1>18. \A x \in right : x = Blocks!After(p) /\ last = x
  BY <1>4
<1>15. CASE fake
  BY <1>1, <1>13, <1>14, <1>15, Zenon DEF Blocks!Tiling, Blocks!Coalesced
<1>16. CASE ~fake
  <2>1. /\ Blocks!After(first)' = Blocks!After(last)
        /\ \A h \in heads \ {first} : Blocks!After(h)' = Blocks!After(h)
    BY <1>8, <1>9, <1>10, <1>16, Zenon DEF Blocks!After
  <2>2. \A h \in heads \ {first} : Blocks!After(h) # p \/ p \in heads
    BY <1>3, <1>8, <1>10, <1>11, <1>17, Zenon
  <2>3. \A h \in heads \ {first} : Blocks!After(h) \notin right
    BY <1>2, <1>11, <1>17, <1>18, Zenon
  <2>4. Blocks!Tiling'
    <3>1. 0 \in DOMAIN size'
      BY <1>1, <1>2, <1>4, <1>10 DEF Blocks!Tiling
    <3>2. ASSUME NEW h \in DOMAIN size'
          PROVE  Blocks!After(h)' \in DOMAIN size' \cup {end} /\ Blocks!After(h)' <= end
      <4>1. CASE h = first
        <5>1. Blocks!After(last) \in DOMAIN size \cup {end} /\ Blocks!After(last) <= end
          BY <1>1, <1>8, Zenon DEF Blocks!Tiling
        <5>2. Blocks!After(last) # p /\ Blocks!After(last) \notin right
          BY <1>2, <1>8, <1>18
        <5>. QED
          BY <4>1, <5>1, <5>2, <2>1, <1>10, <1>1, Zenon
      <4>2. CASE h # first
        <5>1. Blocks!After(h) \in DOMAIN size \cup {end} /\ Blocks!After(h) <= end
          BY <1>1, <1>10, Zenon DEF Blocks!Tiling
        <5>. QED
          BY <4>2, <5>1, <2>1, <2>2, <2>3, <1>10, <1>1
      <4>. QED
        BY <4>1, <4>2, Zenon
    <3>3. ASSUME NEW g \in DOMAIN size', NEW h \in DOMAIN size', g < h
          PROVE  Blocks!After(g)' <= h
      <4>0. g \in DOMAIN size /\ h \in DOMAIN size /\ h \in Nat
            /\ \A x, y \in DOMAIN size : x < y => Blocks!After(x) <= y
        BY <1>1, <1>10, AfterNat, Zenon DEF Blocks!Tiling
      <4>1. CASE g = first
        <5>1. h # p /\ h \notin right /\ h > first
          BY <4>1, <3>3, <1>8, <1>10, <1>11
        <5>2. h > p
          BY <5>1, <4>0, <1>2, <1>3, <1>8
        <5>3. h >= Blocks!After(p)
          BY <5>2, <4>0, <1>2, Zenon
        <5>4. h > last
          BY <5>1, <5>2, <5>3, <4>0, <1>2, <1>4, <1>18
        <5>. QED
          BY <4>1, <5>4, <4>0, <1>8, <2>1, Zenon
      <4>2. CASE g # first
        BY <4>2, <3>3, <4>0, <1>10, <2>1, Zenon
      <4>. QED
        BY <4>1, <4>2, Zenon
    <3>. QED
      BY <3>1, <3>2, <3>3, Zenon DEF Blocks!Tiling
  <2>5. Blocks!Coalesced'
    <3>. SUFFICES ASSUME merged, NEW h \in Free' PROVE Blocks!After(h)' \notin Free'
      BY <1>1, Zenon DEF Blocks!Coalesced
    <3>1. \A x \in Free : Blocks!After(x) \notin Free
      BY <1>1, Zenon DEF Blocks!Coalesced
    <3>2. CASE h = first
      <4>1. Blocks!After(last) \notin Free /\ Blocks!After(last) # first
        <5>1. Blocks!After(last) \notin Free
          BY <3>1, <1>4, Zenon
        <5>. QED
          BY <5>1, <1>2, <1>8
      <4>. QED
        BY <3>2, <4>1, <2>1, <1>1, Zenon
    <3>3. CASE h # first
      <4>1. h \in Free /\ h \in heads /\ Blocks!After(h) \notin Free
        BY <3>1, <3>3, <1>1, <1>2, Zenon DEF Blocks!TypeOK
      <4>2. Blocks!After(h) # first
        BY <4>1, <3>1, <1>3, <1>6, Zenon
      <4>. QED
        BY <3>3, <4>1, <4>2, <2>1, <1>1, Zenon
    <3>. QED
      BY <3>2, <3>3, Zenon
  <2>. QED
    BY <1>13, <1>14, <2>4, <2>5, Zenon
<1>. QED
  BY <1>15, <1>16, Zenon

\* Every call keeps the invariant.
LEMMA BlocksNext == BlocksInv /\ [Blocks!Next]_(Blocks!vars) => BlocksInv'
<1>. SUFFICES ASSUME BlocksInv, [Blocks!Next]_(Blocks!vars) PROVE BlocksInv'
  BY Zenon
<1>1. CASE UNCHANGED Blocks!vars
  BY <1>1, Zenon DEF Blocks!vars, BlocksInv, Blocks!TypeOK, Blocks!Tiling, Blocks!HeldIntact, Blocks!Coalesced, Blocks!After
<1>2. ASSUME NEW n \in Requests, Blocks!Alloc(n) PROVE BlocksInv'
  BY <1>2, BlocksAlloc, Zenon
<1>3. ASSUME NEW p \in DOMAIN out, Blocks!Free(p) PROVE BlocksInv'
  BY <1>3, BlocksFree, Zenon
<1>. QED
  BY <1>1, <1>2, <1>3, BlocksFreeFirst, Zenon DEF Blocks!Next, Blocks!AllocNothing, Blocks!Beyond

-----------------------------------------------------------------------------
\* The boundary tags.

\* Where the block at h ends, and what Tiling says, of any sizes.
Behind(sz, h) == h + sz[h] + overhead

Tiled(sz) ==
  /\ DOMAIN sz \subseteq Nat /\ sz \in [DOMAIN sz -> Nat] /\ 0 \in DOMAIN sz
  /\ \A h \in DOMAIN sz : Behind(sz, h) \in DOMAIN sz \cup {end} /\ Behind(sz, h) <= end
  /\ \A g, h \in DOMAIN sz : g < h => Behind(sz, g) <= h

\* Tiling of BlockHeap as a statement about the sizes alone, before a step.
LEMMA TiledNow ==
  ASSUME DOMAIN size \subseteq Nat, size \in [DOMAIN size -> Nat], Blocks!Tiling, ~past
  PROVE  Tiled(size)
BY Zenon DEF Tiled, Behind, Blocks!Tiling, Blocks!After

\* And after it.
LEMMA TiledThen ==
  ASSUME DOMAIN size' \subseteq Nat, size' \in [DOMAIN size' -> Nat], Blocks!Tiling', ~past'
  PROVE  Tiled(size')
BY Zenon DEF Tiled, Behind, Blocks!Tiling, Blocks!After

\* A block lies inside the region.
LEMMA TiledNat ==
  ASSUME NEW sz, Tiled(sz), NEW h \in DOMAIN sz
  PROVE  /\ h \in Nat /\ sz[h] \in Nat /\ Behind(sz, h) \in Nat
         /\ h < Behind(sz, h) /\ Behind(sz, h) <= end /\ h \in 0 .. (end - 1)
<1>1. h \in Nat /\ sz[h] \in Nat /\ Behind(sz, h) <= end
  BY Zenon DEF Tiled
<1>. QED
  BY <1>1, Constants DEF Behind

\* Two blocks do not end at the same place.
LEMMA TiledApart ==
  ASSUME NEW sz, Tiled(sz), NEW g \in DOMAIN sz, NEW h \in DOMAIN sz, Behind(sz, g) = Behind(sz, h)
  PROVE  g = h
<1>1. g \in Nat /\ h \in Nat /\ Behind(sz, h) \in Nat /\ g < Behind(sz, g) /\ h < Behind(sz, h)
  BY TiledNat, Zenon
<1>2. (g < h => Behind(sz, g) <= h) /\ (h < g => Behind(sz, h) <= g)
  BY Zenon DEF Tiled
<1>. QED
  BY <1>1, <1>2

\* A block ends where a block begins, unless that is the first, and one at the end
\* of the region.
LEMMA TiledEnds ==
  ASSUME NEW sz, Tiled(sz), NEW p, p \in (DOMAIN sz \ {0}) \cup {end}
  PROVE  \E w \in DOMAIN sz : Behind(sz, w) = p
<1>. DEFINE T == {h \in DOMAIN sz : h < p}
<1>1. p \in Nat /\ 0 < p /\ p <= end
  <2>1. CASE p = end
    BY <2>1, Constants
  <2>2. CASE p \in DOMAIN sz \ {0}
    BY <2>2, TiledNat, Constants
  <2>. QED
    BY <2>1, <2>2, Zenon
<1>2. T \subseteq 0 .. p /\ T # {}
  <2>1. 0 \in T
    BY <1>1, Zenon DEF Tiled
  <2>2. \A h \in T : h \in Nat /\ h < p
    BY Zenon DEF Tiled
  <2>. QED
    BY <1>1, <2>1, <2>2
<1>3. PICK w \in T : \A y \in T : y <= w
  BY <1>1, <1>2, Greatest, Zenon
<1>4. w \in DOMAIN sz /\ w < p
  BY Zenon
<1>5. w \in Nat /\ Behind(sz, w) \in Nat /\ w < Behind(sz, w) /\ Behind(sz, w) <= end
  BY <1>4, TiledNat, Zenon
<1>6. Behind(sz, w) <= p
  <2>1. p # end => p \in DOMAIN sz
    BY Zenon
  <2>. QED
    BY <1>4, <1>5, <2>1, Zenon DEF Tiled
<1>7. Behind(sz, w) # p => Behind(sz, w) \notin DOMAIN sz
  <2>. SUFFICES ASSUME Behind(sz, w) # p, Behind(sz, w) \in DOMAIN sz PROVE FALSE
    BY Zenon
  <2>1. Behind(sz, w) < p
    BY <1>1, <1>5, <1>6
  <2>2. Behind(sz, w) <= w
    BY <1>3, <2>1, Zenon
  <2>. QED
    BY <1>5, <2>2
<1>8. Behind(sz, w) \in DOMAIN sz \cup {end}
  BY <1>4, Zenon DEF Tiled
<1>9. Behind(sz, w) = end => Behind(sz, w) = p
  BY <1>1, <1>5, <1>6, Constants
<1>. QED
  BY <1>4, <1>7, <1>8, <1>9, Zenon

\* The footer of a block lies inside the region.
LEMMA FootAt ==
  ASSUME NEW sz, Tiled(sz), NEW h \in DOMAIN sz
  PROVE  /\ get_foot(h, sz[h]) = Behind(sz, h) - FootSize
         /\ get_foot(h, sz[h]) \in 0 .. (end + NodeSize)
<1>1. h \in Nat /\ sz[h] \in Nat /\ Behind(sz, h) <= end
  BY TiledNat, Zenon
<1>2. NodeSize \in Nat /\ FootSize \in Nat
  BY HeapAssumption, Zenon
<1>. QED
  BY <1>1, <1>2, Constants DEF Behind, get_foot, overhead

\* The footers of two blocks are apart.
LEMMA FootApart ==
  ASSUME NEW sz, Tiled(sz), NEW g \in DOMAIN sz, NEW h \in DOMAIN sz, g # h
  PROVE  get_foot(g, sz[g]) # get_foot(h, sz[h])
<1>1. Behind(sz, g) # Behind(sz, h)
  BY TiledApart, Zenon
<1>2. Behind(sz, g) \in Nat /\ Behind(sz, h) \in Nat /\ FootSize \in Nat
  BY TiledNat, HeapAssumption, Zenon
<1>3. get_foot(g, sz[g]) = Behind(sz, g) - FootSize /\ get_foot(h, sz[h]) = Behind(sz, h) - FootSize
  BY FootAt, Zenon
<1>. QED
  BY <1>1, <1>2, <1>3

\* Every block's footer leads back to its header.
Footed(ft, sz) == \A h \in DOMAIN sz : ft[get_foot(h, sz[h])] = h

FootType == [0 .. (end + NodeSize) -> Nat \cup {NULL}]

\* The footer below an address belongs to the block that ends there.
LEMMA FootLeads ==
  ASSUME NEW ft, NEW sz, Tiled(sz), Footed(ft, sz), NEW p, p \in (DOMAIN sz \ {0}) \cup {end}
  PROVE  ft[p - FootSize] \in DOMAIN sz /\ Behind(sz, ft[p - FootSize]) = p
<1>1. PICK w \in DOMAIN sz : Behind(sz, w) = p
  BY TiledEnds, Zenon
<1>2. get_foot(w, sz[w]) = p - FootSize
  BY <1>1, FootAt, Zenon
<1>. QED
  BY <1>1, <1>2, Zenon DEF Footed

\* get_wilderness finds the last block.
LEMMA Wild ==
  ASSUME NEW ft, NEW sz, Tiled(sz), Footed(ft, sz)
  PROVE  get_wilderness(ft) = Blocks!Wilderness(sz)
<1>1. ft[end - FootSize] \in DOMAIN sz /\ Behind(sz, ft[end - FootSize]) = end
  BY FootLeads, Zenon
<1>2. \A h \in DOMAIN sz : Behind(sz, h) = end => h = ft[end - FootSize]
  BY <1>1, TiledApart, Zenon
<1>. QED
  BY <1>1, <1>2, Zenon DEF get_wilderness, Blocks!Wilderness, Behind

-----------------------------------------------------------------------------
\* The bins.

\* The lists hold the blocks of S, each in the bin of its size.
Binned(bs, S, sz) ==
  /\ bs \in [0 .. BIN_MAX_IDX -> Seq(Nat)]
  /\ \A i \in 0 .. BIN_MAX_IDX : BinOK(bs[i], {h \in S : get_bin_index(sz[h]) = i}, sz)

\* The inductive invariant.
HeapInv ==
  /\ BlocksInv
  /\ Heads \subseteq 0 .. (end - 1)
  /\ DOMAIN hole = Heads /\ \A h \in Heads : hole[h] \in {0, 1}
  /\ foot \in FootType
  /\ bins \in [0 .. BIN_MAX_IDX -> Seq(Heads)]
  /\ ~past => Footed(foot, size) /\ Binned(bins, Free, size)

\* Only the sizes of the holes matter to the bins.
LEMMA BinnedAgree ==
  ASSUME NEW bs, NEW S, NEW sz, NEW other, Binned(bs, S, sz), \A x \in S : other[x] = sz[x]
  PROVE  Binned(bs, S, other)
<1>. SUFFICES ASSUME NEW i \in 0 .. BIN_MAX_IDX
              PROVE  BinOK(bs[i], {h \in S : get_bin_index(other[h]) = i}, other)
  BY Zenon DEF Binned
<1>. DEFINE here == {h \in S : get_bin_index(sz[h]) = i}
<1>1. here = {h \in S : get_bin_index(other[h]) = i}
  BY Zenon
<1>2. BinOK(bs[i], here, sz) /\ \A x \in here : other[x] = sz[x]
  BY Zenon DEF Binned
<1>3. BinOK(bs[i], here, other)
  <2>. HIDE DEF here
  <2>. QED
    BY <1>2, AgreeOK, Zenon
<1>. QED
  BY <1>1, <1>3, Zenon

\* A block is put into the bin of its size.
LEMMA BinnedAdd ==
  ASSUME NEW bs, NEW S, NEW sz, Binned(bs, S, sz), \A x \in S : sz[x] \in Nat,
         NEW node \in Nat, node \notin S, sz[node] \in Nat
  PROVE  Binned(AddTo(bs, node, sz), S \cup {node}, sz)
<1>. DEFINE k == get_bin_index(sz[node])
            In(T, i) == {h \in T : get_bin_index(sz[h]) = i}
<1>1. k \in 0 .. BIN_MAX_IDX /\ DOMAIN bs = 0 .. BIN_MAX_IDX
  BY BinIndex, Zenon DEF Binned
<1>2. \A i \in 0 .. BIN_MAX_IDX : BinOK(bs[i], In(S, i), sz) /\ bs[i] \in Seq(Nat)
  BY Zenon DEF Binned
<1>3. In(S \cup {node}, k) = In(S, k) \cup {node} /\ \A i : i # k => In(S \cup {node}, i) = In(S, i)
  BY Zenon
<1>4. \A i \in 0 .. BIN_MAX_IDX : node \notin In(S, i) /\ \A x \in In(S, i) : sz[x] \in Nat
  BY Zenon
<1>. HIDE DEF In
<1>5. BinOK(Insert(bs[k], node, sz), In(S, k) \cup {node}, sz)
  BY <1>1, <1>2, <1>4, InsertOK, Zenon
<1>6. Insert(bs[k], node, sz) \in Seq(Nat)
  BY <1>5, Zenon DEF BinOK
<1>. HIDE DEF k
<1>7. AddTo(bs, node, sz) = [bs EXCEPT ![k] = Insert(bs[k], node, sz)]
  BY Zenon DEF AddTo, k
<1>8. AddTo(bs, node, sz) \in [0 .. BIN_MAX_IDX -> Seq(Nat)]
  BY <1>1, <1>6, <1>7, Zenon DEF Binned
<1>9. \A i \in 0 .. BIN_MAX_IDX : AddTo(bs, node, sz)[i] = IF i = k THEN Insert(bs[k], node, sz) ELSE bs[i]
  BY <1>1, <1>7, Zenon
<1>10. ASSUME NEW i \in 0 .. BIN_MAX_IDX PROVE BinOK(AddTo(bs, node, sz)[i], In(S \cup {node}, i), sz)
  BY <1>2, <1>3, <1>5, <1>9, Zenon
<1>. QED
  BY <1>8, <1>10, Zenon DEF Binned, In

\* A block is taken out of the bin of its size.
LEMMA BinnedRemove ==
  ASSUME NEW bs, NEW S, NEW sz, Binned(bs, S, sz), NEW node \in S, sz[node] \in Nat
  PROVE  LET k == get_bin_index(sz[node])
         IN Binned([bs EXCEPT ![k] = Delete(bs[k], node)], S \ {node}, sz)
<1>. DEFINE k == get_bin_index(sz[node])
            In(T, i) == {h \in T : get_bin_index(sz[h]) = i}
            new == [bs EXCEPT ![k] = Delete(bs[k], node)]
<1>1. k \in 0 .. BIN_MAX_IDX /\ DOMAIN bs = 0 .. BIN_MAX_IDX
  BY BinIndex, Zenon DEF Binned
<1>2. \A i \in 0 .. BIN_MAX_IDX : BinOK(bs[i], In(S, i), sz) /\ bs[i] \in Seq(Nat)
  BY Zenon DEF Binned
<1>3. In(S \ {node}, k) = In(S, k) \ {node} /\ \A i : i # k => In(S \ {node}, i) = In(S, i)
  BY Zenon
<1>. HIDE DEF In
<1>5. BinOK(Delete(bs[k], node), In(S, k) \ {node}, sz)
  BY <1>1, <1>2, DeleteOK, Zenon
<1>6. Delete(bs[k], node) \in Seq(Nat)
  BY <1>5, Zenon DEF BinOK
<1>. HIDE DEF k
<1>8. new \in [0 .. BIN_MAX_IDX -> Seq(Nat)]
  BY <1>1, <1>6, Zenon DEF Binned
<1>9. \A i \in 0 .. BIN_MAX_IDX : new[i] = IF i = k THEN Delete(bs[k], node) ELSE bs[i]
  BY <1>1, Zenon
<1>. HIDE DEF new
<1>10. ASSUME NEW i \in 0 .. BIN_MAX_IDX PROVE BinOK(new[i], In(S \ {node}, i), sz)
  BY <1>2, <1>3, <1>5, <1>9, Zenon
<1>11. Binned(new, S \ {node}, sz)
  BY <1>8, <1>10, Zenon DEF Binned, In
<1>. QED
  BY <1>11, Zenon DEF new, k

\* Bin 0 is emptied.
LEMMA BinnedClear ==
  ASSUME NEW bs, NEW S, NEW sz, Binned(bs, S, sz)
  PROVE  Binned([bs EXCEPT ![0] = <<>>], {h \in S : get_bin_index(sz[h]) # 0}, sz)
<1>. DEFINE new == [bs EXCEPT ![0] = <<>>]
            T == {h \in S : get_bin_index(sz[h]) # 0}
            In(U, i) == {h \in U : get_bin_index(sz[h]) = i}
<1>1. 0 \in 0 .. BIN_MAX_IDX /\ DOMAIN bs = 0 .. BIN_MAX_IDX /\ <<>> \in Seq(Nat)
  BY BinIndex DEF Binned
<1>2. new \in [0 .. BIN_MAX_IDX -> Seq(Nat)]
  BY <1>1, Zenon DEF Binned
<1>3. \A i \in 0 .. BIN_MAX_IDX : new[i] = IF i = 0 THEN <<>> ELSE bs[i]
  BY <1>1, Zenon
<1>4. In(T, 0) = {} /\ \A i : i # 0 => In(T, i) = In(S, i)
  BY Zenon
<1>5. BinOK(<<>>, {}, sz)
  BY DEF BinOK
<1>6. \A i \in 0 .. BIN_MAX_IDX : BinOK(bs[i], In(S, i), sz)
  BY Zenon DEF Binned
<1>. HIDE DEF new, In, T
<1>7. ASSUME NEW i \in 0 .. BIN_MAX_IDX PROVE BinOK(new[i], In(T, i), sz)
  BY <1>3, <1>4, <1>5, <1>6, Zenon
<1>8. Binned(new, T, sz)
  BY <1>2, <1>7, Zenon DEF Binned, In
<1>. QED
  BY <1>8, Zenon DEF new, T

\* The lists hold blocks.
LEMMA BinnedHeads ==
  ASSUME NEW bs, NEW S, NEW sz, Binned(bs, S, sz), NEW H, S \subseteq H
  PROVE  bs \in [0 .. BIN_MAX_IDX -> Seq(H)]
<1>1. ASSUME NEW i \in 0 .. BIN_MAX_IDX PROVE bs[i] \in Seq(H)
  <2>1. bs[i] \in Seq(Nat) /\ \A j \in 1 .. Len(bs[i]) : bs[i][j] \in H
    BY Zenon DEF Binned, BinOK
  <2>. QED
    BY <2>1
<1>. QED
  BY <1>1, Zenon DEF Binned

-----------------------------------------------------------------------------
\* Writing tags.

\* g is f with y at x; new is ft with v at a.
PutIn(g, f, x, y) ==
  DOMAIN g = DOMAIN f \cup {x} /\ g[x] = y /\ \A z \in DOMAIN f : z # x => g[z] = f[z]

\* Put changes one value.
LEMMA PutFacts == ASSUME NEW f, NEW x, NEW y PROVE PutIn(Put(f, x, y), f, x, y)
BY Zenon DEF Put, PutIn

\* new is ft with v written at a.
Written(new, ft, a, v) ==
  /\ new \in FootType /\ new[a] = v
  /\ \A b \in 0 .. (end + NodeSize) : b # a => new[b] = ft[b]

\* Writing a footer changes one footer.
LEMMA FootWritten ==
  ASSUME NEW ft \in FootType, NEW a \in 0 .. (end + NodeSize), NEW v \in Nat \cup {NULL}
  PROVE  Written([ft EXCEPT ![a] = v], ft, a, v)
BY Zenon DEF FootType, Written

\* Initially the hole is in its bin.
LEMMA HeapStarts == Init => Blocks!Init /\ HeapInv
<1>. SUFFICES ASSUME Init PROVE Blocks!Init /\ HeapInv
  BY Zenon
<1>. DEFINE sz == HEAP_INIT_SIZE - NodeSize - FootSize
            none == [a \in 0 .. (end + NodeSize) |-> NULL]
<1>1. sz = end - overhead /\ sz \in Nat /\ start = 0 /\ 0 \in 0 .. (end - 1)
  BY HeapAssumption DEF end, overhead, start
<1>2. /\ size = [h \in {0} |-> sz] /\ hole = [h \in {0} |-> 1]
      /\ foot = create_foot(none, 0, sz)
      /\ bins = [i \in 0 .. BIN_MAX_IDX |-> IF i = get_bin_index(sz) THEN <<0>> ELSE <<>>]
      /\ out = [h \in {} |-> 0] /\ past = FALSE /\ merged = TRUE
  BY <1>1, Zenon DEF Init
<1>. HIDE DEF sz
<1>3. Heads = {0} /\ size[0] = sz /\ hole[0] = 1 /\ DOMAIN hole = {0} /\ Free = {0}
  BY <1>2, Zenon DEF Heads, Free
<1>4. Blocks!Init
  BY <1>1, <1>2, <1>3, Zenon DEF Blocks!Init
<1>5. BlocksInv
  BY <1>4, BlocksInit, Zenon
<1>6. Tiled(size) /\ 0 \in DOMAIN size
  BY <1>2, <1>3, <1>5, TiledNow, Zenon DEF BlocksInv, Blocks!TypeOK, Heads
<1>7. get_foot(0, sz) \in 0 .. (end + NodeSize)
  BY <1>3, <1>6, FootAt, Zenon
<1>8. none \in FootType
  BY Zenon DEF FootType
<1>. HIDE DEF none
<1>9. foot \in FootType /\ foot[get_foot(0, sz)] = 0
  <2>1. foot = [none EXCEPT ![get_foot(0, sz)] = 0] /\ 0 \in Nat \cup {NULL}
    BY <1>2, Zenon DEF create_foot
  <2>. QED
    <3>1. Written(foot, none, get_foot(0, sz), 0)
      BY <1>7, <1>8, <2>1, FootWritten, Zenon
    <3>. QED
      BY <3>1, Zenon DEF Written
<1>10. Footed(foot, size)
  BY <1>3, <1>9, Zenon DEF Footed, Heads
<1>11. Binned(bins, Free, size)
  <2>1. <<0>> \in Seq(Nat) /\ <<>> \in Seq(Nat)
    OBVIOUS
  <2>2. bins \in [0 .. BIN_MAX_IDX -> Seq(Nat)]
    BY <1>2, <2>1, Zenon
  <2>3. ASSUME NEW i \in 0 .. BIN_MAX_IDX
        PROVE  BinOK(bins[i], {h \in Free : get_bin_index(size[h]) = i}, size)
    <3>1. CASE i = get_bin_index(sz)
      <4>1. bins[i] = <<0>> /\ {h \in Free : get_bin_index(size[h]) = i} = {0}
        BY <1>2, <1>3, <3>1, Zenon
      <4>2. BinOK(<<0>>, {0}, size)
        BY DEF BinOK
      <4>. QED
        BY <4>1, <4>2, Zenon
    <3>2. CASE i # get_bin_index(sz)
      <4>1. bins[i] = <<>> /\ {h \in Free : get_bin_index(size[h]) = i} = {}
        BY <1>2, <1>3, <3>2, Zenon
      <4>2. BinOK(<<>>, {}, size)
        BY DEF BinOK
      <4>. QED
        BY <4>1, <4>2, Zenon
    <3>. QED
      BY <3>1, <3>2, Zenon
  <2>. QED
    BY <2>2, <2>3, Zenon DEF Binned
<1>12. bins \in [0 .. BIN_MAX_IDX -> Seq(Heads)]
  BY <1>3, <1>11, BinnedHeads, Zenon
<1>13. Heads \subseteq 0 .. (end - 1) /\ DOMAIN hole = Heads /\ \A h \in Heads : hole[h] \in {0, 1}
  BY <1>1, <1>3, Zenon
<1>. QED
  BY <1>2, <1>4, <1>5, <1>9, <1>10, <1>11, <1>12, <1>13, Zenon DEF HeapInv

-----------------------------------------------------------------------------
\* heap_alloc.

\* What the invariant says of a heap whose blocks are inside the region.
LEMMA HeapFacts ==
  ASSUME HeapInv, ~past
  PROVE  /\ Tiled(size) /\ Footed(foot, size) /\ Binned(bins, Free, size) /\ foot \in FootType
         /\ Free \subseteq DOMAIN size /\ DOMAIN hole = DOMAIN size
         /\ \A h \in DOMAIN size : hole[h] \in {0, 1} /\ (h \in Free <=> hole[h] = 1)
         /\ \A h \in Free : size[h] \in Nat /\ h \in Nat
         /\ Blocks!TypeOK /\ Blocks!Tiling /\ Blocks!HeldIntact /\ Blocks!Coalesced
<1>1. BlocksInv /\ Footed(foot, size) /\ Binned(bins, Free, size) /\ foot \in FootType
      /\ DOMAIN hole = DOMAIN size /\ \A h \in DOMAIN size : hole[h] \in {0, 1}
  BY Zenon DEF HeapInv, Heads
<1>2. Tiled(size)
  BY <1>1, TiledNow, Zenon DEF BlocksInv, Blocks!TypeOK
<1>3. Free \subseteq DOMAIN size /\ \A h \in DOMAIN size : h \in Free <=> hole[h] = 1
  BY Zenon DEF Free, Heads
<1>4. \A h \in Free : size[h] \in Nat /\ h \in Nat
  BY <1>2, <1>3, TiledNat, Zenon
<1>. QED
  BY <1>1, <1>2, <1>3, <1>4, Zenon DEF BlocksInv

\* The first bin that can serve a request holds the smallest hole that is large
\* enough: sizes in higher bins are larger.
LEMMA ServesBest ==
  ASSUME HeapInv, ~past, NEW n \in Nat, NEW index, index = Min(Serving(n)), Serving(n) # {},
         NEW found, found = BestFit(bins[index], n, size)
  PROVE  /\ Blocks!BestHole(found, n) /\ found \in Free
         /\ index = get_bin_index(size[found]) /\ index \in 0 .. BIN_MAX_IDX
<1>. DEFINE In(i) == {h \in Free : get_bin_index(size[h]) = i}
<1>1. \A h \in Free : size[h] \in Nat
  BY HeapFacts, Zenon
<1>2. \A i \in 0 .. BIN_MAX_IDX : BinOK(bins[i], In(i), size) /\ \A x \in In(i) : size[x] \in Nat
  BY <1>1, HeapFacts, Zenon DEF Binned
<1>3. get_bin_index(n) \in 0 .. BIN_MAX_IDX /\ BIN_MAX_IDX \in Nat
  BY BinIndex, Zenon
<1>4. \A i \in Serving(n) : i \in Nat /\ i \in 0 .. BIN_MAX_IDX /\ Fits(bins[i], n, size)
  BY <1>3 DEF Serving
<1>5. index \in Serving(n) /\ \A i \in Serving(n) : index <= i
  BY <1>4, MinOf, Zenon
<1>6. index \in Nat /\ index \in 0 .. BIN_MAX_IDX /\ Fits(bins[index], n, size)
  BY <1>4, <1>5, Zenon
<1>. HIDE DEF In
<1>7. /\ found \in In(index) /\ size[found] >= n
      /\ \A x \in In(index) : size[x] >= n => size[found] <= size[x]
  BY <1>2, <1>6, BestFitOK, Zenon
<1>8. found \in Free /\ get_bin_index(size[found]) = index /\ size[found] \in Nat
  BY <1>1, <1>7, Zenon DEF In
<1>9. ASSUME NEW g \in Free, size[g] >= n PROVE size[found] <= size[g]
  <2>. DEFINE j == get_bin_index(size[g])
  <2>1. size[g] \in Nat /\ j \in 0 .. BIN_MAX_IDX
    BY <1>1, BinIndex, Zenon
  <2>2. n <= size[g]
    BY <1>9, <2>1, Zenon
  <2>3. get_bin_index(n) <= j
    BY <2>1, <2>2, BinIndex, Zenon
  <2>4. g \in In(j)
    BY Zenon DEF In
  <2>5. Fits(bins[j], n, size)
    <3>. HIDE DEF j
    <3>. QED
      BY <1>2, <1>9, <2>1, <2>4, BestFitOK, Zenon
  <2>6. j \in Serving(n)
    <3>. HIDE DEF j
    <3>1. j \in get_bin_index(n) .. BIN_MAX_IDX
      BY <1>3, <2>1, <2>3
    <3>. QED
      BY <2>5, <3>1, Zenon DEF Serving
  <2>7. index <= j
    BY <1>5, <2>6, Zenon
  <2>8. CASE j = index
    BY <1>7, <1>9, <2>4, <2>8, Zenon
  <2>9. CASE j # index
    <3>1. ~ (size[g] <= size[found])
      <4>1. ~ (j <= index)
        <5>. HIDE DEF j
        <5>. QED
          BY <1>6, <2>1, <2>7, <2>9
      <4>. QED
        BY <1>8, <2>1, <4>1, BinIndex, Zenon
    <3>. QED
      BY <1>8, <2>1, <3>1
  <2>. QED
    BY <2>8, <2>9, Zenon
<1>. QED
  BY <1>6, <1>7, <1>8, <1>9, Zenon DEF Blocks!BestHole

\* What taking a hole does to the tags and the bins.
Taken(found, n) ==
  /\ size' = Blocks!Cut(found, n)
  /\ Free' = (Free \ {found}) \cup (DOMAIN size' \ DOMAIN size)
  /\ DOMAIN hole' = DOMAIN size' /\ \A h \in DOMAIN size' : hole'[h] \in {0, 1}
  /\ foot' \in FootType /\ Tiled(size') /\ Footed(foot', size')
  /\ Binned(bins', Free', size')

\* The hole is taken whole.
LEMMA TakeWhole ==
  ASSUME HeapInv, ~past, UNCHANGED <<past, merged>>, NEW n \in Nat, NEW found \in Free,
         NEW index, index = get_bin_index(size[found]), Take(index, found, n),
         ~ (size[found] - n > overhead + MIN_ALLOC_SZ)
  PROVE  Taken(found, n)
<1>1. /\ hole' = [hole EXCEPT ![found] = 0] /\ bins' = [bins EXCEPT ![index] = Delete(bins[index], found)]
      /\ size' = size /\ foot' = foot
  BY Zenon DEF Take
<1>2. /\ DOMAIN hole = DOMAIN size /\ found \in DOMAIN size /\ size[found] \in Nat
      /\ \A h \in DOMAIN size : hole[h] \in {0, 1} /\ (h \in Free <=> hole[h] = 1)
  BY HeapFacts, Zenon
<1>3. /\ DOMAIN hole' = DOMAIN size' /\ hole'[found] = 0
      /\ \A h \in DOMAIN size' : h # found => hole'[h] = hole[h]
  BY <1>1, <1>2, Zenon
<1>4. Free' = Free \ {found}
  <2>1. Free' = {h \in DOMAIN size' : hole'[h] = 1}
    BY Zenon DEF Free, Heads
  <2>2. \A h \in DOMAIN size' : hole'[h] = 1 <=> h \in Free \ {found}
    BY <1>1, <1>2, <1>3
  <2>3. Free \ {found} \subseteq DOMAIN size'
    BY <1>1, HeapFacts, Zenon
  <2>. QED
    BY <2>1, <2>2, <2>3, Zenon
<1>5. Binned(bins', Free \ {found}, size)
  BY <1>1, <1>2, HeapFacts, BinnedRemove, Zenon
<1>6. size' = Blocks!Cut(found, n)
  BY <1>1, Zenon DEF Blocks!Cut
<1>7. Free' = (Free \ {found}) \cup (DOMAIN size' \ DOMAIN size)
  BY <1>1, <1>4, Zenon
<1>8. foot' \in FootType /\ Tiled(size') /\ Footed(foot', size')
  BY <1>1, HeapFacts, Zenon
<1>9. \A h \in DOMAIN size' : hole'[h] \in {0, 1}
  BY <1>1, <1>2, <1>3, Zenon
<1>10. Binned(bins', Free', size')
  BY <1>1, <1>4, <1>5, Zenon
<1>. QED
  BY <1>3, <1>6, <1>7, <1>8, <1>9, <1>10, Zenon DEF Taken

\* The hole is cut in two.
LEMMA TakeCut ==
  ASSUME HeapInv, ~past, UNCHANGED <<past, merged>>, NEW n \in Nat, NEW found \in Free,
         Blocks!BestHole(found, n),
         NEW index, index = get_bin_index(size[found]), Take(index, found, n),
         size[found] - n > overhead + MIN_ALLOC_SZ
  PROVE  Taken(found, n)
<1>. DEFINE rest == size[found] - n - overhead
            split == found + overhead + n
            sizes == Put(size, split, rest)
            new_idx == get_bin_index(rest)
            added == [bins EXCEPT ![new_idx] = Insert(bins[new_idx], split, sizes)]
<1>1. /\ size' = Put(sizes, found, n)
      /\ hole' = Put(Put(hole, split, 1), found, 0)
      /\ foot' = create_foot(create_foot(foot, split, rest), found, n)
      /\ bins' = [added EXCEPT ![index] = Delete(added[index], found)]
  BY Zenon DEF Take
<1>2. /\ DOMAIN hole = DOMAIN size /\ found \in DOMAIN size /\ size[found] \in Nat /\ found \in Nat
      /\ \A h \in DOMAIN size : hole[h] \in {0, 1} /\ (h \in Free <=> hole[h] = 1)
      /\ Tiled(size) /\ Footed(foot, size) /\ Binned(bins, Free, size) /\ foot \in FootType
      /\ Free \subseteq DOMAIN size /\ \A h \in Free : size[h] \in Nat
  BY HeapFacts, Zenon
<1>3. split \in Nat /\ rest \in Nat /\ found < split /\ split < Behind(size, found) /\ split = found + n + overhead
  BY <1>2, Constants DEF Behind
<1>4. split \notin DOMAIN size /\ split # found
  <2>1. split \in DOMAIN size => Behind(size, found) <= split
    BY <1>2, <1>3, Zenon DEF Tiled
  <2>2. Behind(size, found) \in Nat
    BY <1>2, TiledNat, Zenon
  <2>. QED
    BY <1>2, <1>3, <2>1, <2>2
<1>. HIDE DEF split, rest
<1>5. /\ DOMAIN sizes = DOMAIN size \cup {split} /\ sizes[split] = rest
      /\ \A h \in DOMAIN size : sizes[h] = size[h]
  <2>1. PutIn(sizes, size, split, rest)
    BY PutFacts, Zenon
  <2>. HIDE DEF sizes
  <2>. QED
    BY <1>4, <2>1, Zenon DEF PutIn
<1>. HIDE DEF sizes
<1>6. /\ DOMAIN size' = DOMAIN size \cup {split} /\ size'[found] = n /\ size'[split] = rest
      /\ \A h \in DOMAIN size : h # found => size'[h] = size[h]
      /\ \A h \in DOMAIN sizes : h # found => size'[h] = sizes[h]
  <2>1. /\ DOMAIN size' = DOMAIN sizes \cup {found} /\ size'[found] = n
        /\ \A h \in DOMAIN sizes : h # found => size'[h] = sizes[h]
    <3>1. PutIn(size', sizes, found, n)
      BY <1>1, PutFacts, Zenon
    <3>. QED
      BY <3>1, Zenon DEF PutIn
  <2>2. DOMAIN sizes \cup {found} = DOMAIN size \cup {split}
    BY <1>2, <1>5, Zenon
  <2>. QED
    BY <1>4, <1>5, <2>1, <2>2, Zenon
<1>7. size' = Blocks!Cut(found, n)
  <2>1. size' = [h \in DOMAIN size' |-> size'[h]]
    BY <1>1, Zenon DEF Put
  <2>2. \A h \in DOMAIN size \cup {split} :
          size'[h] = IF h = found THEN n ELSE IF h = split THEN rest ELSE size[h]
    BY <1>4, <1>6, Zenon
  <2>3. Blocks!Cut(found, n) =
          [h \in DOMAIN size \cup {split} |->
             IF h = found THEN n ELSE IF h = split THEN rest ELSE size[h]]
    BY <1>3, Zenon DEF Blocks!Cut, rest
  <2>. QED
    BY <1>6, <2>1, <2>2, <2>3, Zenon
<1>8. /\ DOMAIN hole' = DOMAIN size' /\ hole'[found] = 0 /\ hole'[split] = 1
      /\ \A h \in DOMAIN size : h # found => hole'[h] = hole[h]
  <2>. DEFINE marked == Put(hole, split, 1)
  <2>1. /\ DOMAIN marked = DOMAIN hole \cup {split} /\ marked[split] = 1
        /\ \A h \in DOMAIN hole : h # split => marked[h] = hole[h]
    <3>1. PutIn(marked, hole, split, 1)
      BY PutFacts, Zenon
    <3>. HIDE DEF marked
    <3>. QED
      BY <3>1, Zenon DEF PutIn
  <2>. HIDE DEF marked
  <2>2. /\ DOMAIN hole' = DOMAIN marked \cup {found} /\ hole'[found] = 0
        /\ \A h \in DOMAIN marked : h # found => hole'[h] = marked[h]
    <3>1. PutIn(hole', marked, found, 0)
      BY <1>1, PutFacts, Zenon DEF marked
    <3>. QED
      BY <3>1, Zenon DEF PutIn
  <2>3. DOMAIN marked \cup {found} = DOMAIN size'
    BY <1>2, <1>6, <2>1, Zenon
  <2>4. \A h \in DOMAIN size : h # found => h \in DOMAIN marked /\ h # split /\ h \in DOMAIN hole
    BY <1>2, <1>4, <2>1, Zenon
  <2>5. split \in DOMAIN marked /\ split # found
    BY <1>4, <2>1, Zenon
  <2>. QED
    BY <2>1, <2>2, <2>3, <2>4, <2>5, Zenon
<1>9. Free' = (Free \ {found}) \cup {split}
  <2>1. Free' = {h \in DOMAIN size' : hole'[h] = 1}
    BY Zenon DEF Free, Heads
  <2>2. \A h \in DOMAIN size : hole'[h] = 1 <=> h \in Free /\ h # found
    BY <1>2, <1>8
  <2>. QED
    BY <1>2, <1>4, <1>6, <1>8, <2>1, <2>2, Zenon
<1>10. Free' = (Free \ {found}) \cup (DOMAIN size' \ DOMAIN size)
  BY <1>4, <1>6, <1>9, Zenon
<1>11. Tiled(size')
  <2>1. DOMAIN size' \subseteq Nat /\ size' \in [DOMAIN size' -> Nat] /\ Blocks!Tiling' /\ ~past'
    BY <1>2, <1>7, <1>10, HeapFacts, BlocksTake, Zenon
  <2>. QED
    BY <2>1, TiledThen, Zenon
<1>12. /\ get_foot(split, rest) \in 0 .. (end + NodeSize) /\ get_foot(found, n) \in 0 .. (end + NodeSize)
       /\ get_foot(split, rest) # get_foot(found, n)
  <2>1. split \in DOMAIN size' /\ found \in DOMAIN size'
    BY <1>2, <1>6, Zenon
  <2>. QED
    BY <1>4, <1>6, <1>11, <2>1, FootAt, FootApart, Zenon
<1>13. /\ foot' \in FootType /\ foot'[get_foot(found, n)] = found /\ foot'[get_foot(split, rest)] = split
       /\ \A b \in 0 .. (end + NodeSize) :
            b # get_foot(found, n) /\ b # get_foot(split, rest) => foot'[b] = foot[b]
  <2>. DEFINE ft == [foot EXCEPT ![get_foot(split, rest)] = split]
  <2>1. /\ ft \in FootType /\ ft[get_foot(split, rest)] = split
        /\ \A b \in 0 .. (end + NodeSize) : b # get_foot(split, rest) => ft[b] = foot[b]
    <3>1. split \in Nat \cup {NULL}
      BY <1>3, Zenon
    <3>2. Written(ft, foot, get_foot(split, rest), split)
      BY <1>2, <1>12, <3>1, FootWritten, Zenon
    <3>. HIDE DEF ft
    <3>. QED
      BY <3>2, Zenon DEF Written
  <2>. HIDE DEF ft
  <2>2. foot' = [ft EXCEPT ![get_foot(found, n)] = found]
    BY <1>1, Zenon DEF create_foot, ft
  <2>3. /\ foot' \in FootType /\ foot'[get_foot(found, n)] = found
        /\ \A b \in 0 .. (end + NodeSize) : b # get_foot(found, n) => foot'[b] = ft[b]
    <3>1. found \in Nat \cup {NULL}
      BY <1>2, Zenon
    <3>2. Written(foot', ft, get_foot(found, n), found)
      BY <1>12, <2>1, <2>2, <3>1, FootWritten, Zenon
    <3>. QED
      BY <3>2, Zenon DEF Written
  <2>. QED
    BY <1>12, <2>1, <2>3, Zenon
<1>14. Footed(foot', size')
  <2>. SUFFICES ASSUME NEW h \in DOMAIN size' PROVE foot'[get_foot(h, size'[h])] = h
    BY Zenon DEF Footed
  <2>1. CASE h = found \/ h = split
    BY <1>6, <1>13, <2>1, Zenon
  <2>2. CASE h # found /\ h # split
    <3>1. h \in DOMAIN size /\ size'[h] = size[h] /\ split \in DOMAIN size' /\ found \in DOMAIN size'
      BY <1>2, <1>6, <2>2, Zenon
    <3>2. /\ get_foot(h, size'[h]) # get_foot(found, n) /\ get_foot(h, size'[h]) # get_foot(split, rest)
          /\ get_foot(h, size'[h]) \in 0 .. (end + NodeSize)
      BY <1>6, <1>11, <2>2, <3>1, FootAt, FootApart, Zenon
    <3>3. foot[get_foot(h, size[h])] = h
      BY <1>2, <3>1, Zenon DEF Footed
    <3>. QED
      BY <1>13, <3>1, <3>2, <3>3, Zenon
  <2>. QED
    BY <2>1, <2>2, Zenon
<1>15. Binned(bins', Free', size')
  <2>1. Binned(bins, Free, sizes) /\ (\A x \in Free : sizes[x] \in Nat) /\ split \notin Free
    BY <1>2, <1>4, <1>5, BinnedAgree, Zenon
  <2>2. added = AddTo(bins, split, sizes)
    BY <1>5, Zenon DEF AddTo
  <2>. HIDE DEF added
  <2>3. Binned(added, Free \cup {split}, sizes)
    BY <1>3, <1>5, <2>1, <2>2, BinnedAdd, Zenon
  <2>4. found \in Free \cup {split} /\ sizes[found] = size[found]
    BY <1>2, <1>5, Zenon
  <2>5. Binned(bins', (Free \cup {split}) \ {found}, sizes)
    BY <1>1, <1>2, <2>3, <2>4, BinnedRemove, Zenon
  <2>6. (Free \cup {split}) \ {found} = Free'
    BY <1>4, <1>9, Zenon
  <2>7. \A x \in Free' : size'[x] = sizes[x]
    BY <1>2, <1>5, <1>6, <2>6, Zenon
  <2>. QED
    BY <2>5, <2>6, <2>7, BinnedAgree, Zenon
<1>16. \A h \in DOMAIN size' : hole'[h] \in {0, 1}
  BY <1>2, <1>6, <1>8, Zenon
<1>. QED
  BY <1>7, <1>8, <1>10, <1>11, <1>13, <1>14, <1>15, <1>16, Zenon DEF Taken

\* heap_alloc takes the best hole, and keeps the invariant.
LEMMA AllocSimulates ==
  ASSUME HeapInv, NEW n \in Requests, heap_alloc(n)
  PROVE  Blocks!Alloc(n) /\ HeapInv'
<1>. DEFINE index == Min(Serving(n))
            found == BestFit(bins[index], n, size)
<1>1. /\ ~past /\ Serving(n) # {} /\ Take(index, found, n) /\ UNCHANGED <<past, merged>>
      /\ out' = IF size'[get_wilderness(foot')] < MIN_WILDERNESS THEN out ELSE Put(out, found, n)
      /\ n \in Nat
  BY Constants, Zenon DEF heap_alloc
<1>2. Blocks!BestHole(found, n) /\ found \in Free /\ index = get_bin_index(size[found])
  BY <1>1, ServesBest, Zenon
<1>. HIDE DEF index, found
<1>3. Taken(found, n)
  BY <1>1, <1>2, TakeWhole, TakeCut, Zenon
<1>4. get_wilderness(foot') = Blocks!Wilderness(size')
  BY <1>3, Wild, Zenon DEF Taken
<1>5. found \in DOMAIN size
  BY <1>1, <1>2, HeapFacts, Zenon
<1>6. Blocks!Alloc(n)
  BY <1>1, <1>2, <1>3, <1>4, <1>5, Zenon DEF Blocks!Alloc, Taken, Put
<1>7. BlocksInv'
  BY <1>6, BlocksAlloc, Zenon DEF HeapInv
<1>8. DOMAIN size' \subseteq 0 .. (end - 1) /\ Free' \subseteq DOMAIN size'
  BY <1>3, TiledNat, Zenon DEF Taken, Free, Heads
<1>9. bins' \in [0 .. BIN_MAX_IDX -> Seq(DOMAIN size')]
  BY <1>3, <1>8, BinnedHeads, Zenon DEF Taken
<1>. QED
  BY <1>3, <1>6, <1>7, <1>8, <1>9, Zenon DEF HeapInv, Heads, Taken

\* If no bin can serve the request no hole is large enough.
LEMMA AllocNothingSimulates ==
  ASSUME HeapInv, NEW n \in Requests, heap_alloc_NULL(n)
  PROVE  Blocks!AllocNothing(n)
<1>1. ~past /\ Serving(n) = {} /\ UNCHANGED vars /\ n \in Nat
  BY Constants, Zenon DEF heap_alloc_NULL
<1>2. ASSUME NEW g \in Free, size[g] >= n PROVE FALSE
  <2>. DEFINE j == get_bin_index(size[g])
              here == {h \in Free : get_bin_index(size[h]) = j}
  <2>1. size[g] \in Nat /\ j \in 0 .. BIN_MAX_IDX /\ (\A x \in Free : size[x] \in Nat)
        /\ Binned(bins, Free, size)
    BY <1>1, HeapFacts, BinIndex, Zenon
  <2>2. n <= size[g]
    BY <1>1, <1>2, <2>1, Zenon
  <2>3. get_bin_index(n) <= j /\ get_bin_index(n) \in 0 .. BIN_MAX_IDX
    BY <1>1, <2>1, <2>2, BinIndex, Zenon
  <2>4. g \in here /\ \A x \in here : size[x] \in Nat
    BY <2>1, Zenon
  <2>5. BinOK(bins[j], here, size)
    BY <2>1, Zenon DEF Binned
  <2>. HIDE DEF here, j
  <2>6. Fits(bins[j], n, size)
    BY <1>1, <1>2, <2>4, <2>5, BestFitOK, Zenon
  <2>7. j \in get_bin_index(n) .. BIN_MAX_IDX
    BY <2>1, <2>3, BinIndex
  <2>. QED
    BY <1>1, <2>6, <2>7, Zenon DEF Serving
<1>3. \A g \in Free : size[g] \in Nat
  BY <1>1, HeapFacts, Zenon
<1>4. \A g \in Free : size[g] < n
  BY <1>1, <1>2, <1>3
<1>5. UNCHANGED Blocks!vars
  BY <1>1, Zenon DEF vars, Blocks!vars, Free, Heads
<1>. QED
  BY <1>1, <1>4, <1>5, Zenon DEF Blocks!AllocNothing

-----------------------------------------------------------------------------
\* heap_free.

\* The first block is put into its bin and nothing is merged.
LEMMA FreeFirstSimulates ==
  ASSUME HeapInv, heap_free_first
  PROVE  Blocks!FreeFirst /\ HeapInv'
<1>1. /\ ~past /\ 0 \in DOMAIN out /\ hole' = [hole EXCEPT ![0] = 1] /\ bins' = AddTo(bins, 0, size)
      /\ out' = [h \in DOMAIN out \ {0} |-> out[h]] /\ merged' = FALSE
      /\ size' = size /\ foot' = foot /\ past' = past
  BY Zenon DEF heap_free_first, start, Without
<1>2. /\ DOMAIN hole = DOMAIN size /\ Free \subseteq DOMAIN size /\ Tiled(size)
      /\ \A h \in DOMAIN size : hole[h] \in {0, 1} /\ (h \in Free <=> hole[h] = 1)
      /\ \A h \in Free : size[h] \in Nat
      /\ Footed(foot, size) /\ Binned(bins, Free, size) /\ foot \in FootType
      /\ Blocks!HeldIntact /\ Blocks!TypeOK
  BY <1>1, HeapFacts, Zenon
<1>3. 0 \in DOMAIN size /\ 0 \notin Free /\ 0 \in Nat /\ size[0] \in Nat
  BY <1>1, <1>2, TiledNat, Zenon DEF Blocks!HeldIntact, Blocks!TypeOK
<1>4. /\ DOMAIN hole' = DOMAIN size /\ hole'[0] = 1
      /\ \A h \in DOMAIN size : h # 0 => hole'[h] = hole[h]
  BY <1>1, <1>2, <1>3, Zenon
<1>5. Free' = Free \cup {0}
  <2>1. Free' = {h \in DOMAIN size : hole'[h] = 1}
    BY <1>1, Zenon DEF Free, Heads
  <2>. QED
    BY <1>2, <1>3, <1>4, <2>1, Zenon
<1>6. Blocks!FreeFirst
  BY <1>1, <1>5, Zenon DEF Blocks!FreeFirst, Blocks!Release
<1>7. BlocksInv'
  BY <1>6, BlocksFreeFirst, Zenon DEF HeapInv
<1>8. Binned(bins', Free', size')
  BY <1>1, <1>2, <1>3, <1>5, BinnedAdd, Zenon
<1>9. Free' \subseteq DOMAIN size'
  BY <1>1, <1>2, <1>3, <1>5, Zenon
<1>10. bins' \in [0 .. BIN_MAX_IDX -> Seq(DOMAIN size')]
  BY <1>8, <1>9, BinnedHeads, Zenon
<1>11. DOMAIN size \subseteq 0 .. (end - 1)
  BY Zenon DEF HeapInv, Heads
<1>12. \A h \in DOMAIN size : hole'[h] \in {0, 1}
  BY <1>2, <1>4, Zenon
<1>13. HeapInv'
  BY <1>1, <1>2, <1>4, <1>7, <1>8, <1>10, <1>11, <1>12, Zenon DEF HeapInv, Heads
<1>. QED
  BY <1>6, <1>13, Zenon

\* Bin 0 is empty if and only if no block in the bins is small.
LEMMA BinZero ==
  ASSUME NEW bs, NEW S, NEW sz, Binned(bs, S, sz), \A x \in S : sz[x] \in Nat
  PROVE  bs[0] # <<>> <=> \E h \in S : sz[h] < 2 * MinBinSize
<1>. DEFINE here == {h \in S : get_bin_index(sz[h]) = 0}
<1>1. BinOK(bs[0], here, sz)
  BY BinIndex, Zenon DEF Binned
<1>2. \A h \in S : h \in here <=> sz[h] < 2 * MinBinSize
  BY BinIndex, Zenon
<1>3. here \subseteq S
  BY Zenon
<1>. HIDE DEF here
<1>4. bs[0] \in Seq(Nat) /\ here = {bs[0][i] : i \in 1 .. Len(bs[0])}
  BY <1>1, Zenon DEF BinOK
<1>5. bs[0] # <<>> <=> here # {}
  <2>1. CASE bs[0] = <<>>
    BY <1>4, <2>1
  <2>2. CASE bs[0] # <<>>
    <3>1. 1 \in 1 .. Len(bs[0])
      BY <1>4, <2>2
    <3>. QED
      BY <1>4, <2>2, <3>1, Zenon
  <2>. QED
    BY <2>1, <2>2, Zenon
<1>. QED
  BY <1>2, <1>3, <1>5, Zenon

\* A freed block is merged with its true neighbours, found by the tags.
LEMMA FreeSimulates ==
  ASSUME HeapInv, NEW p \in DOMAIN out, heap_free(p)
  PROVE  Blocks!Free(p) /\ HeapInv'
<1>. DEFINE next     == get_foot(p, size[p]) + FootSize
            prev     == foot[p - FootSize]
            joinPrev == hole[prev] = 1
            head     == IF joinPrev THEN prev ELSE p
            bins1    == IF joinPrev THEN RemoveFrom(bins, prev) ELSE bins
            size1    == IF joinPrev THEN size[prev] + overhead + size[p] ELSE size[p]
            foot1    == [foot EXCEPT ![get_foot(p, size[p])] = head]
            fake     == next = end /\ bins1[0] # <<>>
            joinNext == IF next = end THEN fake ELSE hole[next] = 1
            bins2    == IF fake THEN [bins1 EXCEPT ![0] = <<>>]
                        ELSE IF joinNext THEN RemoveFrom(bins1, next) ELSE bins1
            nextSize == IF fake THEN 0 ELSE size[next]
            size2    == IF joinNext THEN size1 + overhead + nextSize ELSE size1
            gone     == (IF joinPrev THEN {p} ELSE {})
                          \cup (IF joinNext /\ ~fake THEN {next} ELSE {})
            sizes    == Put(size, head, size2)
            F1       == Free \ {prev}
            right    == {next} \cap Free
<1>1. /\ ~past /\ p # 0 /\ merged' = merged /\ past' = fake
      /\ out' = [h \in DOMAIN out \ {p} |-> out[h]]
      /\ size' = Without(sizes, gone) /\ hole' = Without(Put(hole, head, 1), gone)
      /\ foot' = IF ~joinNext THEN foot1
                 ELSE create_foot([foot1 EXCEPT ![get_foot(next, nextSize)] = NULL], head, size2)
      /\ bins' = AddTo(bins2, head, sizes)
  BY Zenon DEF heap_free, start, Without
<1>2. /\ DOMAIN hole = DOMAIN size /\ Free \subseteq DOMAIN size /\ Tiled(size)
      /\ \A h \in DOMAIN size : hole[h] \in {0, 1} /\ (h \in Free <=> hole[h] = 1)
      /\ \A h \in Free : size[h] \in Nat
      /\ Footed(foot, size) /\ Binned(bins, Free, size) /\ foot \in FootType
  BY <1>1, HeapFacts, Zenon
<1>3. p \in DOMAIN size /\ p \notin Free
  BY <1>1, HeapFacts, Zenon DEF Blocks!HeldIntact, Blocks!TypeOK
<1>4. /\ p \in Nat /\ size[p] \in Nat /\ Behind(size, p) \in Nat /\ p < Behind(size, p)
      /\ Behind(size, p) <= end /\ Behind(size, p) \in DOMAIN size \cup {end}
  BY <1>2, <1>3, TiledNat, Zenon DEF Tiled
<1>5. next = Behind(size, p) /\ get_foot(p, size[p]) \in 0 .. (end + NodeSize)
  <2>1. get_foot(p, size[p]) = Behind(size, p) - FootSize /\ get_foot(p, size[p]) \in 0 .. (end + NodeSize)
    BY <1>2, <1>3, FootAt, Zenon
  <2>2. FootSize \in Nat
    BY HeapAssumption, Zenon
  <2>. QED
    BY <1>4, <2>1, <2>2
<1>6. prev \in DOMAIN size /\ Behind(size, prev) = p
  <2>1. p \in (DOMAIN size \ {0}) \cup {end}
    BY <1>1, <1>3, Zenon
  <2>. QED
    BY <1>2, <2>1, FootLeads, Zenon
<1>7. prev \in Nat /\ size[prev] \in Nat /\ prev < p /\ prev # p
  BY <1>2, <1>4, <1>6, TiledNat
<1>8. joinPrev <=> prev \in Free
  BY <1>2, <1>6, Zenon
<1>9. next \in DOMAIN size => next # end /\ size[next] \in Nat
  <2>1. next \in DOMAIN size => next \in 0 .. (end - 1) /\ size[next] \in Nat
    BY <1>2, TiledNat, Zenon
  <2>. QED
    BY <2>1, Constants
<1>10. next = end \/ next \in DOMAIN size
  BY <1>4, <1>5, Zenon
<1>. HIDE DEF next, prev
<1>11. /\ head \in DOMAIN size /\ head \in Nat /\ head <= p /\ head \notin F1
       /\ (joinPrev => head = prev) /\ (~joinPrev => head = p)
  BY <1>3, <1>4, <1>6, <1>7
<1>12. size1 \in Nat /\ head + size1 + overhead = Behind(size, p)
  <2>1. CASE joinPrev
    BY <1>4, <1>6, <1>7, <2>1, Constants DEF Behind
  <2>2. CASE ~joinPrev
    BY <1>4, <2>2, Constants, Zenon DEF Behind
  <2>. QED
    BY <2>1, <2>2, Zenon
<1>. HIDE DEF head, size1
<1>13. Binned(bins1, F1, size) /\ \A x \in F1 : size[x] \in Nat
  <2>1. CASE joinPrev
    BY <1>2, <1>7, <1>8, <2>1, BinnedRemove, Zenon DEF RemoveFrom
  <2>2. CASE ~joinPrev
    <3>1. F1 = Free
      BY <1>8, <2>2, Zenon
    <3>. QED
      BY <1>2, <2>2, <3>1, Zenon
  <2>. QED
    BY <2>1, <2>2, Zenon
<1>. HIDE DEF bins1
<1>14. fake <=> Blocks!After(p) = end /\ \E h \in F1 : size[h] < 2 * MinBinSize
  <2>1. Blocks!After(p) = next
    BY <1>5, Zenon DEF Behind, Blocks!After
  <2>. QED
    BY <1>13, <2>1, BinZero, Zenon
<1>15. /\ fake => next = end /\ joinNext /\ right = {} /\ nextSize = 0
       /\ ~fake => (joinNext <=> next \in Free) /\ nextSize = size[next]
       /\ next = end => right = {}
  BY <1>2, <1>9, <1>10, Zenon
<1>. HIDE DEF fake, joinNext, nextSize
<1>16. joinNext /\ ~fake => next \in F1 /\ right = {next} /\ next # end
  BY <1>2, <1>4, <1>5, <1>7, <1>9, <1>15
<1>17. ~joinNext => ~fake /\ right = {}
  BY <1>15, Zenon
<1>18. /\ size2 \in Nat
       /\ fake => size2 = size1 + overhead
       /\ ~fake /\ joinNext => size2 = size1 + overhead + size[next]
       /\ ~joinNext => size2 = size1
  BY <1>2, <1>12, <1>13, <1>15, <1>16, <1>17, Constants
<1>. HIDE DEF size2
<1>19. /\ DOMAIN sizes = DOMAIN size /\ sizes[head] = size2
       /\ \A h \in DOMAIN size : h # head => sizes[h] = size[h]
  <2>1. PutIn(sizes, size, head, size2)
    BY PutFacts, Zenon
  <2>. HIDE DEF sizes
  <2>. QED
    BY <1>11, <2>1, Zenon DEF PutIn
<1>. HIDE DEF sizes
<1>20. /\ gone = (IF joinPrev THEN {p} ELSE {}) \cup right /\ head \notin gone
       /\ DOMAIN size \ gone = (DOMAIN size \ (right \cup {p})) \cup {head}
       /\ \A h \in DOMAIN size \ gone : h # head => h # p /\ h \notin right
  <2>1. gone = (IF joinPrev THEN {p} ELSE {}) \cup right
    BY <1>15, <1>16, <1>17, Zenon
  <2>2. p \notin right /\ head \notin right
    BY <1>2, <1>3, <1>4, <1>5, <1>11
  <2>. HIDE DEF gone, right
  <2>3. CASE joinPrev
    <3>1. gone = {p} \cup right /\ head # p
      BY <1>7, <1>11, <2>1, <2>3, Zenon
    <3>. QED
      BY <1>11, <2>1, <2>2, <3>1, Zenon
  <2>4. CASE ~joinPrev
    <3>1. gone = right /\ head = p
      BY <1>11, <2>1, <2>4, Zenon
    <3>. QED
      BY <1>3, <2>1, <2>2, <2>4, <3>1, Zenon
  <2>. QED
    BY <2>3, <2>4, Zenon
<1>. HIDE DEF gone
<1>21. /\ DOMAIN size' = DOMAIN size \ gone /\ size'[head] = size2 /\ head \in DOMAIN size'
       /\ \A h \in DOMAIN size' : h # head => size'[h] = size[h]
       /\ \A h \in DOMAIN size' : size'[h] = sizes[h] /\ h \in DOMAIN size
       /\ size' = [h \in DOMAIN size \ gone |-> sizes[h]]
  BY <1>1, <1>11, <1>19, <1>20, Zenon DEF Without
<1>22. /\ DOMAIN hole' = DOMAIN size' /\ hole'[head] = 1
       /\ \A h \in DOMAIN size' : h # head => hole'[h] = hole[h]
  <2>. DEFINE marked == Put(hole, head, 1)
  <2>1. /\ DOMAIN marked = DOMAIN size /\ marked[head] = 1
        /\ \A h \in DOMAIN size : h # head => marked[h] = hole[h]
    <3>1. PutIn(marked, hole, head, 1)
      BY PutFacts, Zenon
    <3>. HIDE DEF marked
    <3>. QED
      BY <1>2, <1>11, <3>1, Zenon DEF PutIn
  <2>2. hole' = [h \in DOMAIN marked \ gone |-> marked[h]]
    BY <1>1, Zenon DEF Without
  <2>. HIDE DEF marked
  <2>. QED
    BY <1>21, <2>1, <2>2, Zenon
<1>23. Free' = (Free \ right) \cup {head} /\ \A h \in DOMAIN size' : hole'[h] \in {0, 1}
  <2>1. Free' = {h \in DOMAIN size' : hole'[h] = 1}
    BY Zenon DEF Free, Heads
  <2>2. \A h \in DOMAIN size' : hole'[h] = 1 <=> h = head \/ h \in Free
    BY <1>2, <1>21, <1>22, Zenon
  <2>3. \A h \in Free : h \in DOMAIN size' <=> h \notin right \/ h = head
    BY <1>2, <1>3, <1>20, <1>21, Zenon
  <2>4. \A h : h \in Free' <=> h \in (Free \ right) \cup {head}
    <3>. HIDE DEF right
    <3>. QED
      BY <1>21, <2>1, <2>2, <2>3, Zenon
  <2>5. \A h \in DOMAIN size' : hole'[h] \in {0, 1}
    <3>1. hole'[head] \in {0, 1}
      BY <1>22, Zenon
    <3>. QED
      BY <1>2, <1>21, <1>22, <3>1, Zenon
  <2>. QED
    BY <2>4, <2>5, Zenon
<1>24. Blocks!Free(p)
  <2>. DEFINE left == Blocks!Before(p) \cap Free
              last == IF right = {} THEN p ELSE next
  <2>1. Blocks!After(p) = next /\ \A h \in DOMAIN size : Blocks!After(h) = Behind(size, h)
    BY <1>5, Zenon DEF Behind, Blocks!After
  <2>2. left = {prev} \cap Free
    <3>1. \A h \in DOMAIN size : Behind(size, h) = p <=> h = prev
      BY <1>2, <1>6, TiledApart, Zenon
    <3>. QED
      BY <1>2, <1>6, <2>1, <3>1, Zenon DEF Blocks!Before
  <2>3. Free \ left = F1
    BY <2>2, Zenon
  <2>4. head = IF left = {} THEN p ELSE CHOOSE h \in left : TRUE
    <3>1. CASE joinPrev
      <4>1. left = {prev}
        BY <1>8, <2>2, <3>1, Zenon
      <4>2. (CHOOSE h \in {prev} : TRUE) = prev
        BY Zenon
      <4>. QED
        BY <1>11, <3>1, <4>1, <4>2, Zenon
    <3>2. CASE ~joinPrev
      <4>1. left = {}
        BY <1>8, <2>2, <3>2, Zenon
      <4>. QED
        BY <1>11, <3>2, <4>1, Zenon
    <3>. QED
      BY <3>1, <3>2, Zenon
  <2>5. size2 = Blocks!After(last) - head - (IF fake THEN 0 ELSE overhead)
    <3>1. CASE fake
      <4>1. Blocks!After(last) = Behind(size, p)
        BY <1>3, <1>15, <2>1, <3>1, Zenon
      <4>. QED
        BY <1>4, <1>11, <1>12, <1>18, <3>1, <4>1, Constants
    <3>2. CASE ~fake /\ joinNext
      <4>1. Blocks!After(last) = next + size[next] + overhead
        BY <1>2, <1>16, <2>1, <3>2, Zenon DEF Behind
      <4>2. size[next] \in Nat
        BY <1>13, <1>16, <3>2, Zenon
      <4>. QED
        BY <1>5, <1>4, <1>11, <1>12, <1>18, <3>2, <4>1, <4>2, Constants
    <3>3. CASE ~joinNext
      <4>1. Blocks!After(last) = Behind(size, p) /\ ~fake
        BY <1>3, <1>17, <2>1, <3>3, Zenon
      <4>. QED
        BY <1>4, <1>11, <1>12, <1>18, <3>3, <4>1, Constants
    <3>. QED
      BY <3>1, <3>2, <3>3, Zenon
  <2>6. size' = [h \in (DOMAIN size \ (right \cup {p})) \cup {head} |-> IF h # head THEN size[h] ELSE size2]
    <3>1. \A h \in DOMAIN size \ gone : sizes[h] = IF h # head THEN size[h] ELSE size2
      BY <1>19, Zenon
    <3>2. size' = [h \in DOMAIN size \ gone |-> IF h # head THEN size[h] ELSE size2]
      BY <1>21, <3>1, Zenon
    <3>. QED
      BY <1>20, <3>2, Zenon
  <2>7. fake <=> Blocks!After(p) = end /\ \E h \in Free \ left : size[h] < 2 * MinBinSize
    BY <1>14, <2>3, Zenon
  <2>. HIDE DEF left
  <2>. QED
    BY <1>1, <1>3, <1>23, <2>1, <2>4, <2>5, <2>6, <2>7, Zenon DEF Blocks!Free, Blocks!Release, left
<1>25. BlocksInv'
  BY <1>24, BlocksFree, Zenon DEF HeapInv
<1>26. Heads' = DOMAIN size' /\ Heads' \subseteq 0 .. (end - 1)
  BY <1>2, <1>21, TiledNat, Zenon DEF Heads
<1>. DEFINE F2 == IF fake THEN {h \in F1 : get_bin_index(size[h]) # 0} ELSE F1 \ right
<1>27. Binned(bins2, F2, size)
  <2>1. CASE fake
    BY <1>13, <2>1, BinnedClear, Zenon
  <2>2. CASE ~fake /\ joinNext
    BY <1>13, <1>16, <2>2, BinnedRemove, Zenon DEF RemoveFrom
  <2>3. CASE ~joinNext
    <3>1. F2 = F1
      BY <1>17, <2>3, Zenon
    <3>. QED
      BY <1>13, <1>17, <2>3, <3>1, Zenon
  <2>. QED
    BY <2>1, <2>2, <2>3, Zenon
<1>28. /\ F2 \subseteq F1 /\ head \notin F2 /\ F2 \cup {head} \subseteq Free'
       /\ ~fake => F2 \cup {head} = Free'
  <2>1. F2 \subseteq F1 \ right /\ (~fake => F2 = F1 \ right)
    BY <1>15, Zenon
  <2>. HIDE DEF F2
  <2>2. (F1 \ right) \cup {head} = (Free \ right) \cup {head}
    BY <1>8, <1>11, Zenon
  <2>. QED
    BY <1>11, <1>23, <2>1, <2>2, Zenon
<1>. HIDE DEF bins2, F2
<1>29. Binned(bins', F2 \cup {head}, size')
  <2>1. \A x \in F2 : x \in DOMAIN size /\ x # head /\ sizes[x] = size[x] /\ sizes[x] \in Nat
    BY <1>2, <1>13, <1>19, <1>28, Zenon
  <2>2. Binned(bins2, F2, sizes)
    BY <1>27, <2>1, BinnedAgree, Zenon
  <2>3. Binned(AddTo(bins2, head, sizes), F2 \cup {head}, sizes)
    BY <1>11, <1>18, <1>19, <1>28, <2>1, <2>2, BinnedAdd, Zenon
  <2>4. \A x \in F2 \cup {head} : size'[x] = sizes[x]
    BY <1>21, <1>28, Zenon DEF Free, Heads
  <2>. QED
    BY <1>1, <2>3, <2>4, BinnedAgree, Zenon
<1>30. bins' \in [0 .. BIN_MAX_IDX -> Seq(Heads')]
  <2>1. F2 \cup {head} \subseteq Heads'
    BY <1>28, Zenon DEF Free
  <2>. QED
    BY <1>29, <2>1, BinnedHeads, Zenon
<1>. DEFINE a == get_foot(p, size[p])
            b == get_foot(next, nextSize)
            c == get_foot(head, size2)
<1>31. (joinNext => c = b /\ b \in 0 .. (end + NodeSize)) /\ (~joinNext => c = a)
  <2>1. next \in Nat /\ next <= end /\ NodeSize \in Nat /\ FootSize \in Nat /\ head + size1 + overhead = next
    BY <1>4, <1>5, <1>12, HeapAssumption, Zenon
  <2>2. CASE fake
    BY <1>11, <1>12, <1>15, <1>18, <2>1, <2>2, Constants DEF get_foot
  <2>3. CASE ~fake /\ joinNext
    <3>1. next \in DOMAIN size /\ nextSize = size[next] /\ size[next] \in Nat
      BY <1>2, <1>13, <1>15, <1>16, <2>3, Zenon
    <3>2. b \in 0 .. (end + NodeSize)
      BY <1>2, <3>1, FootAt, Zenon
    <3>3. size2 = size1 + overhead + size[next]
      BY <1>18, <2>3, Zenon
    <3>4. c = b
      BY <1>11, <1>12, <2>1, <3>1, <3>3, Constants DEF get_foot
    <3>. QED
      BY <2>3, <3>2, <3>4, Zenon
  <2>4. CASE ~joinNext
    BY <1>4, <1>11, <1>12, <1>18, <2>1, <2>4, Constants DEF get_foot, Behind, overhead
  <2>. QED
    BY <1>17, <2>2, <2>3, <2>4, Zenon
<1>32. /\ foot' \in FootType /\ foot'[c] = head
       /\ \A x \in 0 .. (end + NodeSize) : x # a /\ (joinNext => x # b) => foot'[x] = foot[x]
  <2>1. Written(foot1, foot, a, head)
    BY <1>2, <1>5, <1>11, FootWritten, Zenon
  <2>2. CASE ~joinNext
    BY <1>1, <1>31, <2>1, <2>2, Zenon DEF Written
  <2>3. CASE joinNext
    <3>. DEFINE blank == [foot1 EXCEPT ![b] = NULL]
    <3>1. Written(blank, foot1, b, NULL)
      <4>1. foot1 \in FootType
        BY <2>1, Zenon DEF Written
      <4>. HIDE DEF foot1, b
      <4>. QED
        BY <1>31, <2>3, <4>1, FootWritten, Zenon
    <3>2. foot' = [blank EXCEPT ![c] = head]
      BY <1>1, <2>3, Zenon DEF create_foot
    <3>. HIDE DEF blank
    <3>3. Written(foot', blank, c, head)
      <4>1. blank \in FootType
        BY <3>1, Zenon DEF Written
      <4>. HIDE DEF b, c
      <4>. QED
        BY <1>11, <1>31, <2>3, <3>2, <4>1, FootWritten, Zenon
    <3>. QED
      BY <1>31, <2>1, <2>3, <3>1, <3>3, Zenon DEF Written
  <2>. QED
    BY <2>2, <2>3, Zenon
<1>33. ~fake => Footed(foot', size')
  <2>. SUFFICES ASSUME ~fake, NEW h \in DOMAIN size' PROVE foot'[get_foot(h, size'[h])] = h
    BY Zenon DEF Footed
  <2>1. CASE h = head
    BY <1>21, <1>32, <2>1, Zenon
  <2>2. CASE h # head
    <3>1. h \in DOMAIN size /\ size'[h] = size[h] /\ h # p /\ (joinNext => h # next)
      BY <1>16, <1>20, <1>21, <2>2, Zenon
    <3>2. /\ get_foot(h, size[h]) \in 0 .. (end + NodeSize) /\ get_foot(h, size[h]) # a
          /\ foot[get_foot(h, size[h])] = h
      BY <1>2, <1>3, <3>1, FootAt, FootApart, Zenon DEF Footed
    <3>3. joinNext => get_foot(h, size[h]) # b
      <4>1. joinNext => next \in DOMAIN size /\ nextSize = size[next]
        BY <1>2, <1>15, Zenon
      <4>. QED
        BY <1>2, <3>1, <4>1, FootApart, Zenon
    <3>. QED
      BY <1>32, <3>1, <3>2, <3>3, Zenon
  <2>. QED
    BY <2>1, <2>2, Zenon
<1>34. ~fake => Binned(bins', Free', size')
  BY <1>28, <1>29, Zenon
<1>. QED
  BY <1>1, <1>22, <1>23, <1>24, <1>25, <1>26, <1>30, <1>32, <1>33, <1>34, Zenon DEF HeapInv

\* Every step of the heap is a step of the blocks, and keeps the invariant.
LEMMA HeapStep ==
  ASSUME HeapInv, [Next]_vars
  PROVE  HeapInv' /\ [Blocks!Next]_(Blocks!vars)
<1>1. ASSUME UNCHANGED vars PROVE HeapInv' /\ UNCHANGED Blocks!vars
  <2>1. UNCHANGED <<size, hole, foot, bins, out, past, merged>>
    BY <1>1, Zenon DEF vars
  <2>2. UNCHANGED <<size, Free, out, past, merged>>
    BY <2>1, Zenon DEF Free, Heads
  <2>3. UNCHANGED Blocks!vars
    BY <2>2, Zenon DEF Blocks!vars
  <2>4. BlocksInv'
    BY <2>3, BlocksNext, Zenon DEF HeapInv
  <2>5. Heads' = Heads
    BY <2>1, Zenon DEF Heads
  <2>6. ~past' => Footed(foot', size') /\ Binned(bins', Free', size')
    <3>1. ~past => Footed(foot, size) /\ Binned(bins, Free, size)
      BY Zenon DEF HeapInv
    <3>2. foot' = foot /\ size' = size /\ bins' = bins /\ Free' = Free /\ past' = past
      BY <2>1, <2>2, Zenon
    <3>. QED
      BY <3>1, <3>2, Zenon
  <2>7. /\ Heads' \subseteq 0 .. (end - 1) /\ DOMAIN hole' = Heads'
        /\ (\A h \in Heads' : hole'[h] \in {0, 1}) /\ foot' \in FootType
        /\ bins' \in [0 .. BIN_MAX_IDX -> Seq(Heads')]
    <3>1. hole' = hole /\ foot' = foot /\ bins' = bins
      BY <2>1, Zenon
    <3>. QED
      BY <2>5, <3>1, Zenon DEF HeapInv
  <2>. QED
    BY <2>3, <2>4, <2>6, <2>7, Zenon DEF HeapInv
<1>2. ASSUME NEW n \in Requests, heap_alloc(n) PROVE HeapInv' /\ Blocks!Next
  BY <1>2, AllocSimulates, Zenon DEF Blocks!Next
<1>3. ASSUME NEW n \in Requests, heap_alloc_NULL(n) PROVE HeapInv' /\ Blocks!Next
  <2>1. UNCHANGED vars
    BY <1>3, Zenon DEF heap_alloc_NULL
  <2>. QED
    BY <1>1, <1>3, <2>1, AllocNothingSimulates, Zenon DEF Blocks!Next
<1>4. ASSUME heap_free_first PROVE HeapInv' /\ Blocks!Next
  BY <1>4, FreeFirstSimulates, Zenon DEF Blocks!Next
<1>5. ASSUME NEW p \in DOMAIN out, heap_free(p) PROVE HeapInv' /\ Blocks!Next
  BY <1>5, FreeSimulates, Zenon DEF Blocks!Next
<1>6. ASSUME Beyond PROVE UNCHANGED vars
  BY <1>6, Zenon DEF Beyond
<1>. QED
  BY <1>1, <1>2, <1>3, <1>4, <1>5, <1>6, Zenon DEF Next

\* The inductive invariant holds of every behaviour of the heap.
THEOREM HeapIInv == Spec => []HeapInv
<1>1. Init => HeapInv
  BY HeapStarts, Zenon
<1>2. HeapInv /\ [Next]_vars => HeapInv'
  BY HeapStep, Zenon
<1>. QED
  BY <1>1, <1>2, PTL DEF Spec

\* The boundary tags and the bins implement a region tiled by blocks: every
\* call of heap_alloc and heap_free does what BlockHeap says.
THEOREM HeapImplementsBlocks == Spec => BlocksSpec
<1>1. Init => Blocks!Init /\ HeapInv
  BY HeapStarts, Zenon
<1>2. HeapInv /\ [Next]_vars => HeapInv' /\ [Blocks!Next]_(Blocks!vars)
  BY HeapStep, Zenon
<1>. QED
  BY <1>1, <1>2, PTL DEF Spec, BlocksSpec, Blocks!Spec

\* After any sequence of calls the free lists hold every hole once, in the bin
\* of its size, smallest first, and the footers lead to their headers.
THEOREM HeapBins == Spec => []BinsInv
<1>1. ASSUME HeapInv PROVE BinsInv
  <2>1. TypeOK
    BY <1>1, Zenon DEF HeapInv, TypeOK, BlocksInv, Blocks!TypeOK, FootType, Heads
  <2>2. FootersInv
    BY <1>1, Zenon DEF HeapInv, FootersInv, Footed, Heads
  <2>3. ASSUME ~past, NEW i \in 0 .. BIN_MAX_IDX
        PROVE  /\ Sorted(bins[i], size) /\ IsInjective(bins[i])
               /\ Range(bins[i]) = {h \in Free : get_bin_index(size[h]) = i}
    <3>. DEFINE here == {h \in Free : get_bin_index(size[h]) = i}
    <3>1. BinOK(bins[i], here, size)
      BY <1>1, <2>3, Zenon DEF HeapInv, Binned
    <3>. HIDE DEF here
    <3>2. bins[i] \in Seq(Nat)
      BY <3>1, Zenon DEF BinOK
    <3>3. DOMAIN bins[i] = 1 .. Len(bins[i])
      BY <3>2
    <3>4. Sorted(bins[i], size) /\ Range(bins[i]) = here
      BY <3>1, <3>3, Zenon DEF BinOK, Sorted, Range
    <3>5. IsInjective(bins[i])
      BY <3>1, <3>3, Zenon DEF BinOK, IsInjective
    <3>. QED
      BY <3>4, <3>5, Zenon DEF here
  <2>. QED
    BY <2>1, <2>2, <2>3, Zenon DEF BinsInv
<1>. QED
  BY <1>1, HeapIInv, PTL
-----------------------------------------------------------------------------
\* What the blocks promise, and so the heap.

\* The invariant of the blocks holds of every behaviour of BlockHeap.
THEOREM BlocksIInv == Blocks!Spec => []BlocksInv
<1>. QED
  BY BlocksInit, BlocksNext, PTL DEF Blocks!Spec

\* Holes and the blocks that callers hold are blocks of the heap, each with a
\* natural number for its size.
THEOREM HeapType == Spec => []Blocks!TypeOK
<1>1. BlocksInv => Blocks!TypeOK
  BY Zenon DEF BlocksInv
<1>. QED
  BY <1>1, HeapImplementsBlocks, BlocksIInv, PTL DEF BlocksSpec

\* heap_alloc and heap_free keep the region tiled by blocks: nothing overlaps
\* and nothing is lost.
THEOREM HeapTiling == Spec => []Blocks!Tiling
<1>1. BlocksInv => Blocks!Tiling
  BY Zenon DEF BlocksInv
<1>. QED
  BY <1>1, HeapImplementsBlocks, BlocksIInv, PTL DEF BlocksSpec

\* No call of heap_alloc or heap_free frees, shrinks or moves a block that a
\* caller holds.
THEOREM HeapHeldIntact == Spec => []Blocks!HeldIntact
<1>1. BlocksInv => Blocks!HeldIntact
  BY Zenon DEF BlocksInv
<1>. QED
  BY <1>1, HeapImplementsBlocks, BlocksIInv, PTL DEF BlocksSpec

\* heap_free leaves no two neighbouring holes until the first block is freed.
THEOREM HeapCoalesced == Spec => []Blocks!Coalesced
<1>1. BlocksInv => Blocks!Coalesced
  BY Zenon DEF BlocksInv
<1>. QED
  BY <1>1, HeapImplementsBlocks, BlocksIInv, PTL DEF BlocksSpec
=============================================================================
