----------------------------- MODULE LlistProofs ----------------------------
(***************************************************************************)
(* The pointers of llist.c for every set of nodes and of sizes: they       *)
(* implement the sorted list of FreeList, which is what the bins of the    *)
(* heap are, whatever callers write into the nodes they own.               *)
(*                                                                         *)
(* First what add_node and remove_node do to a sequence of nodes; then     *)
(* what they do to the pointers when these lead along such a sequence.     *)
(***************************************************************************)
EXTENDS Llist, WellFoundedInduction, TLAPS

-----------------------------------------------------------------------------
\* Least numbers.

\* Every nonempty set of natural numbers has a least member.
LEMMA LeastNatural ==
  ASSUME NEW T \in SUBSET Nat, T # {}
  PROVE  \E x \in T : \A y \in T : x <= y
<1>. DEFINE R == OpToRel(<, Nat)
<1>1. IsWellFoundedOn(R, Nat)
  BY NatLessThanWellFounded, Zenon
<1>2. \A x, y \in Nat : y < x => <<y, x>> \in R
  BY Zenon DEF OpToRel
<1>. HIDE DEF R
<1>3. PICK x \in T : \A y \in T : ~ (<<y, x>> \in R)
  BY <1>1, WFMin, Zenon
<1>4. ASSUME NEW y \in T
      PROVE  x <= y
  <2>1. x \in Nat /\ y \in Nat
    BY Zenon
  <2>2. ~ (y < x)
    BY <1>2, <1>3, <2>1, Zenon
  <2>. QED
    BY <2>1, <2>2
<1>. QED
  BY <1>4, Zenon

\* Min is that member.
LEMMA MinOf ==
  ASSUME NEW I \in SUBSET Nat, I # {}
  PROVE  Min(I) \in I /\ \A i \in I : Min(I) <= i
BY LeastNatural, Zenon DEF Min

-----------------------------------------------------------------------------
\* The list of one bin.

\* The list holds the nodes of S, each once, smallest first.
BinOK(list, S, sz) ==
  /\ list \in Seq(Nodes)
  /\ \A i, j \in 1 .. Len(list) : i # j => list[i] # list[j]
  /\ \A i, j \in 1 .. Len(list) : i < j => sz[list[i]] <= sz[list[j]]
  /\ S = {list[i] : i \in 1 .. Len(list)}

\* The new list is the old one with node at position k.
InsertedAt(new, list, k, node) ==
  /\ new \in Seq(Nodes) /\ Len(new) = Len(list) + 1
  /\ new[k] = node
  /\ \A j \in 1 .. Len(list) : new[IF j < k THEN j ELSE j + 1] = list[j]

\* What a concatenation has at each place.
LEMMA Concatenated ==
  ASSUME NEW s \in Seq(Nodes), NEW t \in Seq(Nodes)
  PROVE  /\ s \o t \in Seq(Nodes) /\ Len(s \o t) = Len(s) + Len(t)
         /\ \A i \in 1 .. (Len(s) + Len(t)) : (s \o t)[i] = IF i <= Len(s) THEN s[i] ELSE t[i - Len(s)]
OBVIOUS

\* A sequence cut before k, with node put between the parts.
LEMMA InsertShape ==
  ASSUME NEW list \in Seq(Nodes), NEW node \in Nodes, NEW k \in 1 .. Len(list) + 1
  PROVE  InsertedAt(SubSeq(list, 1, k - 1) \o <<node>> \o SubSeq(list, k, Len(list)), list, k, node)
<1>. DEFINE a == SubSeq(list, 1, k - 1)
            b == SubSeq(list, k, Len(list))
            c == a \o <<node>>
<1>0. Len(list) \in Nat /\ k \in Nat
  OBVIOUS
<1>1. a \in Seq(Nodes) /\ Len(a) = k - 1 /\ \A j \in 1 .. (k - 1) : a[j] = list[j]
  OBVIOUS
<1>2. /\ b \in Seq(Nodes) /\ Len(b) = Len(list) + 1 - k
      /\ \A j \in 1 .. (Len(list) + 1 - k) : b[j] = list[k + j - 1]
  OBVIOUS
<1>. HIDE DEF a, b
<1>3. /\ c \in Seq(Nodes) /\ Len(c) = k /\ c[k] = node
      /\ \A j \in 1 .. (k - 1) : c[j] = list[j]
  <2>1. <<node>> \in Seq(Nodes) /\ Len(<<node>>) = 1 /\ <<node>>[1] = node
    OBVIOUS
  <2>2. /\ c \in Seq(Nodes) /\ Len(c) = Len(a) + 1
        /\ \A i \in 1 .. (Len(a) + 1) : c[i] = IF i <= Len(a) THEN a[i] ELSE <<node>>[i - Len(a)]
    BY <1>1, <2>1, Concatenated, Zenon
  <2>3. k - (k - 1) = 1 /\ ~ (k <= k - 1) /\ (k - 1) + 1 = k /\ k \in 1 .. k
        /\ \A j \in 1 .. (k - 1) : j \in 1 .. k /\ j <= k - 1
    BY <1>0
  <2>. HIDE DEF c
  <2>4. /\ Len(c) = k
        /\ \A i \in 1 .. k : c[i] = IF i <= k - 1 THEN a[i] ELSE <<node>>[i - (k - 1)]
    BY <1>1, <2>2, <2>3, Zenon
  <2>5. c[k] = node
    BY <2>1, <2>3, <2>4, Zenon
  <2>6. \A j \in 1 .. (k - 1) : c[j] = list[j]
    BY <1>1, <2>3, <2>4, Zenon
  <2>. QED
    BY <2>2, <2>4, <2>5, <2>6, Zenon
<1>. HIDE DEF c
<1>4. /\ c \o b \in Seq(Nodes) /\ Len(c \o b) = Len(list) + 1
      /\ \A j \in 1 .. k : (c \o b)[j] = c[j]
      /\ \A j \in (k + 1) .. (Len(list) + 1) : (c \o b)[j] = b[j - k]
  <2>1. /\ c \o b \in Seq(Nodes) /\ Len(c \o b) = Len(c) + Len(b)
        /\ \A i \in 1 .. (Len(c) + Len(b)) : (c \o b)[i] = IF i <= Len(c) THEN c[i] ELSE b[i - Len(c)]
    BY <1>2, <1>3, Concatenated, Zenon
  <2>2. /\ k + (Len(list) + 1 - k) = Len(list) + 1
        /\ \A j \in 1 .. k : j \in 1 .. (Len(list) + 1) /\ j <= k
        /\ \A j \in (k + 1) .. (Len(list) + 1) : j \in 1 .. (Len(list) + 1) /\ ~ (j <= k)
    BY <1>0
  <2>. QED
    BY <1>2, <1>3, <2>1, <2>2, Zenon
<1>5. ASSUME NEW j \in 1 .. Len(list)
      PROVE  (c \o b)[IF j < k THEN j ELSE j + 1] = list[j]
  <2>1. CASE j < k
    BY <1>0, <1>3, <1>4, <2>1
  <2>2. CASE ~ (j < k)
    <3>1. j + 1 \in (k + 1) .. (Len(list) + 1) /\ (j + 1) - k \in 1 .. (Len(list) + 1 - k)
      BY <1>0, <2>2
    <3>2. (c \o b)[j + 1] = b[(j + 1) - k] /\ b[(j + 1) - k] = list[k + ((j + 1) - k) - 1]
      BY <1>2, <1>4, <3>1, Zenon
    <3>3. k + ((j + 1) - k) - 1 = j
      BY <1>0
    <3>4. (c \o b)[j + 1] = list[j]
      BY <3>2, <3>3, Zenon
    <3>. QED
      BY <2>2, <3>4, Zenon
  <2>. QED
    BY <2>1, <2>2, Zenon
<1>6. (c \o b)[k] = node
  BY <1>0, <1>3, <1>4
<1>. QED
  BY <1>4, <1>5, <1>6, Zenon DEF InsertedAt, a, b, c

\* Put where no node before it is larger and none behind it smaller, the node
\* leaves the list in order.
LEMMA InsertedOK ==
  ASSUME NEW list, NEW S, NEW sz, BinOK(list, S, sz), \A x \in S : sz[x] \in Nat,
         NEW node \in Nodes, node \notin S, sz[node] \in Nat,
         NEW k \in 1 .. (Len(list) + 1), NEW new, InsertedAt(new, list, k, node),
         \A j \in 1 .. Len(list) : IF j < k THEN sz[list[j]] <= sz[node] ELSE sz[node] <= sz[list[j]]
  PROVE  BinOK(new, S \cup {node}, sz)
<1>. DEFINE n == Len(list)
            up(j) == IF j < k THEN j ELSE j + 1
<1>1. n \in Nat /\ k \in 1 .. (n + 1) /\ Len(new) = n + 1 /\ new \in Seq(Nodes) /\ new[k] = node
  BY DEF BinOK, InsertedAt
<1>2. \A j \in 1 .. n : new[up(j)] = list[j] /\ list[j] \in S
  BY Zenon DEF BinOK, InsertedAt
<1>. HIDE DEF n
<1>3. \A i \in 1 .. (n + 1) : i = k \/ \E j \in 1 .. n : i = up(j)
  <2>. SUFFICES ASSUME NEW i \in 1 .. (n + 1), i # k PROVE \E j \in 1 .. n : i = up(j)
    BY Zenon
  <2>1. CASE i < k
    <3>1. i \in 1 .. n /\ i = up(i)
      BY <1>1, <2>1
    <3>. QED
      BY <3>1, Zenon
  <2>2. CASE ~ (i < k)
    <3>1. i - 1 \in 1 .. n /\ i = up(i - 1)
      BY <1>1, <2>2
    <3>. QED
      BY <3>1, Zenon
  <2>. QED
    BY <2>1, <2>2, Zenon
<1>4. \A i, j \in 1 .. n : (up(i) < up(j) <=> i < j) /\ up(i) # k /\ (up(i) < k <=> i < k) /\ up(i) \in 1 .. (n + 1)
  BY <1>1
<1>. HIDE DEF up
<1>5. \A i, j \in 1 .. n : i # j => list[i] # list[j]
  BY Zenon DEF BinOK, n
<1>6. \A i, j \in 1 .. n : i < j => sz[list[i]] <= sz[list[j]]
  BY Zenon DEF BinOK, n
<1>7. ASSUME NEW i \in 1 .. (n + 1), NEW j \in 1 .. (n + 1), i # j PROVE new[i] # new[j]
  <2>1. CASE i = k \/ j = k
    BY <1>1, <1>2, <1>3, <1>7, <2>1, Zenon
  <2>2. CASE i # k /\ j # k
    <3>1. PICK a \in 1 .. n : i = up(a)
      BY <1>3, <2>2, Zenon
    <3>2. PICK b \in 1 .. n : j = up(b)
      BY <1>3, <2>2, Zenon
    <3>. QED
      BY <1>2, <1>5, <1>7, <3>1, <3>2, Zenon
  <2>. QED
    BY <2>1, <2>2, Zenon
<1>8. ASSUME NEW i \in 1 .. (n + 1), NEW j \in 1 .. (n + 1), i < j PROVE sz[new[i]] <= sz[new[j]]
  <2>1. CASE i = k
    <3>1. PICK b \in 1 .. n : j = up(b)
      BY <1>1, <1>3, <1>8, <2>1
    <3>2. ~ (b < k)
      BY <1>1, <1>4, <1>8, <2>1, <3>1
    <3>. QED
      BY <1>1, <1>2, <2>1, <3>1, <3>2, Zenon DEF n
  <2>2. CASE j = k
    <3>1. PICK a \in 1 .. n : i = up(a)
      BY <1>1, <1>3, <1>8, <2>2
    <3>2. a < k
      BY <1>1, <1>4, <1>8, <2>2, <3>1, Zenon
    <3>. QED
      BY <1>1, <1>2, <2>2, <3>1, <3>2, Zenon DEF n
  <2>3. CASE i # k /\ j # k
    <3>1. PICK a \in 1 .. n : i = up(a)
      BY <1>3, <2>3, Zenon
    <3>2. PICK b \in 1 .. n : j = up(b)
      BY <1>3, <2>3, Zenon
    <3>3. a < b
      BY <1>4, <1>8, <3>1, <3>2, Zenon
    <3>. QED
      BY <1>2, <1>6, <3>1, <3>2, <3>3, Zenon
  <2>. QED
    BY <2>1, <2>2, <2>3, Zenon
<1>9. S \cup {node} = {new[i] : i \in 1 .. (n + 1)}
  <2>1. ASSUME NEW x \in S PROVE \E i \in 1 .. (n + 1) : x = new[i]
    <3>1. PICK j \in 1 .. n : x = list[j]
      BY Zenon DEF BinOK, n
    <3>. QED
      BY <1>2, <1>4, <3>1, Zenon
  <2>2. \E i \in 1 .. (n + 1) : node = new[i]
    BY <1>1, Zenon
  <2>3. \A i \in 1 .. (n + 1) : new[i] \in S \cup {node}
    BY <1>1, <1>2, <1>3, Zenon
  <2>. QED
    BY <2>1, <2>2, <2>3, Zenon
<1>. QED
  BY <1>1, <1>7, <1>8, <1>9, Zenon DEF BinOK

\* add_node keeps the list in order.
LEMMA InsertOK ==
  ASSUME NEW list, NEW S, NEW sz, BinOK(list, S, sz), \A x \in S : sz[x] \in Nat,
         NEW node \in Nodes, node \notin S, sz[node] \in Nat
  PROVE  BinOK(Insert(list, node, sz), S \cup {node}, sz)
<1>. DEFINE I == {i \in 1 .. Len(list) : sz[list[i]] > sz[node]}
<1>1. list \in Seq(Nodes) /\ Len(list) \in Nat /\ \A j \in 1 .. Len(list) : list[j] \in S /\ sz[list[j]] \in Nat
  BY DEF BinOK
<1>0. DOMAIN list = 1 .. Len(list)
  BY <1>1
<1>2. I \in SUBSET Nat
  OBVIOUS
<1>3. CASE I = {}
  <2>. DEFINE k == Len(list) + 1
  <2>1. Insert(list, node, sz) = SubSeq(list, 1, k - 1) \o <<node>> \o SubSeq(list, k, Len(list))
    BY <1>0, <1>3, Zenon DEF Insert
  <2>2. \A j \in 1 .. Len(list) : j < Len(list) + 1 /\ sz[list[j]] <= sz[node]
    BY <1>1, <1>3
  <2>3. Len(list) + 1 \in 1 .. (Len(list) + 1)
    BY <1>1
  <2>4. InsertedAt(Insert(list, node, sz), list, k, node)
    BY <1>1, <2>1, <2>3, InsertShape, Zenon
  <2>. QED
    BY <2>2, <2>3, <2>4, InsertedOK, Zenon
<1>4. CASE I # {}
  <2>1. PICK k \in I : k = Min(I) /\ \A i \in I : k <= i
    BY <1>2, <1>4, MinOf, Zenon
  <2>2. k \in 1 .. (Len(list) + 1) /\ k \in 1 .. Len(list) /\ k \in Nat \ {0} /\ sz[list[k]] > sz[node]
    BY <1>1, <2>1
  <2>3. Insert(list, node, sz) = SubSeq(list, 1, k - 1) \o <<node>> \o SubSeq(list, k, Len(list))
    BY <1>0, <1>4, <2>1, Zenon DEF Insert
  <2>4. ASSUME NEW j \in 1 .. Len(list)
        PROVE  IF j < k THEN sz[list[j]] <= sz[node] ELSE sz[node] <= sz[list[j]]
    <3>1. CASE j < k
      <4>1. j \notin I
        BY <2>1, <2>2, <3>1
      <4>. QED
        BY <1>1, <3>1, <4>1
    <3>2. CASE ~ (j < k)
      <4>1. sz[list[k]] <= sz[list[j]]
        BY <1>1, <2>2, <3>2 DEF BinOK
      <4>. QED
        BY <1>1, <2>2, <3>2, <4>1
    <3>. QED
      BY <3>1, <3>2, Zenon
  <2>. QED
    BY <1>1, <2>2, <2>3, <2>4, InsertShape, InsertedOK, Zenon
<1>. QED
  BY <1>3, <1>4, Zenon

\* The new list is the old one without its position k.
DeletedAt(new, list, k) ==
  /\ new \in Seq(Nodes) /\ Len(new) = Len(list) - 1
  /\ \A j \in 1 .. (Len(list) - 1) : new[j] = list[IF j < k THEN j ELSE j + 1]

\* A sequence without its place k.
LEMMA DeleteShape ==
  ASSUME NEW list \in Seq(Nodes), NEW k \in 1 .. Len(list)
  PROVE  DeletedAt(SubSeq(list, 1, k - 1) \o SubSeq(list, k + 1, Len(list)), list, k)
<1>. DEFINE a == SubSeq(list, 1, k - 1)
            b == SubSeq(list, k + 1, Len(list))
<1>0. Len(list) \in Nat /\ k \in Nat
  OBVIOUS
<1>1. a \in Seq(Nodes) /\ Len(a) = k - 1 /\ \A j \in 1 .. (k - 1) : a[j] = list[j]
  OBVIOUS
<1>2. /\ b \in Seq(Nodes) /\ Len(b) = Len(list) - k
      /\ \A j \in 1 .. (Len(list) - k) : b[j] = list[(k + 1) + j - 1]
  OBVIOUS
<1>. HIDE DEF a, b
<1>3. /\ a \o b \in Seq(Nodes) /\ Len(a \o b) = Len(a) + Len(b)
      /\ \A i \in 1 .. (Len(a) + Len(b)) : (a \o b)[i] = IF i <= Len(a) THEN a[i] ELSE b[i - Len(a)]
  BY <1>1, <1>2, Concatenated, Zenon
<1>4. (k - 1) + (Len(list) - k) = Len(list) - 1
  BY <1>0
<1>5. ASSUME NEW j \in 1 .. (Len(list) - 1)
      PROVE  (a \o b)[j] = list[IF j < k THEN j ELSE j + 1]
  <2>1. CASE j < k
    <3>1. j \in 1 .. (k - 1) /\ j <= k - 1
      BY <1>0, <2>1
    <3>. QED
      BY <1>1, <1>2, <1>3, <1>4, <2>1, <3>1, Zenon
  <2>2. CASE ~ (j < k)
    <3>1. /\ ~ (j <= k - 1) /\ j - (k - 1) \in 1 .. (Len(list) - k)
          /\ (k + 1) + (j - (k - 1)) - 1 = j + 1
      BY <1>0, <2>2
    <3>. QED
      BY <1>1, <1>2, <1>3, <1>4, <2>2, <3>1, Zenon
  <2>. QED
    BY <2>1, <2>2, Zenon
<1>. QED
  BY <1>1, <1>2, <1>3, <1>4, <1>5, Zenon DEF DeletedAt, a, b

\* remove_node takes the node out and keeps the order of the others.
LEMMA DeleteOK ==
  ASSUME NEW list, NEW S, NEW sz, BinOK(list, S, sz), NEW node
  PROVE  BinOK(Delete(list, node), S \ {node}, sz)
<1>. DEFINE n == Len(list)
            I == {i \in 1 .. n : list[i] = node}
<1>1. /\ list \in Seq(Nodes) /\ n \in Nat /\ DOMAIN list = 1 .. n
      /\ \A i, j \in 1 .. n : i # j => list[i] # list[j]
      /\ \A i, j \in 1 .. n : i < j => sz[list[i]] <= sz[list[j]]
      /\ S = {list[i] : i \in 1 .. n}
  BY DEF BinOK
<1>2. CASE I = {}
  <2>1. Delete(list, node) = list
    BY <1>1, <1>2, Zenon DEF Delete
  <2>2. node \notin S
    BY <1>1, <1>2, Zenon
  <2>3. S \ {node} = S
    BY <2>2, Zenon
  <2>. QED
    BY <2>1, <2>3, Zenon
<1>3. CASE I # {}
  <2>0. I \in SUBSET Nat
    OBVIOUS
  <2>1. PICK k \in I : k = Min(I)
    BY <1>3, <2>0, MinOf, Zenon
  <2>2. k \in 1 .. n /\ list[k] = node
    BY <2>1, Zenon
  <2>3. Delete(list, node) = SubSeq(list, 1, k - 1) \o SubSeq(list, k + 1, Len(list))
    BY <1>1, <1>3, <2>1, Zenon DEF Delete
  <2>4. PICK new : new = Delete(list, node) /\ DeletedAt(new, list, k)
    BY <1>1, <2>2, <2>3, DeleteShape, Zenon
  <2>. DEFINE up(j) == IF j < k THEN j ELSE j + 1
  <2>. HIDE DEF n, I
  <2>5. new \in Seq(Nodes) /\ Len(new) = n - 1 /\ \A j \in 1 .. (n - 1) : new[j] = list[up(j)]
    BY <2>4, Zenon DEF DeletedAt, n
  <2>6. /\ \A j \in 1 .. (n - 1) : up(j) \in 1 .. n /\ up(j) # k
        /\ \A i, j \in 1 .. (n - 1) : (i < j => up(i) < up(j)) /\ (i # j => up(i) # up(j))
    BY <1>1, <2>2
  <2>7. \A i \in 1 .. n : i # k => \E j \in 1 .. (n - 1) : i = up(j)
    <3>. SUFFICES ASSUME NEW i \in 1 .. n, i # k PROVE \E j \in 1 .. (n - 1) : i = up(j)
      BY Zenon
    <3>1. CASE i < k
      <4>1. i \in 1 .. (n - 1) /\ i = up(i)
        BY <1>1, <2>2, <3>1
      <4>. QED
        BY <4>1, Zenon
    <3>2. CASE ~ (i < k)
      <4>1. i - 1 \in 1 .. (n - 1) /\ i = up(i - 1)
        BY <1>1, <2>2, <3>2
      <4>. QED
        BY <4>1, Zenon
    <3>. QED
      BY <3>1, <3>2, Zenon
  <2>. HIDE DEF up
  <2>8. \A i, j \in 1 .. (n - 1) : i # j => new[i] # new[j]
    BY <1>1, <2>5, <2>6, Zenon
  <2>9. \A i, j \in 1 .. (n - 1) : i < j => sz[new[i]] <= sz[new[j]]
    BY <1>1, <2>5, <2>6, Zenon
  <2>10. S \ {node} = {new[i] : i \in 1 .. (n - 1)}
    <3>1. ASSUME NEW x \in S, x # node PROVE \E i \in 1 .. (n - 1) : x = new[i]
      <4>1. PICK i \in 1 .. n : x = list[i]
        BY <1>1, Zenon
      <4>2. PICK j \in 1 .. (n - 1) : i = up(j)
        BY <2>2, <2>7, <3>1, <4>1, Zenon
      <4>. QED
        BY <2>5, <4>1, <4>2, Zenon
    <3>2. \A i \in 1 .. (n - 1) : new[i] \in S /\ new[i] # node
      BY <1>1, <2>2, <2>5, <2>6, Zenon
    <3>. QED
      BY <3>1, <3>2, Zenon
  <2>. QED
    BY <2>4, <2>5, <2>8, <2>9, <2>10, Zenon DEF BinOK
<1>. QED
  BY <1>2, <1>3, Zenon

\* Only the sizes of the nodes in the list matter.
LEMMA AgreeOK ==
  ASSUME NEW list, NEW S, NEW sz, NEW other, BinOK(list, S, sz),
         \A x \in S : other[x] = sz[x]
  PROVE  BinOK(list, S, other)
<1>1. \A i \in 1 .. Len(list) : other[list[i]] = sz[list[i]]
  BY Zenon DEF BinOK
<1>. QED
  BY <1>1, Zenon DEF BinOK

\* get_best_fit returns the smallest node that is large enough.
LEMMA BestFitOK ==
  ASSUME NEW list, NEW S, NEW sz, BinOK(list, S, sz), \A x \in S : sz[x] \in Nat, NEW want \in Nat
  PROVE  /\ Fits(list, want, sz) <=> \E x \in S : sz[x] >= want
         /\ Fits(list, want, sz) =>
              /\ BestFit(list, want, sz) \in S /\ sz[BestFit(list, want, sz)] >= want
              /\ \A x \in S : sz[x] >= want => sz[BestFit(list, want, sz)] <= sz[x]
<1>. DEFINE I == {i \in 1 .. Len(list) : sz[list[i]] >= want}
<1>1. /\ list \in Seq(Nodes) /\ Len(list) \in Nat /\ DOMAIN list = 1 .. Len(list)
      /\ S = {list[i] : i \in 1 .. Len(list)}
  BY DEF BinOK
<1>2. Fits(list, want, sz) <=> I # {}
  BY <1>1, Zenon DEF Fits
<1>3. I # {} <=> \E x \in S : sz[x] >= want
  BY <1>1, Zenon
<1>4. ASSUME I # {}
      PROVE  /\ BestFit(list, want, sz) \in S /\ sz[BestFit(list, want, sz)] >= want
             /\ \A x \in S : sz[x] >= want => sz[BestFit(list, want, sz)] <= sz[x]
  <2>0. I \in SUBSET Nat
    OBVIOUS
  <2>1. PICK k \in I : k = Min(I) /\ \A i \in I : k <= i
    BY <1>4, <2>0, MinOf, Zenon
  <2>2. BestFit(list, want, sz) = list[k]
    BY <1>1, <2>1, Zenon DEF BestFit
  <2>3. k \in 1 .. Len(list) /\ sz[list[k]] >= want /\ list[k] \in S /\ sz[list[k]] \in Nat
    BY <1>1, <2>1, Zenon
  <2>4. ASSUME NEW x \in S, sz[x] >= want PROVE sz[list[k]] <= sz[x]
    <3>1. PICK i \in I : x = list[i] /\ k <= i
      BY <1>1, <2>1, <2>4, Zenon
    <3>2. i \in 1 .. Len(list)
      BY Zenon
    <3>3. CASE i = k
      BY <2>3, <3>1, <3>3
    <3>4. CASE i # k
      <4>1. k < i
        BY <1>1, <2>3, <3>1, <3>2, <3>4
      <4>. QED
        BY <2>3, <3>1, <3>2, <4>1, Zenon DEF BinOK
    <3>. QED
      BY <3>3, <3>4, Zenon
  <2>. QED
    BY <2>2, <2>3, <2>4, Zenon
<1>. QED
  BY <1>2, <1>3, <1>4, Zenon

-----------------------------------------------------------------------------
\* The pointers of a bin.

\* The node at position k, NULL behind the last.
At(list, k) == IF k \in 1 .. Len(list) THEN list[k] ELSE NULL

\* Each node at most once.
Once(list) == list \in Seq(Nodes) /\ \A i, j \in 1 .. Len(list) : i # j => list[i] # list[j]

\* h and nx lead along the list, pv back from every node but the first.
Linked(list, h, nx) == h = At(list, 1) /\ \A i \in 1 .. Len(list) : nx[list[i]] = At(list, i + 1)
Back(list, pv) == \A i \in 2 .. Len(list) : pv[list[i]] = list[i - 1]

\* A function that follows nx from h, as Step follows next from head.
Follows(g, h, nx) ==
  g = [k \in Nat |-> IF k = 0 THEN h ELSE IF g[k - 1] = NULL THEN NULL ELSE nx[g[k - 1]]]

\* There is such a function, and it walks along the list.
LEMMA Unrolled ==
  ASSUME NULL \notin Nodes, NEW list, Once(list), NEW h, NEW nx, Linked(list, h, nx)
  PROVE  /\ \E g : Follows(g, h, nx)
         /\ \A g : Follows(g, h, nx) => \A k \in Nat : g[k] = At(list, k + 1)
<1>. DEFINE f == [k \in Nat |-> At(list, k + 1)]
            n == Len(list)
<1>1. n \in Nat /\ \A k \in 1 .. n : list[k] \in Nodes
  BY DEF Once
<1>2. h = At(list, 1) /\ \A k \in 1 .. n : nx[list[k]] = At(list, k + 1)
  BY Zenon DEF Linked
<1>3. ASSUME NEW k \in Nat \ {0}
      PROVE  At(list, k + 1) = IF At(list, k) = NULL THEN NULL ELSE nx[At(list, k)]
  <2>1. CASE k \in 1 .. n
    BY <1>1, <1>2, <2>1, Zenon DEF At
  <2>2. CASE k \notin 1 .. n
    <3>1. k + 1 \notin 1 .. n
      BY <1>1, <2>2
    <3>. QED
      BY <2>2, <3>1, Zenon DEF At
  <2>. QED
    BY <2>1, <2>2, Zenon
<1>4. \A k \in Nat : k # 0 => k - 1 \in Nat /\ (k - 1) + 1 = k /\ k - 1 < k
  OBVIOUS
<1>5. 0 + 1 = 1
  OBVIOUS
<1>. HIDE DEF n
<1>6. Follows(f, h, nx)
  <2>1. ASSUME NEW k \in Nat
        PROVE  f[k] = IF k = 0 THEN h ELSE IF f[k - 1] = NULL THEN NULL ELSE nx[f[k - 1]]
    <3>1. CASE k = 0
      BY <1>2, <1>5, <3>1, Zenon
    <3>2. CASE k # 0
      <4>1. f[k - 1] = At(list, k) /\ f[k] = At(list, k + 1)
        BY <1>4, <3>2, Zenon
      <4>. QED
        BY <1>3, <3>2, <4>1, Zenon
    <3>. QED
      BY <3>1, <3>2, Zenon
  <2>2. f = [k \in Nat |-> f[k]]
    BY Zenon
  <2>. HIDE DEF f
  <2>. QED
    BY <2>1, <2>2, Zenon DEF Follows
<1>7. ASSUME NEW g, Follows(g, h, nx), NEW k \in Nat PROVE g[k] = At(list, k + 1)
  <2>. DEFINE wrong == {i \in Nat : g[i] # At(list, i + 1)}
  <2>1. \A i \in Nat : g[i] = IF i = 0 THEN h ELSE IF g[i - 1] = NULL THEN NULL ELSE nx[g[i - 1]]
    BY <1>7 DEF Follows
  <2>2. ASSUME wrong # {} PROVE FALSE
    <3>1. PICK i \in wrong : \A j \in wrong : i <= j
      BY <2>2, LeastNatural, Zenon
    <3>2. i \in Nat /\ g[i] # At(list, i + 1)
      BY Zenon
    <3>3. i # 0
      BY <1>2, <1>5, <2>1, <3>2, Zenon
    <3>4. i - 1 \notin wrong
      <4>1. ~ (i <= i - 1)
        BY <3>2
      <4>. QED
        BY <3>1, <4>1, Zenon
    <3>5. g[i - 1] = At(list, i)
      BY <1>4, <3>2, <3>3, <3>4, Zenon
    <3>. QED
      BY <1>3, <2>1, <3>2, <3>3, <3>5, Zenon
  <2>. QED
    BY <2>2, Zenon
<1>. QED
  BY <1>6, <1>7, Zenon

\* What the four cases of add_node leave in the pointers.
LinkedIn(list, node, k, h, nx, pv, h2, nx2, pv2) ==
  /\ h2 = IF k = 1 THEN node ELSE h
  /\ nx2[node] = At(list, k) /\ (k > 1 => pv2[node] = list[k - 1])
  /\ \A i \in 1 .. Len(list) : nx2[list[i]] = IF i = k - 1 THEN node ELSE nx[list[i]]
  /\ \A i \in 1 .. Len(list) : pv2[list[i]] = IF i = k THEN node ELSE pv[list[i]]

\* They link the node in.
LEMMA LinkedAdd ==
  ASSUME NEW list, Once(list), NEW node, NEW k \in 1 .. (Len(list) + 1),
         NEW new, InsertedAt(new, list, k, node),
         NEW h, NEW nx, NEW pv, Linked(list, h, nx), Back(list, pv),
         NEW h2, NEW nx2, NEW pv2, LinkedIn(list, node, k, h, nx, pv, h2, nx2, pv2)
  PROVE  Linked(new, h2, nx2) /\ Back(new, pv2)
<1>. /\ h2 = IF k = 1 THEN node ELSE h
     /\ nx2[node] = At(list, k) /\ (k > 1 => pv2[node] = list[k - 1])
     /\ \A i \in 1 .. Len(list) : nx2[list[i]] = IF i = k - 1 THEN node ELSE nx[list[i]]
     /\ \A i \in 1 .. Len(list) : pv2[list[i]] = IF i = k THEN node ELSE pv[list[i]]
  BY Zenon DEF LinkedIn
<1>. DEFINE n == Len(list)
<1>1. n \in Nat /\ k \in 1 .. (n + 1) /\ Len(new) = n + 1 /\ new[k] = node
  BY DEF Once, InsertedAt
<1>2. /\ \A j \in 1 .. n : j < k => new[j] = list[j]
      /\ \A j \in 1 .. n : ~ (j < k) => new[j + 1] = list[j]
  BY Zenon DEF InsertedAt
<1>3. /\ h = At(list, 1) /\ \A i \in 1 .. n : nx[list[i]] = At(list, i + 1)
      /\ \A i \in 2 .. n : pv[list[i]] = list[i - 1]
  BY Zenon DEF Linked, Back
<1>4. /\ \A j \in 1 .. n : At(list, j) = list[j]
      /\ \A j : j \notin 1 .. n => At(list, j) = NULL
      /\ \A j \in 1 .. (n + 1) : At(new, j) = new[j]
      /\ \A j : j \notin 1 .. (n + 1) => At(new, j) = NULL
  BY <1>1, Zenon DEF At
<1>. HIDE DEF n
<1>5. /\ \A i \in 1 .. n : nx2[list[i]] = IF i = k - 1 THEN node ELSE nx[list[i]]
      /\ \A i \in 1 .. n : pv2[list[i]] = IF i = k THEN node ELSE pv[list[i]]
  BY Zenon DEF n
<1>6. h2 = At(new, 1)
  <2>1. CASE k = 1
    BY <1>1, <1>4, <2>1
  <2>2. CASE k # 1
    <3>1. 1 \in 1 .. n /\ 1 < k /\ 1 \in 1 .. (n + 1)
      BY <1>1, <2>2
    <3>2. new[1] = list[1] /\ At(list, 1) = list[1] /\ At(new, 1) = new[1]
      BY <1>2, <1>4, <3>1, Zenon
    <3>. QED
      BY <1>3, <2>2, <3>2, Zenon
  <2>. QED
    BY <2>1, <2>2, Zenon
<1>7. ASSUME NEW i \in 1 .. (n + 1) PROVE nx2[new[i]] = At(new, i + 1)
  <2>1. CASE i < k - 1
    <3>1. i \in 1 .. n /\ i + 1 \in 1 .. n /\ i < k /\ i + 1 < k /\ i # k - 1 /\ i + 1 \in 1 .. (n + 1)
      BY <1>1, <2>1
    <3>2. new[i] = list[i] /\ new[i + 1] = list[i + 1]
      BY <1>2, <3>1, Zenon
    <3>3. nx2[list[i]] = nx[list[i]] /\ nx[list[i]] = At(list, i + 1)
      BY <1>3, <1>5, <3>1, Zenon
    <3>4. At(list, i + 1) = list[i + 1] /\ At(new, i + 1) = new[i + 1]
      BY <1>4, <3>1, Zenon
    <3>. QED
      BY <3>2, <3>3, <3>4, Zenon
  <2>2. CASE i = k - 1
    <3>1. i \in 1 .. n /\ i < k /\ i + 1 = k /\ k \in 1 .. (n + 1)
      BY <1>1, <2>2
    <3>2. new[i] = list[i] /\ nx2[list[i]] = node
      BY <1>2, <1>5, <2>2, <3>1, Zenon
    <3>3. At(new, k) = node
      BY <1>1, <1>4, <3>1, Zenon
    <3>. QED
      BY <3>1, <3>2, <3>3, Zenon
  <2>3. CASE i = k
    <3>1. CASE k \in 1 .. n
      <4>1. k + 1 \in 1 .. (n + 1) /\ ~ (k < k)
        BY <1>1, <3>1
      <4>2. new[k + 1] = list[k] /\ At(list, k) = list[k] /\ At(new, k + 1) = new[k + 1]
        BY <1>2, <1>4, <3>1, <4>1, Zenon
      <4>. QED
        BY <1>1, <2>3, <4>2, Zenon
    <3>2. CASE k \notin 1 .. n
      <4>1. k + 1 \notin 1 .. (n + 1)
        BY <1>1, <3>2
      <4>. QED
        BY <1>1, <1>4, <2>3, <3>2, <4>1, Zenon
    <3>. QED
      BY <3>1, <3>2, Zenon
  <2>4. CASE i > k
    <3>. DEFINE j == i - 1
    <3>1. j \in 1 .. n /\ ~ (j < k) /\ j # k - 1 /\ j + 1 = i
      BY <1>1, <2>4
    <3>2. new[i] = list[j] /\ nx2[list[j]] = At(list, i)
      BY <1>2, <1>3, <1>5, <3>1, Zenon
    <3>3. CASE i \in 1 .. n
      <4>1. ~ (i < k) /\ i + 1 \in 1 .. (n + 1)
        BY <1>1, <2>4, <3>3
      <4>2. new[i + 1] = list[i] /\ At(list, i) = list[i] /\ At(new, i + 1) = new[i + 1]
        BY <1>2, <1>4, <3>3, <4>1, Zenon
      <4>. QED
        BY <3>2, <4>2, Zenon
    <3>4. CASE i \notin 1 .. n
      <4>1. i + 1 \notin 1 .. (n + 1)
        BY <1>1, <3>4
      <4>. QED
        BY <1>4, <3>2, <3>4, <4>1, Zenon
    <3>. QED
      BY <3>3, <3>4, Zenon
  <2>. QED
    BY <1>1, <2>1, <2>2, <2>3, <2>4
<1>8. ASSUME NEW i \in 2 .. (n + 1) PROVE pv2[new[i]] = new[i - 1]
  <2>1. CASE i < k
    <3>1. i \in 1 .. n /\ i \in 2 .. n /\ i - 1 \in 1 .. n /\ i - 1 < k /\ i # k
      BY <1>1, <2>1
    <3>. QED
      BY <1>2, <1>3, <1>5, <2>1, <3>1, Zenon
  <2>2. CASE i = k
    <3>1. k > 1 /\ k - 1 \in 1 .. n /\ k - 1 < k
      BY <1>1, <2>2
    <3>. QED
      BY <1>1, <1>2, <2>2, <3>1, Zenon
  <2>3. CASE i = k + 1
    <3>1. k \in 1 .. n /\ ~ (k < k) /\ i - 1 = k
      BY <1>1, <2>3
    <3>. QED
      BY <1>1, <1>2, <1>5, <2>3, <3>1, Zenon
  <2>4. CASE i > k + 1
    <3>. DEFINE j == i - 1
    <3>1. /\ j \in 1 .. n /\ j \in 2 .. n /\ ~ (j < k) /\ j # k /\ j + 1 = i
          /\ j - 1 \in 1 .. n /\ ~ (j - 1 < k) /\ (j - 1) + 1 = i - 1
      BY <1>1, <2>4
    <3>2. new[i] = list[j] /\ pv2[list[j]] = list[j - 1]
      BY <1>2, <1>3, <1>5, <3>1, Zenon
    <3>3. new[i - 1] = list[j - 1]
      BY <1>2, <3>1, Zenon
    <3>. QED
      BY <3>2, <3>3, Zenon
  <2>. QED
    BY <1>1, <2>1, <2>2, <2>3, <2>4
<1>. QED
  BY <1>1, <1>6, <1>7, <1>8, Zenon DEF Linked, Back

\* What remove_node leaves in the pointers.
LinkedOut(list, k, h, nx, pv, h2, nx2, pv2) ==
  /\ h2 = IF k = 1 THEN At(list, 2) ELSE h
  /\ \A i \in 1 .. Len(list) : i # k => nx2[list[i]] = IF i = k - 1 THEN At(list, k + 1) ELSE nx[list[i]]
  /\ \A i \in 1 .. Len(list) : i # k => pv2[list[i]] = IF k > 1 /\ i = k + 1 THEN list[k - 1] ELSE pv[list[i]]

\* It links the neighbours of the node.
LEMMA LinkedDel ==
  ASSUME NEW list, Once(list), NEW k \in 1 .. Len(list), NEW new, DeletedAt(new, list, k),
         NEW h, NEW nx, NEW pv, Linked(list, h, nx), Back(list, pv),
         NEW h2, NEW nx2, NEW pv2, LinkedOut(list, k, h, nx, pv, h2, nx2, pv2)
  PROVE  Linked(new, h2, nx2) /\ Back(new, pv2)
<1>. /\ h2 = IF k = 1 THEN At(list, 2) ELSE h
     /\ \A i \in 1 .. Len(list) : i # k => nx2[list[i]] = IF i = k - 1 THEN At(list, k + 1) ELSE nx[list[i]]
     /\ \A i \in 1 .. Len(list) : i # k => pv2[list[i]] = IF k > 1 /\ i = k + 1 THEN list[k - 1] ELSE pv[list[i]]
  BY Zenon DEF LinkedOut
<1>. DEFINE n == Len(list)
<1>1. n \in Nat /\ k \in 1 .. n /\ Len(new) = n - 1
  BY DEF Once, DeletedAt
<1>2. /\ \A j \in 1 .. (n - 1) : j < k => new[j] = list[j]
      /\ \A j \in 1 .. (n - 1) : ~ (j < k) => new[j] = list[j + 1]
  BY Zenon DEF DeletedAt
<1>3. /\ h = At(list, 1) /\ \A i \in 1 .. n : nx[list[i]] = At(list, i + 1)
      /\ \A i \in 2 .. n : pv[list[i]] = list[i - 1]
  BY Zenon DEF Linked, Back
<1>4. /\ \A j \in 1 .. n : At(list, j) = list[j]
      /\ \A j : j \notin 1 .. n => At(list, j) = NULL
      /\ \A j \in 1 .. (n - 1) : At(new, j) = new[j]
      /\ \A j : j \notin 1 .. (n - 1) => At(new, j) = NULL
  BY <1>1, Zenon DEF At
<1>. HIDE DEF n
<1>5. /\ \A i \in 1 .. n : i # k => nx2[list[i]] = IF i = k - 1 THEN At(list, k + 1) ELSE nx[list[i]]
      /\ \A i \in 1 .. n : i # k => pv2[list[i]] = IF k > 1 /\ i = k + 1 THEN list[k - 1] ELSE pv[list[i]]
  BY Zenon DEF n
\* What follows the node moves up by one.
<1>6. \A i \in Nat : i >= k => At(new, i) = At(list, i + 1)
  <2>. SUFFICES ASSUME NEW i \in Nat, i >= k PROVE At(new, i) = At(list, i + 1)
    BY Zenon
  <2>1. CASE i \in 1 .. (n - 1)
    <3>1. ~ (i < k) /\ i + 1 \in 1 .. n
      BY <1>1, <2>1
    <3>2. new[i] = list[i + 1] /\ At(new, i) = new[i] /\ At(list, i + 1) = list[i + 1]
      BY <1>2, <1>4, <2>1, <3>1, Zenon
    <3>. QED
      BY <3>2, Zenon
  <2>2. CASE i \notin 1 .. (n - 1)
    <3>1. i + 1 \notin 1 .. n
      BY <1>1, <2>2
    <3>. QED
      BY <1>4, <2>2, <3>1, Zenon
  <2>. QED
    BY <2>1, <2>2, Zenon
<1>7. h2 = At(new, 1)
  <2>1. CASE k = 1
    <3>1. 1 \in Nat /\ 1 >= k /\ 1 + 1 = 2
      BY <2>1
    <3>. QED
      BY <1>6, <2>1, <3>1, Zenon
  <2>2. CASE k # 1
    <3>1. 1 \in 1 .. (n - 1) /\ 1 < k /\ 1 \in 1 .. n
      BY <1>1, <2>2
    <3>2. new[1] = list[1] /\ At(list, 1) = list[1] /\ At(new, 1) = new[1]
      BY <1>2, <1>4, <3>1, Zenon
    <3>. QED
      BY <1>3, <2>2, <3>2, Zenon
  <2>. QED
    BY <2>1, <2>2, Zenon
<1>8. ASSUME NEW i \in 1 .. (n - 1) PROVE nx2[new[i]] = At(new, i + 1)
  <2>1. CASE i < k - 1
    <3>1. /\ i \in 1 .. n /\ i + 1 \in 1 .. n /\ i < k /\ i + 1 < k /\ i # k - 1 /\ i # k
          /\ i + 1 \in 1 .. (n - 1)
      BY <1>1, <2>1
    <3>2. new[i] = list[i] /\ new[i + 1] = list[i + 1]
      BY <1>2, <3>1, Zenon
    <3>3. nx2[list[i]] = nx[list[i]] /\ nx[list[i]] = At(list, i + 1)
      BY <1>3, <1>5, <3>1, Zenon
    <3>4. At(list, i + 1) = list[i + 1] /\ At(new, i + 1) = new[i + 1]
      BY <1>4, <3>1, Zenon
    <3>. QED
      BY <3>2, <3>3, <3>4, Zenon
  <2>2. CASE i = k - 1
    <3>1. i \in 1 .. n /\ i < k /\ i # k /\ i + 1 = k /\ k \in Nat /\ k >= k
      BY <1>1, <2>2
    <3>2. new[i] = list[i] /\ nx2[list[i]] = At(list, k + 1)
      BY <1>2, <1>5, <2>2, <3>1, Zenon
    <3>3. At(new, k) = At(list, k + 1)
      BY <1>6, <3>1, Zenon
    <3>. QED
      BY <3>1, <3>2, <3>3, Zenon
  <2>3. CASE i >= k
    <3>. DEFINE j == i + 1
    <3>1. ~ (i < k) /\ j \in 1 .. n /\ j # k /\ j # k - 1 /\ j \in Nat /\ j >= k
      BY <1>1, <2>3
    <3>2. new[i] = list[j]
      BY <1>2, <3>1, Zenon
    <3>. HIDE DEF j
    <3>3. nx2[list[j]] = nx[list[j]] /\ nx[list[j]] = At(list, j + 1)
      BY <1>3, <1>5, <3>1, Zenon
    <3>4. At(new, j) = At(list, j + 1)
      BY <1>6, <3>1, Zenon
    <3>. QED
      BY <3>2, <3>3, <3>4, Zenon DEF j
  <2>. QED
    BY <1>1, <2>1, <2>2, <2>3
<1>9. ASSUME NEW i \in 2 .. (n - 1) PROVE pv2[new[i]] = new[i - 1]
  <2>1. CASE i < k
    <3>1. /\ i \in 1 .. (n - 1) /\ i \in 1 .. n /\ i \in 2 .. n /\ i # k /\ i # k + 1
          /\ i - 1 \in 1 .. (n - 1) /\ i - 1 < k
      BY <1>1, <2>1
    <3>2. new[i] = list[i] /\ new[i - 1] = list[i - 1]
      BY <1>2, <2>1, <3>1, Zenon
    <3>3. pv2[list[i]] = pv[list[i]] /\ pv[list[i]] = list[i - 1]
      BY <1>3, <1>5, <3>1, Zenon
    <3>. QED
      BY <3>2, <3>3, Zenon
  <2>2. CASE i = k
    <3>1. k > 1 /\ k + 1 \in 1 .. n /\ k + 1 # k /\ ~ (i < k) /\ i \in 1 .. (n - 1) /\ i - 1 \in 1 .. (n - 1) /\ i - 1 < k
      BY <1>1, <2>2
    <3>2. new[i] = list[k + 1] /\ new[i - 1] = list[k - 1]
      BY <1>2, <2>2, <3>1, Zenon
    <3>3. pv2[list[k + 1]] = list[k - 1]
      BY <1>5, <3>1, Zenon
    <3>. QED
      BY <3>2, <3>3, Zenon
  <2>3. CASE i > k
    <3>1. /\ i \in 1 .. (n - 1) /\ ~ (i < k) /\ i + 1 \in 1 .. n /\ i + 1 \in 2 .. n /\ i + 1 # k /\ i + 1 # k + 1
          /\ i - 1 \in 1 .. (n - 1) /\ ~ (i - 1 < k) /\ (i - 1) + 1 = i /\ (i + 1) - 1 = i
      BY <1>1, <2>3
    <3>2. new[i] = list[i + 1] /\ new[i - 1] = list[i]
      <4>1. new[i - 1] = list[(i - 1) + 1]
        BY <1>2, <3>1, Zenon
      <4>2. list[(i - 1) + 1] = list[i]
        BY <3>1, Zenon
      <4>. QED
        BY <1>2, <3>1, <4>1, <4>2, Zenon
    <3>3. pv2[list[i + 1]] = pv[list[i + 1]]
      BY <1>5, <3>1, Zenon
    <3>4. pv[list[i + 1]] = list[i]
      <4>1. pv[list[i + 1]] = list[(i + 1) - 1]
        BY <1>3, <3>1, Zenon
      <4>2. list[(i + 1) - 1] = list[i]
        BY <3>1, Zenon
      <4>. QED
        BY <4>1, <4>2, Zenon
    <3>. QED
      BY <3>2, <3>3, <3>4, Zenon
  <2>. QED
    BY <1>1, <2>1, <2>2, <2>3
<1>. QED
  BY <1>1, <1>7, <1>8, <1>9, Zenon DEF Linked, Back

\* A pointer is written: new is f with b at a.
Set(new, f, a, b) ==
  /\ new \in [Nodes -> Nodes \cup {NULL}] /\ new[a] = b
  /\ \A x \in Nodes : x # a => new[x] = f[x]

\* An assignment to a pointer changes that pointer only.
LEMMA PointerSet ==
  ASSUME NEW f \in [Nodes -> Nodes \cup {NULL}], NEW a \in Nodes, NEW b \in Nodes \cup {NULL}
  PROVE  Set([f EXCEPT ![a] = b], f, a, b)
BY Zenon DEF Set

\* Two pointers are written.
Set2(new, f, a, b, c, d) ==
  /\ new \in [Nodes -> Nodes \cup {NULL}] /\ new[a] = b /\ new[c] = d
  /\ \A x \in Nodes : x # a /\ x # c => new[x] = f[x]

\* Two assignments to the pointers of different nodes.
LEMMA PointersSet ==
  ASSUME NEW f \in [Nodes -> Nodes \cup {NULL}], NEW a \in Nodes, NEW b \in Nodes \cup {NULL},
         NEW c \in Nodes, NEW d \in Nodes \cup {NULL}, a # c
  PROVE  Set2([[f EXCEPT ![a] = b] EXCEPT ![c] = d], f, a, b, c, d)
<1>. DEFINE g == [f EXCEPT ![a] = b]
<1>1. Set(g, f, a, b)
  BY PointerSet, Zenon
<1>2. g \in [Nodes -> Nodes \cup {NULL}]
  BY <1>1, Zenon DEF Set
<1>. HIDE DEF g
<1>3. Set([g EXCEPT ![c] = d], g, c, d)
  BY <1>2, PointerSet, Zenon
<1>4. Set2([g EXCEPT ![c] = d], f, a, b, c, d)
  <2>1. [g EXCEPT ![c] = d][a] = g[a] /\ g[a] = b
    BY <1>1, <1>3, Zenon DEF Set
  <2>2. \A x \in Nodes : x # a /\ x # c => [g EXCEPT ![c] = d][x] = g[x] /\ g[x] = f[x]
    BY <1>1, <1>3, Zenon DEF Set
  <2>. QED
    BY <1>3, <2>1, <2>2, Zenon DEF Set, Set2
<1>. QED
  BY <1>4, Zenon DEF g

\* The node at position k of the list, the one add_node's loop stops at, and the
\* one in front of it.
Place(w, sz, s) ==
  LET larger == {i \in 1 .. Len(w) : sz[w[i]] > s}
  IN IF larger = {} THEN Len(w) + 1 ELSE Min(larger)

\* The place is in the list or behind it, and is what add_node computes.
LEMMA Placed ==
  ASSUME NEW w \in Seq(Nodes), NEW sz, NEW s
  PROVE  /\ Place(w, sz, s) \in 1 .. (Len(w) + 1)
         /\ {i \in DOMAIN w : sz[w[i]] > s} = {} <=> Place(w, sz, s) = Len(w) + 1
         /\ Place(w, sz, s) = IF {i \in DOMAIN w : sz[w[i]] > s} = {} THEN Len(w) + 1
                              ELSE Min({i \in DOMAIN w : sz[w[i]] > s})
<1>. DEFINE larger == {i \in 1 .. Len(w) : sz[w[i]] > s}
<1>1. DOMAIN w = 1 .. Len(w) /\ Len(w) \in Nat
  OBVIOUS
<1>2. larger \in SUBSET (1 .. Len(w)) /\ larger \in SUBSET Nat
  BY <1>1
<1>3. larger # {} => Min(larger) \in larger
  BY <1>2, MinOf, Zenon
<1>4. larger # {} => Min(larger) \in 1 .. Len(w)
  BY <1>2, <1>3, Zenon
<1>5. Place(w, sz, s) = IF larger = {} THEN Len(w) + 1 ELSE Min(larger)
  BY Zenon DEF Place
<1>6. {i \in DOMAIN w : sz[w[i]] > s} = larger
  BY <1>1, Zenon
<1>. HIDE DEF larger
<1>7. CASE larger = {}
  BY <1>1, <1>5, <1>6, <1>7
<1>8. CASE larger # {}
  <2>1. PICK m : m = Min(larger)
    BY Zenon
  <2>2. m \in 1 .. (Len(w) + 1) /\ m # Len(w) + 1
    BY <1>1, <1>4, <1>8, <2>1
  <2>3. Place(w, sz, s) = m
    BY <1>5, <1>8, <2>1, Zenon
  <2>. QED
    BY <1>6, <1>8, <2>1, <2>2, <2>3, Zenon
<1>. QED
  BY <1>7, <1>8

\* The cases of add_node, by where the node goes in the list w.
InEmpty(w, k, node, h, nx, pv, h2, nx2, pv2) ==
  /\ Len(w) = 0 /\ k = 1 /\ h2 = node
  /\ nx2 = [nx EXCEPT ![node] = NULL] /\ pv2 = [pv EXCEPT ![node] = NULL]

AtEnd(w, k, node, h, nx, pv, h2, nx2, pv2) ==
  /\ k > 1 /\ k = Len(w) + 1 /\ h2 = h
  /\ nx2 = [[nx EXCEPT ![node] = NULL] EXCEPT ![w[k - 1]] = node]
  /\ pv2 = [pv EXCEPT ![node] = w[k - 1]]

InMiddle(w, k, node, h, nx, pv, h2, nx2, pv2) ==
  /\ k > 1 /\ k <= Len(w) /\ h2 = h
  /\ nx2 = [[nx EXCEPT ![node] = w[k]] EXCEPT ![w[k - 1]] = node]
  /\ pv2 = [[pv EXCEPT ![node] = w[k - 1]] EXCEPT ![w[k]] = node]

AtFront(w, k, node, h, nx, pv, h2, nx2, pv2) ==
  /\ k = 1 /\ Len(w) >= 1 /\ h2 = node
  /\ nx2 = [nx EXCEPT ![node] = w[1]]
  /\ pv2 = [[pv EXCEPT ![node] = NULL] EXCEPT ![w[1]] = node]

AddedIn(w, k, node, h, nx, pv, h2, nx2, pv2) ==
  \/ InEmpty(w, k, node, h, nx, pv, h2, nx2, pv2) \/ AtEnd(w, k, node, h, nx, pv, h2, nx2, pv2)
  \/ InMiddle(w, k, node, h, nx, pv, h2, nx2, pv2) \/ AtFront(w, k, node, h, nx, pv, h2, nx2, pv2)

\* Each case writes the same pointers, as far as the list reads them.
LEMMA AddLinksIn ==
  ASSUME NEW w, Once(w), NEW h, NEW nx \in [Nodes -> Nodes \cup {NULL}],
         NEW pv \in [Nodes -> Nodes \cup {NULL}], NEW node \in Nodes,
         \A i \in 1 .. Len(w) : w[i] # node, NEW k \in 1 .. (Len(w) + 1),
         NEW h2, NEW nx2, NEW pv2, AddedIn(w, k, node, h, nx, pv, h2, nx2, pv2)
  PROVE  /\ nx2 \in [Nodes -> Nodes \cup {NULL}] /\ pv2 \in [Nodes -> Nodes \cup {NULL}]
         /\ LinkedIn(w, node, k, h, nx, pv, h2, nx2, pv2)
<1>1. w \in Seq(Nodes)
  BY Zenon DEF Once
<1>2. Len(w) \in Nat /\ \A i \in 1 .. Len(w) : w[i] \in Nodes
  BY <1>1
<1>3. \A i \in 1 .. Len(w) : w[i] \in Nodes /\ w[i] # node
  BY <1>2, Zenon
<1>4. nx \in [Nodes -> Nodes \cup {NULL}] /\ pv \in [Nodes -> Nodes \cup {NULL}]
  BY Zenon
<1>5. k \in 1 .. (Len(w) + 1)
  BY Zenon
<1>6. \A i, j \in 1 .. Len(w) : i # j => w[i] # w[j]
  BY Zenon DEF Once
<1>7. CASE InEmpty(w, k, node, h, nx, pv, h2, nx2, pv2)
  <2>1. Set(nx2, nx, node, NULL) /\ Set(pv2, pv, node, NULL)
    BY <1>4, <1>7, PointerSet, Zenon DEF InEmpty
  <2>2. At(w, k) = NULL /\ ~ (k > 1) /\ \A i \in 1 .. Len(w) : FALSE
    BY <1>7 DEF At, InEmpty
  <2>. QED
    BY <1>7, <2>1, <2>2, Zenon DEF Set, LinkedIn, InEmpty
<1>8. CASE AtEnd(w, k, node, h, nx, pv, h2, nx2, pv2)
  <2>0. At(w, k) = NULL /\ k # 1 /\ k - 1 \in 1 .. Len(w) /\ \A i \in 1 .. Len(w) : i # k
    BY <1>2, <1>8 DEF At, AtEnd
  <2>1. Set2(nx2, nx, node, NULL, w[k - 1], node)
    BY <1>3, <1>4, <1>8, <2>0, PointersSet, Zenon DEF AtEnd
  <2>2. Set(pv2, pv, node, w[k - 1])
    BY <1>3, <1>4, <1>8, <2>0, PointerSet, Zenon DEF AtEnd
  <2>3. \A i \in 1 .. Len(w) : nx2[w[i]] = IF i = k - 1 THEN node ELSE nx[w[i]]
    BY <1>3, <1>6, <2>0, <2>1, Zenon DEF Set2
  <2>4. \A i \in 1 .. Len(w) : pv2[w[i]] = IF i = k THEN node ELSE pv[w[i]]
    BY <1>3, <2>0, <2>2, Zenon DEF Set
  <2>5. /\ nx2 \in [Nodes -> Nodes \cup {NULL}] /\ pv2 \in [Nodes -> Nodes \cup {NULL}]
        /\ nx2[node] = At(w, k) /\ pv2[node] = w[k - 1]
    BY <2>0, <2>1, <2>2, Zenon DEF Set, Set2
  <2>. QED
    BY <1>8, <2>0, <2>3, <2>4, <2>5, Zenon DEF LinkedIn, AtEnd
<1>9. CASE InMiddle(w, k, node, h, nx, pv, h2, nx2, pv2)
  <2>0. At(w, k) = w[k] /\ k # 1 /\ k - 1 \in 1 .. Len(w) /\ k \in 1 .. Len(w)
    BY <1>2, <1>5, <1>9 DEF At, InMiddle
  <2>1. Set2(nx2, nx, node, w[k], w[k - 1], node)
    BY <1>3, <1>4, <1>9, <2>0, PointersSet, Zenon DEF InMiddle
  <2>2. Set2(pv2, pv, node, w[k - 1], w[k], node)
    BY <1>3, <1>4, <1>9, <2>0, PointersSet, Zenon DEF InMiddle
  <2>3. \A i \in 1 .. Len(w) : nx2[w[i]] = IF i = k - 1 THEN node ELSE nx[w[i]]
    BY <1>3, <1>6, <2>0, <2>1, Zenon DEF Set2
  <2>4. \A i \in 1 .. Len(w) : pv2[w[i]] = IF i = k THEN node ELSE pv[w[i]]
    BY <1>3, <1>6, <2>0, <2>2, Zenon DEF Set2
  <2>5. /\ nx2 \in [Nodes -> Nodes \cup {NULL}] /\ pv2 \in [Nodes -> Nodes \cup {NULL}]
        /\ nx2[node] = At(w, k) /\ pv2[node] = w[k - 1]
    BY <2>0, <2>1, <2>2, Zenon DEF Set2
  <2>. QED
    BY <1>9, <2>0, <2>3, <2>4, <2>5, Zenon DEF LinkedIn, InMiddle
<1>10. CASE AtFront(w, k, node, h, nx, pv, h2, nx2, pv2)
  <2>0. At(w, k) = w[1] /\ ~ (k > 1) /\ 1 \in 1 .. Len(w) /\ \A i \in 1 .. Len(w) : i # k - 1
    BY <1>2, <1>10 DEF At, AtFront
  <2>1. Set(nx2, nx, node, w[1])
    BY <1>3, <1>4, <1>10, <2>0, PointerSet, Zenon DEF AtFront
  <2>2. Set2(pv2, pv, node, NULL, w[1], node)
    BY <1>3, <1>4, <1>10, <2>0, PointersSet, Zenon DEF AtFront
  <2>3. \A i \in 1 .. Len(w) : nx2[w[i]] = IF i = k - 1 THEN node ELSE nx[w[i]]
    BY <1>3, <2>0, <2>1, Zenon DEF Set
  <2>4. \A i \in 1 .. Len(w) : pv2[w[i]] = IF i = k THEN node ELSE pv[w[i]]
    <3>1. pv2[w[1]] = node /\ \A i \in 1 .. Len(w) : i # 1 => pv2[w[i]] = pv[w[i]]
      BY <1>3, <1>6, <2>0, <2>2, Zenon DEF Set2
    <3>. QED
      BY <1>10, <3>1, Zenon DEF AtFront
  <2>5. /\ nx2 \in [Nodes -> Nodes \cup {NULL}] /\ pv2 \in [Nodes -> Nodes \cup {NULL}]
        /\ nx2[node] = At(w, k)
    BY <2>0, <2>1, <2>2, Zenon DEF Set, Set2
  <2>. QED
    BY <1>10, <2>0, <2>3, <2>4, <2>5, Zenon DEF LinkedIn, AtFront
<1>. QED
  BY <1>7, <1>8, <1>9, <1>10, Zenon DEF AddedIn

\* add_node leaves the pointers of the list with the node in its place.
LEMMA AddLinks ==
  ASSUME NEW w, Once(w), NEW h, NEW nx \in [Nodes -> Nodes \cup {NULL}],
         NEW pv \in [Nodes -> Nodes \cup {NULL}], Linked(w, h, nx), Back(w, pv), NEW node \in Nodes,
         \A i \in 1 .. Len(w) : w[i] # node, NEW k \in 1 .. (Len(w) + 1),
         NEW h2, NEW nx2, NEW pv2, AddedIn(w, k, node, h, nx, pv, h2, nx2, pv2),
         NEW new, InsertedAt(new, w, k, node)
  PROVE  /\ nx2 \in [Nodes -> Nodes \cup {NULL}] /\ pv2 \in [Nodes -> Nodes \cup {NULL}]
         /\ Linked(new, h2, nx2) /\ Back(new, pv2)
<1>1. /\ nx2 \in [Nodes -> Nodes \cup {NULL}] /\ pv2 \in [Nodes -> Nodes \cup {NULL}]
      /\ LinkedIn(w, node, k, h, nx, pv, h2, nx2, pv2)
  BY AddLinksIn, Zenon
<1>. QED
  BY <1>1, LinkedAdd, Zenon

\* The cases of remove_node for the node at position k.
Removed(w, k, h, nx, pv, h2, nx2, pv2) ==
  IF h = w[k] THEN h2 = nx[h] /\ nx2 = nx /\ pv2 = pv
  ELSE /\ h2 = h /\ nx2 = [nx EXCEPT ![pv[w[k]]] = nx[w[k]]]
       /\ pv2 = IF nx[w[k]] = NULL THEN pv ELSE [pv EXCEPT ![nx[w[k]]] = pv[w[k]]]

\* remove_node leaves the pointers of the list without the node.
LEMMA RemoveLinks ==
  ASSUME NULL \notin Nodes, NEW w, Once(w), NEW h, NEW nx \in [Nodes -> Nodes \cup {NULL}],
         NEW pv \in [Nodes -> Nodes \cup {NULL}], Linked(w, h, nx), Back(w, pv),
         NEW k \in 1 .. Len(w), NEW h2, NEW nx2, NEW pv2, Removed(w, k, h, nx, pv, h2, nx2, pv2),
         NEW new, DeletedAt(new, w, k)
  PROVE  /\ nx2 \in [Nodes -> Nodes \cup {NULL}] /\ pv2 \in [Nodes -> Nodes \cup {NULL}]
         /\ Linked(new, h2, nx2) /\ Back(new, pv2)
<1>. SUFFICES /\ nx2 \in [Nodes -> Nodes \cup {NULL}] /\ pv2 \in [Nodes -> Nodes \cup {NULL}]
              /\ LinkedOut(w, k, h, nx, pv, h2, nx2, pv2)
  BY LinkedDel, Zenon
<1>1. w \in Seq(Nodes)
  BY Zenon DEF Once
<1>0. Len(w) \in Nat /\ \A i \in 1 .. Len(w) : w[i] \in Nodes
  BY <1>1
<1>2. Len(w) \in Nat /\ \A i \in 1 .. Len(w) : w[i] \in Nodes /\ w[i] # NULL
  BY <1>0, Zenon
<1>3. nx \in [Nodes -> Nodes \cup {NULL}] /\ pv \in [Nodes -> Nodes \cup {NULL}]
  BY Zenon
<1>4. \A i, j \in 1 .. Len(w) : i # j => w[i] # w[j]
  BY Zenon DEF Once
<1>5. h = At(w, 1) /\ nx[w[k]] = At(w, k + 1)
  BY Zenon DEF Linked
<1>6. 1 \in 1 .. Len(w) /\ h = w[1]
  BY <1>2, <1>5 DEF At
<1>8. CASE k = 1
  <2>1. h = w[k] /\ \A i \in 1 .. Len(w) : i # k - 1 /\ ~ (k > 1) /\ k + 1 = 2
    BY <1>2, <1>6, <1>8
  <2>2. h2 = nx[h] /\ nx2 = nx /\ pv2 = pv
    BY <2>1, Zenon DEF Removed
  <2>3. nx[h] = At(w, 2)
    BY <1>5, <1>6, <2>1, Zenon
  <2>. QED
    BY <1>3, <1>8, <2>1, <2>2, <2>3, Zenon DEF LinkedOut
<1>9. CASE k # 1
  <2>1. k \in 2 .. Len(w) /\ k - 1 \in 1 .. Len(w) /\ k > 1 /\ k - 1 # k
    BY <1>2, <1>9
  <2>2. h # w[k]
    BY <1>4, <1>6, <1>9, Zenon
  <2>3. pv[w[k]] = w[k - 1]
    BY <2>1, Zenon DEF Back
  <2>4. /\ h2 = h /\ nx2 = [nx EXCEPT ![w[k - 1]] = At(w, k + 1)]
        /\ pv2 = IF At(w, k + 1) = NULL THEN pv ELSE [pv EXCEPT ![At(w, k + 1)] = w[k - 1]]
    <3>1. /\ h2 = h /\ nx2 = [nx EXCEPT ![pv[w[k]]] = nx[w[k]]]
          /\ pv2 = IF nx[w[k]] = NULL THEN pv ELSE [pv EXCEPT ![nx[w[k]]] = pv[w[k]]]
      BY <2>2, Zenon DEF Removed
    <3>. QED
      BY <1>5, <2>3, <3>1, Zenon
  <2>5. At(w, k + 1) \in Nodes \cup {NULL}
    BY <1>2, Zenon DEF At
  <2>6. Set(nx2, nx, w[k - 1], At(w, k + 1))
    BY <1>2, <1>3, <2>1, <2>4, <2>5, PointerSet, Zenon
  <2>7. \A i \in 1 .. Len(w) : nx2[w[i]] = IF i = k - 1 THEN At(w, k + 1) ELSE nx[w[i]]
    BY <1>2, <1>4, <2>1, <2>6, Zenon DEF Set
  <2>8. /\ pv2 \in [Nodes -> Nodes \cup {NULL}]
        /\ \A i \in 1 .. Len(w) : pv2[w[i]] = IF i = k + 1 THEN w[k - 1] ELSE pv[w[i]]
    <3>1. CASE k + 1 \in 1 .. Len(w)
      <4>1. At(w, k + 1) = w[k + 1] /\ w[k + 1] # NULL
        BY <1>2, <3>1, Zenon DEF At
      <4>2. pv2 = [pv EXCEPT ![w[k + 1]] = w[k - 1]]
        BY <2>4, <4>1, Zenon
      <4>3. Set(pv2, pv, w[k + 1], w[k - 1])
        BY <1>2, <1>3, <2>1, <3>1, <4>2, PointerSet, Zenon
      <4>. QED
        BY <1>2, <1>4, <3>1, <4>3, Zenon DEF Set
    <3>2. CASE k + 1 \notin 1 .. Len(w)
      <4>1. pv2 = pv /\ \A i \in 1 .. Len(w) : i # k + 1
        BY <2>4, <3>2, Zenon DEF At
      <4>. QED
        BY <1>3, <4>1, Zenon
    <3>. QED
      BY <3>1, <3>2, Zenon
  <2>9. nx2 \in [Nodes -> Nodes \cup {NULL}]
    BY <2>6, Zenon DEF Set
  <2>10. h2 = IF k = 1 THEN At(w, 2) ELSE h
    BY <1>9, <2>4, Zenon
  <2>11. \A i \in 1 .. Len(w) : pv2[w[i]] = IF k > 1 /\ i = k + 1 THEN w[k - 1] ELSE pv[w[i]]
    BY <2>1, <2>8, Zenon
  <2>. QED
    BY <2>7, <2>8, <2>9, <2>10, <2>11, Zenon DEF LinkedOut
<1>. QED
  BY <1>8, <1>9, Zenon

-----------------------------------------------------------------------------
\* How long a list can be.
INSTANCE FiniteSetTheorems

\* A list without repetition is no longer than there are nodes.
LEMMA Bounded ==
  ASSUME IsFiniteSet(Nodes), NEW list, Once(list)
  PROVE  Cardinality(Nodes) \in Nat /\ Len(list) \in Nat /\ Len(list) <= Cardinality(Nodes)
<1>. DEFINE n == Len(list)
            S == {list[i] : i \in 1 .. n}
<1>1. /\ n \in Nat /\ list \in [1 .. n -> Nodes] /\ S \subseteq Nodes
      /\ \A i, j \in 1 .. n : i # j => list[i] # list[j]
  BY DEF Once
<1>2. list \in [1 .. n -> S]
  BY <1>1, Zenon
<1>. HIDE DEF n
<1>3. list \in Bijection(1 .. n, S)
  BY <1>1, <1>2, Zenon DEF Bijection, Injection, Surjection, IsInjective
<1>4. ExistsBijection(1 .. n, S)
  BY <1>3, Zenon DEF ExistsBijection
<1>. HIDE DEF S
<1>5. Cardinality(S) = n
  BY <1>1, <1>4, FS_CountingElements, Zenon
<1>6. Cardinality(Nodes) \in Nat /\ Cardinality(S) <= Cardinality(Nodes)
  BY <1>1, FS_CardinalityType, FS_Subset, Zenon
<1>. QED
  BY <1>1, <1>5, <1>6, Zenon DEF n

\* As many steps lead to a node as the list has nodes.
LEMMA Visited ==
  ASSUME IsFiniteSet(Nodes), NULL \notin Nodes, NEW list, Once(list)
  PROVE  Cardinality({k \in 0 .. Cardinality(Nodes) : At(list, k + 1) # NULL}) = Len(list)
<1>. DEFINE n == Len(list)
            N == Cardinality(Nodes)
            V == {k \in 0 .. N : At(list, k + 1) # NULL}
<1>1. N \in Nat /\ n \in Nat /\ n <= N
  BY Bounded, Zenon
<1>2. \A k \in 1 .. n : list[k] \in Nodes
  BY DEF Once
<1>3. \A k \in Nat : At(list, k + 1) # NULL <=> k + 1 \in 1 .. n
  BY <1>2, Zenon DEF At
<1>. HIDE DEF n, N
<1>4. \A k : k \in V <=> k \in 0 .. (n - 1)
  <2>1. \A k \in 0 .. N : k \in Nat /\ (k + 1 \in 1 .. n <=> k \in 0 .. (n - 1))
    BY <1>1
  <2>2. \A k \in 0 .. (n - 1) : k \in 0 .. N
    BY <1>1
  <2>. QED
    BY <1>3, <2>1, <2>2, Zenon
<1>5. V = 0 .. (n - 1)
  BY <1>4, Zenon
<1>. HIDE DEF V
<1>6. Cardinality(0 .. (n - 1)) = n
  <2>1. Cardinality(0 .. (n - 1)) = IF 0 > n - 1 THEN 0 ELSE (n - 1) - 0 + 1
    <3>1. n - 1 \in Int /\ 0 \in Int
      BY <1>1
    <3>. QED
      BY <3>1, FS_Interval, Zenon
  <2>. QED
    BY <1>1, <2>1
<1>. QED
  BY <1>5, <1>6, Zenon DEF V, n, N

\* The nodes that step leads to.
LaidOut(step) ==
  LET visited == {k \in 0 .. Cardinality(Nodes) : step[k] # NULL}
  IN [i \in 1 .. Cardinality(visited) |-> step[i - 1]]

\* They are the list.
LEMMA Laid ==
  ASSUME IsFiniteSet(Nodes), NULL \notin Nodes, NEW list, Once(list), NEW step,
         \A k \in Nat : step[k] = At(list, k + 1)
  PROVE  LaidOut(step) = list
<1>. DEFINE visited == {k \in 0 .. Cardinality(Nodes) : step[k] # NULL}
<1>1. visited = {k \in 0 .. Cardinality(Nodes) : At(list, k + 1) # NULL}
  <2>1. \A k \in 0 .. Cardinality(Nodes) : k \in Nat
    BY Bounded
  <2>. QED
    BY <2>1, Zenon
<1>2. Cardinality(visited) = Len(list)
  BY <1>1, Visited, Zenon
<1>. HIDE DEF visited
<1>3. \A i \in 1 .. Len(list) : step[i - 1] = list[i]
  <2>1. \A i \in 1 .. Len(list) : i - 1 \in Nat /\ (i - 1) + 1 = i
    BY Bounded
  <2>. QED
    BY <2>1, Zenon DEF At
<1>4. list = [i \in 1 .. Len(list) |-> list[i]]
  BY DEF Once
<1>5. [i \in 1 .. Len(list) |-> step[i - 1]] = [i \in 1 .. Len(list) |-> list[i]]
  BY <1>3, Zenon
<1>. QED
  BY <1>2, <1>4, <1>5, Zenon DEF LaidOut, visited

-----------------------------------------------------------------------------
\* The lists of Llist.

\* The loops along next visit the nodes of the list, before a step.
LEMMA WalkNow ==
  ASSUME IsFiniteSet(Nodes), NULL \notin Nodes, NEW list, Once(list), Linked(list, head, next)
  PROVE  Walk = list
<1>1. Step = CHOOSE g : Follows(g, head, next)
  BY Zenon DEF Step, Follows
<1>2. \A k \in Nat : Step[k] = At(list, k + 1)
  <2>1. \E g : Follows(g, head, next)
    BY Unrolled, Zenon
  <2>2. \A g : Follows(g, head, next) => \A k \in Nat : g[k] = At(list, k + 1)
    BY Unrolled, Zenon
  <2>3. Follows(Step, head, next)
    BY <1>1, <2>1, Zenon
  <2>. QED
    BY <2>2, <2>3, Zenon
<1>3. Walk = LaidOut(Step)
  BY Zenon DEF Walk, LaidOut
<1>. QED
  BY <1>2, <1>3, Laid, Zenon

\* The loops along next visit the nodes of the list, and after it.
LEMMA WalkThen ==
  ASSUME IsFiniteSet(Nodes), NULL \notin Nodes, NEW list, Once(list), Linked(list, head', next')
  PROVE  Walk' = list
<1>1. Step' = CHOOSE g : Follows(g, head', next')
  BY Zenon DEF Step, Follows
<1>2. \A k \in Nat : Step'[k] = At(list, k + 1)
  <2>1. \E g : Follows(g, head', next')
    BY Unrolled, Zenon
  <2>2. \A g : Follows(g, head', next') => \A k \in Nat : g[k] = At(list, k + 1)
    BY Unrolled, Zenon
  <2>3. Follows(Step', head', next')
    BY <1>1, <2>1, Zenon
  <2>. QED
    BY <2>2, <2>3, Zenon
<1>3. Walk' = LaidOut(Step')
  BY Zenon DEF Walk, LaidOut
<1>. QED
  BY <1>2, <1>3, Laid, Zenon

\* The inductive invariant: next leads from the head along the nodes of the list,
\* prev back, and they are in order.
ListInv ==
  /\ next \in [Nodes -> Nodes \cup {NULL}] /\ prev \in [Nodes -> Nodes \cup {NULL}]
  /\ size \in [Nodes -> Sizes]
  /\ Linked(Walk, head, next) /\ Back(Walk, prev)
  /\ BinOK(Walk, Range(Walk), size)

\* What the list in front of a step is.
ListIs(w) ==
  /\ Once(w) /\ w \in Seq(Nodes) /\ Len(w) \in Nat /\ DOMAIN w = 1 .. Len(w)
  /\ Range(w) = {w[i] : i \in 1 .. Len(w)}
  /\ \A i \in 1 .. Len(w) : w[i] \in Nodes /\ w[i] # NULL
  /\ Linked(w, head, next) /\ Back(w, prev) /\ BinOK(w, Range(w), size)

\* It is what the loops along next visit.
LEMMA ListNow == ASSUME ListInv, NEW w, w = Walk PROVE ListIs(w)
<1>1. Linked(w, head, next) /\ Back(w, prev) /\ BinOK(w, Range(w), size)
  BY Zenon DEF ListInv
<1>2. w \in Seq(Nodes) /\ \A i, j \in 1 .. Len(w) : i # j => w[i] # w[j]
  BY <1>1, Zenon DEF BinOK
<1>3. DOMAIN w = 1 .. Len(w) /\ Len(w) \in Nat /\ \A i \in 1 .. Len(w) : w[i] \in Nodes
  BY <1>2
<1>. QED
  BY <1>1, <1>2, <1>3, LlistAssumption, Zenon DEF ListIs, Once, Range

\* What the list behind a step is.
LEMMA ListThen ==
  ASSUME NEW new, NEW S, BinOK(new, S, size'),
         Linked(new, head', next'), Back(new, prev'), size' \in [Nodes -> Sizes],
         next' \in [Nodes -> Nodes \cup {NULL}], prev' \in [Nodes -> Nodes \cup {NULL}]
  PROVE  Walk' = new /\ ListInv'
<1>1. new \in Seq(Nodes) /\ (\A i, j \in 1 .. Len(new) : i # j => new[i] # new[j])
      /\ S = {new[i] : i \in 1 .. Len(new)}
  BY Zenon DEF BinOK
<1>2. DOMAIN new = 1 .. Len(new)
  BY <1>1
<1>3. Walk' = new
  BY <1>1, WalkThen, LlistAssumption, Zenon DEF Once
<1>4. Range(new) = S
  BY <1>1, <1>2, Zenon DEF Range
<1>. QED
  BY <1>3, <1>4, Zenon DEF ListInv

\* What the owner of a block writes does not change the list.
LEMMA UserDataStep ==
  ASSUME ListInv, NEW node \in Nodes, NEW data \in Nodes \cup {NULL}, UserData(node, data)
  PROVE  ListInv' /\ Walk' = Walk /\ size' = size
<1>1. PICK w : w = Walk
  BY Zenon
<1>2. /\ node \notin Range(w) /\ head' = head /\ size' = size
      /\ next' = [next EXCEPT ![node] = data] /\ prev' = [prev EXCEPT ![node] = data]
  BY <1>1, Zenon DEF UserData
<1>. ListIs(w)
  BY <1>1, ListNow, Zenon
<1>3. /\ Range(w) = {w[i] : i \in 1 .. Len(w)} /\ \A i \in 1 .. Len(w) : w[i] \in Nodes
      /\ Linked(w, head, next) /\ Back(w, prev) /\ BinOK(w, Range(w), size)
  BY Zenon DEF ListIs
<1>4. /\ next \in [Nodes -> Nodes \cup {NULL}] /\ prev \in [Nodes -> Nodes \cup {NULL}]
      /\ size \in [Nodes -> Sizes]
  BY Zenon DEF ListInv
<1>5. /\ next' \in [Nodes -> Nodes \cup {NULL}] /\ prev' \in [Nodes -> Nodes \cup {NULL}]
      /\ \A x \in Nodes : x # node => next'[x] = next[x] /\ prev'[x] = prev[x]
  <2>1. Set(next', next, node, data) /\ Set(prev', prev, node, data)
    BY <1>2, <1>4, PointerSet, Zenon
  <2>. QED
    BY <2>1, Zenon DEF Set
<1>6. \A i \in 1 .. Len(w) : next'[w[i]] = next[w[i]] /\ prev'[w[i]] = prev[w[i]]
  <2>1. \A i \in 1 .. Len(w) : w[i] \in Nodes /\ w[i] # node
    BY <1>2, <1>3, Zenon
  <2>. QED
    BY <1>5, <2>1, Zenon
<1>7. Linked(w, head', next')
  BY <1>2, <1>3, <1>6, Zenon DEF Linked
<1>8. Back(w, prev')
  <2>1. \A i \in 2 .. Len(w) : i \in 1 .. Len(w)
    <3>1. Len(w) \in Nat
      BY Zenon DEF ListIs
    <3>. QED
      BY <3>1
  <2>. QED
    BY <1>3, <1>6, <2>1, Zenon DEF Back
<1>9. BinOK(w, Range(w), size') /\ size' \in [Nodes -> Sizes]
  BY <1>2, <1>3, <1>4, Zenon
<1>. QED
  BY <1>1, <1>2, <1>5, <1>7, <1>8, <1>9, ListThen, Zenon

\* add_node is one of its four cases, each at the place where the list has it.
LEMMA AddCases ==
  ASSUME ListInv, NEW node \in Nodes, NEW s \in Sizes, add_node(node, s),
         NEW w, w = Walk, NEW k, k = Place(w, size, s)
  PROVE  /\ node \notin Range(w) /\ size' = [size EXCEPT ![node] = s]
         /\ AddedIn(w, k, node, head, next, prev, head', next', prev')
<1>. DEFINE larger   == {i \in DOMAIN w : size[w[i]] > s}
            current  == IF larger = {} THEN NULL ELSE w[k]
            previous == IF k = 1 THEN NULL ELSE w[k - 1]
<1>1. ListIs(w)
  BY ListNow, Zenon
<1>2. /\ w \in Seq(Nodes) /\ Len(w) \in Nat /\ \A i \in 1 .. Len(w) : w[i] \in Nodes /\ w[i] # NULL
  BY <1>1, Zenon DEF ListIs
<1>3. /\ k \in 1 .. (Len(w) + 1) /\ (larger = {} <=> k = Len(w) + 1)
      /\ k = IF larger = {} THEN Len(w) + 1 ELSE Min(larger)
  BY <1>2, Placed, Zenon
<1>4. head = At(w, 1)
  BY <1>1, Zenon DEF ListIs, Linked
<1>5. link(node, current, previous)
  <2>. DEFINE larger2 == {i \in DOMAIN Walk : size[Walk[i]] > s}
              i2      == IF larger2 = {} THEN Len(Walk) + 1 ELSE Min(larger2)
  <2>1. link(node, IF larger2 = {} THEN NULL ELSE Walk[i2], IF i2 = 1 THEN NULL ELSE Walk[i2 - 1])
    BY Zenon DEF add_node, link
  <2>2. larger2 = larger
    BY Zenon
  <2>3. i2 = k
    BY <1>3, <2>2, Zenon
  <2>. QED
    BY <2>1, <2>2, <2>3, Zenon
<1>6. node \notin Range(w) /\ size' = [size EXCEPT ![node] = s]
  BY Zenon DEF add_node
<1>7. current = At(w, k)
  BY <1>2, <1>3 DEF At
<1>. HIDE DEF current, larger
<1>8. CASE Len(w) = 0
  <2>1. head = NULL /\ current = NULL /\ k = 1
    BY <1>3, <1>4, <1>7, <1>8 DEF At
  <2>. QED
    BY <1>6, <1>5, <1>8, <2>1, Zenon DEF link, InEmpty, AddedIn
<1>9. CASE Len(w) # 0 /\ k = Len(w) + 1
  <2>1. head # NULL /\ current = NULL /\ k > 1 /\ previous = w[k - 1]
    BY <1>2, <1>3, <1>4, <1>7, <1>9 DEF At
  <2>. HIDE DEF previous
  <2>2. /\ head' = head /\ prev' = [prev EXCEPT ![node] = previous]
        /\ next' = [[next EXCEPT ![node] = NULL] EXCEPT ![previous] = node]
    BY <1>5, <2>1 DEF link
  <2>. QED
    BY <1>6, <1>9, <2>1, <2>2, Zenon DEF AtEnd, AddedIn
<1>10. CASE k > 1 /\ k <= Len(w)
  <2>1. head # NULL /\ current # NULL /\ current = w[k] /\ previous # NULL /\ previous = w[k - 1]
    BY <1>2, <1>3, <1>4, <1>7, <1>10 DEF At
  <2>. HIDE DEF previous
  <2>2. /\ head' = head /\ prev' = [[prev EXCEPT ![node] = previous] EXCEPT ![current] = node]
        /\ next' = [[next EXCEPT ![node] = current] EXCEPT ![previous] = node]
    BY <1>5, <2>1 DEF link
  <2>. QED
    BY <1>6, <1>10, <2>1, <2>2, Zenon DEF InMiddle, AddedIn
<1>11. CASE k = 1 /\ Len(w) # 0
  <2>1. head # NULL /\ head = w[1] /\ current # NULL /\ previous = NULL /\ Len(w) >= 1
    BY <1>2, <1>3, <1>4, <1>7, <1>11 DEF At
  <2>. HIDE DEF previous
  <2>2. /\ head' = node /\ prev' = [[prev EXCEPT ![node] = NULL] EXCEPT ![head] = node]
        /\ next' = [next EXCEPT ![node] = head]
    BY <1>5, <2>1 DEF link
  <2>. QED
    BY <1>6, <1>11, <2>1, <2>2, Zenon DEF AtFront, AddedIn
<1>12. k \in Nat /\ Len(w) \in Nat /\ k <= Len(w) + 1 /\ k >= 1
  BY <1>2, <1>3
<1>13. Len(w) = 0 \/ (Len(w) # 0 /\ k = Len(w) + 1) \/ (k > 1 /\ k <= Len(w)) \/ (k = 1 /\ Len(w) # 0)
  BY <1>12
<1>. QED
  BY <1>8, <1>9, <1>10, <1>11, <1>13, Zenon

\* add_node links the node in where the list of the abstract specification has it.
LEMMA AddStep ==
  ASSUME ListInv, NEW node \in Nodes, NEW s \in Sizes, add_node(node, s)
  PROVE  ListInv' /\ List!Add(node, s)
<1>1. PICK w : w = Walk
  BY Zenon
<1>2. PICK k : k = Place(w, size, s)
  BY Zenon
<1>3. PICK new : new = Insert(w, node, size')
  BY Zenon
<1>4. ListIs(w)
  BY <1>1, ListNow, Zenon
<1>5. /\ Once(w) /\ w \in Seq(Nodes) /\ Len(w) \in Nat /\ DOMAIN w = 1 .. Len(w)
      /\ Linked(w, head, next) /\ Back(w, prev)
  BY <1>4, Zenon DEF ListIs
<1>6. \A i \in 1 .. Len(w) : w[i] \in Nodes /\ w[i] # NULL /\ w[i] \in Range(w)
  BY <1>4, Zenon DEF ListIs
<1>7. /\ next \in [Nodes -> Nodes \cup {NULL}] /\ prev \in [Nodes -> Nodes \cup {NULL}]
      /\ size \in [Nodes -> Sizes]
  BY Zenon DEF ListInv
<1>8. node \notin Range(w) /\ size' = [size EXCEPT ![node] = s]
  BY <1>1, <1>2, AddCases, Zenon
<1>9. size' \in [Nodes -> Sizes] /\ size'[node] = s /\ \A x \in Nodes : x # node => size'[x] = size[x]
  BY <1>7, <1>8, Zenon
<1>10. \A i \in 1 .. Len(w) : w[i] # node /\ size'[w[i]] = size[w[i]]
  <2>1. \A i \in 1 .. Len(w) : w[i] # node /\ w[i] \in Nodes
    BY <1>6, <1>8, Zenon
  <2>. QED
    BY <1>9, <2>1, Zenon
<1>11. k \in 1 .. (Len(w) + 1) /\ k = IF {i \in DOMAIN w : size[w[i]] > s} = {} THEN Len(w) + 1
                                     ELSE Min({i \in DOMAIN w : size[w[i]] > s})
  BY <1>2, <1>5, Placed, Zenon
<1>12. InsertedAt(new, w, k, node)
  <2>1. {i \in DOMAIN w : size'[w[i]] > size'[node]} = {i \in DOMAIN w : size[w[i]] > s}
    BY <1>5, <1>9, <1>10, Zenon
  <2>2. new = SubSeq(w, 1, k - 1) \o <<node>> \o SubSeq(w, k, Len(w))
    BY <1>3, <1>11, <2>1, Zenon DEF Insert
  <2>. QED
    BY <1>5, <1>11, <2>2, InsertShape, Zenon
<1>13. BinOK(new, Range(w) \cup {node}, size')
  <2>1. \A x \in Range(w) : x \in Nodes /\ size'[x] = size[x] /\ size'[x] \in Nat
    <3>1. \A x \in Range(w) : x \in Nodes /\ x # node
      BY <1>4, <1>8, Zenon DEF ListIs
    <3>. QED
      BY <1>9, <3>1, LlistAssumption, Zenon
  <2>2. BinOK(w, Range(w), size')
    BY <1>4, <2>1, AgreeOK, Zenon DEF ListIs
  <2>3. size'[node] \in Nat
    BY <1>9, LlistAssumption, Zenon
  <2>. QED
    BY <1>3, <1>8, <2>1, <2>2, <2>3, InsertOK, Zenon
<1>14. /\ next' \in [Nodes -> Nodes \cup {NULL}] /\ prev' \in [Nodes -> Nodes \cup {NULL}]
       /\ Linked(new, head', next') /\ Back(new, prev')
  <2>1. AddedIn(w, k, node, head, next, prev, head', next', prev')
    BY <1>1, <1>2, AddCases, Zenon
  <2>. QED
    BY <1>5, <1>7, <1>10, <1>11, <1>12, <2>1, AddLinks, Zenon
<1>15. Walk' = new /\ ListInv'
  BY <1>9, <1>13, <1>14, ListThen, Zenon
<1>16. List!Range(w) = Range(w)
  BY Zenon DEF List!Range, Range
<1>17. List!Insert(w, node, size') = Insert(w, node, size')
  BY Zenon DEF List!Insert, Insert, List!Min, Min
<1>18. Walk' = List!Insert(Walk, node, size')
  BY <1>1, <1>3, <1>15, <1>17, Zenon
<1>19. node \notin List!Range(Walk)
  BY <1>1, <1>8, <1>16, Zenon
<1>. QED
  BY <1>8, <1>15, <1>18, <1>19, Zenon DEF List!Add

\* remove_node does to the list what the abstract specification says.
LEMMA RemoveStep ==
  ASSUME ListInv, NEW node \in Nodes, remove_node(node)
  PROVE  ListInv' /\ List!Del(node)
<1>1. PICK w : w = Walk
  BY Zenon
<1>2. PICK new : new = Delete(w, node)
  BY Zenon
<1>3. ListIs(w)
  BY <1>1, ListNow, Zenon
<1>4. /\ Once(w) /\ w \in Seq(Nodes) /\ Len(w) \in Nat /\ DOMAIN w = 1 .. Len(w)
      /\ Linked(w, head, next) /\ Back(w, prev) /\ BinOK(w, Range(w), size)
  BY <1>3, Zenon DEF ListIs
<1>5. Range(w) = {w[i] : i \in 1 .. Len(w)}
  BY <1>3, Zenon DEF ListIs
<1>6. size' = size /\ size \in [Nodes -> Sizes]
  BY Zenon DEF remove_node, ListInv
<1>7. BinOK(new, Range(w) \ {node}, size')
  BY <1>2, <1>4, <1>6, DeleteOK, Zenon
<1>8. /\ next' \in [Nodes -> Nodes \cup {NULL}] /\ prev' \in [Nodes -> Nodes \cup {NULL}]
      /\ Linked(new, head', next') /\ Back(new, prev')
  <2>1. CASE node \in Range(w)
    <3>1. PICK k \in 1 .. Len(w) : node = w[k]
      BY <1>5, <2>1, Zenon
    <3>. DEFINE there == {i \in DOMAIN w : w[i] = node}
    <3>2. \A i \in there : i = k
      BY <1>4, <3>1, Zenon DEF Once
    <3>3. k \in there /\ there # {} /\ there \in SUBSET Nat
      <4>1. k \in there
        BY <1>4, <3>1, Zenon
      <4>2. there \in SUBSET Nat
        BY <1>4
      <4>. QED
        BY <4>1, <4>2, Zenon
    <3>4. Min(there) = k
      BY <3>2, <3>3, MinOf, Zenon
    <3>5. new = SubSeq(w, 1, k - 1) \o SubSeq(w, k + 1, Len(w))
      BY <1>2, <3>3, <3>4, Zenon DEF Delete
    <3>6. DeletedAt(new, w, k)
      BY <1>4, <3>5, DeleteShape, Zenon
    <3>7. Removed(w, k, head, next, prev, head', next', prev')
      BY <1>1, <2>1, <3>1, Zenon DEF remove_node, Removed
    <3>8. next \in [Nodes -> Nodes \cup {NULL}] /\ prev \in [Nodes -> Nodes \cup {NULL}]
      BY Zenon DEF ListInv
    <3>. QED
      BY <1>4, <3>6, <3>7, <3>8, RemoveLinks, LlistAssumption, Zenon
  <2>2. CASE node \notin Range(w)
    <3>1. new = w
      BY <1>2, <1>4, <1>5, <2>2, Zenon DEF Delete
    <3>2. head # node
      BY <1>4, <1>5, <2>2, LlistAssumption, Zenon DEF Linked, At
    <3>3. head' = head /\ next' = next /\ prev' = prev
      BY <1>1, <2>2, <3>2, Zenon DEF remove_node
    <3>4. next \in [Nodes -> Nodes \cup {NULL}] /\ prev \in [Nodes -> Nodes \cup {NULL}]
      BY Zenon DEF ListInv
    <3>. QED
      BY <1>4, <3>1, <3>3, <3>4, Zenon
  <2>. QED
    BY <2>1, <2>2, Zenon
<1>9. Walk' = new /\ ListInv'
  BY <1>6, <1>7, <1>8, ListThen, Zenon
<1>10. List!Delete(w, node) = Delete(w, node)
  BY Zenon DEF List!Delete, Delete, List!Min, Min
<1>11. Walk' = List!Delete(Walk, node)
  BY <1>1, <1>2, <1>9, <1>10, Zenon
<1>. QED
  BY <1>6, <1>9, <1>11, Zenon DEF List!Del

\* The empty list, as heap_init leaves it.
LEMMA ListInit ==
  ASSUME Init
  PROVE  ListInv /\ Walk = <<>>
<1>1. head = NULL /\ size \in [Nodes -> Sizes]
  BY Zenon DEF Init
<1>2. next \in [Nodes -> Nodes \cup {NULL}] /\ prev \in [Nodes -> Nodes \cup {NULL}]
  BY Zenon DEF Init
<1>3. PICK e : e = <<>>
  BY Zenon
<1>4. /\ e \in Seq(Nodes) /\ Len(e) = 0 /\ DOMAIN e = {} /\ 1 \notin 1 .. Len(e)
      /\ (\A i \in 1 .. Len(e) : FALSE) /\ \A i \in 2 .. Len(e) : FALSE
  BY <1>3
<1>5. Once(e) /\ Linked(e, head, next) /\ Back(e, prev)
  BY <1>1, <1>4, Zenon DEF Once, Linked, Back, At
<1>6. Walk = e
  BY <1>5, WalkNow, LlistAssumption, Zenon
<1>7. Range(e) = {}
  BY <1>4, Zenon DEF Range
<1>8. BinOK(e, {}, size)
  BY <1>4, Zenon DEF BinOK
<1>9. BinOK(e, Range(e), size)
  BY <1>7, <1>8, Zenon
<1>10. ListInv
  BY <1>1, <1>2, <1>5, <1>6, <1>9, Zenon DEF ListInv
<1>. QED
  BY <1>3, <1>6, <1>10, Zenon

\* Every step of the pointers is a step of the list, or leaves the list alone.
LEMMA ListStep ==
  ASSUME ListInv, [Next]_vars
  PROVE  ListInv' /\ [List!Next]_(List!vars)
<1>1. CASE UNCHANGED vars
  <2>1. head' = head /\ next' = next /\ prev' = prev /\ size' = size
    BY <1>1, Zenon DEF vars
  <2>2. PICK w : w = Walk
    BY Zenon
  <2>3. ListIs(w)
    BY <2>2, ListNow, Zenon
  <2>4. BinOK(w, Range(w), size') /\ Linked(w, head', next') /\ Back(w, prev')
    BY <2>1, <2>3, Zenon DEF ListIs
  <2>5. /\ size' \in [Nodes -> Sizes] /\ next' \in [Nodes -> Nodes \cup {NULL}]
        /\ prev' \in [Nodes -> Nodes \cup {NULL}]
    BY <2>1, Zenon DEF ListInv
  <2>6. Walk' = w /\ ListInv'
    BY <2>4, <2>5, ListThen, Zenon
  <2>7. Walk' = Walk
    BY <2>2, <2>6, Zenon
  <2>. QED
    BY <2>1, <2>6, <2>7, Zenon DEF List!vars
<1>2. ASSUME NEW node \in Nodes, NEW s \in Sizes, add_node(node, s)
      PROVE  ListInv' /\ [List!Next]_(List!vars)
  <2>1. ListInv' /\ List!Add(node, s)
    BY <1>2, AddStep, Zenon
  <2>. QED
    BY <2>1, Zenon DEF List!Next
<1>3. ASSUME NEW node \in Nodes, remove_node(node)
      PROVE  ListInv' /\ [List!Next]_(List!vars)
  <2>1. ListInv' /\ List!Del(node)
    BY <1>3, RemoveStep, Zenon
  <2>. QED
    BY <2>1, Zenon DEF List!Next
<1>4. ASSUME NEW node \in Nodes, NEW data \in Nodes \cup {NULL}, UserData(node, data)
      PROVE  ListInv' /\ [List!Next]_(List!vars)
  <2>1. ListInv' /\ Walk' = Walk /\ size' = size
    BY <1>4, UserDataStep, Zenon
  <2>. QED
    BY <2>1, Zenon DEF List!vars
<1>. QED
  BY <1>1, <1>2, <1>3, <1>4, Zenon DEF Next

\* The inductive invariant holds of every behaviour of the pointers, whatever
\* callers write into the nodes they own.
THEOREM ListIInv == Spec => []ListInv
<1>1. Init => ListInv
  BY ListInit, Zenon
<1>2. ListInv /\ [Next]_vars => ListInv'
  BY ListStep, Zenon
<1>. QED
  BY <1>1, <1>2, PTL DEF Spec

\* The pointers implement the list: add_node inserts in front of the first larger
\* node, remove_node takes a node out or ignores it, and nothing that callers write
\* into the memory of a node that is off the list changes the list.
THEOREM PointersImplementList == Spec => ListSpec
<1>1. Init => List!Init
  <2>. SUFFICES ASSUME Init PROVE List!Init
    BY Zenon
  <2>1. Walk = <<>>
    BY ListInit, Zenon
  <2>2. size \in [Nodes -> Sizes]
    BY Zenon DEF Init
  <2>. QED
    BY <2>1, <2>2, Zenon DEF List!Init
<1>2. ListInv /\ [Next]_vars => [List!Next]_(List!vars)
  BY ListStep, Zenon
<1>3. Spec => []ListInv
  BY ListIInv, Zenon
<1>. QED
  BY <1>1, <1>2, <1>3, PTL DEF Spec, ListSpec, List!Spec

\* get_best_fit returns a smallest node among those that are large enough, after
\* any sequence of calls.
THEOREM PointersBestFit == Spec => []BestFitIsBest
<1>1. ListInv => BestFitIsBest
  <2>. SUFFICES ASSUME ListInv, NEW want \in Sizes
                PROVE  LET able == {n \in Range(Walk) : size[n] >= want}
                           fit  == get_best_fit(want)
                       IN IF able = {} THEN fit = NULL
                          ELSE fit \in able /\ \A n \in able : size[fit] <= size[n]
    BY Zenon DEF BestFitIsBest
  <2>1. PICK w : w = Walk
    BY Zenon
  <2>2. BinOK(w, Range(w), size)
    BY <2>1, Zenon DEF ListInv
  <2>3. \A x \in Range(w) : size[x] \in Nat
    <3>1. ListIs(w)
      BY <2>1, ListNow, Zenon
    <3>2. \A x \in Range(w) : x \in Nodes
      BY <3>1, Zenon DEF ListIs
    <3>. QED
      BY <3>2, LlistAssumption, Zenon DEF ListInv
  <2>4. want \in Nat
    BY LlistAssumption, Zenon
  <2>. DEFINE fits == Fits(w, want, size)
              best == BestFit(w, want, size)
  <2>5. /\ fits <=> \E x \in Range(w) : size[x] >= want
        /\ fits => /\ best \in Range(w) /\ size[best] >= want
                   /\ \A x \in Range(w) : size[x] >= want => size[best] <= size[x]
    BY <2>2, <2>3, <2>4, BestFitOK, Zenon
  <2>6. get_best_fit(want) = IF fits THEN best ELSE NULL
    BY <2>1, Zenon DEF get_best_fit
  <2>. HIDE DEF fits, best
  <2>7. CASE fits
    <3>1. get_best_fit(want) = best
      BY <2>6, <2>7, Zenon
    <3>. QED
      BY <2>1, <2>5, <2>7, <3>1, Zenon
  <2>8. CASE ~ fits
    <3>1. get_best_fit(want) = NULL
      BY <2>6, <2>8, Zenon
    <3>. QED
      BY <2>1, <2>5, <2>8, <3>1, Zenon
  <2>. QED
    BY <2>7, <2>8, Zenon
<1>2. Spec => []ListInv
  BY ListIInv, Zenon
<1>. QED
  BY <1>1, <1>2, PTL
=============================================================================
