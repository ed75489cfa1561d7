----------------------------- MODULE PagingProofs -----------------------------
(***************************************************************************)
(* The page directories for tables of any size, any layout of the memory   *)
(* and any number of directories, and that they implement AddressSpace.    *)
(* The argument is about one memory at a time: what NewTable, Ensure,      *)
(* __paging_map and __paging_unmap keep of a forest of tables and of the   *)
(* translations it contains.                                               *)
(***************************************************************************)
EXTENDS Paging, TLAPS

Indices == 0 .. (Fan - 1)
Frames == 0 .. (MaxTables - 1)

Memories ==
  [used : 0 .. MaxTables, entry : [Frames -> [Indices -> Entries]], level : [Frames -> 0 .. 4]]

Tables(m) == 0 .. (m.used - 1)

Root(m, d) == d \in Tables(m) /\ m.level[d] = 1

\* Entry i of table t leads to a table.
Link(m, t, i) ==
  t \in Tables(m) /\ i \in Indices /\ m.level[t] < 4 /\ Present(m.entry[t][i])

\* The tables of memory m form a forest, as TreeInv says.
Forest(m) ==
  /\ m \in Memories
  /\ \A t \in Tables(m) : m.level[t] \in 1 .. 4
  /\ \A t, i : Link(m, t, i) =>
       Child(m, t, i) \in Tables(m) /\ m.level[Child(m, t, i)] = m.level[t] + 1
  /\ \A t, i, s, j : Link(m, t, i) /\ Link(m, s, j) /\ Child(m, t, i) = Child(m, s, j)
                       => t = s /\ i = j

\* The tables on the way to page v in directory d.
Table2(m, d, v) == Child(m, d, Path[v][1])
Table3(m, d, v) == Child(m, Table2(m, d, v), Path[v][2])
Table4(m, d, v) == Child(m, Table3(m, d, v), Path[v][3])

\* The whole way exists.
Reached(m, d, v) ==
  /\ Present(m.entry[d][Path[v][1]])
  /\ Present(m.entry[Table2(m, d, v)][Path[v][2]])
  /\ Present(m.entry[Table3(m, d, v)][Path[v][3]])

\* Memory n has the translations of memory m, and perhaps more directories.
SameSpace(m, n) ==
  \A d, v : Root(m, d) /\ v \in Virtuals =>
    Root(n, d) /\ Translate(n.entry, d, v) = Translate(m.entry, d, v)

-----------------------------------------------------------------------------
\* The numbers.

LEMMA Sizes ==
  /\ Fan \in Nat \ {0} /\ MaxTables \in Nat /\ AddrFrames \in Nat \ {0}
  /\ MaxTables <= AddrFrames
BY PagingAssumption, Zenon

\* The levels of the tables.
LEMMA Levels ==
  /\ 1 + 1 = 2 /\ 2 + 1 = 3 /\ 1 < 4 /\ 2 < 4 /\ 3 < 4 /\ 2 # 4 /\ 3 # 4
  /\ \A k : k < 4 => k # 4
OBVIOUS

\* At most three tables are added at a time.
LEMMA Growth ==
  ASSUME NEW a \in Nat, a + 3 <= MaxTables,
         NEW b \in {a, a + 1}, NEW c \in {b, b + 1}, NEW e \in {c, c + 1}
  PROVE  a < MaxTables /\ b < MaxTables /\ c < MaxTables /\ e \in a .. (a + 3)
BY Sizes

LEMMA PathIndices ==
  ASSUME NEW v \in Virtuals
  PROVE  /\ Path[v][1] \in Indices /\ Path[v][2] \in Indices
         /\ Path[v][3] \in Indices /\ Path[v][4] \in Indices
<1>1. v \in Nat /\ Fan \in Nat \ {0}
  BY PagingAssumption, Zenon
<1>2. ASSUME NEW k \in Nat PROVE k % Fan \in Indices
  BY <1>1 DEF Indices
<1>3. ASSUME NEW f \in Nat \ {0} PROVE v \div f \in Nat
  BY <1>1
<1>4. ASSUME NEW f \in Nat \ {0}, NEW g \in Nat \ {0} PROVE f * g \in Nat \ {0}
  OBVIOUS
<1>5. Fan * Fan \in Nat \ {0}
  BY <1>1, <1>4, Zenon
<1>6. Fan * Fan * Fan \in Nat \ {0}
  BY <1>1, <1>4, <1>5, Zenon
<1>7. v \div (Fan * Fan * Fan) \in Nat /\ v \div (Fan * Fan) \in Nat /\ v \div Fan \in Nat
  BY <1>1, <1>3, <1>5, <1>6, Zenon
<1>. QED
  BY <1>1, <1>2, <1>7, Zenon DEF Path, pmidx_init

LEMMA SamePath ==
  ASSUME NEW v \in Virtuals, NEW w \in Virtuals,
         Path[v][1] = Path[w][1], Path[v][2] = Path[w][2],
         Path[v][3] = Path[w][3], Path[v][4] = Path[w][4]
  PROVE  v = w
<1>1. Path[v] = <<Path[v][1], Path[v][2], Path[v][3], Path[v][4]>>
  BY Zenon DEF Path, pmidx_init
<1>2. Path[w] = <<Path[w][1], Path[w][2], Path[w][3], Path[w][4]>>
  BY Zenon DEF Path, pmidx_init
<1>. QED
  BY <1>1, <1>2, PathAssumption

LEMMA EntryFacts ==
  /\ NoEntry \in Entries /\ ~ Present(NoEntry)
  /\ \A e \in Entries : e.addr \in 0 .. (AddrFrames - 1) /\ e.flags \in SUBSET AllFlags
<1>1. NoEntry \in Entries
  BY Sizes DEF NoEntry, Entries
<1>. QED
  BY <1>1, Zenon DEF NoEntry, Entries, Present

\* The entry that a level of __paging_map writes.
LEMMA WrittenEntry ==
  ASSUME NEW e \in Entries, NEW f \in Nat, NEW low \in SUBSET AllFlags,
         NEW flags \in SUBSET AllFlags
  PROVE  [addr |-> f % AddrFrames, flags |-> e.flags \cup low \cup flags] \in Entries
<1>1. f % AddrFrames \in 0 .. (AddrFrames - 1)
  BY Sizes
<1>2. e.flags \in SUBSET AllFlags
  BY EntryFacts, Zenon
<1>. QED
  BY <1>1, <1>2, Zenon DEF Entries

-----------------------------------------------------------------------------
\* The parts of a memory.

LEMMA MemoryFacts ==
  ASSUME NEW m \in Memories
  PROVE  /\ m.used \in Nat /\ m.used <= MaxTables /\ Tables(m) \subseteq Frames
         /\ m.entry \in [Frames -> [Indices -> Entries]] /\ m.level \in [Frames -> 0 .. 4]
         /\ \A t \in Frames, i \in Indices : m.entry[t][i] \in Entries
BY Sizes DEF Memories, Tables, Frames

LEMMA StoreParts ==
  ASSUME NEW m \in Memories, NEW t \in Frames, NEW i \in Indices, NEW e \in Entries,
         NEW n, n = Store(m, t, i, e)
  PROVE  /\ n \in Memories /\ n.used = m.used /\ n.level = m.level
         /\ n.entry[t][i] = e
         /\ \A s \in Frames, j \in Indices : s # t \/ j # i => n.entry[s][j] = m.entry[s][j]
<1>1. m.entry \in [Frames -> [Indices -> Entries]] /\ m.entry[t] \in [Indices -> Entries]
  BY MemoryFacts, Zenon
<1>. DEFINE table == [m.entry[t] EXCEPT ![i] = e]
            entries == [m.entry EXCEPT ![t] = table]
<1>2. table \in [Indices -> Entries] /\ table[i] = e
      /\ \A j \in Indices : j # i => table[j] = m.entry[t][j]
  BY <1>1, Zenon
<1>3. n.used = m.used /\ n.level = m.level /\ n.entry = entries
      /\ n = [used |-> m.used, entry |-> entries, level |-> m.level]
  <2>1. m = [used |-> m.used, entry |-> m.entry, level |-> m.level]
    BY Zenon DEF Memories
  <2>2. n = [m EXCEPT !.entry = entries]
    BY Zenon DEF Store
  <2>. HIDE DEF entries
  <2>. QED
    BY <2>1, <2>2, Zenon
<1>. HIDE DEF table
<1>4. /\ entries \in [Frames -> [Indices -> Entries]] /\ entries[t] = table
      /\ \A s \in Frames : s # t => entries[s] = m.entry[s]
  BY <1>1, <1>2, Zenon
<1>. HIDE DEF entries
<1>5. n \in Memories
  BY <1>3, <1>4, Zenon DEF Memories
<1>. QED
  BY <1>2, <1>3, <1>4, <1>5

LEMMA NewTableParts ==
  ASSUME NEW m \in Memories, m.used < MaxTables, NEW lev \in 1 .. 4,
         NEW n, n = NewTable(m, lev)
  PROVE  /\ n \in Memories /\ n.used = m.used + 1 /\ m.used \in Frames
         /\ \A j \in Indices : n.entry[m.used][j] = NoEntry
         /\ \A s \in Tables(m) : n.entry[s] = m.entry[s] /\ n.level[s] = m.level[s]
         /\ n.level[m.used] = lev
<1>1. /\ m.entry \in [Frames -> [Indices -> Entries]] /\ m.level \in [Frames -> 0 .. 4]
      /\ m.used \in Nat /\ Tables(m) \subseteq Frames
  BY MemoryFacts, Zenon
<1>2. m.used \in Frames /\ \A s \in Tables(m) : s # m.used
  BY <1>1, Sizes DEF Frames, Tables
<1>. DEFINE clear == [i \in Indices |-> NoEntry]
            entries == [m.entry EXCEPT ![m.used] = clear]
            levels == [m.level EXCEPT ![m.used] = lev]
<1>3. clear \in [Indices -> Entries] /\ \A j \in Indices : clear[j] = NoEntry
  BY EntryFacts, Zenon
<1>4. n = [used |-> m.used + 1, entry |-> entries, level |-> levels]
  BY Zenon DEF NewTable, Indices
<1>. HIDE DEF clear
<1>5. /\ entries \in [Frames -> [Indices -> Entries]] /\ entries[m.used] = clear
      /\ \A s \in Frames : s # m.used => entries[s] = m.entry[s]
  BY <1>1, <1>2, <1>3, Zenon
<1>6. /\ levels \in [Frames -> 0 .. 4] /\ levels[m.used] = lev
      /\ \A s \in Frames : s # m.used => levels[s] = m.level[s]
  BY <1>1, <1>2
<1>. HIDE DEF entries, levels
<1>7. m.used + 1 \in 0 .. MaxTables
  BY <1>1, Sizes
<1>8. n \in Memories
  BY <1>4, <1>5, <1>6, <1>7 DEF Memories
<1>. QED
  BY <1>1, <1>2, <1>3, <1>4, <1>5, <1>6, <1>8

-----------------------------------------------------------------------------
\* Walks.

LEMMA TranslateWalk ==
  ASSUME NEW m, NEW d, NEW v
  PROVE  Translate(m.entry, d, v) =
           IF Reached(m, d, v) THEN m.entry[Table4(m, d, v)][Path[v][4]] ELSE NoEntry
BY Zenon DEF Translate, Reached, Table2, Table3, Table4, Child

\* A walk goes down one level at a time.
LEMMA WalkLinks ==
  ASSUME NEW m, Forest(m), NEW d, Root(m, d), NEW v \in Virtuals
  PROVE  /\ Present(m.entry[d][Path[v][1]]) =>
              /\ Link(m, d, Path[v][1])
              /\ Table2(m, d, v) \in Tables(m) /\ m.level[Table2(m, d, v)] = 2
         /\ Present(m.entry[d][Path[v][1]]) /\ Present(m.entry[Table2(m, d, v)][Path[v][2]]) =>
              /\ Link(m, Table2(m, d, v), Path[v][2])
              /\ Table3(m, d, v) \in Tables(m) /\ m.level[Table3(m, d, v)] = 3
         /\ Reached(m, d, v) =>
              /\ Link(m, Table3(m, d, v), Path[v][3])
              /\ Table4(m, d, v) \in Tables(m) /\ m.level[Table4(m, d, v)] = 4
<1>1. /\ Path[v][1] \in Indices /\ Path[v][2] \in Indices /\ Path[v][3] \in Indices
  BY PathIndices, Zenon
<1>2. \A t, i : Link(m, t, i) =>
        Child(m, t, i) \in Tables(m) /\ m.level[Child(m, t, i)] = m.level[t] + 1
  BY Zenon DEF Forest
<1>. DEFINE t2 == Table2(m, d, v)
            t3 == Table3(m, d, v)
            t4 == Table4(m, d, v)
<1>3. ASSUME Present(m.entry[d][Path[v][1]])
      PROVE  Link(m, d, Path[v][1]) /\ t2 \in Tables(m) /\ m.level[t2] = 2
  <2>1. Link(m, d, Path[v][1])
    BY <1>1, <1>3 DEF Link, Root
  <2>. QED
    BY <1>2, <2>1 DEF Root, Table2
<1>4. ASSUME Present(m.entry[d][Path[v][1]]), Present(m.entry[t2][Path[v][2]])
      PROVE  Link(m, t2, Path[v][2]) /\ t3 \in Tables(m) /\ m.level[t3] = 3
  <2>1. t2 \in Tables(m) /\ m.level[t2] = 2
    BY <1>3, <1>4, Zenon
  <2>2. Link(m, t2, Path[v][2])
    BY <1>1, <1>4, <2>1 DEF Link
  <2>3. t3 = Child(m, t2, Path[v][2])
    BY Zenon DEF Table3
  <2>. QED
    BY <1>2, <2>1, <2>2, <2>3
<1>5. ASSUME Reached(m, d, v)
      PROVE  Link(m, t3, Path[v][3]) /\ t4 \in Tables(m) /\ m.level[t4] = 4
  <2>1. t3 \in Tables(m) /\ m.level[t3] = 3 /\ Present(m.entry[t3][Path[v][3]])
    BY <1>4, <1>5, Zenon DEF Reached
  <2>2. Link(m, t3, Path[v][3])
    BY <1>1, <2>1 DEF Link
  <2>3. t4 = Child(m, t3, Path[v][3])
    BY Zenon DEF Table4
  <2>. QED
    BY <1>2, <2>1, <2>2, <2>3
<1>. QED
  BY <1>3, <1>4, <1>5, Zenon

\* Two walks that end at the same entry are one: the tables form trees.
LEMMA WalksApart ==
  ASSUME NEW m, Forest(m), NEW d, Root(m, d), NEW v \in Virtuals, Reached(m, d, v),
         NEW c, Root(m, c), NEW w \in Virtuals, Reached(m, c, w),
         Table4(m, d, v) = Table4(m, c, w), Path[v][4] = Path[w][4]
  PROVE  d = c /\ v = w
<1>1. \A t, i, s, j : Link(m, t, i) /\ Link(m, s, j) /\ Child(m, t, i) = Child(m, s, j)
                        => t = s /\ i = j
  BY Zenon DEF Forest
<1>2. Link(m, Table3(m, d, v), Path[v][3]) /\ Link(m, Table3(m, c, w), Path[w][3])
  BY WalkLinks, Zenon
<1>3. Table3(m, d, v) = Table3(m, c, w) /\ Path[v][3] = Path[w][3]
  BY <1>1, <1>2, Zenon DEF Table4
<1>4. Link(m, Table2(m, d, v), Path[v][2]) /\ Link(m, Table2(m, c, w), Path[w][2])
  BY WalkLinks, Zenon DEF Reached
<1>5. Table2(m, d, v) = Table2(m, c, w) /\ Path[v][2] = Path[w][2]
  BY <1>1, <1>3, <1>4, Zenon DEF Table3
<1>6. Link(m, d, Path[v][1]) /\ Link(m, c, Path[w][1])
  BY WalkLinks, Zenon DEF Reached
<1>7. d = c /\ Path[v][1] = Path[w][1]
  BY <1>1, <1>5, <1>6, Zenon DEF Table2
<1>. QED
  BY <1>3, <1>5, <1>7, SamePath, Zenon

-----------------------------------------------------------------------------
\* A new directory.

LEMMA NewRoot ==
  ASSUME NEW m, Forest(m), m.used < MaxTables, NEW n, n = NewTable(m, 1)
  PROVE  /\ Forest(n) /\ SameSpace(m, n) /\ n.used = m.used + 1
         /\ Root(n, m.used) /\ \A v \in Virtuals : Translate(n.entry, m.used, v) = NoEntry
<1>1. m \in Memories /\ \A t \in Tables(m) : m.level[t] \in 1 .. 4
  BY Zenon DEF Forest
<1>2. /\ n \in Memories /\ n.used = m.used + 1 /\ m.used \in Frames
      /\ \A j \in Indices : n.entry[m.used][j] = NoEntry
      /\ \A s \in Tables(m) : n.entry[s] = m.entry[s] /\ n.level[s] = m.level[s]
      /\ n.level[m.used] = 1
  BY <1>1, NewTableParts
<1>3. Tables(n) = Tables(m) \cup {m.used} /\ m.used \notin Tables(m)
  <2>1. m.used \in Nat
    BY <1>1, MemoryFacts, Zenon
  <2>. QED
    BY <1>2, <2>1 DEF Tables
<1>4. \A t, i : Link(n, t, i) <=> Link(m, t, i)
  BY <1>2, <1>3, EntryFacts, Zenon DEF Link
<1>5. \A t, i : Link(m, t, i) => Child(n, t, i) = Child(m, t, i)
  BY <1>2, Zenon DEF Link, Child
<1>6. Forest(n)
  <2>1. \A t \in Tables(n) : n.level[t] \in 1 .. 4
    BY <1>1, <1>2, <1>3
  <2>2. \A t, i : Link(n, t, i) =>
          Child(n, t, i) \in Tables(n) /\ n.level[Child(n, t, i)] = n.level[t] + 1
    BY <1>2, <1>3, <1>4, <1>5 DEF Forest, Link
  <2>3. \A t, i, s, j : Link(n, t, i) /\ Link(n, s, j) /\ Child(n, t, i) = Child(n, s, j)
                          => t = s /\ i = j
    BY <1>4, <1>5 DEF Forest
  <2>. QED
    BY <1>2, <2>1, <2>2, <2>3, Zenon DEF Forest
<1>7. ASSUME NEW d, Root(m, d), NEW v \in Virtuals
      PROVE  Root(n, d) /\ Translate(n.entry, d, v) = Translate(m.entry, d, v)
  <2>1. Root(n, d) /\ d \in Tables(m)
    BY <1>2, <1>3, <1>7, Zenon DEF Root
  <2>2. n.entry[d] = m.entry[d] /\ Table2(n, d, v) = Table2(m, d, v)
    BY <1>2, <2>1, Zenon DEF Table2, Child
  <2>3. ASSUME Present(m.entry[d][Path[v][1]])
        PROVE  /\ n.entry[Table2(m, d, v)] = m.entry[Table2(m, d, v)]
               /\ Table3(n, d, v) = Table3(m, d, v)
    BY <1>2, <1>7, <2>2, <2>3, WalkLinks, Zenon DEF Table3, Child
  <2>4. ASSUME Present(m.entry[d][Path[v][1]]), Present(m.entry[Table2(m, d, v)][Path[v][2]])
        PROVE  /\ n.entry[Table3(m, d, v)] = m.entry[Table3(m, d, v)]
               /\ Table4(n, d, v) = Table4(m, d, v)
    BY <1>2, <1>7, <2>3, <2>4, WalkLinks, Zenon DEF Table4, Child
  <2>5. Reached(n, d, v) <=> Reached(m, d, v)
    BY <2>2, <2>3, <2>4, Zenon DEF Reached
  <2>6. ASSUME Reached(m, d, v)
        PROVE  Table4(n, d, v) = Table4(m, d, v) /\ n.entry[Table4(m, d, v)] = m.entry[Table4(m, d, v)]
    BY <1>2, <1>7, <2>4, <2>6, WalkLinks, Zenon DEF Reached
  <2>. QED
    BY <2>1, <2>5, <2>6, TranslateWalk, Zenon
<1>8. ASSUME NEW v \in Virtuals PROVE Translate(n.entry, m.used, v) = NoEntry
  <2>1. Path[v][1] \in Indices
    BY PathIndices, Zenon
  <2>2. ~ Reached(n, m.used, v)
    BY <1>2, <2>1, EntryFacts, Zenon DEF Reached
  <2>. QED
    BY <2>2, TranslateWalk, Zenon
<1>. QED
  BY <1>2, <1>3, <1>6, <1>7, <1>8, Zenon DEF Root, SameSpace

-----------------------------------------------------------------------------
\* One level of __paging_map: the new table is empty, so every translation stays.

LEMMA EnsureParts ==
  ASSUME NEW m, Forest(m), m.used < MaxTables, NEW t \in Tables(m), m.level[t] < 4,
         NEW i \in Indices, ~ Present(m.entry[t][i]),
         NEW flags \in SUBSET AllFlags, PRESENT \in flags, NEW n, n = Ensure(m, t, i, flags)
  PROVE  /\ n \in Memories /\ n.used = m.used + 1 /\ m.used \notin Tables(m)
         /\ Tables(n) = Tables(m) \cup {m.used}
         /\ \A j \in Indices : n.entry[m.used][j] = NoEntry
         /\ Present(n.entry[t][i]) /\ n.entry[t][i].addr = m.used
         /\ \A s \in Tables(m), j \in Indices : s # t \/ j # i => n.entry[s][j] = m.entry[s][j]
         /\ \A s \in Tables(m) : n.level[s] = m.level[s]
         /\ n.level[m.used] = m.level[t] + 1
<1>1. m \in Memories /\ m.level[t] \in 1 .. 4
  BY Zenon DEF Forest
<1>2. m.used \in Nat /\ Tables(m) \subseteq Frames /\ m.entry[t][i] \in Entries
  BY <1>1, MemoryFacts, Zenon
<1>3. m.level[t] + 1 \in 1 .. 4 /\ m.used \notin Tables(m) /\ t \in Frames
  BY <1>1, <1>2 DEF Tables
<1>. DEFINE k == NewTable(m, m.level[t] + 1)
            e == [pde_setaddress(m.entry[t][i], Aligned(m.used)) EXCEPT !.flags = @ \cup flags]
<1>4. /\ k \in Memories /\ k.used = m.used + 1 /\ m.used \in Frames
      /\ \A j \in Indices : k.entry[m.used][j] = NoEntry
      /\ \A s \in Tables(m) : k.entry[s] = m.entry[s] /\ k.level[s] = m.level[s]
      /\ k.level[m.used] = m.level[t] + 1
  BY <1>1, <1>3, NewTableParts
<1>5. e \in Entries /\ e.addr = m.used /\ Present(e)
  <2>1. PICK old \in Entries : old = m.entry[t][i]
    BY <1>2, Zenon
  <2>2. e = [pde_setaddress(old, Aligned(m.used)) EXCEPT !.flags = @ \cup flags]
    BY <2>1, Zenon
  <2>. HIDE DEF e
  <2>3. e = [addr |-> m.used % AddrFrames, flags |-> old.flags \cup {} \cup flags]
    BY <2>2, Zenon DEF pde_setaddress, Aligned
  <2>4. e \in Entries
    BY <1>2, <2>3, WrittenEntry, Zenon
  <2>5. m.used % AddrFrames = m.used
    BY <1>2, Sizes
  <2>. QED
    BY <2>3, <2>4, <2>5, Zenon DEF Present
<1>6. n = Store(k, t, i, e)
  BY Zenon DEF Ensure
<1>. HIDE DEF k, e
<1>7. /\ n \in Memories /\ n.used = k.used /\ n.level = k.level /\ n.entry[t][i] = e
      /\ \A s \in Frames, j \in Indices : s # t \/ j # i => n.entry[s][j] = k.entry[s][j]
  BY <1>3, <1>4, <1>5, <1>6, StoreParts
<1>8. Tables(n) = Tables(m) \cup {m.used}
  BY <1>2, <1>4, <1>7 DEF Tables
<1>9. ASSUME NEW j \in Indices PROVE n.entry[m.used][j] = NoEntry
  BY <1>3, <1>4, <1>7, Zenon
<1>10. ASSUME NEW s \in Tables(m), NEW j \in Indices, s # t \/ j # i
       PROVE  n.entry[s][j] = m.entry[s][j]
  BY <1>2, <1>4, <1>7, <1>10
<1>. QED
  BY <1>3, <1>4, <1>5, <1>7, <1>8, <1>9, <1>10, Zenon

LEMMA EnsureStep ==
  ASSUME NEW m, Forest(m), m.used < MaxTables, NEW t \in Tables(m), m.level[t] < 4,
         NEW i \in Indices, NEW flags \in SUBSET AllFlags, PRESENT \in flags,
         NEW n, n = Ensure(m, t, i, flags)
  PROVE  /\ Forest(n) /\ SameSpace(m, n) /\ n.used \in {m.used, m.used + 1}
         /\ Link(n, t, i)
         /\ Child(n, t, i) \in Tables(n) /\ n.level[Child(n, t, i)] = m.level[t] + 1
         /\ \A s, j : Link(m, s, j) => Link(n, s, j) /\ Child(n, s, j) = Child(m, s, j)
         /\ \A s \in Tables(m) : s \in Tables(n) /\ n.level[s] = m.level[s]
<1>1. CASE Present(m.entry[t][i])
  <2>1. n = m
    BY <1>1, Zenon DEF Ensure
  <2>2. Link(m, t, i)
    BY <1>1, Zenon DEF Link
  <2>. QED
    BY <2>1, <2>2 DEF Forest, SameSpace
<1>2. CASE ~ Present(m.entry[t][i])
  <2>1. /\ n \in Memories /\ n.used = m.used + 1 /\ m.used \notin Tables(m)
        /\ Tables(n) = Tables(m) \cup {m.used}
        /\ \A j \in Indices : n.entry[m.used][j] = NoEntry
        /\ Present(n.entry[t][i]) /\ n.entry[t][i].addr = m.used
        /\ \A s \in Tables(m), j \in Indices : s # t \/ j # i => n.entry[s][j] = m.entry[s][j]
        /\ \A s \in Tables(m) : n.level[s] = m.level[s]
        /\ n.level[m.used] = m.level[t] + 1
    BY <1>2, EnsureParts
  <2>2. m.level[t] \in 1 .. 3 /\ \A s \in Tables(m) : m.level[s] \in 1 .. 4
    BY DEF Forest
  <2>3. \A s, j : Link(n, s, j) <=> Link(m, s, j) \/ (s = t /\ j = i)
    BY <2>1, EntryFacts DEF Link
  <2>4. Child(n, t, i) = m.used
    BY <2>1, Zenon DEF Child, pde_getaddress
  <2>5. ~ Link(m, t, i)
    BY <1>2, Zenon DEF Link
  <2>6. \A s, j : Link(m, s, j) => Child(n, s, j) = Child(m, s, j)
    BY <2>1, <2>5, Zenon DEF Link, Child
  <2>7. \A s, j : Link(m, s, j) => Child(m, s, j) \in Tables(m) /\ m.level[Child(m, s, j)] = m.level[s] + 1
    BY Zenon DEF Forest
  <2>8. Forest(n)
    <3>1. \A s \in Tables(n) : n.level[s] \in 1 .. 4
      BY <2>1, <2>2
    <3>2. ASSUME NEW s, NEW j, Link(n, s, j)
          PROVE  Child(n, s, j) \in Tables(n) /\ n.level[Child(n, s, j)] = n.level[s] + 1
      <4>1. CASE Link(m, s, j)
        BY <2>1, <2>6, <2>7, <4>1 DEF Link
      <4>2. CASE s = t /\ j = i
        BY <2>1, <2>4, <4>2, Zenon
      <4>. QED
        BY <2>3, <3>2, <4>1, <4>2, Zenon
    <3>3. ASSUME NEW s, NEW j, NEW r, NEW k, Link(n, s, j), Link(n, r, k), Child(n, s, j) = Child(n, r, k)
          PROVE  s = r /\ j = k
      <4>1. CASE Link(m, s, j) /\ Link(m, r, k)
        BY <2>6, <3>3, <4>1, Zenon DEF Forest
      <4>2. CASE Link(m, s, j) /\ r = t /\ k = i
        BY <2>1, <2>4, <2>6, <2>7, <3>3, <4>2
      <4>3. CASE Link(m, r, k) /\ s = t /\ j = i
        BY <2>1, <2>4, <2>6, <2>7, <3>3, <4>3
      <4>. QED
        BY <2>3, <3>3, <4>1, <4>2, <4>3
    <3>. QED
      BY <2>1, <3>1, <3>2, <3>3, Zenon DEF Forest
  <2>9. ASSUME NEW d, Root(m, d), NEW v \in Virtuals
        PROVE  Root(n, d) /\ Translate(n.entry, d, v) = Translate(m.entry, d, v)
    <3>. DEFINE i1 == Path[v][1]
                i2 == Path[v][2]
                i3 == Path[v][3]
                i4 == Path[v][4]
                t2 == Table2(m, d, v)
                t3 == Table3(m, d, v)
                t4 == Table4(m, d, v)
    <3>1. Root(n, d) /\ d \in Tables(m)
      BY <2>1, <2>9, Zenon DEF Root
    <3>2. i1 \in Indices /\ i2 \in Indices /\ i3 \in Indices /\ i4 \in Indices
      BY PathIndices, Zenon
    <3>3. \A j \in Indices : ~ Present(n.entry[m.used][j])
      BY <2>1, EntryFacts, Zenon
    <3>4. CASE d = t /\ i1 = i
      <4>1. Table2(n, d, v) = m.used
        BY <2>4, <3>4, Zenon DEF Table2
      <4>2. ~ Reached(n, d, v)
        BY <3>2, <3>3, <4>1, Zenon DEF Reached
      <4>3. ~ Reached(m, d, v)
        BY <1>2, <3>4, Zenon DEF Reached
      <4>. QED
        BY <3>1, <4>2, <4>3, TranslateWalk, Zenon
    <3>5. CASE ~ (d = t /\ i1 = i)
      <4>1. n.entry[d][i1] = m.entry[d][i1] /\ Table2(n, d, v) = t2
        BY <2>1, <3>1, <3>2, <3>5, Zenon DEF Table2, Child
      <4>2. CASE ~ Present(m.entry[d][i1])
        <5>1. ~ Reached(m, d, v) /\ ~ Reached(n, d, v)
          BY <4>1, <4>2, Zenon DEF Reached
        <5>. QED
          BY <3>1, <5>1, TranslateWalk, Zenon
      <4>3. CASE Present(m.entry[d][i1])
        <5>1. t2 \in Tables(m)
          BY <2>9, <4>3, WalkLinks, Zenon
        <5>2. CASE t2 = t /\ i2 = i
          <6>1. Table3(n, d, v) = m.used
            BY <2>4, <4>1, <5>2, Zenon DEF Table3
          <6>2. ~ Reached(n, d, v)
            BY <3>2, <3>3, <6>1, Zenon DEF Reached
          <6>3. ~ Reached(m, d, v)
            BY <1>2, <5>2, Zenon DEF Reached
          <6>. QED
            BY <3>1, <6>2, <6>3, TranslateWalk, Zenon
        <5>3. CASE ~ (t2 = t /\ i2 = i)
          <6>1. n.entry[t2][i2] = m.entry[t2][i2] /\ Table3(n, d, v) = t3
            <7>1. n.entry[t2][i2] = m.entry[t2][i2]
              BY <2>1, <3>2, <5>1, <5>3, Zenon
            <7>. QED
              BY <4>1, <7>1, Zenon DEF Table3, Child
          <6>2. CASE ~ Present(m.entry[t2][i2])
            <7>1. ~ Reached(m, d, v) /\ ~ Reached(n, d, v)
              BY <4>1, <6>1, <6>2, Zenon DEF Reached
            <7>. QED
              BY <3>1, <7>1, TranslateWalk, Zenon
          <6>3. CASE Present(m.entry[t2][i2])
            <7>1. t3 \in Tables(m)
              BY <2>9, <4>3, <6>3, WalkLinks, Zenon
            <7>2. CASE t3 = t /\ i3 = i
              <8>1. Table4(n, d, v) = m.used
                BY <2>4, <6>1, <7>2, Zenon DEF Table4
              <8>2. n.entry[Table4(n, d, v)][i4] = NoEntry
                BY <2>1, <3>2, <8>1
              <8>3. ~ Reached(m, d, v)
                BY <1>2, <7>2, Zenon DEF Reached
              <8>. QED
                BY <3>1, <8>2, <8>3, TranslateWalk, Zenon
            <7>3. CASE ~ (t3 = t /\ i3 = i)
              <8>1. n.entry[t3][i3] = m.entry[t3][i3] /\ Table4(n, d, v) = t4
                <9>1. n.entry[t3][i3] = m.entry[t3][i3]
                  BY <2>1, <3>2, <7>1, <7>3, Zenon
                <9>. QED
                  BY <6>1, <9>1, Zenon DEF Table4, Child
              <8>2. Reached(n, d, v) <=> Reached(m, d, v)
                BY <4>1, <6>1, <8>1, Zenon DEF Reached
              <8>3. ASSUME Reached(m, d, v) PROVE n.entry[t4][i4] = m.entry[t4][i4]
                <9>1. t4 \in Tables(m) /\ m.level[t4] = 4
                  BY <2>9, <8>3, WalkLinks, Zenon
                <9>2. t4 # t
                  BY <2>2, <9>1
                <9>. QED
                  BY <2>1, <3>2, <9>1, <9>2, Zenon
              <8>. QED
                BY <3>1, <8>1, <8>2, <8>3, TranslateWalk, Zenon
            <7>. QED
              BY <7>2, <7>3, Zenon
          <6>. QED
            BY <6>2, <6>3, Zenon
        <5>. QED
          BY <5>2, <5>3, Zenon
      <4>. QED
        BY <4>2, <4>3, Zenon
    <3>. QED
      BY <3>4, <3>5, Zenon
  <2>10. Link(n, t, i)
    BY <2>3, Zenon
  <2>. QED
    BY <2>1, <2>3, <2>4, <2>6, <2>8, <2>9, <2>10, Zenon DEF SameSpace
<1>. QED
  BY <1>1, <1>2, Zenon

-----------------------------------------------------------------------------
\* Mapping and unmapping.

\* Memory n differs from m in the translation of page v in directory d, which is e.
Changes(m, n, d, v, e) ==
  \A c, w : Root(m, c) /\ w \in Virtuals =>
    /\ Root(n, c)
    /\ Translate(n.entry, c, w) = IF c = d /\ w = v THEN e ELSE Translate(m.entry, c, w)

LEMMA LeafStore ==
  ASSUME NEW m, Forest(m), NEW d, Root(m, d), NEW v \in Virtuals, Reached(m, d, v),
         NEW e \in Entries, NEW n, n = Store(m, Table4(m, d, v), Path[v][4], e)
  PROVE  Forest(n) /\ n.used = m.used /\ Changes(m, n, d, v, e)
<1>. DEFINE t == Table4(m, d, v)
            i == Path[v][4]
<1>1. m \in Memories /\ i \in Indices
  BY PathIndices, Zenon DEF Forest
<1>2. t \in Tables(m) /\ m.level[t] = 4 /\ Tables(m) \subseteq Frames
  BY <1>1, WalkLinks, MemoryFacts, Zenon
<1>. HIDE DEF t, i
<1>3. /\ n \in Memories /\ n.used = m.used /\ n.level = m.level /\ n.entry[t][i] = e
      /\ \A s \in Frames, j \in Indices : s # t \/ j # i => n.entry[s][j] = m.entry[s][j]
  <2>1. n = Store(m, t, i, e)
    BY Zenon DEF t, i
  <2>2. t \in Frames
    BY <1>2, Zenon
  <2>. QED
    BY <1>1, <2>1, <2>2, StoreParts
<1>4. Tables(n) = Tables(m) /\ \A c : Root(n, c) <=> Root(m, c)
  BY <1>3, Zenon DEF Tables, Root
<1>5. ASSUME NEW s \in Tables(m), NEW j \in Indices, m.level[s] # 4
      PROVE  n.entry[s][j] = m.entry[s][j] /\ Child(n, s, j) = Child(m, s, j)
  BY <1>2, <1>3, <1>5, Zenon DEF Child
<1>6. \A s, j : Link(n, s, j) <=> Link(m, s, j)
  <2>1. ASSUME NEW s \in Tables(m), NEW j \in Indices, m.level[s] < 4
        PROVE  n.entry[s][j] = m.entry[s][j] /\ n.level[s] = m.level[s]
    BY <1>3, <1>5, <2>1, Levels, Zenon
  <2>. QED
    BY <1>3, <1>4, <2>1, Zenon DEF Link
<1>7. \A s, j : Link(m, s, j) => Child(n, s, j) = Child(m, s, j)
  BY <1>5, Levels, Zenon DEF Link
<1>8. Forest(n)
  <2>1. \A s, j : Link(n, s, j) =>
          Child(n, s, j) \in Tables(n) /\ n.level[Child(n, s, j)] = n.level[s] + 1
    <3>. SUFFICES ASSUME NEW s, NEW j, Link(n, s, j)
                  PROVE  /\ Child(n, s, j) \in Tables(n)
                         /\ n.level[Child(n, s, j)] = n.level[s] + 1
      BY Zenon
    <3>1. Link(m, s, j) /\ Child(n, s, j) = Child(m, s, j)
      BY <1>6, <1>7, Zenon
    <3>2. Child(m, s, j) \in Tables(m) /\ m.level[Child(m, s, j)] = m.level[s] + 1
      BY <3>1, Zenon DEF Forest
    <3>. QED
      BY <1>3, <1>4, <3>1, <3>2, Zenon
  <2>2. \A s, j, r, k : Link(n, s, j) /\ Link(n, r, k) /\ Child(n, s, j) = Child(n, r, k)
                          => s = r /\ j = k
    BY <1>6, <1>7 DEF Forest
  <2>. QED
    BY <1>3, <1>4, <2>1, <2>2, Zenon DEF Forest
<1>9. ASSUME NEW c, Root(m, c), NEW w \in Virtuals
      PROVE  Translate(n.entry, c, w) = IF c = d /\ w = v THEN e ELSE Translate(m.entry, c, w)
  <2>1. /\ Path[w][1] \in Indices /\ Path[w][2] \in Indices
        /\ Path[w][3] \in Indices /\ Path[w][4] \in Indices
    BY PathIndices, Zenon
  <2>2. n.entry[c][Path[w][1]] = m.entry[c][Path[w][1]] /\ Table2(n, c, w) = Table2(m, c, w)
    BY <1>5, <1>9, <2>1 DEF Root, Table2
  <2>3. ASSUME Present(m.entry[c][Path[w][1]])
        PROVE  /\ n.entry[Table2(m, c, w)][Path[w][2]] = m.entry[Table2(m, c, w)][Path[w][2]]
               /\ Table3(n, c, w) = Table3(m, c, w)
    <3>1. Table2(m, c, w) \in Tables(m) /\ m.level[Table2(m, c, w)] = 2
      BY <1>9, <2>3, WalkLinks, Zenon
    <3>. QED
      BY <1>5, <2>1, <2>2, <3>1, Levels, Zenon DEF Table3
  <2>4. ASSUME Present(m.entry[c][Path[w][1]]), Present(m.entry[Table2(m, c, w)][Path[w][2]])
        PROVE  /\ n.entry[Table3(m, c, w)][Path[w][3]] = m.entry[Table3(m, c, w)][Path[w][3]]
               /\ Table4(n, c, w) = Table4(m, c, w)
    <3>1. Table3(m, c, w) \in Tables(m) /\ m.level[Table3(m, c, w)] = 3
      BY <1>9, <2>4, WalkLinks, Zenon
    <3>. QED
      BY <1>5, <2>1, <2>3, <2>4, <3>1, Levels, Zenon DEF Table4
  <2>5. Reached(n, c, w) <=> Reached(m, c, w)
    BY <2>2, <2>3, <2>4, Zenon DEF Reached
  <2>6. CASE ~ Reached(m, c, w)
    BY <2>5, <2>6, TranslateWalk, Zenon
  <2>7. CASE Reached(m, c, w)
    <3>1. Table4(n, c, w) = Table4(m, c, w) /\ Table4(m, c, w) \in Tables(m)
      BY <1>9, <2>4, <2>7, WalkLinks, Zenon DEF Reached
    <3>2. Translate(n.entry, c, w) = n.entry[Table4(m, c, w)][Path[w][4]]
      BY <2>5, <2>7, <3>1, TranslateWalk, Zenon
    <3>3. Translate(m.entry, c, w) = m.entry[Table4(m, c, w)][Path[w][4]]
      BY <2>7, TranslateWalk, Zenon
    <3>4. CASE Table4(m, c, w) = t /\ Path[w][4] = i
      <4>1. c = d /\ w = v
        BY <1>9, <2>7, <3>4, WalksApart, Zenon DEF t, i
      <4>. QED
        BY <1>3, <3>2, <3>4, <4>1, Zenon
    <3>5. CASE ~ (Table4(m, c, w) = t /\ Path[w][4] = i)
      <4>1. ~ (c = d /\ w = v)
        BY <3>5, Zenon DEF t, i
      <4>. QED
        BY <1>2, <1>3, <2>1, <3>1, <3>2, <3>3, <3>5, <4>1, Zenon
    <3>. QED
      BY <3>4, <3>5, Zenon
  <2>. QED
    BY <2>6, <2>7, Zenon
<1>. QED
  BY <1>3, <1>4, <1>8, <1>9, Zenon DEF Changes

\* What Ensure leaves of memory m when it makes entry i of table t lead to a table.
Ensured(m, n, t, i) ==
  /\ Forest(n) /\ SameSpace(m, n) /\ n.used \in {m.used, m.used + 1}
  /\ Link(n, t, i) /\ Child(n, t, i) \in Tables(n) /\ n.level[Child(n, t, i)] = m.level[t] + 1
  /\ \A s, j : Link(m, s, j) => Link(n, s, j) /\ Child(n, s, j) = Child(m, s, j)

LEMMA EnsureGives ==
  ASSUME NEW m, Forest(m), m.used < MaxTables, NEW t \in Tables(m), m.level[t] < 4,
         NEW i \in Indices, NEW flags \in SUBSET AllFlags, PRESENT \in flags,
         NEW n, n = Ensure(m, t, i, flags)
  PROVE  Ensured(m, n, t, i)
BY EnsureStep DEF Ensured

\* __paging_map changes the translation of one page of one directory, and keeps the
\* forest, whatever tables it has to add.
LEMMA MapMemory ==
  ASSUME NEW m, Forest(m), m.used + 3 <= MaxTables, NEW d, Root(m, d), NEW v \in Virtuals,
         NEW f \in Nat, NEW low \in SUBSET AllFlags, NEW p, p = [frame |-> f, low |-> low],
         NEW flags \in SUBSET AllFlags, PRESENT \in flags,
         NEW n, n = __paging_map(m, d, v, p, flags)
  PROVE  LET old == Translate(m.entry, d, v)
             new == [addr |-> f % AddrFrames, flags |-> old.flags \cup low \cup flags] IN
         /\ Forest(n) /\ n.used \in m.used .. (m.used + 3)
         /\ old \in Entries /\ new \in Entries /\ Changes(m, n, d, v, new)
<1>1. m \in Memories /\ m.used \in Nat
  BY MemoryFacts, Zenon DEF Forest
<1>. DEFINE i1 == Path[v][1]
            i2 == Path[v][2]
            i3 == Path[v][3]
            m1 == Ensure(m, d, i1, flags)
            pdp == Child(m1, d, i1)
            m2 == Ensure(m1, pdp, i2, flags)
            pd == Child(m2, pdp, i2)
            m3 == Ensure(m2, pd, i3, flags)
            pt == Child(m3, pd, i3)
            e == [pde_setaddress(m3.entry[pt][Path[v][4]], p) EXCEPT !.flags = @ \cup flags]
<1>2. i1 \in Indices /\ i2 \in Indices /\ i3 \in Indices /\ Path[v][4] \in Indices
  BY PathIndices, Zenon
<1>3. n = Store(m3, pt, Path[v][4], e)
  BY Zenon DEF __paging_map
<1>. HIDE DEF i1, i2, i3, m1, pdp, m2, pd, m3, pt, e
<1>4. /\ Forest(m1) /\ SameSpace(m, m1) /\ m1.used \in {m.used, m.used + 1}
       /\ Link(m1, d, i1) /\ pdp \in Tables(m1) /\ m1.level[pdp] = 2
  <2>1. m.used < MaxTables /\ d \in Tables(m) /\ m.level[d] = 1 /\ m.level[d] < 4
    BY <1>1, Growth, Levels, Zenon DEF Root
  <2>2. Ensured(m, m1, d, i1)
    BY <1>2, <2>1, EnsureGives, Zenon DEF m1
  <2>3. m1.level[pdp] = m.level[d] + 1
    BY <2>2, Zenon DEF Ensured, pdp
  <2>4. m1.level[pdp] = 2
    BY <2>1, <2>3, Levels, Zenon
  <2>. QED
    BY <2>2, <2>4, Zenon DEF Ensured, pdp
<1>5. /\ Forest(m2) /\ SameSpace(m1, m2) /\ m2.used \in {m1.used, m1.used + 1}
       /\ Link(m2, pdp, i2) /\ pd \in Tables(m2) /\ m2.level[pd] = 3
       /\ \A s, j : Link(m1, s, j) => Link(m2, s, j) /\ Child(m2, s, j) = Child(m1, s, j)
  <2>1. m1.used < MaxTables /\ m1.level[pdp] < 4
    BY <1>1, <1>4, Growth, Levels, Zenon
  <2>2. Ensured(m1, m2, pdp, i2)
    BY <1>2, <1>4, <2>1, EnsureGives, Zenon DEF m2
  <2>3. m2.level[pd] = m1.level[pdp] + 1
    BY <2>2, Zenon DEF Ensured, pd
  <2>4. m2.level[pd] = 3
    BY <1>4, <2>3, Levels, Zenon
  <2>. QED
    BY <2>2, <2>4, Zenon DEF Ensured, pd
<1>6. /\ Forest(m3) /\ SameSpace(m2, m3) /\ m3.used \in {m2.used, m2.used + 1}
       /\ Link(m3, pd, i3)
       /\ \A s, j : Link(m2, s, j) => Link(m3, s, j) /\ Child(m3, s, j) = Child(m2, s, j)
  <2>1. m2.used < MaxTables /\ m2.level[pd] < 4
    BY <1>1, <1>4, <1>5, Growth, Levels, Zenon
  <2>2. Ensured(m2, m3, pd, i3)
    BY <1>2, <1>5, <2>1, EnsureGives, Zenon DEF m3
  <2>. QED
    BY <2>2, Zenon DEF Ensured
<1>7. SameSpace(m, m3) /\ Root(m3, d)
  <2>1. SameSpace(m, m2)
    BY <1>4, <1>5, Zenon DEF SameSpace
  <2>2. SameSpace(m, m3)
    BY <1>6, <2>1, Zenon DEF SameSpace
  <2>. QED
    BY <2>2, Zenon DEF SameSpace
<1>8. /\ Table2(m3, d, v) = pdp /\ Table3(m3, d, v) = pd /\ Table4(m3, d, v) = pt
       /\ Reached(m3, d, v)
  <2>1. Table2(m3, d, v) = pdp /\ Link(m3, d, Path[v][1])
    BY <1>4, <1>5, <1>6, Zenon DEF Table2, pdp, i1
  <2>2. Table3(m3, d, v) = pd /\ Link(m3, pdp, Path[v][2])
    BY <1>5, <1>6, <2>1, Zenon DEF Table3, pd, i2
  <2>3. Table4(m3, d, v) = pt
    BY <2>2, Zenon DEF Table4, pt, i3
  <2>. QED
    BY <1>6, <2>1, <2>2, <2>3, Zenon DEF Reached, Link, i3
<1>9. Translate(m.entry, d, v) = m3.entry[pt][Path[v][4]]
  BY <1>7, <1>8, TranslateWalk, Zenon DEF SameSpace
<1>10. m3.entry[pt][Path[v][4]] \in Entries
  <2>1. m3 \in Memories /\ pt \in Tables(m3)
    BY <1>6, <1>7, <1>8, WalkLinks, Zenon DEF Forest
  <2>. QED
    BY <1>2, <2>1, MemoryFacts, Zenon
<1>11. e = [addr |-> f % AddrFrames, flags |-> m3.entry[pt][Path[v][4]].flags \cup low \cup flags]
       /\ e \in Entries
  <2>1. PICK old \in Entries : old = m3.entry[pt][Path[v][4]]
    BY <1>10, Zenon
  <2>2. e = [pde_setaddress(old, p) EXCEPT !.flags = @ \cup flags]
    BY <2>1, Zenon DEF e
  <2>3. e = [addr |-> f % AddrFrames, flags |-> old.flags \cup low \cup flags]
    BY <2>2, Zenon DEF pde_setaddress
  <2>4. e \in Entries
    BY <2>3, WrittenEntry, Zenon
  <2>. QED
    BY <2>1, <2>3, <2>4, Zenon
<1>12. Forest(n) /\ n.used = m3.used /\ Changes(m3, n, d, v, e)
  <2>1. n = Store(m3, Table4(m3, d, v), Path[v][4], e)
    BY <1>3, <1>8, Zenon
  <2>2. Forest(m3) /\ Root(m3, d) /\ Reached(m3, d, v) /\ e \in Entries
    BY <1>6, <1>7, <1>8, <1>11, Zenon
  <2>. QED
    BY <2>1, <2>2, LeafStore, Zenon
<1>13. Changes(m, n, d, v, e)
  BY <1>7, <1>12 DEF Changes, SameSpace
<1>14. n.used \in m.used .. (m.used + 3)
  BY <1>1, <1>4, <1>5, <1>6, <1>12, Growth, Zenon
<1>. QED
  BY <1>9, <1>10, <1>11, <1>12, <1>13, <1>14, Zenon

LEMMA UnmapMemory ==
  ASSUME NEW m, Forest(m), NEW d, Root(m, d), NEW v \in Virtuals,
         NEW n, n = __paging_unmap(m, d, v)
  PROVE  /\ Forest(n) /\ n.used = m.used
         /\ Present(Translate(m.entry, d, v)) => Changes(m, n, d, v, NoEntry)
         /\ ~ Present(Translate(m.entry, d, v)) => n = m
<1>1. CASE ~ Present(Translate(m.entry, d, v))
  BY <1>1, Zenon DEF __paging_unmap
<1>2. CASE Present(Translate(m.entry, d, v))
  <2>1. Reached(m, d, v)
    BY <1>2, TranslateWalk, EntryFacts, Zenon
  <2>2. n = Store(m, Table4(m, d, v), Path[v][4], NoEntry)
    BY <1>2, Zenon DEF __paging_unmap, Table2, Table3, Table4
  <2>3. Forest(n) /\ n.used = m.used /\ Changes(m, n, d, v, NoEntry)
    BY <2>1, <2>2, LeafStore, EntryFacts, Zenon
  <2>. QED
    BY <1>2, <2>3, Zenon
<1>. QED
  BY <1>1, <1>2, Zenon

-----------------------------------------------------------------------------
\* The state.

FlagSets == DriverFlags \cup {FB_FLAGS} \cup {f \cup {PRESENT} : f \in UserFlags}
Targets == Physicals \cup {Aligned(p.frame) : p \in Physicals} \cup {Aligned(v) : v \in Virtuals}
KernelPages == KernStart .. (MemPages - 1)

\* The iterations of the loops.
Rounds == [page : Virtuals, flags : {PAGE_NORMAL, FB_FLAGS}]

\* Page v of directory d is where the kernel expects it.
Mapped(tables, d, v) ==
  LET e == Translate(tables, d, v) IN e.addr = v /\ PAGE_NORMAL \subseteq e.flags

\* The entry that __paging_map leaves for a page.
Written(old, p, flags) ==
  [addr |-> p.frame % AddrFrames, flags |-> old.flags \cup p.low \cup flags]

\* The directories are trees of one forest.
RootsInv == Forest(Memory) /\ \A d \in roots : Root(Memory, d)

\* The directory that a loop fills is not in use, except that the first one is loaded
\* when it is complete.
LoopInv ==
  /\ loop = [dir |-> loop.dir, todo |-> loop.todo]
  /\ loop.dir \in roots \cup {Firmware} /\ loop.todo \in Seq(Rounds)
  /\ loop.dir = Firmware => loop.todo = <<>>
  /\ pml4 \in roots \cup {Firmware}
  /\ cr3 # Firmware => cr3 = pml4 /\ cr3 \in roots /\ cr3 # loop.dir
  /\ cr3 = Firmware => tlb = NotCached /\ (roots # {} => roots = {pml4} /\ pml4 = loop.dir)

\* What the loop has not yet mapped it is going to map.
KernelInv ==
  \A d \in roots, v \in KernelPages :
    \/ Mapped(entry, d, v)
    \/ d = loop.dir /\ \E i \in 1 .. Len(loop.todo) : loop.todo[i].page = v

TlbInv == tlb \in [page : Virtuals \cup {0}, pte : Entries] /\ TlbFresh

PagingInv == RootsInv /\ LoopInv /\ KernelInv /\ TlbInv

\* The directories are the roots of a forest once the memory is one that has them.
LEMMA RootsPrimed ==
  ASSUME NEW n, Memory' = n, Forest(n), \A d \in roots' : Root(n, d)
  PROVE  RootsInv'
BY Zenon DEF RootsInv, Forest, Root, Tables, Link, Child

LEMMA FlagFacts ==
  /\ \A flags \in FlagSets : flags \in SUBSET AllFlags /\ PRESENT \in flags
  /\ PAGE_NORMAL \in FlagSets /\ FB_FLAGS \in FlagSets /\ PAGE_NORMAL \subseteq FB_FLAGS
  /\ \A flags \in DriverFlags : PAGE_NORMAL \subseteq flags
<1>1. FB_FLAGS \in SUBSET AllFlags /\ \A f \in UserFlags : f \in SUBSET AllFlags
  BY Zenon DEF AllFlags
<1>. QED
  BY <1>1 DEF FlagSets, DriverFlags, FB_FLAGS, PAGE_NORMAL

LEMMA TargetFacts ==
  ASSUME NEW p \in Targets
  PROVE  p.frame \in Nat /\ p.low \in SUBSET AllFlags /\ p = [frame |-> p.frame, low |-> p.low]
<1>1. Physicals \subseteq [frame : Nat, low : SUBSET AllFlags] /\ Virtuals \subseteq Nat
  BY PagingAssumption, Zenon
<1>. QED
  BY <1>1 DEF Targets, Aligned

LEMMA LayoutFacts ==
  /\ KernStart \in Nat /\ KernEnd \in Nat /\ MemPages \in Nat /\ FbStart \in Nat /\ FbEnd \in Nat
  /\ KernStart <= KernEnd /\ KernEnd < MemPages
  /\ Firmware \notin Nat /\ 0 \in Virtuals
  /\ KernelPages \subseteq Virtuals /\ KernelPages \subseteq 0 .. (MemPages - 1)
  /\ \A v \in KernelPages : v % AddrFrames = v
<1>1. /\ KernStart \in Nat /\ KernEnd \in Nat /\ MemPages \in Nat /\ FbStart \in Nat /\ FbEnd \in Nat
      /\ KernStart <= KernEnd /\ KernEnd < MemPages /\ MemPages <= AddrFrames
      /\ Firmware \notin Nat /\ 0 .. (MemPages - 1) \subseteq Virtuals
  BY PagingAssumption, Zenon
<1>2. 0 \in 0 .. (MemPages - 1) /\ KernelPages \subseteq 0 .. (MemPages - 1)
  BY <1>1 DEF KernelPages
<1>3. ASSUME NEW v \in KernelPages PROVE v % AddrFrames = v
  <2>1. v \in 0 .. (AddrFrames - 1)
    BY <1>1, <1>2, Sizes
  <2>. QED
    BY <2>1, Sizes
<1>. QED
  BY <1>1, <1>2, <1>3, Zenon

LEMMA RootsFacts ==
  ASSUME RootsInv
  PROVE  /\ roots \subseteq Nat /\ Firmware \notin roots
         /\ \A d \in roots, v \in Virtuals : Translate(entry, d, v) \in Entries
<1>1. \A d \in roots : d \in 0 .. (used - 1) /\ Root(Memory, d)
  BY Zenon DEF RootsInv, Root, Tables, Memory
<1>2. used \in Nat /\ Memory \in Memories /\ Memory.entry = entry
  <2>1. Memory \in Memories
    BY Zenon DEF RootsInv, Forest
  <2>. QED
    BY <2>1, MemoryFacts, Zenon DEF Memory
<1>3. roots \subseteq Nat
  BY <1>1, <1>2
<1>4. ASSUME NEW d \in roots, NEW v \in Virtuals PROVE Translate(entry, d, v) \in Entries
  <2>1. CASE Reached(Memory, d, v)
    <3>1. Table4(Memory, d, v) \in Tables(Memory)
      BY <1>1, <2>1, WalkLinks, Zenon DEF RootsInv
    <3>2. Memory.entry[Table4(Memory, d, v)][Path[v][4]] \in Entries
      BY <1>2, <3>1, PathIndices, MemoryFacts, Zenon
    <3>. QED
      BY <1>2, <2>1, <3>2, TranslateWalk, Zenon
  <2>2. CASE ~ Reached(Memory, d, v)
    BY <1>2, <2>2, TranslateWalk, EntryFacts, Zenon
  <2>. QED
    BY <2>1, <2>2, Zenon
<1>. QED
  BY <1>3, <1>4, LayoutFacts, Zenon

LEMMA NewMemory ==
  ASSUME NEW n \in Memories, SetMemory(n)
  PROVE  Memory' = n /\ entry' = n.entry /\ used' = n.used
<1>1. n = [used |-> n.used, entry |-> n.entry, level |-> n.level]
  BY Zenon DEF Memories
<1>. QED
  BY <1>1, Zenon DEF SetMemory, Memory

\* What a call of __paging_map does to the state.
LEMMA MapStep ==
  ASSUME RootsInv, used + 3 <= MaxTables, NEW d \in roots, NEW v \in Virtuals,
         NEW p \in Targets, NEW flags \in FlagSets,
         SetMemory(__paging_map(Memory, d, v, p, flags)), UNCHANGED roots
  PROVE  /\ RootsInv'
         /\ \A c \in roots, w \in Virtuals :
              Translate(entry', c, w) =
                IF c = d /\ w = v THEN Written(Translate(entry, d, v), p, flags)
                ELSE Translate(entry, c, w)
<1>1. Forest(Memory) /\ Root(Memory, d) /\ Memory.used = used /\ Memory.entry = entry
  BY Zenon DEF RootsInv, Memory
<1>2. p.frame \in Nat /\ p.low \in SUBSET AllFlags /\ p = [frame |-> p.frame, low |-> p.low]
  BY TargetFacts, Zenon
<1>3. flags \in SUBSET AllFlags /\ PRESENT \in flags
  BY FlagFacts, Zenon
<1>4. PICK n : n = __paging_map(Memory, d, v, p, flags)
  BY Zenon
<1>5. PICK new : new = Written(Translate(entry, d, v), p, flags)
  BY Zenon
<1>6. Forest(n) /\ Changes(Memory, n, d, v, new)
  BY <1>1, <1>2, <1>3, <1>4, <1>5, MapMemory, Zenon DEF Written
<1>7. n \in Memories
  BY <1>6, Zenon DEF Forest
<1>8. Memory' = n /\ entry' = n.entry
  BY <1>4, <1>7, NewMemory, Zenon
<1>9. ASSUME NEW c \in roots
      PROVE  /\ Root(n, c)
             /\ \A w \in Virtuals :
                  Translate(entry', c, w) = IF c = d /\ w = v THEN new ELSE Translate(entry, c, w)
  BY <1>1, <1>6, <1>8, Zenon DEF Changes, RootsInv
<1>10. RootsInv'
  BY <1>6, <1>8, <1>9, Zenon DEF RootsInv, Forest, Root, Tables, Link, Child
<1>. QED
  BY <1>5, <1>6, <1>9, <1>10, Zenon

\* What a call of __paging_unmap does to the state.
LEMMA UnmapStep ==
  ASSUME RootsInv, NEW d \in roots, NEW v \in Virtuals,
         SetMemory(__paging_unmap(Memory, d, v)), UNCHANGED roots
  PROVE  /\ RootsInv'
         /\ \A c \in roots, w \in Virtuals :
              Translate(entry', c, w) =
                IF c = d /\ w = v /\ Present(Translate(entry, d, v)) THEN NoEntry
                ELSE Translate(entry, c, w)
<1>1. Forest(Memory) /\ Root(Memory, d) /\ Memory.used = used /\ Memory.entry = entry
  BY Zenon DEF RootsInv, Memory
<1>2. PICK n : n = __paging_unmap(Memory, d, v)
  BY Zenon
<1>3. /\ Forest(n)
      /\ Present(Translate(entry, d, v)) => Changes(Memory, n, d, v, NoEntry)
      /\ ~ Present(Translate(entry, d, v)) => n = Memory
  BY <1>1, <1>2, UnmapMemory, Zenon
<1>4. n \in Memories
  BY <1>3, Zenon DEF Forest
<1>5. Memory' = n /\ entry' = n.entry
  BY <1>2, <1>4, NewMemory, Zenon
<1>6. ASSUME NEW c \in roots
      PROVE  /\ Root(n, c)
             /\ \A w \in Virtuals :
                  Translate(entry', c, w) =
                    IF c = d /\ w = v /\ Present(Translate(entry, d, v)) THEN NoEntry
                    ELSE Translate(entry, c, w)
  BY <1>1, <1>3, <1>5, Zenon DEF Changes, RootsInv
<1>7. RootsInv'
  BY <1>3, <1>5, <1>6, Zenon DEF RootsInv, Forest, Root, Tables, Link, Child
<1>. QED
  BY <1>6, <1>7, Zenon

\* What a new directory does to the state.
LEMMA BeginMemory ==
  ASSUME RootsInv, used < MaxTables, SetMemory(NewTable(Memory, 1)), roots' = roots \cup {used}
  PROVE  /\ RootsInv' /\ used \notin roots /\ used \in Frames
         /\ \A w \in Virtuals : Translate(entry', used, w) = NoEntry
         /\ \A c \in roots, w \in Virtuals : Translate(entry', c, w) = Translate(entry, c, w)
<1>1. Forest(Memory) /\ Memory.used = used /\ Memory.entry = entry
  BY Zenon DEF RootsInv, Memory
<1>2. PICK n : n = NewTable(Memory, 1)
  BY Zenon
<1>3. /\ Forest(n) /\ SameSpace(Memory, n) /\ Root(n, used)
      /\ \A w \in Virtuals : Translate(n.entry, used, w) = NoEntry
  BY <1>1, <1>2, NewRoot, Zenon
<1>4. Memory' = n /\ entry' = n.entry
  BY <1>2, <1>3, NewMemory, Zenon DEF Forest
<1>5. ASSUME NEW c \in roots
      PROVE  /\ Root(n, c)
             /\ \A w \in Virtuals : Translate(entry', c, w) = Translate(entry, c, w)
  <2>1. Root(Memory, c)
    BY Zenon DEF RootsInv
  <2>2. ASSUME NEW w \in Virtuals
        PROVE  Root(n, c) /\ Translate(n.entry, c, w) = Translate(Memory.entry, c, w)
    BY <1>3, <2>1, Zenon DEF SameSpace
  <2>. QED
    BY <1>1, <1>4, <2>2, LayoutFacts, Zenon
<1>6. RootsInv'
  <2>1. \A c \in roots' : Root(n, c)
    BY <1>3, <1>5, Zenon
  <2>. QED
    BY <1>3, <1>4, <2>1, RootsPrimed, Zenon
<1>7. used \in Nat
  <2>1. Memory \in Memories
    BY <1>1, Zenon DEF Forest
  <2>. QED
    BY <1>1, <2>1, MemoryFacts, Zenon
<1>8. used \in Frames
  BY <1>7, Sizes DEF Frames
<1>9. used \notin roots
  <2>1. \A d \in roots : d \in 0 .. (used - 1)
    BY <1>1, Zenon DEF RootsInv, Root, Tables
  <2>. QED
    BY <1>7, <2>1
<1>. QED
  BY <1>3, <1>4, <1>5, <1>6, <1>8, <1>9, Zenon

LEMMA BeginStep ==
  ASSUME PagingInv, NEW todo \in Seq(Rounds), Begin(todo),
         \A v \in KernelPages : \E i \in 1 .. Len(todo) : todo[i].page = v,
         \/ loop = NoLoop /\ cr3 # Firmware /\ UNCHANGED pml4
         \/ roots = {} /\ pml4' = used
  PROVE  PagingInv'
<1>1. RootsInv /\ LoopInv /\ KernelInv /\ TlbInv
  BY Zenon DEF PagingInv
<1>2. /\ used < MaxTables /\ SetMemory(NewTable(Memory, 1)) /\ roots' = roots \cup {used}
      /\ loop' = [dir |-> used, todo |-> todo] /\ cr3' = cr3 /\ tlb' = tlb
  BY Zenon DEF Begin
<1>3. /\ RootsInv' /\ used \notin roots /\ used \in Frames
      /\ \A c \in roots, w \in Virtuals : Translate(entry', c, w) = Translate(entry, c, w)
  BY <1>1, <1>2, BeginMemory, Zenon
<1>4. cr3 = Firmware => roots = {} /\ tlb = NotCached /\ pml4' = used
  BY <1>1, Zenon DEF LoopInv
<1>5. loop.dir = Firmware
  BY <1>1 DEF LoopInv, NoLoop
<1>6. Firmware \notin roots'
  <2>1. used \in Nat
    BY <1>3, Sizes DEF Frames
  <2>. QED
    BY <1>1, <1>2, <2>1, LayoutFacts, RootsFacts, Zenon
<1>7. LoopInv'
  <2>1. cr3 # Firmware => cr3 = pml4 /\ cr3 \in roots /\ UNCHANGED pml4
    BY <1>1, Zenon DEF LoopInv
  <2>2. (cr3 # Firmware => cr3 = pml4 /\ cr3 \in roots /\ cr3 # loop.dir)'
    BY <1>2, <1>3, <2>1, Zenon
  <2>3. (cr3 = Firmware => tlb = NotCached /\ (roots # {} => roots = {pml4} /\ pml4 = loop.dir))'
    BY <1>2, <1>4, Zenon
  <2>4. pml4' \in roots' \cup {Firmware}
    BY <1>1, <1>2, Zenon DEF LoopInv
  <2>5. loop'.dir # Firmware
    BY <1>2, <1>6, Zenon
  <2>. QED
    BY <1>2, <2>2, <2>3, <2>4, <2>5, Zenon DEF LoopInv
<1>8. KernelInv'
  <2>. SUFFICES ASSUME NEW d \in roots', NEW v \in KernelPages
                PROVE  \/ Mapped(entry', d, v)
                       \/ d = loop'.dir /\ \E i \in 1 .. Len(loop'.todo) : loop'.todo[i].page = v
    BY Zenon DEF KernelInv
  <2>1. CASE d = used
    BY <1>2, <2>1, Zenon
  <2>2. CASE d \in roots
    <3>1. Mapped(entry, d, v)
      BY <1>1, <1>5, <2>2, RootsFacts, Zenon DEF KernelInv
    <3>. QED
      BY <1>3, <2>2, <3>1, LayoutFacts, Zenon DEF Mapped
  <2>. QED
    BY <1>2, <2>1, <2>2, Zenon
<1>9. TlbInv'
  <2>1. ASSUME Present(tlb.pte) PROVE Translate(entry', cr3, tlb.page) = Translate(entry, cr3, tlb.page)
    <3>1. cr3 # Firmware
      BY <1>4, <2>1, EntryFacts DEF NotCached
    <3>2. cr3 \in roots /\ tlb.page \in Virtuals
      BY <1>1, <3>1, LayoutFacts, Zenon DEF LoopInv, TlbInv
    <3>. QED
      BY <1>3, <3>2, Zenon
  <2>. QED
    BY <1>1, <1>2, <2>1, Zenon DEF TlbInv, TlbFresh
<1>. QED
  BY <1>3, <1>7, <1>8, <1>9, Zenon DEF PagingInv

LEMMA IdentityFacts ==
  ASSUME NEW from \in Nat, NEW to \in Nat, from .. (to - 1) \subseteq Virtuals,
         NEW flags \in {PAGE_NORMAL, FB_FLAGS}
  PROVE  /\ Identity(from, to, flags) \in Seq(Rounds)
         /\ \A v \in from .. (to - 1) : \E i \in 1 .. Len(Identity(from, to, flags)) :
              Identity(from, to, flags)[i].page = v
<1>. DEFINE q == Identity(from, to, flags)
            n == IF from < to THEN to - from ELSE 0
<1>1. n \in Nat /\ 1 .. (to - from) = 1 .. n
  OBVIOUS
<1>2. q = [i \in 1 .. n |-> [page |-> from + i - 1, flags |-> flags]]
  BY <1>1, Zenon DEF Identity
<1>. HIDE DEF q
<1>3. ASSUME NEW i \in 1 .. n PROVE [page |-> from + i - 1, flags |-> flags] \in Rounds
  <2>1. from + i - 1 \in from .. (to - 1)
    BY <1>1
  <2>. QED
    BY <2>1, Zenon DEF Rounds
<1>4. q \in [1 .. n -> Rounds] /\ \A i \in 1 .. n : q[i].page = from + i - 1
  BY <1>2, <1>3, Zenon
<1>. HIDE DEF n
<1>5. q \in Seq(Rounds) /\ Len(q) = n
  BY <1>1, <1>4
<1>6. ASSUME NEW v \in from .. (to - 1) PROVE \E i \in 1 .. Len(q) : q[i].page = v
  <2>1. v - from + 1 \in 1 .. n /\ from + (v - from + 1) - 1 = v
    BY <1>1 DEF n
  <2>. QED
    BY <1>4, <1>5, <2>1, Zenon
<1>. QED
  BY <1>5, <1>6, Zenon DEF q

LEMMA ConcatRounds ==
  ASSUME NEW p \in Seq(Rounds), NEW q \in Seq(Rounds), NEW v,
         \/ \E i \in 1 .. Len(p) : p[i].page = v
         \/ \E i \in 1 .. Len(q) : q[i].page = v
  PROVE  /\ p \o q \in Seq(Rounds)
         /\ \E i \in 1 .. Len(p \o q) : (p \o q)[i].page = v
<1>1. CASE \E i \in 1 .. Len(p) : p[i].page = v
  <2>1. PICK i \in 1 .. Len(p) : p[i].page = v
    BY <1>1, Zenon
  <2>2. i \in 1 .. Len(p \o q) /\ (p \o q)[i] = p[i]
    OBVIOUS
  <2>. QED
    BY <2>1, <2>2
<1>2. CASE \E i \in 1 .. Len(q) : q[i].page = v
  <2>1. PICK i \in 1 .. Len(q) : q[i].page = v
    BY <1>2, Zenon
  <2>2. Len(p) + i \in 1 .. Len(p \o q) /\ (p \o q)[Len(p) + i] = q[i]
    OBVIOUS
  <2>. QED
    BY <2>1, <2>2
<1>. QED
  BY <1>1, <1>2, Zenon

LEMMA CreateStep ==
  ASSUME PagingInv, paging_init \/ create_page_table
  PROVE  PagingInv'
<1>1. 0 .. (MemPages - 1) \subseteq Virtuals /\ FbStart .. (FbEnd - 1) \subseteq Virtuals
  BY PagingAssumption, Zenon
<1>2. CASE paging_init
  <2>. DEFINE p == Identity(0, MemPages, PAGE_NORMAL)
              q == Identity(FbStart, FbEnd, FB_FLAGS)
  <2>1. p \in Seq(Rounds) /\ \A v \in 0 .. (MemPages - 1) : \E i \in 1 .. Len(p) : p[i].page = v
    BY <1>1, LayoutFacts, IdentityFacts, Zenon
  <2>2. q \in Seq(Rounds)
    BY <1>1, LayoutFacts, IdentityFacts, Zenon
  <2>3. roots = {} /\ Begin(p \o q) /\ pml4' = used
    BY <1>2, Zenon DEF paging_init
  <2>. HIDE DEF p, q
  <2>4. p \o q \in Seq(Rounds)
    BY <2>1, <2>2
  <2>5. \A v \in KernelPages : \E i \in 1 .. Len(p \o q) : (p \o q)[i].page = v
    BY <2>1, <2>2, ConcatRounds, LayoutFacts
  <2>. QED
    BY <2>3, <2>4, <2>5, BeginStep, Zenon
<1>3. CASE create_page_table
  <2>1. PICK k \in Nat : k = KernEnd + 1 /\ k <= MemPages
    BY LayoutFacts
  <2>2. KernStart .. (k - 1) \subseteq Virtuals /\ k .. (MemPages - 1) \subseteq Virtuals
    BY <1>1, <2>1, LayoutFacts
  <2>. DEFINE p == Identity(KernStart, k, PAGE_NORMAL)
              q == Identity(k, MemPages, PAGE_NORMAL)
  <2>3. p \in Seq(Rounds) /\ \A v \in KernStart .. (k - 1) : \E i \in 1 .. Len(p) : p[i].page = v
    BY <2>2, LayoutFacts, IdentityFacts, Zenon
  <2>4. q \in Seq(Rounds) /\ \A v \in k .. (MemPages - 1) : \E i \in 1 .. Len(q) : q[i].page = v
    BY <2>2, LayoutFacts, IdentityFacts, Zenon
  <2>5. loop = NoLoop /\ cr3 # Firmware /\ Begin(p \o q) /\ UNCHANGED pml4
    BY <1>3, <2>1, Zenon DEF create_page_table
  <2>. HIDE DEF p, q
  <2>6. p \o q \in Seq(Rounds)
    BY <2>3, <2>4
  <2>7. ASSUME NEW v \in KernelPages PROVE \E i \in 1 .. Len(p \o q) : (p \o q)[i].page = v
    <3>1. v \in KernStart .. (k - 1) \/ v \in k .. (MemPages - 1)
      BY <2>1, LayoutFacts DEF KernelPages
    <3>2. CASE \E i \in 1 .. Len(p) : p[i].page = v
      BY <2>3, <2>4, <3>2, ConcatRounds
    <3>3. CASE \E i \in 1 .. Len(q) : q[i].page = v
      BY <2>3, <2>4, <3>3, ConcatRounds
    <3>. QED
      BY <2>3, <2>4, <3>1, <3>2, <3>3, Zenon
  <2>. QED
    BY <2>5, <2>6, <2>7, BeginStep, Zenon
<1>. QED
  BY <1>2, <1>3, Zenon

\* The kernel's pages are mapped to themselves, whoever maps them.
LEMMA MappedKept ==
  ASSUME NEW d \in roots, NEW v \in Virtuals, NEW p \in Targets, NEW flags,
         \A c \in roots, w \in Virtuals :
           Translate(entry', c, w) =
             IF c = d /\ w = v THEN Written(Translate(entry, d, v), p, flags)
             ELSE Translate(entry, c, w),
         v \in KernelPages => p = Aligned(v)
  PROVE  /\ \A c \in roots, w \in KernelPages : Mapped(entry, c, w) => Mapped(entry', c, w)
         /\ v \in KernelPages /\ PAGE_NORMAL \subseteq flags => Mapped(entry', d, v)
<1>1. v \in KernelPages => p.frame % AddrFrames = v
  BY LayoutFacts DEF Aligned
<1>2. ASSUME NEW c \in roots, NEW w \in KernelPages, Mapped(entry, c, w)
      PROVE  Mapped(entry', c, w)
  <2>1. CASE c = d /\ w = v
    BY <1>1, <1>2, <2>1 DEF Mapped, Written
  <2>2. CASE ~ (c = d /\ w = v)
    BY <1>2, <2>2, LayoutFacts, Zenon DEF Mapped
  <2>. QED
    BY <2>1, <2>2, Zenon
<1>3. ASSUME v \in KernelPages, PAGE_NORMAL \subseteq flags PROVE Mapped(entry', d, v)
  BY <1>1, <1>3 DEF Mapped, Written
<1>. QED
  BY <1>2, <1>3, Zenon

LEMMA LoopStep ==
  ASSUME PagingInv, map_next
  PROVE  PagingInv'
<1>1. RootsInv /\ LoopInv /\ KernelInv /\ TlbInv
  BY Zenon DEF PagingInv
<1>2. PICK todo \in Seq(Rounds) : todo = loop.todo /\ todo # <<>>
  BY <1>1, Zenon DEF LoopInv, map_next
<1>3. PICK d \in roots : d = loop.dir
  BY <1>1, <1>2, Zenon DEF LoopInv
<1>4. PICK it \in Rounds : it = Head(todo) /\ it = todo[1]
  BY <1>2
<1>5. PICK v \in Virtuals, flags \in {PAGE_NORMAL, FB_FLAGS} : v = it.page /\ flags = it.flags
  BY <1>4, Zenon DEF Rounds
<1>6. PICK p \in Targets : p = Aligned(v) /\ flags \in FlagSets /\ PAGE_NORMAL \subseteq flags
  BY FlagFacts, Zenon DEF Targets
<1>7. /\ used + 3 <= MaxTables /\ UNCHANGED <<roots, pml4, tlb>>
      /\ SetMemory(__paging_map(Memory, d, v, p, flags))
      /\ loop' = IF Len(todo) = 1 THEN NoLoop ELSE [loop EXCEPT !.todo = Tail(@)]
      /\ cr3' = IF Len(todo) = 1 /\ cr3 = Firmware THEN pml4 ELSE cr3
  BY <1>2, <1>3, <1>4, <1>5, <1>6, Zenon DEF map_next
<1>8. /\ RootsInv'
      /\ \A c \in roots, w \in Virtuals :
           Translate(entry', c, w) =
             IF c = d /\ w = v THEN Written(Translate(entry, d, v), p, flags)
             ELSE Translate(entry, c, w)
  BY <1>1, <1>6, <1>7, MapStep
<1>9. /\ \A c \in roots, w \in KernelPages : Mapped(entry, c, w) => Mapped(entry', c, w)
      /\ v \in KernelPages => Mapped(entry', d, v)
  BY <1>6, <1>8, MappedKept
<1>10. /\ Len(todo) # 1 => loop' = [dir |-> d, todo |-> Tail(todo)] /\ Tail(todo) \in Seq(Rounds)
                           /\ Len(Tail(todo)) = Len(todo) - 1
                           /\ \A i \in 1 .. (Len(todo) - 1) : Tail(todo)[i] = todo[i + 1]
       /\ Len(todo) = 1 => loop' = [dir |-> Firmware, todo |-> <<>>]
  <2>1. loop = [dir |-> d, todo |-> todo]
    BY <1>1, <1>2, <1>3, Zenon DEF LoopInv
  <2>2. Len(todo) # 1 => loop' = [dir |-> d, todo |-> Tail(todo)]
    BY <1>7, <2>1, Zenon
  <2>3. Len(todo) = 1 => loop' = [dir |-> Firmware, todo |-> <<>>]
    BY <1>7, Zenon DEF NoLoop
  <2>. QED
    BY <1>2, <2>2, <2>3
<1>11. Firmware \notin roots /\ roots # {}
  BY <1>1, RootsFacts, Zenon
<1>12. cr3 = Firmware => tlb = NotCached /\ pml4 = d /\ roots = {d}
  BY <1>1, <1>3, <1>11, Zenon DEF LoopInv
<1>13. cr3 # Firmware => cr3 = pml4 /\ cr3 \in roots /\ cr3 # d
  BY <1>1, <1>3, Zenon DEF LoopInv
<1>14. LoopInv'
  <2>1. pml4 \in roots \cup {Firmware}
    BY <1>1, Zenon DEF LoopInv
  <2>2. CASE Len(todo) = 1
    <3>1. <<>> \in Seq(Rounds) /\ loop'.dir = Firmware /\ loop'.todo = <<>>
      BY <1>10, <2>2, SMTT(60)
    <3>2. cr3' = pml4 /\ cr3' \in roots
      BY <1>7, <1>12, <1>13, <2>2, Zenon
    <3>. QED
      BY <1>7, <1>10, <1>11, <2>1, <2>2, <3>1, <3>2, Zenon DEF LoopInv
  <2>3. CASE Len(todo) # 1
    <3>1. loop'.dir = d /\ loop'.todo = Tail(todo) /\ cr3' = cr3
      BY <1>7, <1>10, <2>3, Zenon
    <3>. QED
      BY <1>7, <1>10, <1>11, <1>12, <1>13, <2>1, <2>3, <3>1, Zenon DEF LoopInv
  <2>. QED
    BY <2>2, <2>3, Zenon
<1>15. KernelInv'
  <2>. SUFFICES ASSUME NEW c \in roots, NEW w \in KernelPages, ~ Mapped(entry', c, w)
                PROVE  c = loop'.dir /\ \E i \in 1 .. Len(loop'.todo) : loop'.todo[i].page = w
    BY <1>7, Zenon DEF KernelInv
  <2>1. c = d /\ \E i \in 1 .. Len(todo) : todo[i].page = w
    BY <1>1, <1>2, <1>3, <1>9, Zenon DEF KernelInv
  <2>2. PICK i \in 1 .. Len(todo) : todo[i].page = w
    BY <2>1, Zenon
  <2>3. i # 1
    BY <1>4, <1>5, <1>9, <2>1, <2>2, Zenon
  <2>4. Len(todo) \in Nat
    OBVIOUS
  <2>5. PICK j \in 1 .. (Len(todo) - 1) : i = j + 1 /\ Len(todo) # 1
    BY <2>3, <2>4
  <2>6. loop'.dir = d /\ loop'.todo = Tail(todo) /\ Len(Tail(todo)) = Len(todo) - 1
        /\ Tail(todo)[j] = todo[i]
    BY <1>10, <2>5, SMTT(60)
  <2>. QED
    BY <2>1, <2>2, <2>5, <2>6, Zenon
<1>16. TlbInv'
  <2>1. CASE cr3 = Firmware
    BY <1>1, <1>7, <1>12, <2>1, EntryFacts DEF TlbInv, TlbFresh, NotCached
  <2>2. CASE cr3 # Firmware
    <3>1. tlb.page \in Virtuals
      BY <1>1, LayoutFacts, Zenon DEF TlbInv
    <3>2. Translate(entry', cr3, tlb.page) = Translate(entry, cr3, tlb.page)
      BY <1>8, <1>13, <2>2, <3>1, Zenon
    <3>. QED
      BY <1>1, <1>7, <2>2, <3>2, Zenon DEF TlbInv, TlbFresh
  <2>. QED
    BY <2>1, <2>2, Zenon
<1>. QED
  BY <1>8, <1>14, <1>15, <1>16, Zenon DEF PagingInv

\* A page is mapped outside the loops: in the directory that is loaded, and then the
\* cached translation is dropped, or in one that is not.
LEMMA SetPage ==
  ASSUME PagingInv, used + 3 <= MaxTables, NEW d \in roots, NEW v \in Virtuals,
         NEW p \in Targets, NEW flags \in FlagSets,
         SetMemory(__paging_map(Memory, d, v, p, flags)), UNCHANGED <<roots, pml4, cr3, loop>>,
         v \in KernelPages => p = Aligned(v),
         cr3 # Firmware, tlb' = invlpg(v) \/ (d # cr3 /\ tlb' = tlb)
  PROVE  PagingInv'
<1>1. RootsInv /\ LoopInv /\ KernelInv /\ TlbInv
  BY Zenon DEF PagingInv
<1>2. /\ RootsInv'
      /\ \A c \in roots, w \in Virtuals :
           Translate(entry', c, w) =
             IF c = d /\ w = v THEN Written(Translate(entry, d, v), p, flags)
             ELSE Translate(entry, c, w)
  BY <1>1, MapStep
<1>3. \A c \in roots, w \in KernelPages : Mapped(entry, c, w) => Mapped(entry', c, w)
  BY <1>2, MappedKept
<1>4. KernelInv'
  BY <1>1, <1>3, Zenon DEF KernelInv
<1>5. LoopInv'
  BY <1>1, Zenon DEF LoopInv
<1>6. TlbInv'
  <2>1. tlb' = NotCached \/ (tlb' = tlb /\ ~ (cr3 = d /\ tlb.page = v))
    BY Zenon DEF invlpg
  <2>2. CASE tlb' = NotCached
    BY <2>2, EntryFacts, Zenon DEF TlbInv, TlbFresh, NotCached
  <2>3. CASE tlb' = tlb /\ ~ (cr3 = d /\ tlb.page = v)
    <3>1. tlb.page \in Virtuals /\ cr3 \in roots
      BY <1>1, LayoutFacts, Zenon DEF TlbInv, LoopInv
    <3>2. Translate(entry', cr3, tlb.page) = Translate(entry, cr3, tlb.page)
      BY <1>2, <2>3, <3>1, Zenon
    <3>. QED
      BY <1>1, <2>3, <3>2, Zenon DEF TlbInv, TlbFresh
  <2>. QED
    BY <2>1, <2>2, <2>3, Zenon
<1>. QED
  BY <1>2, <1>4, <1>5, <1>6, Zenon DEF PagingInv

LEMMA ClearPage ==
  ASSUME PagingInv, NEW d \in roots, NEW v \in Virtuals \ KernelPages,
         SetMemory(__paging_unmap(Memory, d, v)), UNCHANGED <<roots, pml4, cr3, loop>>,
         cr3 # Firmware, tlb' = invlpg(v) \/ (d # cr3 /\ tlb' = tlb)
  PROVE  PagingInv'
<1>1. RootsInv /\ LoopInv /\ KernelInv /\ TlbInv
  BY Zenon DEF PagingInv
<1>2. /\ RootsInv'
      /\ \A c \in roots, w \in Virtuals :
           ~ (c = d /\ w = v) => Translate(entry', c, w) = Translate(entry, c, w)
  BY <1>1, UnmapStep
<1>3. \A c \in roots, w \in KernelPages : Mapped(entry, c, w) => Mapped(entry', c, w)
  BY <1>2, LayoutFacts, Zenon DEF Mapped
<1>4. KernelInv'
  BY <1>1, <1>3, Zenon DEF KernelInv
<1>5. LoopInv'
  BY <1>1, Zenon DEF LoopInv
<1>6. TlbInv'
  <2>1. tlb' = NotCached \/ (tlb' = tlb /\ ~ (cr3 = d /\ tlb.page = v))
    BY Zenon DEF invlpg
  <2>2. CASE tlb' = NotCached
    BY <2>2, EntryFacts, Zenon DEF TlbInv, TlbFresh, NotCached
  <2>3. CASE tlb' = tlb /\ ~ (cr3 = d /\ tlb.page = v)
    <3>1. tlb.page \in Virtuals /\ cr3 \in roots
      BY <1>1, LayoutFacts, Zenon DEF TlbInv, LoopInv
    <3>2. Translate(entry', cr3, tlb.page) = Translate(entry, cr3, tlb.page)
      BY <1>2, <2>3, <3>1, Zenon
    <3>. QED
      BY <1>1, <2>3, <3>2, Zenon DEF TlbInv, TlbFresh
  <2>. QED
    BY <2>1, <2>2, <2>3, Zenon
<1>. QED
  BY <1>2, <1>4, <1>5, <1>6, Zenon DEF PagingInv

\* A call of __paging_map or of __paging_unmap.
MapCall(d, v, p, flags) ==
  /\ used + 3 <= MaxTables /\ cr3 # Firmware
  /\ v \in KernelPages => p = Aligned(v)
  /\ SetMemory(__paging_map(Memory, d, v, p, flags))
  /\ tlb' = invlpg(v) \/ (d # cr3 /\ tlb' = tlb)
  /\ UNCHANGED <<roots, pml4, cr3, loop>>

UnmapCall(d, v) ==
  /\ cr3 # Firmware
  /\ SetMemory(__paging_unmap(Memory, d, v))
  /\ tlb' = invlpg(v) \/ (d # cr3 /\ tlb' = tlb)
  /\ UNCHANGED <<roots, pml4, cr3, loop>>

\* Drivers map devices to themselves and unmap below the kernel; what programs map
\* and unmap lies above the memory.
LEMMA NextCases ==
  ASSUME PagingInv, Next
  PROVE  \/ paging_init \/ create_page_table \/ map_next
         \/ \E d \in roots, v \in Virtuals, p \in Targets, flags \in FlagSets :
              MapCall(d, v, p, flags)
         \/ \E d \in roots, v \in Virtuals \ KernelPages : UnmapCall(d, v)
         \/ \E dir \in roots : paging_change_dir(dir)
         \/ \E v \in Virtuals : Access(v)
<1>1. RootsInv /\ LoopInv
  BY Zenon DEF PagingInv
<1>2. cr3 # Firmware => pml4 \in roots
  BY <1>1, Zenon DEF LoopInv
<1>3. ASSUME NEW d, Idle(d) PROVE d \in roots /\ d # cr3 /\ cr3 # Firmware
  BY <1>1, <1>3, Zenon DEF Idle, LoopInv
<1>4. /\ DevicePages \subseteq Virtuals /\ UserPages \subseteq Virtuals
      /\ UserPages \cap KernelPages = {} /\ Virtuals \subseteq Nat
  BY PagingAssumption, LayoutFacts, Zenon
<1>5. ASSUME NEW v \in DevicePages, NEW flags \in DriverFlags, paging_map(v, flags)
      PROVE  \E d \in roots, u \in Virtuals, p \in Targets, f \in FlagSets : MapCall(d, u, p, f)
  <2>1. MapCall(pml4, v, Aligned(v), flags) /\ pml4 \in roots
    BY <1>2, <1>5, Zenon DEF paging_map, MapCall
  <2>2. v \in Virtuals /\ Aligned(v) \in Targets /\ flags \in FlagSets
    BY <1>4, Zenon DEF Targets, FlagSets
  <2>. QED
    BY <2>1, <2>2, Zenon
<1>6. ASSUME NEW v \in DevicePages, v < KernStart, paging_unmap(v)
      PROVE  \E d \in roots, u \in Virtuals \ KernelPages : UnmapCall(d, u)
  <2>1. UnmapCall(pml4, v) /\ pml4 \in roots
    BY <1>2, <1>6, Zenon DEF paging_unmap, UnmapCall
  <2>2. v \in Virtuals \ KernelPages
    BY <1>4, <1>6, LayoutFacts DEF KernelPages
  <2>. QED
    BY <2>1, <2>2, Zenon
<1>7. ASSUME NEW d, NEW v \in Virtuals, NEW p \in Targets, NEW flags \in FlagSets,
             v \in KernelPages => p = Aligned(v), map_page(d, v, p, flags)
      PROVE  \E c \in roots, u \in Virtuals, q \in Targets, f \in FlagSets : MapCall(c, u, q, f)
  <2>1. MapCall(d, v, p, flags) /\ d \in roots
    BY <1>3, <1>7, Zenon DEF map_page, MapCall
  <2>. QED
    BY <2>1, Zenon
<1>8. ASSUME NEW d \in roots, NEW v \in KernEnd .. (MemPages - 1),
             map_page(d, v, Aligned(v), PAGE_NORMAL)
      PROVE  \E c \in roots, u \in Virtuals, q \in Targets, f \in FlagSets : MapCall(c, u, q, f)
  <2>1. v \in KernelPages
    BY LayoutFacts DEF KernelPages
  <2>2. v \in Virtuals
    BY <2>1, LayoutFacts, Zenon
  <2>3. Aligned(v) \in Targets
    BY <2>2, Zenon DEF Targets
  <2>. QED
    BY <1>7, <1>8, <2>2, <2>3, FlagFacts, Zenon
<1>9. ASSUME NEW d \in roots, NEW v \in UserPages, NEW p \in Physicals,
             map_page(d, v, p, PAGE_NORMAL)
      PROVE  \E c \in roots, u \in Virtuals, q \in Targets, f \in FlagSets : MapCall(c, u, q, f)
  <2>1. v \in Virtuals /\ v \notin KernelPages /\ p \in Targets
    BY <1>4, Zenon DEF Targets
  <2>. QED
    BY <1>7, <1>9, <2>1, FlagFacts, Zenon
<1>10. ASSUME NEW d \in roots, NEW v \in UserPages, NEW p \in Physicals, NEW flags \in UserFlags,
              map_page(d, v, Aligned(p.frame), flags \cup {PRESENT})
       PROVE  \E c \in roots, u \in Virtuals, q \in Targets, f \in FlagSets : MapCall(c, u, q, f)
  <2>1. v \in Virtuals /\ v \notin KernelPages
    BY <1>4, Zenon
  <2>2. Aligned(p.frame) \in Targets /\ flags \cup {PRESENT} \in FlagSets
    BY Zenon DEF Targets, FlagSets
  <2>. QED
    BY <1>7, <1>10, <2>1, <2>2, Zenon
<1>11. ASSUME NEW d \in roots, NEW v \in UserPages, unmap_page(d, v)
       PROVE  \E c \in roots, u \in Virtuals \ KernelPages : UnmapCall(c, u)
  <2>1. UnmapCall(d, v)
    BY <1>3, <1>11, Zenon DEF unmap_page, UnmapCall
  <2>2. v \in Virtuals \ KernelPages
    BY <1>4, Zenon
  <2>. QED
    BY <2>1, <2>2, Zenon
<1>. QED
  BY <1>5, <1>6, <1>8, <1>9, <1>10, <1>11, Zenon DEF Next

LEMMA PagingInit == Init => PagingInv
<1>. SUFFICES ASSUME Init PROVE PagingInv
  BY Zenon
<1>1. Memory \in Memories
  <2>1. Garbage \in Entries
    BY PagingAssumption, Zenon
  <2>2. entry \in [Frames -> [Indices -> Entries]]
    BY <2>1, Zenon DEF Init, Frames, Indices
  <2>3. level \in [Frames -> 0 .. 4] /\ used \in 0 .. MaxTables
    BY Sizes DEF Init, Frames
  <2>. QED
    BY <2>2, <2>3, Zenon DEF Memory, Memories
<1>2. Tables(Memory) = {}
  BY DEF Init, Memory, Tables
<1>3. RootsInv
  BY <1>1, <1>2, Zenon DEF Init, RootsInv, Forest, Link
<1>4. LoopInv
  BY DEF Init, LoopInv, NoLoop
<1>5. KernelInv
  BY Zenon DEF Init, KernelInv
<1>6. TlbInv
  BY EntryFacts, Zenon DEF Init, TlbInv, TlbFresh, NotCached
<1>. QED
  BY <1>3, <1>4, <1>5, <1>6, Zenon DEF PagingInv

\* Loading a directory empties the cache, and using a page fills it from the tables.
LEMMA ProcessorStep ==
  ASSUME PagingInv,
         \/ \E dir \in roots : paging_change_dir(dir)
         \/ \E v \in Virtuals : Access(v)
         \/ UNCHANGED vars
  PROVE  PagingInv'
<1>1. RootsInv /\ LoopInv /\ KernelInv /\ TlbInv
  BY Zenon DEF PagingInv
<1>2. UNCHANGED <<used, entry, level, roots, loop>>
  BY Zenon DEF paging_change_dir, Access, vars
<1>3. RootsInv'
  <2>1. PICK n : n = Memory
    BY Zenon
  <2>2. Memory' = n /\ roots' = roots
    BY <1>2, <2>1, Zenon DEF Memory
  <2>3. Forest(n) /\ \A c \in roots' : Root(n, c)
    BY <1>1, <2>1, <2>2, Zenon DEF RootsInv
  <2>. QED
    BY <2>2, <2>3, RootsPrimed, Zenon
<1>4. KernelInv'
  <2>. SUFFICES \A d \in roots, v \in KernelPages :
                  \/ Mapped(entry, d, v)
                  \/ d = loop.dir /\ \E i \in 1 .. Len(loop.todo) : loop.todo[i].page = v
    BY <1>2, Zenon DEF KernelInv
  <2>. QED
    BY <1>1, Zenon DEF KernelInv
<1>5. CASE \E dir \in roots : paging_change_dir(dir)
  <2>1. LoopInv'
    BY <1>1, <1>2, <1>5, RootsFacts, Zenon DEF LoopInv, paging_change_dir
  <2>2. TlbInv'
    BY <1>5, EntryFacts, SMTT(60) DEF TlbInv, TlbFresh, NotCached, paging_change_dir
  <2>. QED
    BY <1>3, <1>4, <2>1, <2>2, Zenon DEF PagingInv
<1>6. CASE \E v \in Virtuals : Access(v)
  <2>1. PICK v \in Virtuals : Access(v)
    BY <1>6, Zenon
  <2>2. LoopInv'
    BY <1>1, <2>1, Zenon DEF LoopInv, Access
  <2>3. Translate(entry, cr3, v) \in Entries
    BY <1>1, <2>1, RootsFacts, Zenon DEF LoopInv, Access
  <2>4. tlb' = [page |-> v, pte |-> Translate(entry', cr3', v)]
    BY <2>1, Zenon DEF Access
  <2>5. TlbInv'
    BY <1>2, <2>1, <2>3, <2>4 DEF TlbInv, TlbFresh, Access
  <2>. QED
    BY <1>3, <1>4, <2>2, <2>5, Zenon DEF PagingInv
<1>7. CASE UNCHANGED vars
  <2>1. LoopInv'
    BY <1>1, <1>7, Zenon DEF LoopInv, vars
  <2>2. TlbInv'
    BY <1>1, <1>7, Zenon DEF TlbInv, TlbFresh, vars
  <2>. QED
    BY <1>3, <1>4, <2>1, <2>2, Zenon DEF PagingInv
<1>. QED
  BY <1>5, <1>6, <1>7, Zenon

\* The invariant that the results below rest on.
THEOREM PagingState == Spec => []PagingInv
<1>1. PagingInv /\ [Next]_vars => PagingInv'
  <2>. SUFFICES ASSUME PagingInv, [Next]_vars PROVE PagingInv'
    BY Zenon
  <2>1. CASE paging_init \/ create_page_table
    BY <2>1, CreateStep, Zenon
  <2>2. CASE map_next
    BY <2>2, LoopStep, Zenon
  <2>3. ASSUME NEW d \in roots, NEW v \in Virtuals, NEW p \in Targets, NEW flags \in FlagSets,
               MapCall(d, v, p, flags)
        PROVE  PagingInv'
    BY <2>3, SetPage, Zenon DEF MapCall
  <2>4. ASSUME NEW d \in roots, NEW v \in Virtuals \ KernelPages, UnmapCall(d, v)
        PROVE  PagingInv'
    BY <2>4, ClearPage, Zenon DEF UnmapCall
  <2>5. CASE \/ \E dir \in roots : paging_change_dir(dir)
             \/ \E v \in Virtuals : Access(v)
             \/ UNCHANGED vars
    BY <2>5, ProcessorStep, Zenon
  <2>. QED
    BY <2>1, <2>2, <2>3, <2>4, <2>5, NextCases, Zenon
<1>. QED
  BY <1>1, PagingInit, PTL DEF Spec

\* The tables form one tree per directory whatever is mapped, and no two entries of
\* any directories lead to the same table.
THEOREM PagingTree == Spec => []TreeInv
<1>1. PagingInv => TreeInv
  <2>. SUFFICES ASSUME PagingInv PROVE TreeInv
    BY Zenon
  <2>1. RootsInv /\ LoopInv /\ TlbInv /\ Forest(Memory) /\ Memory \in Memories
    BY Zenon DEF PagingInv, RootsInv, Forest
  <2>2. Memory.used = used /\ Memory.entry = entry /\ Memory.level = level
    BY Zenon DEF Memory
  <2>3. TypeOK
    <3>1. /\ used \in 0 .. MaxTables
          /\ entry \in [0 .. (MaxTables - 1) -> [0 .. (Fan - 1) -> Entries]]
          /\ level \in [0 .. (MaxTables - 1) -> 0 .. 4]
      BY <2>1, <2>2, Zenon DEF Memories, Frames, Indices
    <3>2. roots \subseteq 0 .. (used - 1)
      BY <2>1, <2>2, Zenon DEF RootsInv, Root, Tables
    <3>3. loop.todo \in Seq([page : Virtuals, flags : SUBSET AllFlags])
      <4>1. PICK S : S = [page : Virtuals, flags : SUBSET AllFlags]
        BY Zenon
      <4>2. Rounds \subseteq S
        BY <4>1, FlagFacts, Zenon DEF Rounds
      <4>3. PICK q \in Seq(Rounds) : q = loop.todo
        BY <2>1, Zenon DEF LoopInv
      <4>4. Len(q) \in Nat /\ q \in [1 .. Len(q) -> S]
        BY <4>2
      <4>5. q \in Seq(S)
        BY <4>4
      <4>. QED
        BY <4>1, <4>3, <4>5, Zenon
    <3>. QED
      BY <2>1, <3>1, <3>2, <3>3, Zenon DEF TypeOK, LoopInv, TlbInv
  <2>4. \A d \in roots : level[d] = 1
    BY <2>1, <2>2, Zenon DEF RootsInv, Root
  <2>5. \A t \in 0 .. (used - 1) : level[t] \in 1 .. 4
    BY <2>1, <2>2, Zenon DEF Forest, Tables
  <2>6. ASSUME NEW l \in Links
        PROVE  /\ Link(Memory, l[1], l[2]) /\ l = <<l[1], l[2]>>
               /\ Child(Memory, l[1], l[2]) = pde_getaddress(entry[l[1]][l[2]])
    BY <2>2 DEF Links, Link, Tables, Indices, Child
  <2>7. ASSUME NEW l \in Links
        PROVE  LET c == pde_getaddress(entry[l[1]][l[2]])
               IN c \in 0 .. (used - 1) /\ level[c] = level[l[1]] + 1
    BY <2>1, <2>2, <2>6 DEF Forest, Tables
  <2>8. ASSUME NEW k \in Links, NEW l \in Links,
               pde_getaddress(entry[k[1]][k[2]]) = pde_getaddress(entry[l[1]][l[2]])
        PROVE  k = l
    <3>1. k[1] = l[1] /\ k[2] = l[2]
      BY <2>1, <2>6, <2>8 DEF Forest
    <3>. QED
      BY <2>6, <3>1, Zenon
  <2>. QED
    BY <2>3, <2>4, <2>5, <2>7, <2>8, Zenon DEF TreeInv
<1>. QED
  BY <1>1, PagingState, PTL

\* The processor never uses a translation that the tables no longer contain.
THEOREM PagingTlbFresh == Spec => []TlbFresh
<1>1. PagingInv => TlbFresh
  BY Zenon DEF PagingInv, TlbInv
<1>. QED
  BY <1>1, PagingState, PTL

\* Whatever directory is loaded, the kernel's image and the memory above it are
\* mapped to themselves.
THEOREM PagingKernelMapped == Spec => []KernelMapped
<1>1. PagingInv => KernelMapped
  <2>. SUFFICES ASSUME PagingInv, cr3 # Firmware, NEW v \in KernelPages
                PROVE  Mapped(entry, cr3, v)
    BY Zenon DEF KernelMapped, KernelPages, Mapped
  <2>1. cr3 \in roots /\ cr3 # loop.dir
    BY Zenon DEF PagingInv, LoopInv
  <2>. QED
    BY <2>1, Zenon DEF PagingInv, KernelInv
<1>. QED
  BY <1>1, PagingState, PTL

-----------------------------------------------------------------------------
\* The refinement of AddressSpace.

\* The table of each directory.
View(tables, dirs) == [d \in dirs |-> [v \in Virtuals |-> Translate(tables, d, v)]]

LEMMA CreateSimulates ==
  ASSUME RootsInv, NEW todo, Begin(todo)
  PROVE  Space!Next
<1>1. /\ used < MaxTables /\ SetMemory(NewTable(Memory, 1)) /\ roots' = roots \cup {used}
  BY Zenon DEF Begin
<1>2. /\ used \notin roots /\ used \in Frames
      /\ \A w \in Virtuals : Translate(entry', used, w) = NoEntry
      /\ \A c \in roots, w \in Virtuals : Translate(entry', c, w) = Translate(entry, c, w)
  BY <1>1, BeginMemory, Zenon
<1>3. PICK old : old = View(entry, roots)
  BY Zenon
<1>4. PICK new : new = View(entry', roots')
  BY Zenon
<1>5. DOMAIN old = roots /\ DOMAIN new = roots \cup {used} /\ new # old
  BY <1>1, <1>2, <1>3, <1>4, Zenon DEF View
<1>6. new = [d \in DOMAIN new |-> IF d = used THEN [v \in Virtuals |-> NoEntry] ELSE old[d]]
  <2>1. ASSUME NEW d \in DOMAIN new
        PROVE  new[d] = IF d = used THEN [v \in Virtuals |-> NoEntry] ELSE old[d]
    <3>1. new[d] = [v \in Virtuals |-> Translate(entry', d, v)]
      BY <1>1, <1>4, <1>5, Zenon DEF View
    <3>2. CASE d = used
      BY <1>2, <3>1, <3>2, Zenon
    <3>3. CASE d # used
      <4>1. old[d] = [v \in Virtuals |-> Translate(entry, d, v)] /\ d \in roots
        BY <1>3, <1>5, <3>3, Zenon DEF View
      <4>. QED
        BY <1>2, <3>1, <3>3, <4>1, Zenon
    <3>. QED
      BY <3>2, <3>3, Zenon
  <2>2. new = [d \in DOMAIN new |-> new[d]]
    BY <1>4, Zenon DEF View
  <2>. QED
    BY <2>1, <2>2, Zenon
<1>7. Space!Create(used)
  BY <1>3, <1>4, <1>5, <1>6, Zenon DEF View, NoEntry, Space!Create, Space!NoEntry
<1>. QED
  BY <1>2, <1>3, <1>4, <1>5, <1>7, Zenon DEF View, Frames, Space!Next

\* One entry of one table changes.
LEMMA ViewSet ==
  ASSUME NEW d \in roots, NEW v \in Virtuals, NEW e, UNCHANGED roots,
         \A c \in roots, w \in Virtuals :
           Translate(entry', c, w) = IF c = d /\ w = v THEN e ELSE Translate(entry, c, w)
  PROVE  /\ View(entry', roots') = [View(entry, roots) EXCEPT ![d] = [@ EXCEPT ![v] = e]]
         /\ View(entry', roots')[d][v] = e
         /\ View(entry, roots)[d][v] = Translate(entry, d, v)
<1>. DEFINE old == View(entry, roots)
            new == View(entry', roots')
            row == [old[d] EXCEPT ![v] = e]
<1>1. /\ DOMAIN old = roots /\ new = [c \in roots |-> new[c]]
      /\ \A c \in roots : old[c] = [w \in Virtuals |-> Translate(entry, c, w)]
      /\ \A c \in roots : new[c] = [w \in Virtuals |-> Translate(entry', c, w)]
  BY Zenon DEF View
<1>. HIDE DEF old, new
<1>2. row = [w \in Virtuals |-> IF w = v THEN e ELSE Translate(entry, d, w)]
  BY <1>1
<1>3. new[d] = row
  BY <1>1, <1>2
<1>4. \A c \in roots : c # d => new[c] = old[c]
  BY <1>1
<1>. HIDE DEF row
<1>5. new = [old EXCEPT ![d] = row]
  <2>1. [old EXCEPT ![d] = row] = [c \in roots |-> IF c = d THEN row ELSE old[c]]
    BY <1>1, Zenon
  <2>2. \A c \in roots : new[c] = IF c = d THEN row ELSE old[c]
    BY <1>3, <1>4, Zenon
  <2>. QED
    BY <1>1, <2>1, <2>2, Zenon
<1>6. new[d][v] = e /\ old[d][v] = Translate(entry, d, v)
  BY <1>1
<1>. QED
  BY <1>5, <1>6, Zenon DEF old, new, row

\* Changing nothing is a stutter.
LEMMA MapSimulates ==
  ASSUME RootsInv, used + 3 <= MaxTables, NEW d \in roots, NEW v \in Virtuals,
         NEW p \in Targets, NEW flags \in FlagSets,
         SetMemory(__paging_map(Memory, d, v, p, flags)), UNCHANGED roots
  PROVE  [Space!Next]_(View(entry, roots))
<1>. DEFINE old == View(entry, roots)
            new == View(entry', roots')
            e == Written(Translate(entry, d, v), p, flags)
<1>1. \A c \in roots, w \in Virtuals :
        Translate(entry', c, w) = IF c = d /\ w = v THEN e ELSE Translate(entry, c, w)
  BY MapStep
<1>. HIDE DEF e
<1>2. /\ new = [old EXCEPT ![d] = [@ EXCEPT ![v] = e]]
      /\ new[d][v] = e /\ old[d][v] = Translate(entry, d, v)
  BY <1>1, ViewSet
<1>3. DOMAIN old = roots
  BY Zenon DEF View
<1>4. CASE new = old
  BY <1>4, Zenon DEF View
<1>5. CASE new # old
  <2>1. e # old[d][v]
    <3>1. ASSUME e = old[d][v] PROVE new = old
      <4>1. \A c \in roots, w \in Virtuals : Translate(entry', c, w) = Translate(entry, c, w)
        BY <1>1, <1>2, <3>1, Zenon
      <4>. QED
        BY <4>1, Zenon DEF View
    <3>. QED
      BY <1>5, <3>1, Zenon
  <2>2. e = Space!Entry(old[d][v], p, flags)
    BY <1>2, Zenon DEF Space!Entry, e, Written
  <2>3. Space!Map(d, v)
    <3>1. \E q \in Targets, fs \in FlagSets : e = Space!Entry(old[d][v], q, fs)
      BY <2>2, Zenon
    <3>2. Space!Set(d, v, e)
      BY <1>2, Zenon DEF Space!Set, View
    <3>. QED
      BY <1>2, <2>1, <3>1, <3>2, Zenon DEF Space!Map, View, Targets, FlagSets
  <2>4. Space!Next
    BY <1>3, <1>5, <2>3, Zenon DEF Space!Next, View
  <2>. QED
    BY <2>4, Zenon
<1>. QED
  BY <1>4, <1>5, Zenon

LEMMA UnmapSimulates ==
  ASSUME RootsInv, NEW d \in roots, NEW v \in Virtuals,
         SetMemory(__paging_unmap(Memory, d, v)), UNCHANGED roots
  PROVE  [Space!Next]_(View(entry, roots))
<1>. DEFINE old == View(entry, roots)
            new == View(entry', roots')
<1>1. \A c \in roots, w \in Virtuals :
        Translate(entry', c, w) =
          IF c = d /\ w = v /\ Present(Translate(entry, d, v)) THEN NoEntry
          ELSE Translate(entry, c, w)
  BY UnmapStep, Zenon
<1>2. CASE ~ Present(Translate(entry, d, v))
  BY <1>1, <1>2, Zenon DEF View
<1>3. CASE Present(Translate(entry, d, v))
  <2>1. /\ new = [old EXCEPT ![d] = [@ EXCEPT ![v] = NoEntry]]
        /\ new[d][v] = NoEntry /\ old[d][v] = Translate(entry, d, v)
    BY <1>1, <1>3, ViewSet
  <2>2. old[d][v] # NoEntry /\ new # old
    BY <1>3, <2>1, EntryFacts, Zenon
  <2>3. Space!Unmap(d, v)
    BY <2>1, <2>2, Zenon DEF Space!Unmap, Space!Set, Space!NoEntry, NoEntry, View
  <2>4. DOMAIN old = roots
    BY Zenon DEF View
  <2>. QED
    BY <2>2, <2>3, <2>4, Zenon DEF Space!Next, View
<1>. QED
  BY <1>2, <1>3, Zenon

\* The trees of tables implement one table per directory: __paging_map and
\* __paging_unmap change the translation of one page of one directory and nothing
\* else, whatever tables they add or share.
THEOREM PagingSpace == Spec => SpaceSpec
<1>1. Init => Space!Init
  <2>. SUFFICES ASSUME Init PROVE Space!Init
    BY Zenon
  <2>1. roots = {}
    BY Zenon DEF Init
  <2>. QED
    BY <2>1, Zenon DEF Space!Init
<1>2. PagingInv /\ [Next]_vars => [Space!Next]_(View(entry, roots))
  <2>. SUFFICES ASSUME PagingInv, [Next]_vars PROVE [Space!Next]_(View(entry, roots))
    BY Zenon
  <2>1. RootsInv /\ LoopInv
    BY Zenon DEF PagingInv
  <2>2. CASE paging_init \/ create_page_table
    BY <2>1, <2>2, CreateSimulates, Zenon DEF paging_init, create_page_table
  <2>3. CASE map_next
    <3>1. PICK todo \in Seq(Rounds) : todo = loop.todo /\ todo # <<>>
      BY <2>1, <2>3, Zenon DEF LoopInv, map_next
    <3>2. PICK d \in roots : d = loop.dir
      BY <2>1, <3>1, Zenon DEF LoopInv
    <3>3. PICK it \in Rounds : it = Head(todo)
      BY <3>1
    <3>4. PICK v \in Virtuals, flags \in FlagSets : v = it.page /\ flags = it.flags
      BY <3>3, FlagFacts, Zenon DEF Rounds
    <3>5. PICK p \in Targets : p = Aligned(v)
      BY Zenon DEF Targets
    <3>6. /\ used + 3 <= MaxTables /\ UNCHANGED roots
          /\ SetMemory(__paging_map(Memory, d, v, p, flags))
      BY <2>3, <3>1, <3>2, <3>3, <3>4, <3>5, Zenon DEF map_next
    <3>. QED
      BY <2>1, <3>6, MapSimulates, Zenon
  <2>4. ASSUME NEW d \in roots, NEW v \in Virtuals, NEW p \in Targets, NEW flags \in FlagSets,
               MapCall(d, v, p, flags)
        PROVE  [Space!Next]_(View(entry, roots))
    BY <2>1, <2>4, MapSimulates, Zenon DEF MapCall
  <2>5. ASSUME NEW d \in roots, NEW v \in Virtuals \ KernelPages, UnmapCall(d, v)
        PROVE  [Space!Next]_(View(entry, roots))
    BY <2>1, <2>5, UnmapSimulates, Zenon DEF UnmapCall
  <2>6. CASE \/ \E dir \in roots : paging_change_dir(dir)
             \/ \E v \in Virtuals : Access(v)
             \/ UNCHANGED vars
    <3>1. UNCHANGED <<entry, roots>>
      BY <2>6, Zenon DEF paging_change_dir, Access, vars
    <3>. QED
      BY <3>1, Zenon DEF View
  <2>. QED
    BY <2>2, <2>3, <2>4, <2>5, <2>6, NextCases, Zenon
<1>. QED
  BY <1>1, <1>2, PagingState, PTL DEF Spec, SpaceSpec, Space!Spec, View
=============================================================================
