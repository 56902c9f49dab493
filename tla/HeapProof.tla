----------------------------- MODULE HeapProof ------------------------------
(***************************************************************************)
(* Proofs about Heap for every size of the heap, of requests and whatever  *)
(* applications write: its blocks tile it, its list is ordered and counted *)
(* right, and no call writes a block that is not its own.                  *)
(***************************************************************************)
EXTENDS Heap, FiniteSetTheorems, SequenceTheorems, TLAPS

-----------------------------------------------------------------------------
(* Lists *)

\* The least of some positions.
LEMMA MinIsLeast ==
  ASSUME NEW P \in SUBSET Nat, P # {}
  PROVE  /\ Min(P) \in P
         /\ \A i \in P : Min(P) <= i
<1> DEFINE Less == {pair \in Nat \X Nat : pair[1] < pair[2]}
<1>1. OpToRel(<, Nat) = Less
  BY Zenon DEF OpToRel
<1>2. IsWellFoundedOn(Less, Nat)
  BY <1>1, NatLessThanWellFounded, Zenon
<1>3. \E m \in P : \A i \in P : ~(<<i, m>> \in Less)
  <2> HIDE DEF Less
  <2> QED
    BY <1>2, WFMin
<1>4. \A m, i \in P : i < m => <<i, m>> \in Less
  OBVIOUS
<1>5. \E m \in P : \A i \in P : ~(i < m)
  <2> HIDE DEF Less
  <2> QED
    BY <1>3, <1>4, Zenon
<1>6. \E m \in P : \A i \in P : m <= i
  BY <1>5
<1> QED
  BY <1>6 DEF Min

\* What an insertion does to a list's positions.
LEMMA Insertion ==
  ASSUME NEW S, NEW s \in Seq(S), NEW p \in 1 .. Len(s) + 1, NEW e \in S
  PROVE  LET t == InsertAt(s, p, e)
         IN /\ t \in Seq(S)
            /\ Len(t) = Len(s) + 1
            /\ \A i \in 1 .. Len(s) + 1 :
                 t[i] = IF i < p THEN s[i] ELSE IF i = p THEN e ELSE s[i - 1]
<1> DEFINE front == SubSeq(s, 1, p - 1)
           back == SubSeq(s, p, Len(s))
<1>1. /\ front \in Seq(S) /\ Len(front) = p - 1
      /\ \A i \in 1 .. p - 1 : front[i] = s[i]
  <2>1. \A i \in 1 .. p - 1 : s[i] \in S
    BY ElementOfSeq
  <2> QED
    BY <2>1, SubSeqProperties
<1>2. /\ back \in Seq(S) /\ Len(back) = Len(s) - p + 1
      /\ \A i \in 1 .. Len(s) - p + 1 : back[i] = s[p + i - 1]
  <2>1. \A i \in p .. Len(s) : s[i] \in S
    BY ElementOfSeq
  <2> QED
    BY <2>1, SubSeqProperties
<1> DEFINE head == front \o <<e>>
<1> HIDE DEF front, back
<1>3. /\ head \in Seq(S) /\ Len(head) = p
      /\ \A i \in 1 .. p : head[i] = IF i < p THEN s[i] ELSE e
  <2>1. <<e>> \in Seq(S) /\ Len(<<e>>) = 1 /\ <<e>>[1] = e
    OBVIOUS
  <2>2. front \in Seq(S) /\ <<e>> \in Seq(S)
    BY <1>1, <2>1
  <2>3. /\ head \in Seq(S) /\ Len(head) = Len(front) + Len(<<e>>)
        /\ \A i \in 1 .. Len(front) + Len(<<e>>) :
             head[i] = IF i <= Len(front) THEN front[i] ELSE <<e>>[i - Len(front)]
    BY <2>2, ConcatProperties
  <2>4. Len(front) + Len(<<e>>) = p /\ \A i \in 1 .. p : i <= p - 1 <=> i < p
    BY <1>1, <2>1
  <2>5. \A i \in 1 .. p : ~(i < p) => i - (p - 1) = 1
    OBVIOUS
  <2> QED
    BY <1>1, <2>1, <2>3, <2>4, <2>5
<1>4. InsertAt(s, p, e) = head \o back
  BY DEF InsertAt, front, back
<1> HIDE DEF head
<1>5. /\ head \o back \in Seq(S) /\ Len(head \o back) = Len(s) + 1
      /\ \A i \in 1 .. Len(s) + 1 :
           (head \o back)[i] = IF i <= p THEN head[i] ELSE back[i - p]
  <2>1. head \in Seq(S) /\ back \in Seq(S)
    BY <1>2, <1>3
  <2>2. /\ head \o back \in Seq(S) /\ Len(head \o back) = Len(head) + Len(back)
        /\ \A i \in 1 .. Len(head) + Len(back) :
             (head \o back)[i] = IF i <= Len(head) THEN head[i] ELSE back[i - Len(head)]
    BY <2>1, ConcatProperties
  <2>3. Len(head) = p /\ Len(head) + Len(back) = Len(s) + 1
    BY <1>2, <1>3, LenProperties
  <2> QED
    BY <2>2, <2>3
<1>6. \A i \in 1 .. Len(s) + 1 : i > p => back[i - p] = s[i - 1]
  BY <1>2
<1> QED
  BY <1>3, <1>4, <1>5, <1>6

\* What a removal does to them.
LEMMA Removal ==
  ASSUME NEW S, NEW s \in Seq(S), NEW p \in 1 .. Len(s)
  PROVE  LET t == RemoveAt(s, p)
         IN /\ t \in Seq(S)
            /\ Len(t) = Len(s) - 1
            /\ \A i \in 1 .. Len(s) - 1 : t[i] = IF i < p THEN s[i] ELSE s[i + 1]
<1> DEFINE front == SubSeq(s, 1, p - 1)
           back == SubSeq(s, p + 1, Len(s))
<1>1. /\ front \in Seq(S) /\ Len(front) = p - 1
      /\ \A i \in 1 .. p - 1 : front[i] = s[i]
  <2>1. \A i \in 1 .. p - 1 : s[i] \in S
    BY ElementOfSeq
  <2> QED
    BY <2>1, SubSeqProperties
<1>2. /\ back \in Seq(S) /\ Len(back) = Len(s) - p
      /\ \A i \in 1 .. Len(s) - p : back[i] = s[p + i]
  <2>1. \A i \in p + 1 .. Len(s) : s[i] \in S
    BY ElementOfSeq
  <2> QED
    BY <2>1, SubSeqProperties
<1>3. RemoveAt(s, p) = front \o back
  BY DEF RemoveAt
<1> HIDE DEF front, back
<1>4. /\ front \o back \in Seq(S) /\ Len(front \o back) = Len(s) - 1
      /\ \A i \in 1 .. Len(s) - 1 :
           (front \o back)[i] = IF i <= p - 1 THEN front[i] ELSE back[i - (p - 1)]
  <2>1. front \in Seq(S) /\ back \in Seq(S)
    BY <1>1, <1>2
  <2>2. /\ front \o back \in Seq(S) /\ Len(front \o back) = Len(front) + Len(back)
        /\ \A i \in 1 .. Len(front) + Len(back) :
             (front \o back)[i] = IF i <= Len(front) THEN front[i] ELSE back[i - Len(front)]
    BY <2>1, ConcatProperties
  <2>3. Len(front) = p - 1 /\ Len(front) + Len(back) = Len(s) - 1
    BY <1>1, <1>2, LenProperties
  <2> QED
    BY <2>2, <2>3
<1>5. \A i \in 1 .. Len(s) - 1 : i > p - 1 => back[i - (p - 1)] = s[i + 1]
  BY <1>2
<1> QED
  BY <1>1, <1>3, <1>4, <1>5

-----------------------------------------------------------------------------
(* The invariant *)

Memories == [Addresses -> Nat]

\* The units of the block at address a of memory m, and those of some blocks.
Extent(m, a) == a .. a + m[a] - 1
Units(m, B) == UNION {Extent(m, a) : a \in B}

\* Blocks B have a size, lie within the heap, do not overlap and leave nothing out.
Tiling(m, B) ==
  /\ B \subseteq Addresses
  /\ \A a \in B : m[a] > 0 /\ a + m[a] <= HeapUnits
  /\ \A a, b \in B : a # b => Extent(m, a) \cap Extent(m, b) = {}
  /\ \A i \in Addresses : \E a \in B : i \in Extent(m, a)

\* List f has each block once, small blocks first.
Sorted(m, f) ==
  /\ f \in Seq(Addresses)
  /\ \A i, j \in 1 .. Len(f) : i # j => f[i] # f[j]
  /\ \A i, j \in 1 .. Len(f) : i < j => m[f[i]] <= m[f[j]]

\* Memory m, list f, blocks u in use and counter r of a heap.
Sound(m, f, u, r) ==
  /\ m \in Memories
  /\ Sorted(m, f)
  /\ Tiling(m, ToSet(f) \cup u)
  /\ ToSet(f) \cap u = {}
  /\ r = Cardinality(Units(m, ToSet(f)))

HInv == Sound(mem, free, used, remaining)

-----------------------------------------------------------------------------
(* Lists of blocks *)

\* A list's blocks are what its positions hold.
LEMMA Members ==
  ASSUME NEW f \in Seq(Addresses)
  PROVE  /\ DOMAIN f = 1 .. Len(f)
         /\ Len(f) \in Nat
         /\ \A i \in 1 .. Len(f) : f[i] \in ToSet(f) /\ f[i] \in Addresses
         /\ \A a : a \in ToSet(f) => \E i \in 1 .. Len(f) : f[i] = a
         /\ ToSet(f) \subseteq Addresses
<1>1. DOMAIN f = 1 .. Len(f) /\ Len(f) \in Nat
  BY LenProperties
<1>2. \A i \in 1 .. Len(f) : f[i] \in Addresses
  BY ElementOfSeq
<1> QED
  BY <1>1, <1>2 DEF ToSet

\* prvInsertBlockIntoFreeList() keeps the order and adds the one block.
LEMMA InsertedSorted ==
  ASSUME NEW m \in Memories, NEW f, Sorted(m, f),
         NEW a \in Addresses, a \notin ToSet(f)
  PROVE  /\ Sorted(m, Inserted(f, m, a))
         /\ ToSet(Inserted(f, m, a)) = ToSet(f) \cup {a}
<1> DEFINE stops == {i \in DOMAIN f : m[f[i]] >= m[a]}
           p == PositionOf(f, stops)
           t == Inserted(f, m, a)
<1>1. /\ f \in Seq(Addresses) /\ DOMAIN f = 1 .. Len(f) /\ Len(f) \in Nat
      /\ \A i \in 1 .. Len(f) : f[i] \in ToSet(f) /\ f[i] \in Addresses
      /\ \A b : b \in ToSet(f) => \E i \in 1 .. Len(f) : f[i] = b
  BY Members DEF Sorted
<1>2. stops \subseteq 1 .. Len(f)
  BY <1>1
<1>3. /\ p \in stops \cup {Len(f) + 1}
      /\ \A i \in stops \cup {Len(f) + 1} : p <= i
  <2>1. stops \cup {Len(f) + 1} \in SUBSET Nat
    BY <1>1
  <2> HIDE DEF stops
  <2> QED
    BY <2>1, MinIsLeast DEF PositionOf
<1>4. p \in 1 .. Len(f) + 1
  BY <1>1, <1>2, <1>3
<1>5. \A i \in 1 .. Len(f) : m[f[i]] \in Nat /\ m[a] \in Nat
  BY <1>1 DEF Memories
<1>6. \A i \in 1 .. Len(f) : i < p => m[f[i]] < m[a]
  <2> SUFFICES ASSUME NEW i \in 1 .. Len(f), i < p, ~(m[f[i]] < m[a])
               PROVE  FALSE
    OBVIOUS
  <2>1. i \in stops
    BY <1>1, <1>5
  <2> HIDE DEF stops, p
  <2> QED
    BY <1>3, <1>4, <2>1
<1>7. \A i \in 1 .. Len(f) : i >= p => m[f[i]] >= m[a]
  <2>1. p \in 1 .. Len(f) => m[f[p]] >= m[a]
    <3> HIDE DEF p
    <3> QED
      BY <1>3, <1>1
  <2>2. \A i, j \in 1 .. Len(f) : i < j => m[f[i]] <= m[f[j]]
    BY DEF Sorted
  <2> HIDE DEF p
  <2> QED
    BY <1>4, <1>5, <2>1, <2>2, <1>1
<1> HIDE DEF p, t
<1>8. /\ t \in Seq(Addresses) /\ Len(t) = Len(f) + 1
      /\ \A i \in 1 .. Len(f) + 1 :
           t[i] = IF i < p THEN f[i] ELSE IF i = p THEN a ELSE f[i - 1]
  <2>1. t = InsertAt(f, p, a)
    BY DEF t, p, Inserted
  <2>2. f \in Seq(Addresses)
    BY <1>1
  <2>3. /\ InsertAt(f, p, a) \in Seq(Addresses) /\ Len(InsertAt(f, p, a)) = Len(f) + 1
        /\ \A i \in 1 .. Len(f) + 1 :
             InsertAt(f, p, a)[i] = IF i < p THEN f[i] ELSE IF i = p THEN a ELSE f[i - 1]
    BY <1>4, <2>2, Insertion
  <2> QED
    BY <2>1, <2>3
<1>9. \A i, j \in 1 .. Len(t) : i # j => t[i] # t[j]
  <2>1. \A i \in 1 .. Len(f) : f[i] # a
    BY <1>1
  <2>2. \A i, j \in 1 .. Len(f) : i # j => f[i] # f[j]
    BY DEF Sorted
  <2> QED
    BY <1>1, <1>4, <1>8, <2>1, <2>2
<1>10. \A i, j \in 1 .. Len(t) : i < j => m[t[i]] <= m[t[j]]
  <2>1. \A i, j \in 1 .. Len(f) : i < j => m[f[i]] <= m[f[j]]
    BY DEF Sorted
  <2> SUFFICES ASSUME NEW i \in 1 .. Len(t), NEW j \in 1 .. Len(t), i < j
               PROVE  m[t[i]] <= m[t[j]]
    OBVIOUS
  <2>2. CASE j < p
    BY <1>1, <1>4, <1>8, <2>1, <2>2
  <2>3. CASE i < p /\ j = p
    BY <1>1, <1>4, <1>5, <1>6, <1>8, <2>3
  <2>4. CASE i < p /\ j > p
    <3>1. /\ i \in 1 .. Len(f) /\ j - 1 \in 1 .. Len(f) /\ i < j - 1
          /\ t[i] = f[i] /\ t[j] = f[j - 1]
      BY <1>1, <1>4, <1>8, <2>4
    <3> QED
      BY <2>1, <3>1
  <2>5. CASE i = p
    <3>1. t[i] = a /\ t[j] = f[j - 1] /\ j - 1 \in 1 .. Len(f) /\ j - 1 >= p
      BY <1>1, <1>4, <1>8, <2>5
    <3> QED
      BY <1>5, <1>7, <3>1
  <2>6. CASE i > p
    <3>1. /\ t[i] = f[i - 1] /\ t[j] = f[j - 1]
          /\ i - 1 \in 1 .. Len(f) /\ j - 1 \in 1 .. Len(f) /\ i - 1 < j - 1
      BY <1>1, <1>4, <1>8, <2>6
    <3> QED
      BY <2>1, <3>1
  <2> QED
    BY <1>4, <1>8, <2>2, <2>3, <2>4, <2>5, <2>6
<1>11. ToSet(t) = ToSet(f) \cup {a}
  <2>1. /\ \A i \in 1 .. Len(t) : t[i] \in ToSet(t)
        /\ \A b : b \in ToSet(t) => \E i \in 1 .. Len(t) : t[i] = b
    BY <1>8, Members
  <2>2. t[p] = a
    BY <1>4, <1>8, <1>1
  <2>3. ASSUME NEW i \in 1 .. Len(f)
        PROVE  \E j \in 1 .. Len(t) : t[j] = f[i]
    <3>1. CASE i < p
      BY <1>1, <1>8, <3>1
    <3>2. CASE i >= p
      <4>1. i + 1 \in 1 .. Len(t) /\ t[i + 1] = f[i]
        BY <1>1, <1>4, <1>8, <3>2
      <4> QED
        BY <4>1
    <3> QED
      BY <1>4, <3>1, <3>2
  <2>4. \A i \in 1 .. Len(t) : t[i] = a \/ t[i] \in ToSet(f)
    BY <1>1, <1>4, <1>8
  <2> QED
    BY <1>1, <1>4, <1>8, <2>1, <2>2, <2>3, <2>4
<1> QED
  BY <1>8, <1>9, <1>10, <1>11 DEF Sorted, t

\* Nor does taking a block out disturb it.
LEMMA RemovedSorted ==
  ASSUME NEW m, NEW f, Sorted(m, f), NEW p \in 1 .. Len(f)
  PROVE  /\ Sorted(m, RemoveAt(f, p))
         /\ ToSet(RemoveAt(f, p)) = ToSet(f) \ {f[p]}
<1> DEFINE t == RemoveAt(f, p)
<1>1. /\ f \in Seq(Addresses) /\ DOMAIN f = 1 .. Len(f) /\ Len(f) \in Nat
      /\ \A i \in 1 .. Len(f) : f[i] \in ToSet(f) /\ f[i] \in Addresses
      /\ \A b : b \in ToSet(f) => \E i \in 1 .. Len(f) : f[i] = b
  BY Members DEF Sorted
<1>2. /\ t \in Seq(Addresses) /\ Len(t) = Len(f) - 1
      /\ \A i \in 1 .. Len(f) - 1 : t[i] = IF i < p THEN f[i] ELSE f[i + 1]
  BY <1>1, Removal
<1>3. /\ \A i, j \in 1 .. Len(f) : i # j => f[i] # f[j]
      /\ \A i, j \in 1 .. Len(f) : i < j => m[f[i]] <= m[f[j]]
  BY DEF Sorted
<1> HIDE DEF t
<1> DEFINE before(i) == IF i < p THEN i ELSE i + 1
<1>4. Sorted(m, t)
  <2>1. \A i \in 1 .. Len(t) : t[i] = f[before(i)] /\ before(i) \in 1 .. Len(f)
    BY <1>1, <1>2
  <2>2. \A i, j \in 1 .. Len(t) :
          /\ i # j => before(i) # before(j)
          /\ i < j => before(i) < before(j)
    BY <1>1, <1>2
  <2> HIDE DEF before
  <2>3. \A i, j \in 1 .. Len(t) : i # j => t[i] # t[j]
    BY <1>3, <2>1, <2>2
  <2>4. \A i, j \in 1 .. Len(t) : i < j => m[t[i]] <= m[t[j]]
    BY <1>3, <2>1, <2>2
  <2> QED
    BY <1>2, <2>3, <2>4 DEF Sorted
<1>5. ToSet(t) = ToSet(f) \ {f[p]}
  <2>1. /\ \A i \in 1 .. Len(t) : t[i] \in ToSet(t)
        /\ \A b : b \in ToSet(t) => \E i \in 1 .. Len(t) : t[i] = b
    BY <1>2, Members
  <2>2. ASSUME NEW i \in 1 .. Len(f), i # p
        PROVE  \E j \in 1 .. Len(t) : t[j] = f[i]
    <3>1. CASE i < p
      BY <1>1, <1>2, <3>1, SMTT(30)
    <3>2. CASE i > p
      <4>1. i - 1 \in 1 .. Len(t) /\ t[i - 1] = f[i]
        BY <1>1, <1>2, <3>2
      <4> QED
        BY <4>1
    <3> QED
      BY <2>2, <3>1, <3>2
  <2>3. \A i \in 1 .. Len(t) : t[i] \in ToSet(f) /\ t[i] # f[p]
    BY <1>1, <1>2, <1>3
  <2> QED
    BY <1>1, <2>1, <2>2, <2>3, SMTT(30)
<1> QED
  BY <1>4, <1>5 DEF t

\* The order is that of the listed blocks' sizes alone.
LEMMA SortedAgrees ==
  ASSUME NEW m, NEW m2, NEW f, Sorted(m, f), \A a \in ToSet(f) : m2[a] = m[a]
  PROVE  Sorted(m2, f)
BY Members DEF Sorted

-----------------------------------------------------------------------------
(* Tilings *)

\* Splitting a block divides its units between its front and a new block.
LEMMA SplitTiles ==
  ASSUME NEW m \in Memories, NEW B, Tiling(m, B), NEW b \in B,
         NEW c \in Int, b < c, c < b + m[b],
         NEW m2 \in Memories, m2[b] = c - b, m2[c] = b + m[b] - c,
         \A i \in Addresses \ {b, c} : m2[i] = m[i]
  PROVE  /\ c \in Addresses \ B
         /\ c \in Extent(m, b)
         /\ Tiling(m2, B \cup {c})
<1>1. b \in 0 .. HeapUnits - 1 /\ m[b] \in Nat /\ b + m[b] <= HeapUnits /\ HeapUnits \in Nat
  BY HeapAssumption DEF Tiling, Memories, Addresses
<1>2. c \in Addresses /\ c \in Extent(m, b) /\ c # b
  BY <1>1 DEF Addresses, Extent
<1>3. c \notin B
  <2> SUFFICES ASSUME c \in B
               PROVE  FALSE
    OBVIOUS
  <2>1. c \in Extent(m, c)
    BY <1>1 DEF Tiling, Extent, Memories
  <2> QED
    BY <1>2, <2>1 DEF Tiling
<1>5. /\ Extent(m2, b) \cup Extent(m2, c) = Extent(m, b)
      /\ Extent(m2, b) \cap Extent(m2, c) = {}
  BY <1>1 DEF Extent
<1>6. \A a \in B \ {b} : Extent(m2, a) = Extent(m, a) /\ m2[a] = m[a]
  BY <1>3 DEF Extent, Tiling
<1>7. Tiling(m2, B \cup {c})
  <2>1. B \cup {c} \subseteq Addresses
    BY <1>2 DEF Tiling
  <2>2. \A a \in B \cup {c} : m2[a] > 0 /\ a + m2[a] <= HeapUnits
    BY <1>1, <1>6 DEF Tiling
  <2>3. \A x, y \in B \cup {c} : x # y => Extent(m2, x) \cap Extent(m2, y) = {}
    <3>1. \A x \in B \ {b} : Extent(m2, x) \cap Extent(m, b) = {}
      BY <1>6 DEF Tiling
    <3>2. \A x, y \in B \ {b} : x # y => Extent(m2, x) \cap Extent(m2, y) = {}
      BY <1>6 DEF Tiling
    <3> QED
      BY <1>5, <3>1, <3>2
  <2>4. ASSUME NEW i \in Addresses
        PROVE  \E a \in B \cup {c} : i \in Extent(m2, a)
    <3>1. PICK a \in B : i \in Extent(m, a)
      BY DEF Tiling
    <3> QED
      BY <1>5, <1>6, <3>1
  <2> QED
    BY <2>1, <2>2, <2>3, <2>4 DEF Tiling
<1> QED
  BY <1>2, <1>3, <1>7

\* A tiling is a matter of the blocks' headers alone.
LEMMA TilingAgrees ==
  ASSUME NEW m, NEW m2, NEW B, Tiling(m, B), \A a \in B : m2[a] = m[a]
  PROVE  Tiling(m2, B)
<1>1. \A a \in B : Extent(m2, a) = Extent(m, a)
  BY DEF Extent
<1> QED
  BY <1>1 DEF Tiling

\* So are the units of some blocks.
LEMMA UnitsAgree ==
  ASSUME NEW m, NEW m2, NEW S, \A a \in S : m2[a] = m[a]
  PROVE  Units(m2, S) = Units(m, S)
<1>1. \A a \in S : Extent(m2, a) = Extent(m, a)
  BY DEF Extent
<1> QED
  BY <1>1 DEF Units

\* There are no more of them than the heap has.
LEMMA UnitsBounded ==
  ASSUME NEW m \in Memories, NEW B, Tiling(m, B), NEW S \in SUBSET B
  PROVE  /\ IsFiniteSet(Units(m, S))
         /\ Cardinality(Units(m, S)) \in 0 .. HeapUnits
<1>1. Units(m, S) \subseteq Addresses
  <2> SUFFICES ASSUME NEW a \in S, NEW i \in Extent(m, a)
               PROVE  i \in Addresses
    BY DEF Units
  <2>1. a \in 0 .. HeapUnits - 1 /\ m[a] \in Nat /\ a + m[a] <= HeapUnits /\ HeapUnits \in Nat
    BY HeapAssumption DEF Tiling, Memories, Addresses
  <2> QED
    BY <2>1 DEF Extent, Addresses
<1>2. IsFiniteSet(Addresses) /\ Cardinality(Addresses) = HeapUnits
  BY HeapAssumption, FS_Interval DEF Addresses
<1>3. IsFiniteSet(Units(m, S)) /\ Cardinality(Units(m, S)) <= HeapUnits
  BY <1>1, <1>2, FS_Subset
<1> QED
  BY <1>3, FS_CardinalityType, HeapAssumption

\* A further block adds its size.
LEMMA UnitsAdded ==
  ASSUME NEW m \in Memories, NEW B, Tiling(m, B), NEW S \in SUBSET B,
         NEW a \in B, a \notin S
  PROVE  Cardinality(Units(m, S \cup {a})) = Cardinality(Units(m, S)) + m[a]
<1>1. Units(m, S \cup {a}) = Units(m, S) \cup Extent(m, a)
  BY DEF Units
<1>2. Units(m, S) \cap Extent(m, a) = {}
  BY DEF Units, Tiling
<1>3. IsFiniteSet(Extent(m, a)) /\ Cardinality(Extent(m, a)) = m[a]
  <2>1. a \in Int /\ m[a] \in Nat /\ m[a] > 0
    BY DEF Tiling, Memories, Addresses
  <2> DEFINE last == a + m[a] - 1
  <2>2. last \in Int /\ ~(a > last) /\ last - a + 1 = m[a]
    BY <2>1
  <2>3. Extent(m, a) = a .. last
    BY DEF Extent
  <2> HIDE DEF last
  <2>4. IsFiniteSet(a .. last) /\ Cardinality(a .. last) = last - a + 1
    BY <2>1, <2>2, FS_Interval
  <2> QED
    BY <2>2, <2>3, <2>4
<1>4. IsFiniteSet(Units(m, S)) /\ Cardinality(Units(m, S)) \in Int
  BY UnitsBounded
<1>5. Cardinality(Units(m, S) \cap Extent(m, a)) = 0
  BY <1>2, FS_EmptySet
<1>6. m[a] \in Int
  BY DEF Memories, Tiling
<1>7. Cardinality(Units(m, S) \cup Extent(m, a))
        = Cardinality(Units(m, S)) + Cardinality(Extent(m, a))
            - Cardinality(Units(m, S) \cap Extent(m, a))
  BY <1>3, <1>4, FS_Union
<1>8. Cardinality(Units(m, S \cup {a})) = Cardinality(Units(m, S) \cup Extent(m, a))
  BY <1>1, Zenon
<1> QED
  BY <1>3, <1>4, <1>5, <1>6, <1>7, <1>8

-----------------------------------------------------------------------------
(* The calls *)

\* pvPortMalloc() takes a block from the list that is large enough, and leaves a heap
\* with it in use that differs in this block's units alone.
LEMMA Taking ==
  ASSUME HInv, NEW n \in Nat, Found(n) # NULL
  PROVE  LET b == Found(n)
             heap == Allocated(b, n)
         IN /\ b \in ToSet(free)
            /\ Sound(heap.mem, heap.free, used \cup {b}, heap.remaining)
            /\ n < heap.mem[b]
            /\ Extent(heap.mem, b) \subseteq Extent(mem, b)
            /\ \A i \in Addresses : i \notin Extent(mem, b) => heap.mem[i] = mem[i]
<1> DEFINE b == Found(n)
           p == Min(Fitting(n))
           heap == Allocated(b, n)
           size == TakenSize(b, n)
           others == RemoveAt(free, p)
           B == ToSet(free) \cup used
           m2 == Split(b, size)
           c == b + size
<1> USE DEF HInv, Sound
<1>1. /\ free \in Seq(Addresses) /\ DOMAIN free = 1 .. Len(free)
      /\ \A i \in 1 .. Len(free) : free[i] \in ToSet(free)
      /\ ToSet(free) \subseteq Addresses
  BY Members DEF Sorted
<1>2. n > 0 /\ Wanted(n) = n + 1 /\ Fitting(n) # {} /\ b = free[p]
  BY DEF Found, Wanted, HeaderUnits
<1>3. p \in 1 .. Len(free) /\ mem[free[p]] >= Wanted(n)
  <2>1. Fitting(n) \in SUBSET Nat
    BY <1>1 DEF Fitting
  <2>2. p \in Fitting(n)
    BY <1>2, <2>1, MinIsLeast
  <2> QED
    BY <1>1, <2>2 DEF Fitting
<1>4. b \in ToSet(free) /\ b \in B /\ b \in Addresses /\ b \notin used
  BY <1>1, <1>2, <1>3
<1>5. mem[b] \in Nat /\ n < size /\ size <= mem[b] /\ size \in Nat
  BY <1>2, <1>3, <1>4 DEF TakenSize, MinimumBlock, HeaderUnits, Memories
<1>6. Sorted(mem, others) /\ ToSet(others) = ToSet(free) \ {b}
  BY <1>2, <1>3, RemovedSorted
<1>7. Cardinality(Units(mem, ToSet(free))) = Cardinality(Units(mem, ToSet(others))) + mem[b]
  <2>1. ToSet(others) \in SUBSET B /\ b \notin ToSet(others)
    BY <1>6
  <2>2. ToSet(free) = ToSet(others) \cup {b}
    BY <1>4, <1>6
  <2> QED
    BY <1>4, <2>1, <2>2, UnitsAdded
<1>8. Cardinality(Units(mem, ToSet(others))) \in Nat
  <2>1. ToSet(others) \in SUBSET B
    BY <1>6
  <2> QED
    BY <2>1, UnitsBounded, HeapAssumption
<1>9. RemainingAfter(b, n) = Cardinality(Units(mem, ToSet(others))) + (mem[b] - size)
  BY <1>5, <1>7, <1>8 DEF RemainingAfter
<1> HIDE DEF b, p, size, others
<1>10. CASE size < mem[b]
  <2> DEFINE f2 == Inserted(others, m2, c)
  <2>1. /\ c \in Addresses \ B /\ c \in Extent(mem, b)
        /\ m2 \in Memories /\ m2[b] = size /\ m2[c] = mem[b] - size
        /\ \A i \in Addresses \ {b, c} : m2[i] = mem[i]
        /\ Tiling(m2, B \cup {c})
    <3>1. b \in Nat /\ c \in Int /\ b < c /\ c < b + mem[b] /\ b + mem[b] <= HeapUnits
      BY <1>2, <1>4, <1>5, <1>10 DEF Tiling, Addresses
    <3>2. c \in Addresses /\ c # b
      BY <1>4, <1>5, <3>1, HeapAssumption DEF Addresses
    <3>3. m2 \in Memories /\ m2[b] = size /\ m2[c] = mem[b] - size
      BY <1>4, <1>5, <1>10, <3>1, <3>2 DEF Split, Memories
    <3>4. \A i \in Addresses \ {b, c} : m2[i] = mem[i]
      BY DEF Split, Memories
    <3>5. m2[b] = c - b /\ m2[c] = b + mem[b] - c
      BY <1>5, <3>1, <3>3
    <3>6. mem \in Memories /\ Tiling(mem, B)
      OBVIOUS
    <3> HIDE DEF m2, c, B, HInv, Sound
    <3> QED
      BY <1>4, <3>1, <3>3, <3>4, <3>5, <3>6, SplitTiles
  <2> HIDE DEF m2, c
  <2>2. \A a \in ToSet(others) : m2[a] = mem[a]
    BY <1>1, <1>6, <2>1
  <2>3. Sorted(m2, others)
    BY <1>6, <2>2, SortedAgrees
  <2>4. Sorted(m2, f2) /\ ToSet(f2) = ToSet(others) \cup {c}
    BY <1>6, <2>1, <2>3, InsertedSorted
  <2>5. heap = [mem |-> m2, free |-> f2, remaining |-> RemainingAfter(b, n)]
    BY <1>10 DEF Allocated, m2, c, size, others, p
  <2> HIDE DEF heap, f2
  <2>6. RemainingAfter(b, n) = Cardinality(Units(m2, ToSet(f2)))
    <3>1. Units(m2, ToSet(others)) = Units(mem, ToSet(others))
      BY <2>2, UnitsAgree
    <3>2. Cardinality(Units(m2, ToSet(others) \cup {c}))
            = Cardinality(Units(m2, ToSet(others))) + m2[c]
      <4>1. ToSet(others) \in SUBSET (B \cup {c}) /\ c \notin ToSet(others)
        BY <1>6, <2>1
      <4> QED
        BY <2>1, <4>1, UnitsAdded
    <3> QED
      BY <1>9, <2>1, <2>4, <3>1, <3>2
  <2>7. ToSet(f2) \cup (used \cup {b}) = B \cup {c} /\ ToSet(f2) \cap (used \cup {b}) = {}
    BY <1>4, <1>6, <2>1, <2>4
  <2>8. Sound(m2, f2, used \cup {b}, RemainingAfter(b, n))
    BY <2>1, <2>4, <2>6, <2>7
  <2>9. Extent(m2, b) \subseteq Extent(mem, b)
    BY <1>4, <1>5, <2>1 DEF Extent, Addresses
  <2>10. \A i \in Addresses : i \notin Extent(mem, b) => m2[i] = mem[i]
    <3>1. b \in Extent(mem, b)
      BY <1>4, <1>5 DEF Extent, Addresses
    <3> QED
      BY <2>1, <3>1
  <2> QED
    BY <1>4, <1>5, <2>1, <2>5, <2>8, <2>9, <2>10 DEF heap, b
<1>11. CASE ~(size < mem[b])
  <2>1. heap = [mem |-> mem, free |-> others, remaining |-> RemainingAfter(b, n)]
    BY <1>11 DEF Allocated, size, others, p
  <2>2. size = mem[b]
    BY <1>5, <1>11
  <2>3. RemainingAfter(b, n) = Cardinality(Units(mem, ToSet(others)))
    BY <1>5, <1>8, <1>9, <2>2
  <2>4. /\ ToSet(others) \cup (used \cup {b}) = B
        /\ ToSet(others) \cap (used \cup {b}) = {}
    BY <1>4, <1>6
  <2>5. Sound(mem, others, used \cup {b}, RemainingAfter(b, n))
    BY <1>6, <2>3, <2>4
  <2> HIDE DEF heap
  <2> QED
    BY <1>4, <1>5, <2>1, <2>2, <2>5 DEF heap, b
<1> QED
  BY <1>10, <1>11

\* Each block's header is its own.
LEMMA Headers ==
  ASSUME NEW m \in Memories, NEW B, Tiling(m, B), NEW a \in B
  PROVE  /\ a \in Extent(m, a) /\ a \in Addresses /\ m[a] \in Nat
         /\ \A b \in B : b # a => b \notin Extent(m, a)
<1>1. \A b \in B : b \in Addresses /\ m[b] \in Nat /\ m[b] > 0
  BY DEF Tiling, Memories
<1>2. \A b \in B : b \in Extent(m, b)
  BY <1>1 DEF Extent, Addresses
<1> QED
  BY <1>1, <1>2 DEF Tiling

\* vPortFree() gives a used block to the list.
LEMMA Returning ==
  ASSUME NEW m, NEW f, NEW u, NEW r, Sound(m, f, u, r), NEW a \in u
  PROVE  Sound(m, Inserted(f, m, a), u \ {a}, r + m[a])
<1> DEFINE f2 == Inserted(f, m, a)
           B == ToSet(f) \cup u
<1>1. m \in Memories /\ Sorted(m, f) /\ a \in Addresses /\ a \notin ToSet(f) /\ a \in B
  BY DEF Sound, Tiling
<1>2. Sorted(m, f2) /\ ToSet(f2) = ToSet(f) \cup {a}
  BY <1>1, InsertedSorted
<1> HIDE DEF f2
<1>3. ToSet(f2) \cup (u \ {a}) = B /\ ToSet(f2) \cap (u \ {a}) = {}
  BY <1>2 DEF Sound
<1>4. Tiling(m, B) /\ ToSet(f) \in SUBSET B
  BY DEF Sound
<1> HIDE DEF B
<1>5. Cardinality(Units(m, ToSet(f2))) = r + m[a]
  BY <1>1, <1>2, <1>4, UnitsAdded DEF Sound
<1> QED
  BY <1>1, <1>2, <1>3, <1>4, <1>5 DEF Sound, f2

\* What is written between the headers does not matter.
LEMMA Writing ==
  ASSUME NEW m, NEW f, NEW u, NEW r, Sound(m, f, u, r),
         NEW m2 \in Memories, \A a \in ToSet(f) \cup u : m2[a] = m[a]
  PROVE  Sound(m2, f, u, r)
<1>1. Sorted(m2, f)
  BY SortedAgrees DEF Sound
<1>2. Tiling(m2, ToSet(f) \cup u)
  BY TilingAgrees DEF Sound
<1>3. Units(m2, ToSet(f)) = Units(m, ToSet(f))
  BY UnitsAgree
<1> QED
  BY <1>1, <1>2, <1>3 DEF Sound

\* What realloc() copies ends up in the new block, whatever it took for the old one's
\* size; the heap stays sound.
LEMMA Copying ==
  ASSUME HInv, NEW n \in Nat, NEW a \in used, Found(n) # NULL, Realloc(a, n)
  PROVE  LET b == Found(n)
         IN /\ HInv'
            /\ b \in ToSet(free) /\ used' = (used \cup {b}) \ {a}
            /\ n < mem'[b]
            /\ Extent(mem', b) \subseteq Extent(mem, b)
            /\ \A i \in Addresses : i \notin Extent(mem, b) => mem'[i] = mem[i]
<1> DEFINE b == Found(n)
           heap == Allocated(b, n)
           m == heap.mem
<1> HIDE DEF b
<1> HIDE DEF heap
<1>1. /\ b \in ToSet(free) /\ Sound(m, heap.free, used \cup {b}, heap.remaining)
      /\ n < m[b] /\ Extent(m, b) \subseteq Extent(mem, b)
      /\ \A i \in Addresses : i \notin Extent(mem, b) => m[i] = mem[i]
  BY Taking DEF heap, b
<1> DEFINE Outcome(size, beyond) ==
        LET copied == b + 1 .. b + Copied(size, n)
            source(i) == IF i \in Addresses THEN m[i] ELSE beyond
        IN /\ mem' = [i \in Addresses |->
                        IF i \in copied THEN source(a + i - b) ELSE m[i]]
           /\ free' = Inserted(heap.free, mem', a)
           /\ used' = (used \cup {b}) \ {a}
           /\ remaining' = heap.remaining + mem[a]
<1>0. PICK size \in Reads(m, a + HeaderUnits - ReallocHeaderUnits) :
        \E beyond \in Reads(m, a + Copied(size, n)) : Outcome(size, beyond)
  BY DEF Realloc, heap, b
<1>2. PICK beyond \in Reads(m, a + Copied(size, n)) : Outcome(size, beyond)
  BY <1>0
<1>3. m \in Memories
  BY <1>1 DEF Sound
<1>4. ASSUME NEW i
      PROVE  Reads(m, i) \subseteq Nat
  <2> HIDE DEF m
  <2>1. CASE i \in Addresses
    <3>1. m[i] \in Nat /\ Reads(m, i) = {m[i]}
      BY <1>3, <2>1 DEF Memories, Reads
    <3> QED
      BY <3>1
  <2>2. CASE i \notin Addresses
    <3>1. Reads(m, i) = {0} \/ Reads(m, i) = Words
      BY <2>2 DEF Reads
    <3>2. {0} \subseteq Nat /\ Words \subseteq Nat
      BY WordsAssumption
    <3> QED
      BY <3>1, <3>2, Zenon
  <2> QED
    BY <2>1, <2>2
<1>5. size \in Nat /\ beyond \in Nat /\ Copied(size, n) \in 0 .. n
  BY <1>4 DEF Copied
<1>6. mem' \in Memories
  BY <1>2, <1>3, <1>5 DEF Memories
<1> DEFINE blocks == ToSet(heap.free) \cup (used \cup {b})
<1>7. b \in blocks /\ a \in blocks /\ Tiling(m, blocks) /\ b \in Addresses
  BY <1>1 DEF Sound, Tiling
<1>8. b \in Int /\ m[b] \in Nat
  <2>1. b \in Int
    BY <1>7 DEF Addresses
  <2>2. m[b] \in Nat
    BY <1>3, <1>7 DEF Memories
  <2> QED
    BY <2>1, <2>2
<1>9. \A i \in Addresses : i \notin Extent(m, b) \ {b} => mem'[i] = m[i]
  <2>1. \A i \in b + 1 .. b + Copied(size, n) : i \in Extent(m, b) \ {b}
    BY <1>1, <1>5, <1>8 DEF Extent
  <2> QED
    BY <1>2, <2>1
<1>10. \A x \in blocks : mem'[x] = m[x]
  <2>1. \A x \in blocks : x \in Addresses /\ (x # b => x \notin Extent(m, b))
    <3> HIDE DEF blocks
    <3> QED
      BY <1>3, <1>7, Headers DEF Tiling
  <2> QED
    BY <1>9, <2>1
<1>11. Sound(mem', heap.free, used \cup {b}, heap.remaining)
  BY <1>1, <1>6, <1>10, Writing
<1>12. a \notin Extent(mem, b) /\ a \in Addresses
  <2>1. mem \in Memories /\ Tiling(mem, ToSet(free) \cup used) /\ a # b
    BY <1>1 DEF HInv, Sound
  <2> QED
    BY <1>1, <2>1, Headers
<1>13. mem'[a] = mem[a]
  BY <1>1, <1>7, <1>10, <1>12
<1>14. Sound(mem', free', used', remaining')
  BY <1>2, <1>11, <1>13, Returning
<1>15. \A i \in Addresses : i \notin Extent(mem, b) => mem'[i] = mem[i]
  BY <1>1, <1>9
<1>16. mem'[b] = m[b]
  BY <1>7, <1>10
<1>17. n < mem'[b] /\ Extent(mem', b) \subseteq Extent(mem, b)
  BY <1>1, <1>16 DEF Extent
<1> QED
  BY <1>1, <1>2, <1>14, <1>15, <1>17 DEF HInv, b

-----------------------------------------------------------------------------
(* The heap *)

\* The first block is the whole heap.
LEMMA Initially == Init => HInv
<1> SUFFICES ASSUME Init
             PROVE  HInv
  OBVIOUS
<1>1. HeapUnits \in Nat /\ HeapUnits > 0 /\ 0 \in Addresses
  BY HeapAssumption DEF Addresses
<1>2. mem \in Memories /\ mem[0] = HeapUnits
  BY <1>1 DEF Init, Memories
<1>3. free = <<0>> /\ Len(free) = 1 /\ free[1] = 0 /\ free \in Seq(Addresses)
  BY <1>1 DEF Init
<1>4. ToSet(free) = {0}
  <2>1. DOMAIN free = {1} /\ free[1] = 0
    BY <1>3
  <2> QED
    BY <2>1 DEF ToSet
<1>5. Sorted(mem, free)
  BY <1>3 DEF Sorted
<1>6. Extent(mem, 0) = Addresses
  BY <1>1, <1>2 DEF Extent, Addresses
<1>7. Tiling(mem, {0})
  BY <1>1, <1>2, <1>6 DEF Tiling
<1>8. Cardinality(Units(mem, {0})) = HeapUnits
  <2>1. Units(mem, {0}) = Addresses
    BY <1>6 DEF Units
  <2>2. Cardinality(Addresses) = HeapUnits
    <3>1. 0 \in Int /\ HeapUnits - 1 \in Int /\ ~(0 > HeapUnits - 1)
            /\ (HeapUnits - 1) - 0 + 1 = HeapUnits
      BY <1>1
    <3> QED
      BY <3>1, FS_Interval DEF Addresses
  <2> QED
    BY <2>1, <2>2
<1> QED
  BY <1>2, <1>4, <1>5, <1>7, <1>8 DEF Init, HInv, Sound

\* Every call keeps the heap sound.
LEMMA Calls ==
  ASSUME HInv, [Next]_vars
  PROVE  HInv'
<1>1. CASE UNCHANGED vars
  BY <1>1 DEF vars, HInv, Sound, Sorted, Tiling, Units, Extent, Memories
<1>2. CASE \E n \in Requests : Malloc(n)
  <2>1. PICK n \in Requests : Malloc(n)
    BY <1>2
  <2>2. n \in Nat
    BY RequestsAssumption
  <2>3. CASE Found(n) = NULL
    BY <1>1, <2>1, <2>3 DEF Malloc
  <2>4. CASE Found(n) # NULL
    BY <2>1, <2>2, <2>4, Taking DEF Malloc, HInv
  <2> QED
    BY <2>3, <2>4
<1>3. CASE \E a \in used : Free(a)
  <2>1. PICK a \in used : Free(a)
    BY <1>3
  <2>2. Sound(mem, Inserted(free, mem, a), used \ {a}, remaining + mem[a])
    BY Returning DEF HInv
  <2> QED
    BY <2>1, <2>2 DEF Free, HInv
<1>4. CASE \E a \in used, word \in Words : Write(a, word)
  <2>1. PICK a \in used, word \in Words : Write(a, word)
    BY <1>4
  <2>2. mem \in Memories /\ Tiling(mem, ToSet(free) \cup used)
    BY DEF HInv, Sound
  <2>3. mem' \in Memories
    BY <2>1, <2>2, WordsAssumption DEF Write, Memories
  <2>4. \A x \in ToSet(free) \cup used : x \in Addresses /\ x \notin Data(a)
    <3>1. Data(a) = Extent(mem, a) \ {a}
      BY DEF Data, Block, Extent
    <3>2. \A x \in ToSet(free) \cup used : x # a => x \notin Extent(mem, a)
      BY <2>2, Headers
    <3> QED
      BY <2>2, <3>1, <3>2 DEF Tiling
  <2>5. \A x \in ToSet(free) \cup used : mem'[x] = mem[x]
    BY <2>1, <2>4 DEF Write
  <2>6. Sound(mem', free, used, remaining)
    BY <2>3, <2>5, Writing DEF HInv
  <2> QED
    BY <2>1, <2>6 DEF Write, HInv
<1>5. CASE \E a \in used, n \in Requests : Realloc(a, n)
  <2>1. PICK a \in used, n \in Requests : Realloc(a, n)
    BY <1>5
  <2>2. n \in Nat
    BY RequestsAssumption
  <2>3. CASE Found(n) = NULL
    BY <1>1, <2>1, <2>3 DEF Realloc
  <2>4. CASE Found(n) # NULL
    BY <2>1, <2>2, <2>4, Copying
  <2> QED
    BY <2>3, <2>4
<1> QED
  BY <1>1, <1>2, <1>3, <1>4, <1>5 DEF Next

\* So it is in every state.
THEOREM Soundness == Spec => []HInv
<1>1. HInv /\ [Next]_vars => HInv'
  BY Calls
<1> QED
  BY Initially, <1>1, PTL DEF Spec

\* The heap's variables keep their types; xFreeBytesRemaining never goes below 0.
THEOREM TypeCorrect == Spec => []TypeOK
<1>1. HInv => TypeOK
  <2> SUFFICES ASSUME HInv
               PROVE  TypeOK
    OBVIOUS
  <2>1. mem \in Memories /\ Tiling(mem, ToSet(free) \cup used)
    BY DEF HInv, Sound
  <2>2. remaining \in 0 .. HeapUnits
    BY <2>1, UnitsBounded DEF HInv, Sound
  <2> QED
    BY <2>1, <2>2 DEF HInv, Sound, Sorted, Tiling, TypeOK, Memories
<1> QED
  BY <1>1, Soundness, PTL

\* Free blocks and those in use divide the heap between them, and each free one is
\* in the list once.
THEOREM Tiles == Spec => []BlocksTile
<1>1. HInv => BlocksTile
  <2> SUFFICES ASSUME HInv
               PROVE  BlocksTile
    OBVIOUS
  <2>1. /\ mem \in Memories /\ Sorted(mem, free) /\ Tiling(mem, Blocks)
        /\ ToSet(free) \cap used = {}
    BY DEF HInv, Sound, Blocks
  <2>2. \A a : Block(a) = Extent(mem, a)
    BY DEF Block, Extent
  <2>3. UNION {Block(a) : a \in Blocks} = Addresses
    <3>1. ASSUME NEW a \in Blocks
          PROVE  Block(a) \subseteq Addresses
      <4>1. a \in 0 .. HeapUnits - 1 /\ mem[a] \in Nat /\ a + mem[a] <= HeapUnits
        BY <2>1 DEF Tiling, Memories, Addresses
      <4> QED
        BY <4>1, HeapAssumption DEF Block, Addresses
    <3> QED
      BY <2>1, <2>2, <3>1 DEF Tiling
  <2>4. \A a, b \in Blocks : a # b => Block(a) \cap Block(b) = {}
    BY <2>1, <2>2 DEF Tiling
  <2>5. Len(free) = Cardinality(ToSet(free))
    <3>1. /\ DOMAIN free = 1 .. Len(free) /\ Len(free) \in Nat
          /\ \A i \in 1 .. Len(free) : free[i] \in ToSet(free)
          /\ \A a : a \in ToSet(free) => \E i \in 1 .. Len(free) : free[i] = a
      BY <2>1, Members DEF Sorted
    <3>2. free \in [1 .. Len(free) -> ToSet(free)]
      BY <2>1, <3>1, LenProperties DEF Sorted
    <3>3. free \in Bijection(1 .. Len(free), ToSet(free))
      BY <2>1, <3>1, <3>2 DEF Sorted, Bijection, Injection, Surjection, IsInjective
    <3> QED
      BY <3>1, <3>3, FS_CountingElements DEF ExistsBijection
  <2> QED
    BY <2>1, <2>3, <2>4, <2>5 DEF BlocksTile
<1> QED
  BY <1>1, Soundness, PTL

\* The list is ordered by size, and xFreeBytesRemaining counts what is in it.
THEOREM ListIsOrdered == Spec => []ListOrdered
<1>1. HInv => ListOrdered
  <2>1. ASSUME HInv
        PROVE  Units(mem, ToSet(free)) = UNION {Block(a) : a \in ToSet(free)}
    BY DEF Units, Extent, Block
  <2> QED
    BY <2>1, Members DEF HInv, Sound, Sorted, ListOrdered
<1> QED
  BY <1>1, Soundness, PTL

\* Whatever realloc() reads as the size, no call changes another block in use.
THEOREM DataKept == Spec => OthersKeepData
<1> DEFINE Kept ==
      \A a \in used \cap used' :
        (\A word \in Words : ~Write(a, word)) => \A i \in Block(a) : mem'[i] = mem[i]
<1>1. ASSUME HInv, Next
      PROVE  Kept
  <2> SUFFICES ASSUME NEW a \in used, a \in used', \A word \in Words : ~Write(a, word),
                      NEW i \in Block(a)
               PROVE  mem'[i] = mem[i]
    OBVIOUS
  <2>1. /\ mem \in Memories /\ Tiling(mem, ToSet(free) \cup used)
        /\ ToSet(free) \cap used = {}
    BY <1>1 DEF HInv, Sound
  <2>2. i \in Extent(mem, a) /\ i \in Addresses
    BY <2>1, HeapAssumption DEF Block, Extent, Tiling, Memories, Addresses
  <2>3. \A b \in ToSet(free) \cup used : b # a => i \notin Extent(mem, b)
    BY <2>1, <2>2 DEF Tiling
  <2>4. ASSUME NEW n \in Requests, Malloc(n)
        PROVE  mem'[i] = mem[i]
    <3>1. CASE Found(n) = NULL
      BY <2>4, <3>1 DEF Malloc, vars
    <3>2. CASE Found(n) # NULL
      <4>1. n \in Nat
        BY RequestsAssumption
      <4>2. /\ Found(n) \in ToSet(free)
            /\ i \notin Extent(mem, Found(n)) => Allocated(Found(n), n).mem[i] = mem[i]
        BY <1>1, <2>2, <3>2, <4>1, Taking
      <4> QED
        BY <2>1, <2>3, <2>4, <3>2, <4>2 DEF Malloc
    <3> QED
      BY <3>1, <3>2
  <2>5. ASSUME NEW b \in used, NEW word \in Words, Write(b, word)
        PROVE  mem'[i] = mem[i]
    <3>1. b # a
      BY <2>5
    <3>2. i \notin Data(b)
      BY <2>3, <3>1 DEF Data, Block, Extent
    <3> QED
      BY <2>2, <2>5, <3>2 DEF Write
  <2>6. ASSUME NEW b \in used, NEW n \in Requests, Realloc(b, n)
        PROVE  mem'[i] = mem[i]
    <3>1. CASE Found(n) = NULL
      BY <2>6, <3>1 DEF Realloc, vars
    <3>2. CASE Found(n) # NULL
      <4>1. n \in Nat
        BY RequestsAssumption
      <4>2. /\ Found(n) \in ToSet(free)
            /\ i \notin Extent(mem, Found(n)) => mem'[i] = mem[i]
        BY <1>1, <2>2, <2>6, <3>2, <4>1, Copying
      <4> QED
        BY <2>1, <2>3, <4>2
    <3> QED
      BY <3>1, <3>2
  <2> QED
    BY <1>1, <2>4, <2>5, <2>6 DEF Next, Free
<1>2. HInv /\ [Next]_vars => [Kept]_vars
  BY <1>1
<1> QED
  BY <1>2, Soundness, PTL DEF Spec, OthersKeepData

-----------------------------------------------------------------------------
(* The search *)

\* heap_2.c: "Blocks are stored in byte order - traverse the list from the start
\* (smallest) block until one of adequate size is found."  That one is the smallest, and
\* a request for which there is one fails only if with its header it is as large as the
\* heap.
BestFit ==
  \A n \in Requests :
    LET fitting == {b \in ToSet(free) : n < mem[b]}
    IN IF Found(n) # NULL
       THEN Found(n) \in fitting /\ \A b \in fitting : mem[Found(n)] <= mem[b]
       ELSE n = 0 \/ n + HeaderUnits >= HeapUnits \/ fitting = {}

\* The first block that is large enough is the best.
THEOREM SearchIsBestFit == Spec => []BestFit
<1>1. ASSUME HInv, NEW n \in Requests
      PROVE  LET fitting == {b \in ToSet(free) : n < mem[b]}
             IN IF Found(n) # NULL
                THEN Found(n) \in fitting /\ \A b \in fitting : mem[Found(n)] <= mem[b]
                ELSE n = 0 \/ n + HeaderUnits >= HeapUnits \/ fitting = {}
  <2>1. n \in Nat /\ HeapUnits \in Nat /\ HeaderUnits = 1
    BY RequestsAssumption, HeapAssumption DEF HeaderUnits
  <2>2. /\ free \in Seq(Addresses) /\ DOMAIN free = 1 .. Len(free) /\ Len(free) \in Nat
        /\ \A i \in 1 .. Len(free) : free[i] \in ToSet(free) /\ free[i] \in Addresses
        /\ \A b : b \in ToSet(free) => \E i \in 1 .. Len(free) : free[i] = b
        /\ \A i, j \in 1 .. Len(free) : i < j => mem[free[i]] <= mem[free[j]]
    BY <1>1, Members DEF HInv, Sound, Sorted
  <2>3. \A i \in 1 .. Len(free) : mem[free[i]] \in Nat
    BY <1>1, <2>2 DEF HInv, Sound, Memories
  <2>4. n > 0 => Fitting(n) = {i \in 1 .. Len(free) : n < mem[free[i]]}
    BY <2>1, <2>2, <2>3 DEF Fitting, Wanted
  <2>5. CASE Found(n) # NULL
    <3> DEFINE p == Min(Fitting(n))
    <3>1. n > 0 /\ Found(n) = free[p] /\ Fitting(n) # {}
      BY <2>1, <2>5 DEF Found, Wanted
    <3>2. p \in Fitting(n) /\ \A i \in Fitting(n) : p <= i
      <4>1. Fitting(n) \in SUBSET Nat
        BY <2>4, <3>1
      <4> QED
        BY <3>1, <4>1, MinIsLeast
    <3> HIDE DEF p
    <3>3. p \in 1 .. Len(free) /\ n < mem[free[p]]
      BY <2>4, <3>1, <3>2
    <3>4. ASSUME NEW i \in 1 .. Len(free), n < mem[free[i]]
          PROVE  mem[free[p]] <= mem[free[i]]
      <4>1. p <= i
        BY <2>4, <3>1, <3>2, <3>4
      <4> QED
        BY <2>2, <2>3, <3>3, <4>1
    <3> QED
      BY <2>2, <2>5, <3>1, <3>3, <3>4
  <2>6. CASE Found(n) = NULL
    <3>1. Fitting(n) # {} => free[Min(Fitting(n))] # NULL \/ n = 0
      <4> SUFFICES ASSUME Fitting(n) # {}, n > 0
                   PROVE  free[Min(Fitting(n))] # NULL
        BY <2>1
      <4>1. Min(Fitting(n)) \in Fitting(n)
        <5>1. Fitting(n) \in SUBSET Nat
          BY <2>4
        <5> QED
          BY <5>1, MinIsLeast
      <4>2. free[Min(Fitting(n))] \in Addresses
        BY <2>2, <2>4, <4>1
      <4> QED
        BY <4>2 DEF NULL, Addresses
    <3>2. n = 0 \/ n + HeaderUnits >= HeapUnits \/ Fitting(n) = {}
      BY <2>1, <2>6, <3>1 DEF Found, Wanted
    <3> QED
      BY <2>1, <2>2, <2>4, <2>6, <3>2
  <2> QED
    BY <2>5, <2>6
<1>2. HInv => BestFit
  BY <1>1 DEF BestFit
<1> QED
  BY <1>2, Soundness, PTL

-----------------------------------------------------------------------------
(* The application's view *)

\* Where the data of some blocks begins.
DataOf(S) == {a + HeaderUnits : a \in S}

\* The blocks the application sees are those in use, without their headers.
LEMMA Holding ==
  ASSUME NEW m, NEW u, u \subseteq Addresses
  PROVE  LET held == [p \in DataOf(u) |-> m[p - HeaderUnits] - HeaderUnits]
         IN /\ DOMAIN held = DataOf(u)
            /\ \A a \in u : held[a + HeaderUnits] = m[a] - HeaderUnits
<1>1. \A a \in u : (a + HeaderUnits) - HeaderUnits = a /\ a + HeaderUnits \in DataOf(u)
  BY DEF HeaderUnits, Addresses, DataOf
<1> QED
  BY <1>1

\* A block in use is none of the list, and no other's header or data.
LEMMA InUse ==
  ASSUME HInv
  PROVE  /\ used \subseteq Addresses /\ Addresses \subseteq Int
         /\ ToSet(free) \cap used = {}
         /\ \A a \in used : Extent(mem, a) \subseteq Addresses
         /\ \A a, b \in used : a # b => Extent(mem, a) \cap Extent(mem, b) = {}
<1>1. /\ mem \in Memories /\ Tiling(mem, ToSet(free) \cup used)
      /\ ToSet(free) \cap used = {}
  BY DEF HInv, Sound
<1>2. ASSUME NEW a \in used
      PROVE  Extent(mem, a) \subseteq Addresses
  <2>1. a \in 0 .. HeapUnits - 1 /\ mem[a] \in Nat /\ a + mem[a] <= HeapUnits
    BY <1>1 DEF Tiling, Memories, Addresses
  <2> QED
    BY <2>1, HeapAssumption DEF Extent, Addresses
<1> QED
  BY <1>1, <1>2 DEF Tiling, Addresses

\* A used block's data is what is behind its header.
LEMMA DataUnits ==
  ASSUME HInv, NEW a \in used
  PROVE  /\ Contract!Units(a + HeaderUnits) = Extent(mem, a) \ {a}
         /\ a + HeaderUnits \in DataOf(used)
<1>1. used \subseteq Addresses /\ mem[a] \in Nat /\ a \in Int
  BY DEF HInv, Sound, Tiling, Memories, Addresses
<1>2. [p \in DataOf(used) |-> mem[p - HeaderUnits] - HeaderUnits][a + HeaderUnits]
        = mem[a] - HeaderUnits
  BY <1>1, Holding
<1> QED
  BY <1>1, <1>2 DEF Contract!Units, Extent, HeaderUnits, DataOf

\* Blocks that stay in use and are not written are kept.
LEMMA Staying ==
  ASSUME HInv, HInv', NEW S \in SUBSET (used \cap used'),
         \A a \in S : \A i \in Extent(mem, a) : mem'[i] = mem[i]
  PROVE  Contract!Kept(DataOf(S))
<1> SUFFICES ASSUME NEW a \in S
             PROVE  LET p == a + HeaderUnits
                        held == [q \in DataOf(used) |-> mem[q - HeaderUnits] - HeaderUnits]
                    IN /\ p \in DOMAIN held' /\ held'[p] = held[p]
                       /\ \A i \in Contract!Units(p) : mem'[i] = mem[i]
  BY DEF Contract!Kept, DataOf
<1>1. used \subseteq Addresses /\ used' \subseteq Addresses
  BY DEF HInv, Sound, Tiling
<1>2. mem'[a] = mem[a]
  BY Headers DEF HInv, Sound
<1>3. [q \in DataOf(used) |-> mem[q - HeaderUnits] - HeaderUnits][a + HeaderUnits]
        = mem[a] - HeaderUnits
  BY <1>1, Holding
<1>4. /\ DOMAIN [q \in DataOf(used') |-> mem'[q - HeaderUnits] - HeaderUnits] = DataOf(used')
      /\ [q \in DataOf(used') |-> mem'[q - HeaderUnits] - HeaderUnits][a + HeaderUnits]
           = mem'[a] - HeaderUnits
  BY <1>1, Holding
<1>5. a + HeaderUnits \in DataOf(used')
  BY DEF DataOf
<1>6. \A i \in Contract!Units(a + HeaderUnits) : mem'[i] = mem[i]
  BY DataUnits
<1> QED
  BY <1>2, <1>3, <1>4, <1>5, <1>6

\* A block that comes out of the list is given to the application.
LEMMA Serving ==
  ASSUME HInv, HInv', NEW n \in Nat \ {0}, NEW b \in ToSet(free), NEW R \in SUBSET used,
         used' = (used \ R) \cup {b}, n < mem'[b],
         Extent(mem', b) \subseteq Extent(mem, b),
         \A i \in Addresses : i \notin Extent(mem, b) => mem'[i] = mem[i]
  PROVE  /\ Contract!Given(n, DataOf(used \ R))
         /\ Contract!Kept(DataOf(used \ R))
<1> DEFINE p == b + HeaderUnits
           Held == [q \in DataOf(used) |-> mem[q - HeaderUnits] - HeaderUnits]
           After == [q \in DataOf(used') |-> mem'[q - HeaderUnits] - HeaderUnits]
           units == p .. p + After[p] - 1
<1>1. /\ mem \in Memories /\ Tiling(mem, ToSet(free) \cup used)
      /\ ToSet(free) \cap used = {}
      /\ used \subseteq Addresses /\ used' \subseteq Addresses
      /\ mem' \in Memories
  BY DEF HInv, Sound, Tiling
<1>2. b \in 0 .. HeapUnits - 1 /\ mem[b] \in Nat /\ mem'[b] \in Nat
      /\ b + mem[b] <= HeapUnits /\ HeapUnits \in Nat
  BY <1>1, HeapAssumption DEF Tiling, Memories, Addresses
<1>3. DOMAIN Held = DataOf(used)
  OBVIOUS
<1>4. DOMAIN After = DataOf(used \ R) \cup {p} /\ After[p] = mem'[b] - HeaderUnits
  <2>1. DOMAIN After = DataOf(used') /\ After[p] = mem'[b] - HeaderUnits
    BY <1>1, Holding
  <2>2. DataOf(used') = DataOf(used \ R) \cup {p}
    BY DEF DataOf
  <2> QED
    BY <2>1, <2>2
<1> HIDE DEF Held, After
<1>5. units = Extent(mem', b) \ {b}
  BY <1>2, <1>4 DEF Extent, HeaderUnits
<1>6. p \in Contract!Addresses \ DataOf(used)
  <2>1. p \in Contract!Addresses
    <3>1. b + 1 \in Extent(mem', b)
      BY <1>2 DEF Extent
    <3>2. b + 1 \in Extent(mem, b)
      BY <3>1
    <3> QED
      BY <1>2, <3>2 DEF Extent, HeaderUnits, Contract!Addresses
  <2>2. ASSUME NEW a \in used
        PROVE  p # a + HeaderUnits
    <3>1. a \in Int /\ a # b
      BY <1>1 DEF Addresses
    <3> QED
      BY <1>2, <3>1 DEF HeaderUnits
  <2> QED
    BY <2>1, <2>2 DEF DataOf
<1>7. n <= After[p]
  BY <1>2, <1>4 DEF HeaderUnits
<1>8. units \subseteq Contract!Addresses
  BY <1>2, <1>5 DEF Extent, Contract!Addresses
<1>9. \A q \in DataOf(used) : units \cap Contract!Units(q) = {}
  <2> SUFFICES ASSUME NEW a \in used
               PROVE  units \cap Contract!Units(a + HeaderUnits) = {}
    BY DEF DataOf
  <2>1. Extent(mem, b) \cap Extent(mem, a) = {}
    BY <1>1 DEF Tiling
  <2> QED
    BY <1>5, <2>1, DataUnits
<1>10. Contract!Given(n, DataOf(used \ R))
  BY <1>3, <1>4, <1>6, <1>7, <1>8, <1>9 DEF Contract!Given, Held, After, DataOf
<1>11. \A a \in used : \A i \in Extent(mem, a) : mem'[i] = mem[i]
  <2> SUFFICES ASSUME NEW a \in used, NEW i \in Extent(mem, a)
               PROVE  mem'[i] = mem[i]
    OBVIOUS
  <2>1. Extent(mem, b) \cap Extent(mem, a) = {}
    BY <1>1 DEF Tiling
  <2>2. i \in Addresses
    BY <1>1, HeapAssumption, SMTT(30) DEF Tiling, Memories, Addresses, Extent
  <2> QED
    BY <2>1, <2>2
<1>12. Contract!Kept(DataOf(used \ R))
  <2>1. used \ R \in SUBSET (used \cap used')
    OBVIOUS
  <2> QED
    BY <1>11, <2>1, Staying DEF Contract!Kept
<1> QED
  BY <1>10, <1>12

\* Every call is one of the allocator's.
LEMMA Contracts ==
  ASSUME HInv, HInv', [Next]_vars
  PROVE  [Contract!Next]_Contract!vars
<1> DEFINE Held == [q \in DataOf(used) |-> mem[q - HeaderUnits] - HeaderUnits]
           After == [q \in DataOf(used') |-> mem'[q - HeaderUnits] - HeaderUnits]
<1>0. DOMAIN Held = DataOf(used) /\ DOMAIN After = DataOf(used')
  OBVIOUS
<1>1. CASE UNCHANGED vars
  BY <1>1 DEF vars, Contract!vars
<1>2. ASSUME NEW n \in Requests, Malloc(n)
      PROVE  [Contract!Next]_Contract!vars
  <2>1. CASE Found(n) = NULL
    BY <1>1, <1>2, <2>1 DEF Malloc
  <2>2. CASE Found(n) # NULL
    <3> DEFINE b == Found(n)
               R == {}
    <3>1. n \in Nat \ {0}
      BY <2>2, RequestsAssumption DEF Found, Wanted
    <3>2. /\ b \in ToSet(free) /\ used' = (used \ R) \cup {b} /\ n < mem'[b]
          /\ Extent(mem', b) \subseteq Extent(mem, b)
          /\ \A i \in Addresses : i \notin Extent(mem, b) => mem'[i] = mem[i]
      BY <1>2, <2>2, <3>1, Taking DEF Malloc
    <3> HIDE DEF b
    <3>3. Contract!Given(n, DataOf(used \ R)) /\ Contract!Kept(DataOf(used \ R))
      <4>1. R \in SUBSET used
        OBVIOUS
      <4> HIDE DEF R
      <4> QED
        BY <3>1, <3>2, <4>1, Serving
    <3>4. used \ R = used
      OBVIOUS
    <3>5. Contract!Malloc(n)
      BY <1>0, <3>3, <3>4 DEF Contract!Malloc, Contract!Kept, Contract!Given, DataOf
    <3> QED
      BY <3>5 DEF Contract!Next
  <2> QED
    BY <2>1, <2>2
<1>3. ASSUME NEW a \in used, Free(a)
      PROVE  Contract!Next
  <2>1. used' = used \ {a} /\ mem' = mem
    BY <1>3 DEF Free
  <2>2. used' \in SUBSET (used \cap used')
    BY <2>1
  <2>3. Contract!Kept(DataOf(used'))
    BY <2>1, <2>2, Staying DEF Contract!Kept
  <2>4. DataOf(used') = DataOf(used) \ {a + HeaderUnits}
    BY <2>1, InUse DEF DataOf, HeaderUnits
  <2>5. Contract!Free(a + HeaderUnits)
    BY <1>0, <2>3, <2>4 DEF Contract!Free, Contract!Kept, Contract!Given, DataOf
  <2> QED
    BY <1>0, <2>5 DEF Contract!Next, DataOf
<1>4. ASSUME NEW a \in used, NEW w \in Words, Write(a, w)
      PROVE  Contract!Next
  <2>1. used' = used
    BY <1>4 DEF Write
  <2>2. Contract!Kept(DataOf(used \ {a}))
    <3>1. used \ {a} \in SUBSET (used \cap used')
      BY <2>1
    <3>2. \A x \in used \ {a} : \A i \in Extent(mem, x) : mem'[i] = mem[i]
      BY <1>4, InUse DEF Write, Data, Block, Extent
    <3> QED
      BY <3>1, <3>2, Staying DEF Contract!Kept
  <2>3. DataOf(used \ {a}) = DataOf(used) \ {a + HeaderUnits}
    BY InUse DEF DataOf, HeaderUnits
  <2>4. Held[a + HeaderUnits] = After[a + HeaderUnits]
    <3>1. mem'[a] = mem[a]
      BY <1>4, InUse DEF Write, Data
    <3>2. Held[a + HeaderUnits] = mem[a] - HeaderUnits
      BY InUse, Holding
    <3>3. After[a + HeaderUnits] = mem'[a] - HeaderUnits
      BY <2>1, InUse, Holding
    <3> QED
      BY <3>1, <3>2, <3>3
  <2>5. Contract!Write(a + HeaderUnits)
    BY <1>0, <2>1, <2>2, <2>3, <2>4 DEF Contract!Write, Contract!Kept, Contract!Given, DataOf
  <2> QED
    BY <1>0, <2>5 DEF Contract!Next, DataOf
<1>5. ASSUME NEW a \in used, NEW n \in Requests, Realloc(a, n)
      PROVE  [Contract!Next]_Contract!vars
  <2>1. CASE Found(n) = NULL
    BY <1>1, <1>5, <2>1 DEF Realloc
  <2>2. CASE Found(n) # NULL
    <3> DEFINE b == Found(n)
               R == {a}
    <3>1. n \in Nat \ {0}
      BY <2>2, RequestsAssumption DEF Found, Wanted
    <3>2. /\ b \in ToSet(free) /\ used' = (used \cup {b}) \ {a} /\ n < mem'[b]
          /\ Extent(mem', b) \subseteq Extent(mem, b)
          /\ \A i \in Addresses : i \notin Extent(mem, b) => mem'[i] = mem[i]
      BY <1>5, <2>2, <3>1, Copying
    <3> HIDE DEF b
    <3>3. used' = (used \ R) \cup {b}
      BY <3>2, InUse
    <3>4. Contract!Given(n, DataOf(used \ R)) /\ Contract!Kept(DataOf(used \ R))
      <4>1. R \in SUBSET used
        OBVIOUS
      <4> HIDE DEF R
      <4> QED
        BY <3>1, <3>2, <3>3, <4>1, Serving
    <3>5. DataOf(used \ R) = DataOf(used) \ {a + HeaderUnits}
      BY InUse DEF DataOf, HeaderUnits
    <3>6. Contract!Realloc(a + HeaderUnits, n)
      BY <1>0, <3>4, <3>5 DEF Contract!Realloc, Contract!Kept, Contract!Given, DataOf
    <3> QED
      BY <1>0, <3>6 DEF Contract!Next, DataOf
  <2> QED
    BY <2>1, <2>2
<1> QED
  BY <1>1, <1>2, <1>3, <1>4, <1>5 DEF Next

\* The heap implements the allocator: what the application is given is as large as
\* it asked for, its own, and changed by nothing else until it is returned.
THEOREM Refinement == Spec => Implements
<1>1. Init => Contract!Init
  <2>1. ASSUME Init
        PROVE  [p \in {a + HeaderUnits : a \in used} |-> mem[p - HeaderUnits] - HeaderUnits]
                 = <<>>
    BY <2>1 DEF Init
  <2>2. Init => mem \in [Contract!Addresses -> Nat]
    BY Initially DEF HInv, Sound, Memories, Addresses, Contract!Addresses
  <2> QED
    BY <2>1, <2>2 DEF Contract!Init
<1>2. HInv /\ HInv' /\ [Next]_vars => [Contract!Next]_Contract!vars
  BY Contracts
<1> QED
  BY <1>1, <1>2, Soundness, PTL DEF Spec, Implements, Contract!Spec
=============================================================================
