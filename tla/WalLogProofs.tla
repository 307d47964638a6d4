---------------------------- MODULE WalLogProofs ----------------------------
(***************************************************************************)
(* Proofs about WalLog, for any number of entries, batches, crashes and    *)
(* failures: no later failure loses what was acknowledged, a replay is in  *)
(* order, the writer's position is off by what its failed writes left, and *)
(* only their entries are incomplete between two calls.                    *)
(***************************************************************************)
EXTENDS WalLog, SequenceTheorems, WellFoundedInduction, TLAPS

-----------------------------------------------------------------------------
(* Cells and the reader.                                                   *)

\* The k-th pair of cells is entry n.
Pair(cells, k, n) == cells[2 * k - 1] = Cell(n, 1) /\ cells[2 * k] = Cell(n, 2)

\* Every pair of cells is an entry; an odd cell at the end does not matter.
PairsWhole(cells) == \A k \in Nat \ {0} : 2 * k <= Len(cells) => Whole(cells, k)

\* Every odd cell is the first of an entry.
FirstsOdd(cells) ==
    \A k \in Nat \ {0} : 2 * k - 1 <= Len(cells) =>
        \E n \in 0 .. MaxEntries : cells[2 * k - 1] = Cell(n, 1)

\* Entry n is one of the first m cells' pairs, behind the header, and the pairs
\* before it are entries.
Stored(cells, m, n) ==
    \E k \in Nat :
        /\ k >= 2 /\ 2 * k <= m /\ Pair(cells, k, n)
        /\ \A j \in 1 .. k : Whole(cells, j)

\* Cells are in the order in which they were written.
Earlier(c, d) == c[1] < d[1] \/ (c[1] = d[1] /\ c[2] < d[2])
Sorted(cells) ==
    \A i, j \in DOMAIN cells : i < j => Earlier(cells[i], cells[j])

LEMMA EntryTyped ==
    ASSUME NEW n \in 0 .. MaxEntries
    PROVE  /\ Entry(n) \in Seq(Cells)
           /\ Len(Entry(n)) = 2
           /\ Entry(n)[1] = <<n, 1>> /\ Entry(n)[2] = <<n, 2>>
  BY DEF Entry, Cell, Cells

LEMMA HeaderTyped ==
    /\ Header \in Seq(Cells) /\ Len(Header) = 2
    /\ Header[1] = <<0, 1>> /\ Header[2] = <<0, 2>>
  BY EntryTyped, WalAssumption DEF Header

LEMMA LeastNumber ==
    ASSUME NEW T \in SUBSET Nat, T # {}
    PROVE  \E x \in T : \A y \in T : ~(y < x)
  <1> DEFINE R == {ss \in Nat \X Nat : ss[1] < ss[2]}
  <1>1. IsWellFoundedOn(R, Nat)
    BY NatLessThanWellFounded DEF OpToRel
  <1>2. PICK x \in T : \A y \in T : <<y, x>> \notin R
    BY <1>1, WFMin
  <1> QED
    BY <1>2

\* Extent is what its definition says.
LEMMA ExtentExists ==
    ASSUME NEW cells \in Seq(Cells)
    PROVE  /\ Extent(cells) \in 0 .. Len(cells)
           /\ \A j \in 1 .. Extent(cells) : Whole(cells, j)
           /\ ~Whole(cells, Extent(cells) + 1)
  <1> DEFINE T == {k \in 0 .. Len(cells) : ~Whole(cells, k + 1)}
  <1>1. Len(cells) \in Nat
    BY LenProperties
  <1>2. Len(cells) \in T
    BY <1>1 DEF Whole
  <1>3. T \in SUBSET Nat /\ T # {}
    BY <1>1, <1>2
  <1> HIDE DEF T
  <1>4. PICK k \in T : \A y \in T : ~(y < k)
    BY <1>3, LeastNumber
  <1>5. k \in 0 .. Len(cells) /\ ~Whole(cells, k + 1)
    BY DEF T
  <1>6. \A j \in 1 .. k : Whole(cells, j)
    <2> SUFFICES ASSUME NEW j \in 1 .. k, ~Whole(cells, j) PROVE FALSE
      OBVIOUS
    <2>1. j - 1 \in 0 .. Len(cells) /\ (j - 1) + 1 = j /\ j - 1 < k
      BY <1>1, <1>5
    <2>2. j - 1 \in T
      BY <2>1 DEF T
    <2> QED
      BY <1>4, <2>1, <2>2
  <1> QED
    BY <1>5, <1>6 DEF Extent

\* Where every pair is an entry, the reader gets them all.
LEMMA ExtentOfWhole ==
    ASSUME NEW cells \in Seq(Cells), PairsWhole(cells)
    PROVE  /\ \A k \in Nat \ {0} : 2 * k <= Len(cells) => k <= Extent(cells)
           /\ 2 * Extent(cells) <= Len(cells)
  <1>1. Len(cells) \in Nat
    BY LenProperties
  <1>2. Extent(cells) \in Nat
    BY <1>1, ExtentExists
  <1>3. ASSUME NEW k \in Nat \ {0}, 2 * k <= Len(cells), ~(k <= Extent(cells))
        PROVE  FALSE
    <2>1. 2 * (Extent(cells) + 1) <= Len(cells) /\ Extent(cells) + 1 \in Nat \ {0}
      BY <1>1, <1>2, <1>3
    <2> QED
      BY <2>1, ExtentExists DEF PairsWhole
  <1>4. 2 * Extent(cells) <= Len(cells)
    <2>1. CASE Extent(cells) = 0
      BY <2>1, <1>1
    <2>2. CASE Extent(cells) # 0
      <3>1. Whole(cells, Extent(cells))
        BY <1>2, <2>2, ExtentExists
      <3> QED
        BY <3>1 DEF Whole
    <2> QED
      BY <2>1, <2>2
  <1> QED
    BY <1>3, <1>4

\* Strict replay succeeds when every pair is an entry and no cell is left, and
\* only then.
LEMMA CleanIsWhole ==
    ASSUME NEW cells \in Seq(Cells)
    PROVE  Clean(cells) <=> PairsWhole(cells) /\ \E m \in Nat : Len(cells) = 2 * m
  <1>1. Len(cells) \in Nat /\ Extent(cells) \in Nat
    BY LenProperties, ExtentExists
  <1>2. ASSUME Clean(cells)
        PROVE  PairsWhole(cells) /\ \E m \in Nat : Len(cells) = 2 * m
    <2>1. Len(cells) = 2 * Extent(cells)
      BY <1>2 DEF Clean
    <2>2. ASSUME NEW k \in Nat \ {0}, 2 * k <= Len(cells)
          PROVE  k \in 1 .. Extent(cells)
      BY <1>1, <2>1, <2>2
    <2> QED
      BY <1>1, <2>1, <2>2, ExtentExists DEF PairsWhole
  <1>3. ASSUME PairsWhole(cells), NEW m \in Nat, Len(cells) = 2 * m
        PROVE  Clean(cells)
    <2>1. 2 * Extent(cells) <= Len(cells)
      BY <1>3, ExtentOfWhole
    <2>2. m <= Extent(cells)
      BY <1>1, <1>3, ExtentOfWhole
    <2> QED
      BY <1>1, <1>3, <2>1, <2>2 DEF Clean
  <1> QED
    BY <1>2, <1>3

\* An entry behind whole pairs is replayed.
LEMMA StoredIsReplayed ==
    ASSUME NEW cells \in Seq(Cells), NEW n, Stored(cells, Len(cells), n)
    PROVE  n \in Elements(Replayed(cells))
  <1>1. Len(cells) \in Nat /\ Extent(cells) \in Nat
    BY LenProperties, ExtentExists
  <1>2. PICK k \in Nat : /\ k >= 2 /\ 2 * k <= Len(cells) /\ Pair(cells, k, n)
                         /\ \A j \in 1 .. k : Whole(cells, j)
    BY DEF Stored
  <1>3. k <= Extent(cells)
    <2> SUFFICES ASSUME ~(k <= Extent(cells)) PROVE FALSE
      OBVIOUS
    <2>1. Extent(cells) + 1 \in 1 .. k
      BY <1>1
    <2> QED
      BY <1>2, <2>1, ExtentExists
  <1>4. /\ k - 1 \in 1 .. Extent(cells) - 1
        /\ Extent(cells) # 0
        /\ 2 * (k - 1) + 1 = 2 * k - 1
    BY <1>1, <1>2, <1>3
  <1>5. cells[2 * k - 1][1] = n
    BY <1>2 DEF Pair, Cell
  <1>6. Replayed(cells)[k - 1] = n /\ k - 1 \in DOMAIN Replayed(cells)
    BY <1>4, <1>5 DEF Replayed
  <1> QED
    BY <1>6 DEF Elements

\* Sorted cells are replayed in order.
LEMMA SortedReplay ==
    ASSUME NEW cells \in Seq(Cells), Sorted(cells),
           NEW i \in DOMAIN Replayed(cells), NEW j \in DOMAIN Replayed(cells), i < j
    PROVE  Replayed(cells)[i] < Replayed(cells)[j]
  <1>1. Len(cells) \in Nat /\ Extent(cells) \in Nat
    BY LenProperties, ExtentExists
  <1>2. Extent(cells) # 0
    BY EmptySeq DEF Replayed
  <1>3. /\ i \in 1 .. Extent(cells) - 1 /\ j \in 1 .. Extent(cells) - 1
        /\ Replayed(cells)[i] = cells[2 * i + 1][1]
        /\ Replayed(cells)[j] = cells[2 * j + 1][1]
    BY <1>2 DEF Replayed
  <1>4. ASSUME NEW k \in 1 .. Extent(cells) - 1
        PROVE  /\ 2 * k + 1 \in DOMAIN cells
               /\ \E n \in 0 .. MaxEntries : cells[2 * k + 1] = <<n, 1>>
    <2>1. k + 1 \in 1 .. Extent(cells) /\ 2 * (k + 1) - 1 = 2 * k + 1
      BY <1>1
    <2>2. Whole(cells, k + 1)
      BY <2>1, ExtentExists
    <2>3. 2 * (k + 1) <= Len(cells)
      BY <2>2 DEF Whole
    <2>4. 2 * k + 1 \in 1 .. Len(cells)
      BY <1>1, <2>3
    <2>5. DOMAIN cells = 1 .. Len(cells)
      BY LenProperties
    <2> QED
      BY <2>1, <2>2, <2>4, <2>5 DEF Whole, Cell
  <1>5. PICK a \in 0 .. MaxEntries : cells[2 * i + 1] = <<a, 1>>
    BY <1>3, <1>4
  <1>6. PICK b \in 0 .. MaxEntries : cells[2 * j + 1] = <<b, 1>>
    BY <1>3, <1>4
  <1>7. 2 * i + 1 < 2 * j + 1 /\ 2 * i + 1 \in DOMAIN cells /\ 2 * j + 1 \in DOMAIN cells
    BY <1>3, <1>4
  <1>8. Earlier(<<a, 1>>, <<b, 1>>)
    BY <1>5, <1>6, <1>7 DEF Sorted
  <1> QED
    BY <1>3, <1>5, <1>6, <1>8 DEF Earlier

-----------------------------------------------------------------------------
(* What writing does to cells.                                             *)

Prefix(s, t) == Len(s) <= Len(t) /\ \A x \in 1 .. Len(s) : t[x] = s[x]

\* The first cells of a log.
LEMMA CutIsPrefix ==
    ASSUME NEW S, NEW s \in Seq(S), NEW j \in 0 .. Len(s)
    PROVE  /\ SubSeq(s, 1, j) \in Seq(S) /\ Len(SubSeq(s, 1, j)) = j
           /\ \A x \in 1 .. j : SubSeq(s, 1, j)[x] = s[x]
           /\ Prefix(SubSeq(s, 1, j), s)
  <1>1. Len(s) \in Nat /\ j \in Nat /\ \A x \in 1 .. j : s[x] \in S
    BY LenProperties
  <1>2. /\ SubSeq(s, 1, j) \in Seq(S)
        /\ Len(SubSeq(s, 1, j)) = IF 1 <= j THEN j - 1 + 1 ELSE 0
        /\ \A x \in 1 .. j - 1 + 1 : SubSeq(s, 1, j)[x] = s[1 + x - 1]
    BY <1>1, SubSeqProperties
  <1> QED
    BY <1>1, <1>2 DEF Prefix

\* What a BufWriter that holds b gives to the file f, and what it keeps.
LEMMA SpillTyped ==
    ASSUME NEW S, NEW f \in Seq(S), NEW b \in Seq(S), NEW j \in 0 .. Len(b)
    PROVE  /\ f \o SubSeq(b, 1, j) \in Seq(S)
           /\ SubSeq(b, j + 1, Len(b)) \in Seq(S)
           /\ Len(f \o SubSeq(b, 1, j)) = Len(f) + j
  <1>1. SubSeq(b, 1, j) \in Seq(S) /\ Len(SubSeq(b, 1, j)) = j
    BY CutIsPrefix
  <1>2. SubSeq(b, j + 1, Len(b)) \in Seq(S)
    <2>1. Len(b) \in Nat /\ \A x \in (j + 1) .. Len(b) : b[x] \in S
      BY LenProperties
    <2> QED
      BY <2>1, SubSeqProperties
  <1> QED
    BY <1>1, <1>2, ConcatProperties

\* Together they are what there was.
LEMMA SpillKeeps ==
    ASSUME NEW S, NEW f \in Seq(S), NEW b \in Seq(S), NEW j \in 0 .. Len(b)
    PROVE  (f \o SubSeq(b, 1, j)) \o SubSeq(b, j + 1, Len(b)) = f \o b
  <1> DEFINE front == SubSeq(b, 1, j)
             back == SubSeq(b, j + 1, Len(b))
  <1>1. front \in Seq(S) /\ back \in Seq(S)
    BY CutIsPrefix, SpillTyped
  <1>2. front \o back = b
    <2>1. SubSeq(b, 1, Len(b)) = b
      BY SubSeqFull
    <2>2. /\ 1 \in 1 .. Len(b) + 1 /\ j \in 1 - 1 .. Len(b)
          /\ Len(b) \in j .. Len(b)
      BY LenProperties
    <2> QED
      BY <2>1, <2>2, ConcatAdjacentSubSeq
  <1> HIDE DEF front, back
  <1>3. (f \o front) \o back = f \o (front \o back)
    BY <1>1, ConcatAssociative, SMTT(40)
  <1> QED
    BY <1>2, <1>3 DEF front, back

\* The file has a first part of them.
LEMMA SpillCuts ==
    ASSUME NEW S, NEW f \in Seq(S), NEW b \in Seq(S), NEW j \in 0 .. Len(b)
    PROVE  f \o SubSeq(b, 1, j) = SubSeq(f \o b, 1, Len(f) + j)
  <1> DEFINE front == SubSeq(b, 1, j)
             t == f \o b
  <1>1. Len(b) \in Nat /\ Len(f) \in Nat
    BY LenProperties
  <1>2. /\ front \in Seq(S) /\ Len(front) = j
        /\ \A x \in 1 .. j : front[x] = b[x]
    BY CutIsPrefix
  <1> HIDE DEF front
  <1>3. /\ f \o front \in Seq(S) /\ Len(f \o front) = Len(f) + j
        /\ \A x \in 1 .. Len(f) + j :
             (f \o front)[x] = IF x <= Len(f) THEN f[x] ELSE front[x - Len(f)]
    BY <1>2, ConcatProperties
  <1>4. /\ t \in Seq(S) /\ Len(t) = Len(f) + Len(b)
        /\ \A x \in 1 .. Len(f) + Len(b) :
             t[x] = IF x <= Len(f) THEN f[x] ELSE b[x - Len(f)]
    BY ConcatProperties
  <1> HIDE DEF t
  <1>5. Len(f) + j \in 0 .. Len(t)
    BY <1>1, <1>4
  <1>6. /\ SubSeq(t, 1, Len(f) + j) \in Seq(S)
        /\ Len(SubSeq(t, 1, Len(f) + j)) = Len(f) + j
        /\ \A x \in 1 .. Len(f) + j : SubSeq(t, 1, Len(f) + j)[x] = t[x]
    BY <1>4, <1>5, CutIsPrefix
  <1>7. ASSUME NEW x \in 1 .. Len(f) + j
        PROVE  (f \o front)[x] = t[x]
    <2>1. x \in 1 .. Len(f) + Len(b)
      BY <1>1
    <2>2. CASE x <= Len(f)
      BY <1>3, <1>4, <2>1, <2>2
    <2>3. CASE ~(x <= Len(f))
      <3>1. x - Len(f) \in 1 .. j
        BY <1>1, <2>3
      <3> QED
        BY <1>2, <1>3, <1>4, <2>1, <2>3, <3>1
    <2> QED
      BY <2>2, <2>3
  <1> QED
    BY <1>3, <1>6, <1>7, SeqEqual DEF t, front

LEMMA ConcatIsLonger ==
    ASSUME NEW S, NEW s \in Seq(S), NEW t \in Seq(S)
    PROVE  s \o t \in Seq(S) /\ Len(s \o t) = Len(s) + Len(t) /\ Prefix(s, s \o t)
  <1>1. Len(s) \in Nat /\ Len(t) \in Nat
    BY LenProperties
  <1> QED
    BY <1>1, ConcatProperties DEF Prefix

\* What is true of the front of a log.
LEMMA PrefixKeeps ==
    ASSUME NEW s \in Seq(Cells), NEW t \in Seq(Cells), Prefix(s, t)
    PROVE  /\ PairsWhole(t) => PairsWhole(s)
           /\ FirstsOdd(t) => FirstsOdd(s)
           /\ Sorted(t) => Sorted(s)
           /\ \A n : \A m \in Nat : Stored(t, m, n) /\ m <= Len(s) => Stored(s, m, n)
           /\ \A n : \A m \in Nat, k \in Nat :
                m <= k /\ m <= Len(s) /\ Stored(s, m, n) => Stored(t, k, n)
  <1>1. /\ Len(s) \in Nat /\ DOMAIN s = 1 .. Len(s)
        /\ Len(t) \in Nat /\ DOMAIN t = 1 .. Len(t)
    BY LenProperties
  <1>2. \A k \in Nat \ {0} : 2 * k <= Len(s) =>
          /\ 2 * k - 1 \in 1 .. Len(s) /\ 2 * k \in 1 .. Len(s)
          /\ t[2 * k - 1] = s[2 * k - 1] /\ t[2 * k] = s[2 * k] /\ 2 * k <= Len(t)
    BY <1>1 DEF Prefix
  <1>3. PairsWhole(t) => PairsWhole(s)
    BY <1>2 DEF PairsWhole, Whole
  <1>4. Sorted(t) => Sorted(s)
    BY <1>1 DEF Sorted, Prefix
  <1>7. FirstsOdd(t) => FirstsOdd(s)
    <2>1. \A k \in Nat \ {0} : 2 * k - 1 <= Len(s) =>
            t[2 * k - 1] = s[2 * k - 1] /\ 2 * k - 1 <= Len(t)
      BY <1>1 DEF Prefix
    <2> QED
      BY <2>1 DEF FirstsOdd
  <1>8. ASSUME NEW k \in Nat, 2 * k <= Len(s), NEW j \in 1 .. k
        PROVE  Whole(s, j) <=> Whole(t, j)
    <2>1. j \in Nat \ {0} /\ 2 * j <= Len(s)
      BY <1>1, <1>8
    <2> QED
      BY <1>2, <2>1 DEF Whole
  <1>5. ASSUME NEW m \in Nat, NEW n, Stored(t, m, n), m <= Len(s) PROVE Stored(s, m, n)
    <2>1. PICK k \in Nat : /\ k >= 2 /\ 2 * k <= m /\ Pair(t, k, n)
                           /\ \A j \in 1 .. k : Whole(t, j)
      BY <1>5 DEF Stored
    <2>2. k \in Nat \ {0} /\ 2 * k <= Len(s)
      BY <1>1, <1>5, <2>1
    <2>3. \A j \in 1 .. k : Whole(s, j)
      BY <1>8, <2>1, <2>2
    <2>4. Pair(s, k, n)
      BY <1>2, <2>1, <2>2 DEF Pair
    <2> QED
      BY <2>1, <2>3, <2>4 DEF Stored
  <1>6. ASSUME NEW m \in Nat, NEW j \in Nat, NEW n, m <= j, m <= Len(s), Stored(s, m, n)
        PROVE  Stored(t, j, n)
    <2>1. PICK k \in Nat : /\ k >= 2 /\ 2 * k <= m /\ Pair(s, k, n)
                           /\ \A i \in 1 .. k : Whole(s, i)
      BY <1>6 DEF Stored
    <2>2. k \in Nat \ {0} /\ 2 * k <= Len(s) /\ 2 * k <= j
      BY <1>1, <1>6, <2>1
    <2>3. \A i \in 1 .. k : Whole(t, i)
      BY <1>8, <2>1, <2>2
    <2>4. Pair(t, k, n)
      BY <1>2, <2>1, <2>2 DEF Pair
    <2> QED
      BY <2>1, <2>2, <2>3, <2>4 DEF Stored
  <1> QED
    BY <1>3, <1>4, <1>5, <1>6, <1>7

\* A piece of an entry with a number above all the others.
LEMMA GrownSorted ==
    ASSUME NEW s \in Seq(Cells), NEW n \in 0 .. MaxEntries, NEW i \in 0 .. 2,
           Sorted(s), \A x \in DOMAIN s : s[x][1] < n
    PROVE  /\ Sorted(s \o SubSeq(Entry(n), 1, i))
           /\ \A x \in DOMAIN (s \o SubSeq(Entry(n), 1, i)) :
                (s \o SubSeq(Entry(n), 1, i))[x][1] <= n
  <1> DEFINE e == SubSeq(Entry(n), 1, i)
             t == s \o e
  <1>1. e \in Seq(Cells) /\ Len(e) = i /\ \A x \in 1 .. i : e[x] = <<n, x>>
    <2>1. /\ SubSeq(Entry(n), 1, i) \in Seq(Cells) /\ Len(SubSeq(Entry(n), 1, i)) = i
          /\ \A x \in 1 .. i : SubSeq(Entry(n), 1, i)[x] = Entry(n)[x]
      BY EntryTyped, CutIsPrefix
    <2>2. \A x \in 1 .. i : x = 1 \/ x = 2
      OBVIOUS
    <2> QED
      BY <2>1, <2>2, EntryTyped
  <1> HIDE DEF e
  <1>2. /\ t \in Seq(Cells) /\ Len(t) = Len(s) + i
        /\ \A x \in 1 .. Len(s) + i : t[x] = IF x <= Len(s) THEN s[x] ELSE e[x - Len(s)]
    BY <1>1, ConcatProperties
  <1>3. /\ Len(s) \in Nat /\ DOMAIN s = 1 .. Len(s)
        /\ DOMAIN t = 1 .. Len(s) + i
    BY <1>2, LenProperties
  <1> HIDE DEF t
  <1>4. ASSUME NEW x \in DOMAIN t
        PROVE  /\ x <= Len(s) => x \in DOMAIN s /\ t[x] = s[x]
               /\ ~(x <= Len(s)) => t[x] = <<n, x - Len(s)>>
    <2>1. ~(x <= Len(s)) => x - Len(s) \in 1 .. i
      BY <1>3
    <2> QED
      BY <1>1, <1>2, <1>3, <2>1
  <1>5. \A x \in DOMAIN s : s[x] \in Cells
    BY <1>3
  <1>6. ASSUME NEW x \in DOMAIN t, NEW y \in DOMAIN t, x < y
        PROVE  Earlier(t[x], t[y])
    <2>1. CASE y <= Len(s)
      BY <1>3, <1>4, <1>6, <2>1 DEF Sorted
    <2>2. CASE x <= Len(s) /\ ~(y <= Len(s))
      <3>1. x \in DOMAIN s /\ t[x] = s[x] /\ t[y] = <<n, y - Len(s)>>
        BY <1>4, <2>2
      <3>2. t[x][1] < t[y][1]
        BY <3>1
      <3> QED
        BY <3>2 DEF Earlier
    <2>3. CASE ~(x <= Len(s)) /\ ~(y <= Len(s))
      <3>1. t[x] = <<n, x - Len(s)>> /\ t[y] = <<n, y - Len(s)>>
        BY <1>4, <2>3
      <3>2. x - Len(s) < y - Len(s)
        BY <1>3, <1>6
      <3> QED
        BY <3>1, <3>2 DEF Earlier
    <2> QED
      BY <1>3, <1>6, <2>1, <2>2, <2>3
  <1>7. ASSUME NEW x \in DOMAIN t PROVE t[x][1] <= n
    <2>1. CASE x <= Len(s)
      <3>1. s[x] \in Cells /\ s[x][1] < n /\ t[x] = s[x]
        BY <1>4, <1>5, <2>1
      <3>2. s[x][1] \in 0 .. MaxEntries
        BY <3>1 DEF Cells
      <3> QED
        BY <3>1, <3>2, WalAssumption
    <2>2. CASE ~(x <= Len(s))
      BY <1>4, <2>2
    <2> QED
      BY <2>1, <2>2
  <1> QED
    BY <1>6, <1>7 DEF t, e, Sorted

\* An entry behind whole pairs.
LEMMA GrownWhole ==
    ASSUME NEW s \in Seq(Cells), NEW n \in 0 .. MaxEntries, PairsWhole(s),
           NEW m \in Nat, Len(s) = 2 * m
    PROVE  /\ PairsWhole(s \o Entry(n)) /\ FirstsOdd(s \o Entry(n))
           /\ Len(s \o Entry(n)) = 2 * (m + 1)
           /\ m >= 1 => Stored(s \o Entry(n), Len(s \o Entry(n)), n)
  <1> DEFINE t == s \o Entry(n)
  <1>1. /\ t \in Seq(Cells) /\ Len(t) = Len(s) + 2
        /\ \A x \in 1 .. Len(s) + 2 :
             t[x] = IF x <= Len(s) THEN s[x] ELSE Entry(n)[x - Len(s)]
    <2>1. Entry(n) \in Seq(Cells) /\ Len(Entry(n)) = 2
      BY EntryTyped
    <2>2. /\ s \o Entry(n) \in Seq(Cells)
          /\ Len(s \o Entry(n)) = Len(s) + Len(Entry(n))
          /\ \A x \in 1 .. Len(s) + Len(Entry(n)) :
               (s \o Entry(n))[x] = IF x <= Len(s) THEN s[x] ELSE Entry(n)[x - Len(s)]
      BY <2>1, ConcatProperties
    <2> QED
      BY <2>1, <2>2
  <1> HIDE DEF t
  <1>2. Pair(t, m + 1, n)
    <2>1. /\ 2 * (m + 1) - 1 = 2 * m + 1 /\ 2 * (m + 1) = 2 * m + 2
          /\ 2 * m + 1 \in 1 .. Len(s) + 2 /\ 2 * m + 2 \in 1 .. Len(s) + 2
          /\ (2 * m + 1) - Len(s) = 1 /\ (2 * m + 2) - Len(s) = 2
      OBVIOUS
    <2>2. t[2 * m + 1] = <<n, 1>> /\ t[2 * m + 2] = <<n, 2>>
      BY <1>1, <2>1, EntryTyped
    <2> QED
      BY <2>1, <2>2 DEF Pair, Cell
  <1>3. ASSUME NEW k \in Nat \ {0}, 2 * k <= Len(t) PROVE Whole(t, k)
    <2>1. CASE k <= m
      <3>1. 2 * k <= Len(s) /\ 2 * k - 1 \in 1 .. Len(s) /\ 2 * k \in 1 .. Len(s)
        BY <2>1
      <3>2. t[2 * k - 1] = s[2 * k - 1] /\ t[2 * k] = s[2 * k]
        BY <1>1, <3>1
      <3> QED
        BY <1>3, <3>1, <3>2 DEF PairsWhole, Whole
    <2>2. CASE k = m + 1
      BY <1>2, <1>3, <2>2 DEF Whole, Pair
    <2> QED
      BY <1>1, <1>3, <2>1, <2>2
  <1>4. m >= 1 => Stored(t, Len(t), n)
    <2> SUFFICES ASSUME m >= 1 PROVE Stored(t, Len(t), n)
      OBVIOUS
    <2>1. m + 1 \in Nat /\ m + 1 >= 2 /\ Len(t) = 2 * m + 2
      BY <1>1
    <2>2. 2 * (m + 1) <= Len(t)
      BY <2>1
    <2>3. \A j \in 1 .. m + 1 : j \in Nat \ {0} /\ 2 * j <= Len(t)
      BY <2>1
    <2>4. \A j \in 1 .. m + 1 : Whole(t, j)
      BY <1>3, <2>3
    <2> QED
      BY <1>2, <2>1, <2>2, <2>4 DEF Stored
  <1>5. ASSUME NEW k \in Nat \ {0}, 2 * k - 1 <= Len(t)
        PROVE  \E i \in 0 .. MaxEntries : t[2 * k - 1] = Cell(i, 1)
    <2>1. 2 * k <= Len(t)
      BY <1>1, <1>5
    <2> QED
      BY <1>3, <2>1 DEF Whole
  <1> QED
    BY <1>1, <1>3, <1>4, <1>5 DEF t, PairsWhole, FirstsOdd

-----------------------------------------------------------------------------
(* The invariants.                                                         *)

\* What a reader would get if the buffer were written.
All == file \o buffer

\* The batch under way: its numbers, and what is written of it.
BatchInv ==
    /\ Len(batch) <= count
    /\ \A i \in DOMAIN batch : batch[i] = Oversized \/ batch[i] + Len(batch) = count + i
    /\ \A i \in 1 .. at : batch[i] # Oversized
    /\ phase = "syncing" => at = Len(batch) /\ buffer = << >>

Typed == WalTypeOK /\ BatchInv

\* Cells are in order and none is of an entry not written yet.
OrderInv ==
    /\ Sorted(All)
    /\ \A x \in DOMAIN All : All[x][1] + Len(batch) <= count + at

\* The writer knows its position, but for what failed writes of its own left.
PlaceInv ==
    phase # "closed" => Len(All) >= 2 /\ position + stray = Len(All)

\* What is incomplete is known to be; where nothing is, all pairs are entries.
WholeInv ==
    /\ phase # "closed" => Incomplete(All) \subseteq torn
    /\ torn = {} => PairsWhole(All) /\ FirstsOdd(All)
    /\ torn = {} /\ phase # "closed" => \E m \in Nat : Len(All) = 2 * m

\* What is written of the batch is there, unless an incomplete entry is before
\* it, and what was acknowledged without one is synced.
StoredInv ==
    /\ torn = {} => \A i \in 1 .. at : Stored(All, Len(All), batch[i])
    /\ SyncOnFlush => \A n \in acked \ late : Stored(All, synced, n)

WalInv == Typed /\ OrderInv /\ PlaceInv /\ WholeInv /\ StoredInv

LEMMA AllTyped ==
    ASSUME WalTypeOK
    PROVE  /\ All \in Seq(Cells)
           /\ Len(file) \in Nat /\ Len(buffer) \in Nat /\ Len(batch) \in Nat
           /\ Len(All) = Len(file) + Len(buffer)
           /\ DOMAIN All = 1 .. Len(All)
           /\ \A x \in DOMAIN All : All[x] \in Cells /\ All[x][1] \in Nat
           /\ synced \in Nat /\ synced <= Len(All)
  <1>1. /\ file \in Seq(Cells) /\ buffer \in Seq(Cells)
        /\ batch \in Seq(0 .. MaxEntries)
        /\ synced \in 0 .. Len(file)
    BY DEF WalTypeOK
  <1>2. /\ All \in Seq(Cells)
        /\ Len(file) \in Nat /\ Len(buffer) \in Nat /\ Len(batch) \in Nat
        /\ Len(All) = Len(file) + Len(buffer)
    BY <1>1, LenProperties, ConcatProperties DEF All
  <1>3. DOMAIN All = 1 .. Len(All)
    BY <1>2, LenProperties
  <1> HIDE DEF All
  <1>4. \A x \in DOMAIN All : All[x] \in Cells
    BY <1>2, <1>3
  <1>5. \A c \in Cells : c[1] \in Nat
    BY WalAssumption DEF Cells
  <1> QED
    BY <1>1, <1>2, <1>3, <1>4, <1>5

LEMMA AllTypedNext ==
    ASSUME WalTypeOK'
    PROVE  All' \in Seq(Cells) /\ \A x \in DOMAIN All' : All'[x][1] \in Nat
  <1>1. file' \in Seq(Cells) /\ buffer' \in Seq(Cells)
    BY DEF WalTypeOK
  <1>2. file' \o buffer' \in Seq(Cells)
    BY <1>1, ConcatProperties
  <1>3. \A c \in Cells : c[1] \in Nat
    BY WalAssumption DEF Cells
  <1>4. ASSUME NEW s \in Seq(Cells) PROVE \A x \in DOMAIN s : s[x] \in Cells
    BY LenProperties
  <1> QED
    BY <1>2, <1>3, <1>4 DEF All

-----------------------------------------------------------------------------
(* What the steps do to the cells, synced ones first.                      *)

\* Only a write error, a flush or a sync: the cells stay where they are or go
\* from the buffer to the file.
Settles == Refuse \/ Flush \/ FlushFails \/ Sync \/ SyncFails

LEMMA SettlesAll ==
    ASSUME Typed, Settles \/ AppendBatch
    PROVE  All' = All /\ file' \in Seq(Cells) /\ buffer' \in Seq(Cells) /\ Len(file) <= Len(file')
  <1>1. /\ file \in Seq(Cells) /\ buffer \in Seq(Cells)
        /\ Len(file) \in Nat /\ Len(buffer) \in Nat
    BY AllTyped DEF Typed, WalTypeOK
  <1>2. CASE UNCHANGED <<file, buffer>>
    BY <1>1, <1>2 DEF All
  <1>5. ASSUME NEW j \in 0 .. Len(buffer),
               file' = file \o SubSeq(buffer, 1, j),
               buffer' = SubSeq(buffer, j + 1, Len(buffer))
        PROVE  /\ All' = All /\ file' \in Seq(Cells) /\ buffer' \in Seq(Cells)
               /\ Len(file) <= Len(file')
    <2>0. file \in Seq(Cells) /\ buffer \in Seq(Cells) /\ j \in 0 .. Len(buffer)
      BY <1>1, <1>5
    <2>1. /\ file \o SubSeq(buffer, 1, j) \in Seq(Cells)
          /\ SubSeq(buffer, j + 1, Len(buffer)) \in Seq(Cells)
          /\ Len(file \o SubSeq(buffer, 1, j)) = Len(file) + j
      BY <2>0, SpillTyped
    <2>2. (file \o SubSeq(buffer, 1, j)) \o SubSeq(buffer, j + 1, Len(buffer)) = file \o buffer
      BY <2>0, SpillKeeps
    <2>3. Len(file) <= Len(file) + j
      BY <1>1
    <2> QED
      BY <1>5, <2>1, <2>2, <2>3 DEF All
  <1>3. CASE Flush
    <2>1. buffer \o << >> = buffer
      BY <1>1, ConcatEmptySeq
    <2>2. /\ file' = file \o SubSeq(buffer, 1, Len(buffer))
          /\ buffer' = SubSeq(buffer, Len(buffer) + 1, Len(buffer))
      BY <1>3, <2>1 DEF Flush, Spill
    <2>3. Len(buffer) \in 0 .. Len(buffer)
      BY <1>1
    <2> QED
      BY <1>5, <2>2, <2>3
  <1>4. CASE FlushFails
    <2>1. PICK j \in 0 .. Len(buffer) - 1 :
            /\ file' = file \o SubSeq(buffer, 1, j)
            /\ buffer' = SubSeq(buffer, j + 1, Len(buffer))
      BY <1>4 DEF FlushFails, Kept
    <2>2. j \in 0 .. Len(buffer)
      BY <1>1
    <2> QED
      BY <1>5, <2>1, <2>2
  <1> QED
    BY <1>2, <1>3, <1>4 DEF Settles, AppendBatch, Refuse, Sync, SyncFails

\* The order of prefixes is transitive.
LEMMA PrefixTrans ==
    ASSUME NEW s \in Seq(Cells), NEW t \in Seq(Cells), NEW u \in Seq(Cells),
           Prefix(s, t), Prefix(t, u)
    PROVE  Prefix(s, u)
  <1>1. Len(s) \in Nat /\ Len(t) \in Nat /\ Len(u) \in Nat
    OBVIOUS
  <1>2. Len(s) <= Len(t) /\ Len(t) <= Len(u)
    BY DEF Prefix
  <1>3. ASSUME NEW x \in 1 .. Len(s) PROVE u[x] = s[x]
    <2>1. x \in 1 .. Len(t)
      BY <1>1, <1>2
    <2>2. t[x] = s[x]
      BY DEF Prefix
    <2>3. u[x] = t[x]
      BY <2>1 DEF Prefix
    <2> QED
      BY <2>2, <2>3
  <1> QED
    BY <1>1, <1>2, <1>3 DEF Prefix

\* The writer or the machine stops: a part of the cells is left from the front,
\* all synced ones among them.
LEMMA StopsAll ==
    ASSUME Typed, Close \/ Crash
    PROVE  /\ file' \in Seq(Cells) /\ buffer' = << >> /\ All' = file'
           /\ Prefix(All', All) /\ synced <= synced' /\ synced' <= Len(file')
           /\ synced' \in Nat
  <1>1. /\ file \in Seq(Cells) /\ buffer \in Seq(Cells)
        /\ Len(file) \in Nat /\ Len(buffer) \in Nat /\ synced \in 0 .. Len(file)
        /\ All \in Seq(Cells) /\ Len(All) = Len(file) + Len(buffer)
    BY AllTyped DEF Typed, WalTypeOK
  <1>2. ASSUME file' \in Seq(Cells), buffer' = << >> PROVE All' = file'
    BY <1>2, ConcatEmptySeq DEF All
  <1>3. CASE Close
    <2>1. PICK j \in 0 .. Len(buffer) : file' = file \o SubSeq(buffer, 1, j)
      <3>1. PICK j \in {Len(buffer)} \cup
                         (IF "disk" \in Faults THEN 0 .. Len(buffer) ELSE {}) :
              file' = file \o SubSeq(buffer, 1, j)
        BY <1>3 DEF Close
      <3>2. j \in 0 .. Len(buffer)
        BY <1>1
      <3> QED
        BY <3>1, <3>2
    <2>2. /\ file' \in Seq(Cells) /\ Len(file') = Len(file) + j
          /\ file' = SubSeq(All, 1, Len(file) + j)
      <3>1. file \in Seq(Cells) /\ buffer \in Seq(Cells) /\ j \in 0 .. Len(buffer)
        BY <1>1, <2>1
      <3>2. /\ file \o SubSeq(buffer, 1, j) \in Seq(Cells)
            /\ Len(file \o SubSeq(buffer, 1, j)) = Len(file) + j
        BY <3>1, SpillTyped
      <3>3. file \o SubSeq(buffer, 1, j) = SubSeq(file \o buffer, 1, Len(file) + j)
        BY <3>1, SpillCuts
      <3> QED
        BY <2>1, <3>2, <3>3 DEF All
    <2>3. Len(file) + j \in 0 .. Len(All)
      BY <1>1
    <2>4. Prefix(file', All)
      BY <1>1, <2>2, <2>3, CutIsPrefix
    <2>5. buffer' = << >> /\ synced' = synced
      BY <1>3 DEF Close
    <2>6. All' = file'
      BY <1>2, <2>2, <2>5
    <2>7. synced \in Nat /\ synced <= Len(file) + j
      BY <1>1
    <2> QED
      BY <2>2, <2>4, <2>5, <2>6, <2>7
  <1>4. CASE Crash
    <2>1. PICK j \in synced .. Len(file) : file' = SubSeq(file, 1, j)
      BY <1>4 DEF Crash
    <2>2. j \in 0 .. Len(file)
      BY <1>1
    <2>3. /\ file' \in Seq(Cells) /\ Len(file') = j /\ Prefix(file', file)
      BY <1>1, <2>1, <2>2, CutIsPrefix
    <2>4. Prefix(file, All)
      BY <1>1, ConcatIsLonger DEF All
    <2>5. Prefix(file', All)
      BY <1>1, <2>3, <2>4, PrefixTrans
    <2>6. buffer' = << >> /\ synced' = j
      BY <1>4, <2>3 DEF Crash
    <2>7. All' = file'
      BY <1>2, <2>3, <2>6
    <2>8. j \in Nat /\ synced <= j
      BY <1>1
    <2> QED
      BY <2>3, <2>5, <2>6, <2>7, <2>8
  <1> QED
    BY <1>3, <1>4

\* The number of the entry that is written next.
LEMMA NextNumber ==
    ASSUME Typed, at < Len(batch), batch[at + 1] # Oversized
    PROVE  /\ batch[at + 1] \in 1 .. MaxEntries
           /\ batch[at + 1] + Len(batch) = count + at + 1
           /\ at \in Nat /\ count \in Nat
  <1>1. /\ batch \in Seq(0 .. MaxEntries) /\ at \in 0 .. Len(batch)
        /\ count \in 0 .. MaxEntries
    BY DEF Typed, WalTypeOK
  <1>2. Len(batch) \in Nat /\ DOMAIN batch = 1 .. Len(batch)
    BY <1>1, LenProperties
  <1>3. at + 1 \in DOMAIN batch
    BY <1>1, <1>2
  <1>4. batch[at + 1] \in 0 .. MaxEntries
    BY <1>1, <1>2, <1>3, ElementOfSeq
  <1>5. batch[at + 1] + Len(batch) = count + (at + 1)
    BY <1>3 DEF Typed, BatchInv
  <1> QED
    BY <1>1, <1>2, <1>4, <1>5, WalAssumption DEF Oversized

\* Cells are put one behind the other in any grouping.
LEMMA CellsAssociative ==
    ASSUME NEW s \in Seq(Cells), NEW t \in Seq(Cells), NEW u \in Seq(Cells)
    PROVE  (s \o t) \o u = s \o (t \o u)
  BY ConcatAssociative

\* The pieces of an entry, or some of them, go behind what was there.
LEMMA WriteAll ==
    ASSUME Typed, NEW i \in 0 .. 2, NEW n \in 0 .. MaxEntries,
           \E j \in 0 .. Len(buffer) + i : Spill(SubSeq(Entry(n), 1, i), j)
    PROVE  /\ file' \in Seq(Cells) /\ buffer' \in Seq(Cells)
           /\ All' = All \o SubSeq(Entry(n), 1, i)
           /\ Len(All') = Len(All) + i
           /\ Prefix(All, All') /\ Len(file) <= Len(file')
  <1>1. /\ file \in Seq(Cells) /\ buffer \in Seq(Cells)
        /\ Len(file) \in Nat /\ Len(buffer) \in Nat
        /\ All \in Seq(Cells)
    BY AllTyped DEF Typed, WalTypeOK
  <1> DEFINE e == SubSeq(Entry(n), 1, i)
             b == buffer \o e
  <1>2. e \in Seq(Cells) /\ Len(e) = i
    <2>1. Entry(n) \in Seq(Cells) /\ i \in 0 .. Len(Entry(n))
      BY EntryTyped
    <2> QED
      BY <2>1, CutIsPrefix
  <1>3. PICK j \in 0 .. Len(buffer) + i : Spill(e, j)
    OBVIOUS
  <1> HIDE DEF e
  <1>4. b \in Seq(Cells) /\ Len(b) = Len(buffer) + i
    BY <1>1, <1>2, ConcatProperties
  <1>5. file' = file \o SubSeq(b, 1, j) /\ buffer' = SubSeq(b, j + 1, Len(b))
    BY <1>3 DEF Spill
  <1>6. file \o b = All \o e
    <2>0. file \in Seq(Cells) /\ buffer \in Seq(Cells) /\ e \in Seq(Cells)
      BY <1>1, <1>2
    <2>1. (file \o buffer) \o e = file \o (buffer \o e)
      BY <2>0, CellsAssociative
    <2>2. All = file \o buffer
      BY DEF All
    <2>3. b = buffer \o e
      OBVIOUS
    <2> QED
      BY <2>1, <2>2, <2>3, Zenon
  <1> HIDE DEF b
  <1>7. /\ file' \in Seq(Cells) /\ buffer' \in Seq(Cells)
        /\ Len(file') = Len(file) + j
        /\ file' \o buffer' = file \o b
    <2>1. file \in Seq(Cells) /\ b \in Seq(Cells) /\ j \in 0 .. Len(b)
      BY <1>1, <1>4
    <2>2. /\ file \o SubSeq(b, 1, j) \in Seq(Cells)
          /\ SubSeq(b, j + 1, Len(b)) \in Seq(Cells)
          /\ Len(file \o SubSeq(b, 1, j)) = Len(file) + j
      BY <2>1, SpillTyped
    <2>3. (file \o SubSeq(b, 1, j)) \o SubSeq(b, j + 1, Len(b)) = file \o b
      BY <2>1, SpillKeeps
    <2> QED
      BY <1>5, <2>2, <2>3
  <1>8. All' = All \o e
    BY <1>6, <1>7 DEF All
  <1>9. Len(All \o e) = Len(All) + i /\ Prefix(All, All \o e)
    BY <1>1, <1>2, ConcatIsLonger
  <1>10. Len(file) <= Len(file')
    BY <1>1, <1>4, <1>7
  <1> QED
    BY <1>7, <1>8, <1>9, <1>10 DEF e

\* An entry written.
LEMMA WriteEntryAll ==
    ASSUME Typed, WriteEntry
    PROVE  LET n == batch[at + 1]
           IN  /\ n \in 0 .. MaxEntries /\ n # Oversized
               /\ n + Len(batch) = count + at + 1
               /\ file' \in Seq(Cells) /\ buffer' \in Seq(Cells)
               /\ All' = All \o SubSeq(Entry(n), 1, 2) /\ All' = All \o Entry(n)
               /\ Prefix(All, All') /\ Len(file) <= Len(file')
  <1> DEFINE n == batch[at + 1]
  <1>1. /\ at < Len(batch) /\ batch[at + 1] # Oversized
        /\ \E j \in 0 .. Len(buffer) + 2 : Spill(Entry(n), j)
    BY DEF WriteEntry
  <1>2. n \in 1 .. MaxEntries /\ n + Len(batch) = count + at + 1
    BY <1>1, NextNumber
  <1>3. n # Oversized
    BY <1>1
  <1> HIDE DEF n
  <1>4. n \in 0 .. MaxEntries
    BY <1>2
  <1>5. SubSeq(Entry(n), 1, 2) = Entry(n)
    <2>1. Entry(n) \in Seq(Cells) /\ Len(Entry(n)) = 2
      BY <1>4, EntryTyped
    <2>2. SubSeq(Entry(n), 1, Len(Entry(n))) = Entry(n)
      BY <2>1, SubSeqFull
    <2> QED
      BY <2>1, <2>2
  <1>6. \E j \in 0 .. Len(buffer) + 2 : Spill(SubSeq(Entry(n), 1, 2), j)
    BY <1>1, <1>5
  <1>7. 2 \in 0 .. 2
    OBVIOUS
  <1>8. /\ file' \in Seq(Cells) /\ buffer' \in Seq(Cells)
        /\ All' = All \o SubSeq(Entry(n), 1, 2)
        /\ Prefix(All, All') /\ Len(file) <= Len(file')
    BY <1>4, <1>6, <1>7, WriteAll
  <1> QED
    BY <1>2, <1>3, <1>4, <1>5, <1>8 DEF n

\* A part of an entry written.
LEMMA WriteFailsAll ==
    ASSUME Typed, WriteEntryFails
    PROVE  LET n == batch[at + 1]
           IN  /\ n \in 0 .. MaxEntries /\ n + Len(batch) = count + at + 1
               /\ file' \in Seq(Cells) /\ buffer' \in Seq(Cells)
               /\ \E i \in 0 .. 1 :
                    /\ All' = All \o SubSeq(Entry(n), 1, i)
                    /\ Len(All') = Len(All) + i
                    /\ torn' = IF i = 1 THEN torn \cup {n} ELSE torn
                    /\ stray' = stray + i
                    /\ i = 0 => All' = All
               /\ Prefix(All, All') /\ Len(file) <= Len(file')
  <1> DEFINE n == batch[at + 1]
  <1>1. /\ at < Len(batch) /\ batch[at + 1] # Oversized
        /\ \E i \in 0 .. 1 :
             /\ \E j \in 0 .. Len(buffer) + i : Spill(SubSeq(Entry(n), 1, i), j)
             /\ torn' = IF i = 1 THEN torn \cup {n} ELSE torn
             /\ stray' = stray + i
    BY DEF WriteEntryFails
  <1>2. n \in 1 .. MaxEntries /\ n + Len(batch) = count + at + 1
    BY <1>1, NextNumber
  <1> HIDE DEF n
  <1>3. n \in 0 .. MaxEntries
    BY <1>2
  <1>4. PICK i \in 0 .. 1 :
          /\ \E j \in 0 .. Len(buffer) + i : Spill(SubSeq(Entry(n), 1, i), j)
          /\ torn' = IF i = 1 THEN torn \cup {n} ELSE torn
          /\ stray' = stray + i
    BY <1>1
  <1>6. i \in 0 .. 2
    OBVIOUS
  <1>7. /\ file' \in Seq(Cells) /\ buffer' \in Seq(Cells)
        /\ All' = All \o SubSeq(Entry(n), 1, i)
        /\ Len(All') = Len(All) + i
        /\ Prefix(All, All') /\ Len(file) <= Len(file')
    BY <1>3, <1>4, <1>6, WriteAll
  <1>8. i = 0 => All' = All
    <2>1. SubSeq(Entry(n), 1, 0) = << >>
      BY SubSeqEmpty
    <2>2. All \o << >> = All
      BY AllTyped, ConcatEmptySeq DEF Typed
    <2> QED
      BY <1>7, <2>1, <2>2
  <1> QED
    BY <1>2, <1>3, <1>4, <1>7, <1>8 DEF n

\* A file is opened: it is empty and gets a header, or it has one.
LEMMA OpenAll ==
    ASSUME Typed, Open
    PROVE  /\ file' \in Seq(Cells) /\ buffer' \in Seq(Cells)
           /\ position' = Len(All') /\ Len(All') >= 2
           /\ torn' = torn \cup Incomplete(All)
           /\ (All = << >> /\ All' = Header) \/ All' = All
           /\ Prefix(All, All')
  <1>1. file \in Seq(Cells) /\ Len(file) \in Nat /\ buffer = << >>
    BY AllTyped DEF Typed, WalTypeOK, Open
  <1>2. All = file
    BY <1>1, ConcatEmptySeq DEF All
  <1>5. torn' = torn \cup Incomplete(All)
    BY <1>2 DEF Open
  <1>3. CASE file = << >> /\ buffer' = Header /\ position' = Len(Header)
    <2>1. file' = << >> /\ All' = Header
      <3>1. << >> \o Header = Header
        BY HeaderTyped, ConcatEmptySeq
      <3> QED
        BY <1>3, <3>1 DEF All, Open
    <2>3. Prefix(All, All')
      BY <1>2, <1>3, <2>1, HeaderTyped DEF Prefix
    <2> QED
      BY <1>2, <1>3, <1>5, <2>1, <2>3, HeaderTyped
  <1>4. CASE Len(file) >= Len(Header) /\ buffer' = << >> /\ position' = Len(file)
    <2>1. file' = file /\ All' = All
      <3>1. file \o << >> = file
        BY <1>1, ConcatEmptySeq
      <3> QED
        BY <1>2, <1>4, <3>1 DEF All, Open
    <2>3. Prefix(All, All')
      BY <1>1, <1>2, <2>1 DEF Prefix
    <2> QED
      BY <1>1, <1>2, <1>4, <1>5, <2>1, <2>3, HeaderTyped
  <1> QED
    BY <1>3, <1>4 DEF Open

-----------------------------------------------------------------------------
(* Types and the batch under way.                                          *)

\* All of a batch is written: its entries have numbers.
LEMMA BatchNumbered ==
    ASSUME Typed, at = Len(batch)
    PROVE  Elements(batch) \subseteq 1 .. count
  <1>1. batch \in Seq(0 .. MaxEntries) /\ count \in 0 .. MaxEntries
    BY DEF Typed, WalTypeOK
  <1>2. Len(batch) \in Nat /\ DOMAIN batch = 1 .. Len(batch) /\ Len(batch) <= count
    BY <1>1, LenProperties DEF Typed, BatchInv
  <1>3. ASSUME NEW i \in DOMAIN batch PROVE batch[i] \in 1 .. count
    <2>1. batch[i] \in 0 .. MaxEntries
      BY <1>1, <1>2, ElementOfSeq
    <2>2. batch[i] # Oversized /\ (batch[i] = Oversized \/ batch[i] + Len(batch) = count + i)
      BY <1>2, <1>3 DEF Typed, BatchInv
    <2> QED
      BY <1>1, <1>2, <2>1, <2>2, WalAssumption DEF Oversized
  <1> QED
    BY <1>3 DEF Elements

LEMMA NoBatch ==
    /\ << >> \in Seq(0 .. MaxEntries) /\ Len(<< >>) = 0 /\ DOMAIN << >> = {}
    /\ 0 \in 0 .. Len(<< >>) /\ << >> \in Seq(Cells)
  OBVIOUS

\* A step that lets go of the batch, or leaves it empty.
LEMMA TypedWithoutBatch ==
    ASSUME file' \in Seq(Cells), synced' \in 0 .. Len(file'), buffer' \in Seq(Cells),
           position' \in Nat, phase' \in {"closed", "ready"},
           phase' = "closed" => buffer' = << >>,
           batch' = << >>, at' = 0, count' \in 0 .. MaxEntries,
           acked' \subseteq 1 .. count', late' \subseteq acked',
           torn' \subseteq 0 .. MaxEntries, stray' \in Nat
    PROVE  Typed'
  <1>1. WalTypeOK'
    BY NoBatch DEF WalTypeOK, Phases
  <1>2. BatchInv'
    <2>1. Len(batch') <= count'
      BY NoBatch, WalAssumption
    <2>2. \A i \in DOMAIN batch' : batch'[i] = Oversized \/ batch'[i] + Len(batch') = count' + i
      BY NoBatch
    <2>3. \A i \in 1 .. at' : batch'[i] # Oversized
      OBVIOUS
    <2> QED
      BY <2>1, <2>2, <2>3 DEF BatchInv
  <1> QED
    BY <1>1, <1>2 DEF Typed

LEMMA TypedStep ==
    ASSUME Typed, WalNext
    PROVE  Typed'
  <1>1. /\ file \in Seq(Cells) /\ synced \in 0 .. Len(file) /\ buffer \in Seq(Cells)
        /\ position \in Nat /\ phase \in Phases /\ batch \in Seq(0 .. MaxEntries)
        /\ at \in 0 .. Len(batch) /\ count \in 0 .. MaxEntries
        /\ acked \subseteq 1 .. count /\ late \subseteq acked
        /\ torn \subseteq 0 .. MaxEntries /\ stray \in Nat
        /\ phase \in {"closed", "ready"} => batch = << >>
    BY DEF Typed, WalTypeOK
  <1>2. Len(file) \in Nat /\ Len(batch) \in Nat /\ at \in Nat /\ count \in Nat /\ synced \in Nat
    BY <1>1, AllTyped, WalAssumption DEF Typed
  <1>3. ASSUME file' \in Seq(Cells), Len(file) <= Len(file'), synced' = synced
        PROVE  synced' \in 0 .. Len(file')
    BY <1>1, <1>2, <1>3, LenProperties
  <1>4. CASE Open
    <2>1. at = 0 /\ batch = << >>
      BY <1>1, <1>4 DEF Open
    <2>2. file' = file /\ synced' = synced /\ buffer' \in Seq(Cells) /\ position' \in Nat
      <3>1. position' = Len(All')
        BY <1>4, OpenAll
      <3>2. buffer' \in Seq(Cells) /\ file' = file
        BY <1>4, OpenAll DEF Open
      <3>3. All' \in Seq(Cells)
        BY <1>1, <3>2, ConcatProperties DEF All
      <3> QED
        BY <1>4, <3>1, <3>2, <3>3, LenProperties DEF Open
    <2>3. torn' \subseteq 0 .. MaxEntries
      BY <1>1, <1>4 DEF Open, Incomplete
    <2> QED
      BY <1>1, <1>4, <2>1, <2>2, <2>3, TypedWithoutBatch DEF Open
  <1>5. CASE AppendBatch
    <2>1. PICK k \in 1 .. MaxBatch :
            /\ count + k <= MaxEntries
            /\ \E bad \in 0 .. k :
                 batch' = [i \in 1 .. k |-> IF i = bad THEN Oversized ELSE count + i]
            /\ count' = count + k
      BY <1>5 DEF AppendBatch
    <2>2. PICK bad \in 0 .. k :
            batch' = [i \in 1 .. k |-> IF i = bad THEN Oversized ELSE count + i]
      BY <2>1
    <2>3. k \in Nat
      BY WalAssumption
    <2>4. \A i \in 1 .. k : (IF i = bad THEN Oversized ELSE count + i) \in 0 .. MaxEntries
      BY <1>2, <2>1, <2>3, WalAssumption DEF Oversized
    <2>5. batch' \in Seq(0 .. MaxEntries) /\ Len(batch') = k /\ DOMAIN batch' = 1 .. k
      BY <2>2, <2>3, <2>4
    <2>6. WalTypeOK'
      <3>1. at' \in 0 .. Len(batch')
        BY <1>5, <2>3, <2>5 DEF AppendBatch
      <3>2. count' \in 0 .. MaxEntries /\ acked' \subseteq 1 .. count'
        BY <1>1, <1>2, <1>5, <2>1, <2>3, WalAssumption DEF AppendBatch
      <3> QED
        BY <1>1, <1>5, <2>5, <3>1, <3>2 DEF AppendBatch, WalTypeOK, Phases
    <2>7. BatchInv'
      <3>1. Len(batch') <= count'
        BY <1>2, <2>1, <2>3, <2>5
      <3>2. ASSUME NEW i \in DOMAIN batch'
            PROVE  batch'[i] = Oversized \/ batch'[i] + Len(batch') = count' + i
        BY <1>2, <2>1, <2>2, <2>3, <2>5
      <3>3. at' = 0 /\ phase' = "writing"
        BY <1>5 DEF AppendBatch
      <3> QED
        BY <3>1, <3>2, <3>3 DEF BatchInv
    <2> QED
      BY <2>6, <2>7 DEF Typed
  <1>6. CASE WriteEntry
    <2>1. /\ batch[at + 1] # Oversized
          /\ file' \in Seq(Cells) /\ buffer' \in Seq(Cells) /\ Len(file) <= Len(file')
      BY <1>6, WriteEntryAll
    <2>2. /\ at < Len(batch) /\ at' = at + 1 /\ phase = "writing" /\ phase' = "writing"
          /\ UNCHANGED <<synced, batch, count, acked, torn, late, stray>> /\ position' = position + 2
      BY <1>6 DEF WriteEntry, Advanced
    <2>3. at' \in 0 .. Len(batch')
      BY <1>2, <2>2
    <2>4. WalTypeOK'
      BY <1>1, <1>3, <2>1, <2>2, <2>3 DEF WalTypeOK
    <2>5. \A i \in 1 .. at' : batch'[i] # Oversized
      <3>1. \A i \in 1 .. at' : i \in 1 .. at \/ i = at + 1
        BY <1>2, <2>2
      <3> QED
        BY <2>1, <2>2, <3>1 DEF Typed, BatchInv
    <2>6. BatchInv'
      BY <2>2, <2>5 DEF Typed, BatchInv
    <2> QED
      BY <2>4, <2>6 DEF Typed
  <1>7. CASE WriteEntryFails
    <2>1. /\ file' \in Seq(Cells) /\ buffer' \in Seq(Cells) /\ Len(file) <= Len(file')
          /\ torn' \subseteq 0 .. MaxEntries /\ stray' \in Nat
      <3>1. PICK n \in 0 .. MaxEntries, i \in 0 .. 1 :
              /\ torn' = IF i = 1 THEN torn \cup {n} ELSE torn
              /\ stray' = stray + i
        BY <1>7, WriteFailsAll
      <3>2. torn' \subseteq 0 .. MaxEntries /\ stray' \in Nat
        BY <1>1, <3>1
      <3> QED
        BY <1>7, <3>2, WriteFailsAll
    <2>2. Fail
      BY <1>7 DEF WriteEntryFails
    <2> QED
      BY <1>1, <1>3, <2>1, <2>2, TypedWithoutBatch DEF Fail
  <1>8. CASE Settles
    <2>1. file' \in Seq(Cells) /\ buffer' \in Seq(Cells) /\ Len(file) <= Len(file')
      BY <1>8, SettlesAll
    <2>2. CASE Refuse \/ FlushFails \/ SyncFails
      <3>1. Fail /\ torn' = torn /\ stray' = stray
        BY <2>2 DEF Refuse, FlushFails, SyncFails
      <3> QED
        BY <1>1, <1>3, <2>1, <3>1, TypedWithoutBatch DEF Fail
    <2>3. CASE Flush /\ ~SyncOnFlush
      <3>1. acked' \subseteq 1 .. count /\ late' \subseteq acked'
        BY <1>1, <2>3, BatchNumbered DEF Flush, Acknowledge
      <3>2. /\ phase' = "ready" /\ batch' = << >> /\ at' = 0
            /\ UNCHANGED <<synced, position, count, torn, stray>>
        BY <2>3 DEF Flush
      <3> QED
        BY <1>1, <1>3, <2>1, <3>1, <3>2, TypedWithoutBatch
    <2>4. CASE Flush /\ SyncOnFlush
      <3>1. /\ phase' = "syncing" /\ at = Len(batch)
            /\ UNCHANGED <<synced, position, batch, at, count, acked, torn, late, stray>>
            /\ Spill(<< >>, Len(buffer))
        BY <2>4 DEF Flush
      <3>2. buffer' = << >>
        <4>1. buffer \o << >> = buffer /\ Len(buffer) \in Nat
          BY <1>1, ConcatEmptySeq, LenProperties
        <4>2. buffer' = SubSeq(buffer, Len(buffer) + 1, Len(buffer))
          BY <3>1, <4>1 DEF Spill
        <4> QED
          BY <4>1, <4>2, SubSeqEmpty
      <3>3. WalTypeOK'
        BY <1>1, <1>3, <2>1, <3>1 DEF WalTypeOK, Phases
      <3>4. BatchInv'
        BY <3>1, <3>2 DEF Typed, BatchInv
      <3> QED
        BY <3>3, <3>4 DEF Typed
    <2>5. CASE Sync
      <3>1. at = Len(batch)
        BY <2>5 DEF Sync, Typed, BatchInv
      <3>2. acked' \subseteq 1 .. count /\ late' \subseteq acked'
        BY <1>1, <2>5, <3>1, BatchNumbered DEF Sync, Acknowledge
      <3>3. /\ phase' = "ready" /\ batch' = << >> /\ at' = 0 /\ synced' = Len(file)
            /\ UNCHANGED <<file, buffer, position, count, torn, stray>>
        BY <2>5 DEF Sync
      <3>4. synced' \in 0 .. Len(file')
        BY <1>2, <3>3
      <3> QED
        BY <1>1, <2>1, <3>2, <3>3, <3>4, TypedWithoutBatch
    <2> QED
      BY <1>8, <2>2, <2>3, <2>4, <2>5 DEF Settles
  <1>9. CASE Close \/ Crash
    <2>1. /\ file' \in Seq(Cells) /\ buffer' = << >>
          /\ synced' <= Len(file') /\ synced' \in Nat
      BY <1>9, StopsAll
    <2>2. batch' = << >> /\ at' = 0
      BY <1>1, <1>9 DEF Close, Crash
    <2>3. phase' = "closed" /\ UNCHANGED <<position, count, acked, torn, late, stray>>
      BY <1>9 DEF Close, Crash
    <2>4. synced' \in 0 .. Len(file')
      BY <2>1, LenProperties
    <2> QED
      BY <1>1, <2>1, <2>2, <2>3, <2>4, NoBatch, TypedWithoutBatch
  <1> QED
    BY <1>4, <1>5, <1>6, <1>7, <1>8, <1>9 DEF WalNext, Settles

-----------------------------------------------------------------------------
(* The order of the cells.                                                 *)

LEMMA NumbersBelow ==
    ASSUME Typed, OrderInv, NEW x \in DOMAIN All
    PROVE  All[x][1] <= count
  <1>1. /\ All[x][1] \in Nat /\ Len(batch) \in Nat
        /\ at \in 0 .. Len(batch) /\ count \in Nat
    BY AllTyped, WalAssumption DEF Typed, WalTypeOK
  <1>2. All[x][1] + Len(batch) <= count + at
    BY DEF OrderInv
  <1> QED
    BY <1>1, <1>2

\* A step after which there is no batch and no number above the count.
LEMMA OrderWithoutBatch ==
    ASSUME Typed', batch' = << >>, at' = 0, Sorted(All'),
           \A x \in DOMAIN All' : All'[x][1] <= count'
    PROVE  OrderInv'
  <1>1. \A x \in DOMAIN All' : All'[x][1] \in Nat
    BY AllTypedNext DEF Typed
  <1>2. count' \in Nat /\ Len(batch') = 0
    BY WalAssumption DEF Typed, WalTypeOK
  <1> QED
    BY <1>1, <1>2 DEF OrderInv

LEMMA OrderStep ==
    ASSUME Typed, Typed', OrderInv, WalNext
    PROVE  OrderInv'
  <1>1. /\ All \in Seq(Cells) /\ DOMAIN All = 1 .. Len(All) /\ Len(All) \in Nat
        /\ \A x \in DOMAIN All : All[x] \in Cells /\ All[x][1] \in Nat
    BY AllTyped, LenProperties DEF Typed
  <1>2. /\ count \in Nat /\ at \in Nat /\ Len(batch) \in Nat /\ at <= Len(batch)
        /\ phase \in {"closed", "ready"} => batch = << >> /\ at = 0
    BY AllTyped, WalAssumption, NoBatch DEF Typed, WalTypeOK
  <1>3. Sorted(All) /\ \A x \in DOMAIN All : All[x][1] <= count
    BY NumbersBelow DEF OrderInv
  <1>4. CASE Open
    <2>1. batch' = << >> /\ at' = 0 /\ count' = count
      BY <1>2, <1>4 DEF Open
    <2>2. CASE All' = Header
      <3>1. Header = <<<<0, 1>>, <<0, 2>>>>
        BY DEF Header, Entry, Cell
      <3>2. Sorted(Header) /\ \A x \in DOMAIN Header : Header[x][1] <= count
        BY <1>2, <3>1 DEF Sorted, Earlier
      <3> QED
        BY <2>1, <2>2, <3>2, OrderWithoutBatch
    <2>3. CASE All' = All
      BY <1>3, <2>1, <2>3, OrderWithoutBatch
    <2> QED
      BY <1>4, <2>2, <2>3, OpenAll
  <1>5. CASE AppendBatch
    <2>1. All' = All
      BY <1>5, SettlesAll
    <2>2. PICK k \in 1 .. MaxBatch :
            /\ \E bad \in 0 .. k :
                 batch' = [i \in 1 .. k |-> IF i = bad THEN Oversized ELSE count + i]
            /\ count' = count + k
      BY <1>5 DEF AppendBatch
    <2>3. k \in Nat /\ Len(batch') = k /\ at' = 0
      BY <1>5, <2>2, WalAssumption DEF AppendBatch
    <2>4. \A x \in DOMAIN All : All[x][1] + k <= (count + k) + 0
      BY <1>1, <1>2, <1>3, <2>3
    <2> QED
      BY <1>3, <2>1, <2>2, <2>3, <2>4 DEF OrderInv
  <1>6. CASE WriteEntry
    <2>1. PICK n \in 0 .. MaxEntries :
            /\ n + Len(batch) = count + at + 1
            /\ All' = All \o SubSeq(Entry(n), 1, 2)
      BY <1>6, WriteEntryAll
    <2>2. \A x \in DOMAIN All : All[x][1] < n
      <3> SUFFICES ASSUME NEW x \in DOMAIN All PROVE All[x][1] < n
        OBVIOUS
      <3>1. All[x][1] \in Nat /\ All[x][1] + Len(batch) <= count + at
        BY <1>1 DEF OrderInv
      <3> QED
        BY <1>2, <2>1, <3>1
    <2>3. 2 \in 0 .. 2
      OBVIOUS
    <2>4. Sorted(All') /\ \A x \in DOMAIN All' : All'[x][1] <= n
      BY <1>1, <1>3, <2>1, <2>2, <2>3, GrownSorted
    <2>5. at' = at + 1 /\ batch' = batch /\ count' = count
      BY <1>6 DEF WriteEntry
    <2>6. ASSUME NEW x \in DOMAIN All' PROVE All'[x][1] + Len(batch') <= count' + at'
      <3>1. All'[x][1] \in Nat
        BY AllTypedNext DEF Typed
      <3>2. All'[x][1] <= n
        BY <2>4
      <3> QED
        BY <1>2, <2>1, <2>5, <3>1, <3>2
    <2> QED
      BY <2>4, <2>6 DEF OrderInv
  <1>7. CASE WriteEntryFails
    <2>1. PICK n \in 0 .. MaxEntries, i \in 0 .. 1 :
            /\ n + Len(batch) = count + at + 1
            /\ All' = All \o SubSeq(Entry(n), 1, i)
      <3>1. LET n == batch[at + 1]
            IN  /\ n \in 0 .. MaxEntries /\ n + Len(batch) = count + at + 1
                /\ \E i \in 0 .. 1 : All' = All \o SubSeq(Entry(n), 1, i)
        BY <1>7, WriteFailsAll
      <3> QED
        BY <3>1
    <2>2. \A x \in DOMAIN All : All[x][1] < n
      <3> SUFFICES ASSUME NEW x \in DOMAIN All PROVE All[x][1] < n
        OBVIOUS
      <3>1. All[x][1] \in Nat /\ All[x][1] + Len(batch) <= count + at
        BY <1>1 DEF OrderInv
      <3> QED
        BY <1>2, <2>1, <3>1
    <2>3. i \in 0 .. 2
      OBVIOUS
    <2>4. Sorted(All') /\ \A x \in DOMAIN All' : All'[x][1] <= n
      BY <1>1, <1>3, <2>1, <2>2, <2>3, GrownSorted
    <2>5. batch' = << >> /\ at' = 0 /\ count' = count /\ at < Len(batch)
      BY <1>7 DEF WriteEntryFails, Fail
    <2>6. n <= count
      BY <1>2, <2>1, <2>5
    <2>7. ASSUME NEW x \in DOMAIN All' PROVE All'[x][1] <= count'
      <3>1. All'[x][1] \in Nat
        BY AllTypedNext DEF Typed
      <3>2. All'[x][1] <= n
        BY <2>4
      <3> QED
        BY <1>2, <2>5, <2>6, <3>1, <3>2
    <2> QED
      BY <2>4, <2>5, <2>7, OrderWithoutBatch
  <1>8. CASE Settles
    <2>1. All' = All
      BY <1>8, SettlesAll
    <2>2. count' = count
      BY <1>8 DEF Settles, Refuse, Flush, FlushFails, Sync, SyncFails, Fail
    <2>3. (batch' = << >> /\ at' = 0) \/ UNCHANGED <<batch, at>>
      BY <1>8 DEF Settles, Refuse, Flush, FlushFails, Sync, SyncFails, Fail
    <2>4. CASE UNCHANGED <<batch, at>>
      BY <2>1, <2>2, <2>4 DEF OrderInv
    <2>5. CASE batch' = << >> /\ at' = 0
      BY <1>3, <2>1, <2>2, <2>5, OrderWithoutBatch
    <2> QED
      BY <2>3, <2>4, <2>5
  <1>9. CASE Close \/ Crash
    <2>1. Prefix(All', All) /\ All' \in Seq(Cells)
      BY <1>9, StopsAll
    <2>2. batch' = << >> /\ at' = 0 /\ count' = count
      BY <1>2, <1>9 DEF Close, Crash
    <2>3. Sorted(All')
      BY <1>1, <1>3, <2>1, PrefixKeeps
    <2>4. \A x \in DOMAIN All' : All'[x][1] <= count'
      <3>1. DOMAIN All' = 1 .. Len(All') /\ Len(All') \in Nat
        BY <2>1, LenProperties
      <3>2. \A x \in DOMAIN All' : x \in DOMAIN All /\ All[x] = All'[x]
        BY <1>1, <2>1, <3>1 DEF Prefix
      <3> QED
        BY <1>3, <2>2, <3>2
    <2> QED
      BY <2>2, <2>3, <2>4, OrderWithoutBatch
  <1> QED
    BY <1>4, <1>5, <1>6, <1>7, <1>8, <1>9 DEF WalNext, Settles

-----------------------------------------------------------------------------
(* Whole entries, and the position.                                        *)

LEMMA ElementsConcat ==
    ASSUME NEW s \in Seq(Cells), NEW t \in Seq(Cells)
    PROVE  Elements(s \o t) = Elements(s) \cup Elements(t)
  <1> DEFINE u == s \o t
  <1>1. /\ u \in Seq(Cells) /\ Len(u) = Len(s) + Len(t)
        /\ \A x \in 1 .. Len(s) + Len(t) :
             u[x] = IF x <= Len(s) THEN s[x] ELSE t[x - Len(s)]
    BY ConcatProperties
  <1> HIDE DEF u
  <1>2. /\ DOMAIN u = 1 .. Len(s) + Len(t) /\ DOMAIN s = 1 .. Len(s)
        /\ DOMAIN t = 1 .. Len(t) /\ Len(s) \in Nat /\ Len(t) \in Nat
    BY <1>1, LenProperties
  <1>3. ASSUME NEW x \in DOMAIN u PROVE u[x] \in Elements(s) \cup Elements(t)
    <2>1. CASE x <= Len(s)
      BY <1>1, <1>2, <2>1 DEF Elements
    <2>2. CASE ~(x <= Len(s))
      <3>1. x - Len(s) \in DOMAIN t /\ u[x] = t[x - Len(s)]
        BY <1>1, <1>2, <2>2
      <3> QED
        BY <3>1 DEF Elements
    <2> QED
      BY <2>1, <2>2
  <1>4. ASSUME NEW x \in DOMAIN s PROVE s[x] \in Elements(u)
    <2>1. x \in DOMAIN u /\ u[x] = s[x]
      BY <1>1, <1>2
    <2> QED
      BY <2>1 DEF Elements
  <1>5. ASSUME NEW x \in DOMAIN t PROVE t[x] \in Elements(u)
    <2>1. Len(s) + x \in DOMAIN u /\ ~(Len(s) + x <= Len(s)) /\ (Len(s) + x) - Len(s) = x
      BY <1>2
    <2>2. u[Len(s) + x] = t[x]
      BY <1>1, <1>2, <2>1
    <2> QED
      BY <2>1, <2>2 DEF Elements
  <1>6. Elements(u) = Elements(s) \cup Elements(t)
    BY <1>3, <1>4, <1>5 DEF Elements
  <1> QED
    BY <1>6 DEF u

\* Writing an entry makes nothing incomplete; writing a part of it, that entry.
LEMMA GrownIncomplete ==
    ASSUME NEW s \in Seq(Cells), NEW n \in 0 .. MaxEntries
    PROVE  /\ Incomplete(s \o Entry(n)) \subseteq Incomplete(s)
           /\ Incomplete(s \o SubSeq(Entry(n), 1, 1)) \subseteq Incomplete(s) \cup {n}
  <1>1. Entry(n) \in Seq(Cells) /\ 1 \in 0 .. Len(Entry(n))
    BY EntryTyped
  <1> DEFINE e == Entry(n)
             f == SubSeq(Entry(n), 1, 1)
  <1>2. f \in Seq(Cells) /\ Len(f) = 1 /\ \A x \in 1 .. 1 : f[x] = Entry(n)[x]
    BY <1>1, CutIsPrefix
  <1>3. Elements(e) = {Cell(n, 1), Cell(n, 2)}
    BY DEF Elements, Entry
  <1>4. Elements(f) = {Cell(n, 1)}
    <2> HIDE DEF f
    <2>1. DOMAIN f = 1 .. 1 /\ f[1] = Entry(n)[1]
      BY <1>2, LenProperties
    <2>2. Entry(n)[1] = Cell(n, 1)
      BY DEF Entry
    <2>3. \A x \in DOMAIN f : x = 1
      BY <2>1
    <2>4. 1 \in DOMAIN f
      BY <2>1
    <2> QED
      BY <2>1, <2>2, <2>3, <2>4 DEF Elements
  <1> HIDE DEF e, f
  <1>5. /\ Elements(s \o e) = Elements(s) \cup {Cell(n, 1), Cell(n, 2)}
        /\ Elements(s \o f) = Elements(s) \cup {Cell(n, 1)}
    BY <1>1, <1>2, <1>3, <1>4, ElementsConcat DEF e
  <1>6. ASSUME NEW i, NEW j, NEW k, Cell(i, k) = Cell(j, k) PROVE i = j
    BY <1>6 DEF Cell
  <1>7. ASSUME NEW i, NEW j, NEW k PROVE Cell(i, 1) # Cell(j, 2)
    BY DEF Cell
  <1>8. Incomplete(s \o e) \subseteq Incomplete(s)
    BY <1>5, <1>6, <1>7 DEF Incomplete
  <1>9. Incomplete(s \o f) \subseteq Incomplete(s) \cup {n}
    BY <1>5, <1>6, <1>7 DEF Incomplete
  <1> QED
    BY <1>8, <1>9 DEF e, f

LEMMA EvenOrOdd ==
    ASSUME NEW n \in Nat
    PROVE  n = 2 * (n \div 2) \/ n = 2 * (n \div 2) + 1
  OBVIOUS

\* A cell too many at the end is the first of an entry that is not there.
LEMMA EvenUnlessIncomplete ==
    ASSUME NEW s \in Seq(Cells), FirstsOdd(s), Sorted(s), Incomplete(s) = {}
    PROVE  \E m \in Nat : Len(s) = 2 * m
  <1>1. Len(s) \in Nat /\ DOMAIN s = 1 .. Len(s)
    BY LenProperties
  <1>2. PICK m \in Nat : Len(s) = 2 * m \/ Len(s) = 2 * m + 1
    <2>1. Len(s) \div 2 \in Nat
      BY <1>1
    <2>2. Len(s) = 2 * (Len(s) \div 2) \/ Len(s) = 2 * (Len(s) \div 2) + 1
      BY <1>1, EvenOrOdd
    <2> QED
      BY <2>1, <2>2
  <1>3. ASSUME Len(s) = 2 * m + 1 PROVE FALSE
    <2>1. m + 1 \in Nat \ {0} /\ 2 * (m + 1) - 1 = Len(s)
      BY <1>3
    <2>2. PICK n \in 0 .. MaxEntries : s[Len(s)] = Cell(n, 1)
      <3>1. 2 * (m + 1) - 1 <= Len(s)
        BY <1>1, <2>1
      <3> QED
        BY <2>1, <3>1 DEF FirstsOdd
    <2>3. Len(s) \in DOMAIN s
      BY <1>1, <1>3
    <2>4. Cell(n, 1) \in Elements(s)
      BY <2>2, <2>3 DEF Elements
    <2>5. ASSUME NEW x \in DOMAIN s, s[x] = Cell(n, 2) PROVE FALSE
      <3>1. x # Len(s)
        BY <2>2, <2>5 DEF Cell
      <3>2. x < Len(s)
        BY <1>1, <3>1
      <3>3. Earlier(<<n, 2>>, <<n, 1>>)
        BY <2>2, <2>3, <2>5, <3>2 DEF Sorted, Cell
      <3>4. n \in Nat
        BY WalAssumption
      <3> QED
        BY <3>3, <3>4 DEF Earlier
    <2>6. Cell(n, 2) \notin Elements(s)
      BY <2>5 DEF Elements
    <2>7. n \in Incomplete(s)
      BY <2>4, <2>6 DEF Incomplete
    <2> QED
      BY <2>7
  <1> QED
    BY <1>2, <1>3

LEMMA HeaderWhole ==
    /\ PairsWhole(Header) /\ FirstsOdd(Header)
    /\ \E m \in Nat : Len(Header) = 2 * m
    /\ Incomplete(Header) = {}
  <1>1. 0 \in 0 .. MaxEntries
    BY WalAssumption
  <1>2. Whole(Header, 1)
    BY <1>1, HeaderTyped DEF Whole, Cell
  <1>3. \A k \in Nat \ {0} : 2 * k <= 2 \/ 2 * k - 1 <= 2 => k = 1
    OBVIOUS
  <1>4. PairsWhole(Header)
    BY <1>2, <1>3, HeaderTyped DEF PairsWhole
  <1>5. FirstsOdd(Header)
    <2>1. Header[2 * 1 - 1] = Cell(0, 1)
      BY HeaderTyped DEF Cell
    <2> QED
      BY <1>1, <1>3, <2>1, HeaderTyped DEF FirstsOdd
  <1>6. \E m \in Nat : Len(Header) = 2 * m
    <2>1. Len(Header) = 2 * 1
      BY HeaderTyped
    <2> QED
      BY <2>1
  <1>7. Incomplete(Header) = {}
    <2>1. Elements(Header) = {Cell(0, 1), Cell(0, 2)}
      BY DEF Elements, Header, Entry
    <2>2. ASSUME NEW n \in 0 .. MaxEntries, Cell(n, 1) \in Elements(Header)
          PROVE  Cell(n, 2) \in Elements(Header)
      <3>1. n = 0
        BY <2>1, <2>2 DEF Cell
      <3> QED
        BY <2>1, <3>1
    <2> QED
      BY <2>2 DEF Incomplete
  <1> QED
    BY <1>4, <1>5, <1>6, <1>7

LEMMA PlaceStep ==
    ASSUME Typed, PlaceInv, WalNext
    PROVE  PlaceInv'
  <1>1. /\ All \in Seq(Cells) /\ Len(All) \in Nat /\ position \in Nat
        /\ stray \in Nat
    BY AllTyped, LenProperties DEF Typed, WalTypeOK
  <1>2. CASE Open
    <2>1. position' = Len(All') /\ Len(All') >= 2 /\ position' \in Nat
      BY <1>2, OpenAll, TypedStep DEF Typed, WalTypeOK
    <2>2. stray' = 0
      BY <1>2 DEF Open
    <2> QED
      BY <2>1, <2>2 DEF PlaceInv
  <1>3. CASE AppendBatch \/ Settles
    <2>1. All' = All
      BY <1>3, SettlesAll
    <2>2. position' = position /\ stray' = stray /\ phase # "closed"
      BY <1>3 DEF AppendBatch, Settles, Refuse, Flush, FlushFails, Sync, SyncFails, Fail
    <2> QED
      BY <2>1, <2>2 DEF PlaceInv
  <1>4. CASE WriteEntry
    <2>1. PICK n \in 0 .. MaxEntries : All' = All \o Entry(n)
      BY <1>4, WriteEntryAll
    <2>2. /\ position' = position + 2 /\ stray' = stray
          /\ phase = "writing" /\ phase' = "writing"
      BY <1>4 DEF WriteEntry, Advanced
    <2>3. Len(All') = Len(All) + 2
      <3>1. Entry(n) \in Seq(Cells) /\ Len(Entry(n)) = 2
        BY EntryTyped
      <3>2. Len(All \o Entry(n)) = Len(All) + Len(Entry(n))
        BY <1>1, <3>1, ConcatProperties
      <3> QED
        BY <2>1, <3>1, <3>2
    <2> QED
      BY <1>1, <2>2, <2>3 DEF PlaceInv
  <1>5. CASE WriteEntryFails
    <2>1. PICK i \in 0 .. 1 : Len(All') = Len(All) + i /\ stray' = stray + i
      BY <1>5, WriteFailsAll
    <2>2. position' = position /\ phase = "writing" /\ phase' = "ready"
      BY <1>5 DEF WriteEntryFails, Fail
    <2> QED
      BY <1>1, <2>1, <2>2 DEF PlaceInv
  <1>6. CASE Close \/ Crash
    BY <1>6 DEF Close, Crash, PlaceInv
  <1> QED
    BY <1>2, <1>3, <1>4, <1>5, <1>6 DEF WalNext, Settles

LEMMA WholeStep ==
    ASSUME Typed, OrderInv, WholeInv, WalNext
    PROVE  WholeInv'
  <1>1. /\ All \in Seq(Cells) /\ Sorted(All)
        /\ torn \subseteq 0 .. MaxEntries /\ phase \in Phases
    BY AllTyped DEF Typed, WalTypeOK, OrderInv
  <1>2. CASE Open
    <2>1. /\ torn' = torn \cup Incomplete(All)
          /\ (All = << >> /\ All' = Header) \/ All' = All
      BY <1>2, OpenAll
    <2>2. CASE All' = Header
      BY <2>2, HeaderWhole DEF WholeInv
    <2>3. CASE All' = All
      <3>1. torn' = {} => torn = {} /\ Incomplete(All) = {}
        BY <2>1
      <3>2. torn' = {} => \E m \in Nat : Len(All) = 2 * m
        BY <1>1, <3>1, EvenUnlessIncomplete DEF WholeInv
      <3> QED
        BY <2>1, <2>3, <3>1, <3>2 DEF WholeInv
    <2> QED
      BY <2>1, <2>2, <2>3
  <1>3. CASE AppendBatch \/ Settles
    <2>1. All' = All
      BY <1>3, SettlesAll
    <2>2. torn' = torn /\ phase # "closed"
      BY <1>3 DEF AppendBatch, Settles, Refuse, Flush, FlushFails, Sync, SyncFails, Fail
    <2> QED
      BY <2>1, <2>2 DEF WholeInv
  <1>4. CASE WriteEntry
    <2>1. PICK n \in 0 .. MaxEntries : All' = All \o Entry(n)
      BY <1>4, WriteEntryAll
    <2>2. torn' = torn /\ phase = "writing" /\ phase' = "writing"
      BY <1>4 DEF WriteEntry
    <2>3. Incomplete(All') \subseteq torn'
      BY <1>1, <2>1, <2>2, GrownIncomplete DEF WholeInv
    <2>4. ASSUME torn = {}
          PROVE  PairsWhole(All') /\ FirstsOdd(All') /\ \E m \in Nat : Len(All') = 2 * m
      <3>1. PICK m \in Nat : Len(All) = 2 * m
        BY <2>2, <2>4 DEF WholeInv
      <3>2. PairsWhole(All)
        BY <2>4 DEF WholeInv
      <3>3. PairsWhole(All') /\ FirstsOdd(All') /\ Len(All') = 2 * (m + 1)
        BY <1>1, <2>1, <3>1, <3>2, GrownWhole
      <3>4. m + 1 \in Nat
        OBVIOUS
      <3> QED
        BY <3>3, <3>4
    <2> QED
      BY <2>2, <2>3, <2>4 DEF WholeInv
  <1>5. CASE WriteEntryFails
    <2>1. PICK n \in 0 .. MaxEntries, i \in 0 .. 1 :
            /\ All' = All \o SubSeq(Entry(n), 1, i)
            /\ torn' = IF i = 1 THEN torn \cup {n} ELSE torn
            /\ i = 0 => All' = All
      BY <1>5, WriteFailsAll
    <2>2. phase = "writing" /\ phase' = "ready"
      BY <1>5 DEF WriteEntryFails, Fail
    <2>3. CASE i = 0
      BY <2>1, <2>2, <2>3 DEF WholeInv
    <2>4. CASE i = 1
      <3>1. All' = All \o SubSeq(Entry(n), 1, 1) /\ torn' = torn \cup {n}
        BY <2>1, <2>4
      <3>2. Incomplete(All') \subseteq torn'
        BY <1>1, <2>2, <3>1, GrownIncomplete DEF WholeInv
      <3> QED
        BY <3>1, <3>2 DEF WholeInv
    <2> QED
      BY <2>3, <2>4
  <1>6. CASE Close \/ Crash
    <2>1. Prefix(All', All) /\ All' \in Seq(Cells)
      BY <1>6, StopsAll
    <2>2. phase' = "closed" /\ torn' = torn
      BY <1>6 DEF Close, Crash
    <2>3. /\ PairsWhole(All) => PairsWhole(All')
          /\ FirstsOdd(All) => FirstsOdd(All')
      BY <1>1, <2>1, PrefixKeeps
    <2> QED
      BY <2>2, <2>3 DEF WholeInv
  <1> QED
    BY <1>2, <1>3, <1>4, <1>5, <1>6 DEF WalNext, Settles

-----------------------------------------------------------------------------
(* What is stored.                                                         *)

\* What was synced stays.
LEMMA SyncedKept ==
    ASSUME Typed, All' \in Seq(Cells), synced' \in Nat, synced <= synced',
           Prefix(All, All') \/ (Prefix(All', All) /\ synced' <= Len(All')),
           NEW n, Stored(All, synced, n)
    PROVE  Stored(All', synced', n)
  <1>1. All \in Seq(Cells) /\ synced \in Nat /\ synced <= Len(All) /\ Len(All) \in Nat
    BY AllTyped, LenProperties DEF Typed
  <1>2. CASE Prefix(All, All')
    BY <1>1, <1>2, PrefixKeeps
  <1>3. CASE Prefix(All', All) /\ synced' <= Len(All')
    <2>1. Len(All') \in Nat
      BY LenProperties
    <2>2. synced <= Len(All')
      BY <1>1, <1>3, <2>1
    <2>3. Stored(All', synced, n)
      BY <1>1, <1>3, <2>2, PrefixKeeps
    <2>4. PICK k \in Nat : /\ k >= 2 /\ 2 * k <= synced /\ Pair(All', k, n)
                           /\ \A j \in 1 .. k : Whole(All', j)
      BY <2>3 DEF Stored
    <2>5. 2 * k <= synced'
      BY <1>1, <2>4
    <2> QED
      BY <2>4, <2>5 DEF Stored
  <1> QED
    BY <1>2, <1>3

LEMMA PrefixOfItself == ASSUME NEW s \in Seq(Cells) PROVE Prefix(s, s)
  BY LenProperties DEF Prefix

LEMMA StoredStep ==
    ASSUME Typed, Typed', PlaceInv, WholeInv, StoredInv, WalNext
    PROVE  StoredInv'
  <1>1. /\ All \in Seq(Cells) /\ Len(All) \in Nat /\ synced \in Nat /\ at \in Nat
        /\ phase \in {"closed", "ready"} => at = 0
    <2>1. phase \in {"closed", "ready"} => at \in 0 .. Len(<< >>)
      BY DEF Typed, WalTypeOK
    <2> QED
      BY <2>1, AllTyped, LenProperties, NoBatch DEF Typed, WalTypeOK
  <1>2. All' \in Seq(Cells) /\ Len(All') \in Nat
    BY AllTypedNext, LenProperties DEF Typed
  <1>3. torn \subseteq torn'
    <2>1. CASE Open
      BY <2>1 DEF Open
    <2>2. CASE WriteEntryFails
      BY <2>2 DEF WriteEntryFails
    <2>3. CASE ~Open /\ ~WriteEntryFails
      BY <2>3
         DEF WalNext, AppendBatch, Refuse, WriteEntry, Flush, FlushFails, Sync,
             SyncFails, Close, Crash, Fail
    <2> QED
      BY <2>1, <2>2, <2>3
  <1>4. /\ torn' = {} => \A i \in 1 .. at : Stored(All, Len(All), batch[i])
        /\ SyncOnFlush => \A n \in acked \ late : Stored(All, synced, n)
    BY <1>3 DEF StoredInv
  <1>5. ASSUME at' = 0, acked' = acked, late' = late, synced' \in Nat, synced <= synced',
               Prefix(All, All') \/ (Prefix(All', All) /\ synced' <= Len(All'))
        PROVE  StoredInv'
    <2>1. \A n \in acked \ late : SyncOnFlush => Stored(All', synced', n)
      BY <1>2, <1>4, <1>5, SyncedKept
    <2>2. \A i \in 1 .. at' : FALSE
      BY <1>5
    <2> QED
      BY <1>5, <2>1, <2>2 DEF StoredInv
  <1>6. Prefix(All, All)
    BY <1>1, PrefixOfItself
  <1>7. CASE Open
    <2>1. at' = 0 /\ acked' = acked /\ late' = late /\ synced' = synced
      BY <1>1, <1>7 DEF Open
    <2> QED
      BY <1>1, <1>5, <1>7, <2>1, OpenAll
  <1>8. CASE AppendBatch \/ Refuse \/ FlushFails \/ SyncFails
    <2>1. All' = All
      BY <1>8, SettlesAll DEF Settles
    <2>2. at' = 0 /\ acked' = acked /\ late' = late /\ synced' = synced
      BY <1>8 DEF AppendBatch, Refuse, FlushFails, SyncFails, Fail
    <2> QED
      BY <1>1, <1>5, <1>6, <2>1, <2>2
  <1>9. CASE WriteEntryFails
    <2>1. Prefix(All, All')
      BY <1>9, WriteFailsAll
    <2>2. at' = 0 /\ acked' = acked /\ late' = late /\ synced' = synced
      BY <1>9 DEF WriteEntryFails, Fail
    <2> QED
      BY <1>1, <1>5, <2>1, <2>2
  <1>10. CASE Close \/ Crash
    <2>1. /\ Prefix(All', All) /\ synced' \in Nat /\ synced <= synced'
          /\ synced' <= Len(All')
      BY <1>10, StopsAll
    <2>2. at' = 0 /\ acked' = acked /\ late' = late
      BY <1>1, <1>10 DEF Close, Crash
    <2> QED
      BY <1>5, <2>1, <2>2
  <1>11. CASE WriteEntry
    <2>1. PICK n \in 0 .. MaxEntries :
            n = batch[at + 1] /\ All' = All \o Entry(n) /\ Prefix(All, All')
      BY <1>11, WriteEntryAll
    <2>2. /\ at' = at + 1 /\ phase = "writing"
          /\ UNCHANGED <<synced, batch, acked, torn, late>>
      BY <1>11 DEF WriteEntry
    <2>3. ASSUME torn = {} PROVE Stored(All', Len(All'), n)
      <3>1. PICK m \in Nat : Len(All) = 2 * m
        BY <2>2, <2>3 DEF WholeInv
      <3>2. PairsWhole(All) /\ Len(All) >= 2
        BY <2>2, <2>3 DEF WholeInv, PlaceInv
      <3>3. m >= 1
        BY <3>1, <3>2
      <3> QED
        BY <1>1, <2>1, <3>1, <3>2, <3>3, GrownWhole
    <2>4. Len(All) <= Len(All')
      BY <2>1 DEF Prefix
    <2>5. ASSUME torn' = {}, NEW i \in 1 .. at' PROVE Stored(All', Len(All'), batch'[i])
      <3>1. CASE i = at + 1
        BY <2>1, <2>2, <2>3, <2>5, <3>1
      <3>2. CASE i # at + 1
        <4>1. i \in 1 .. at
          BY <1>1, <2>2, <3>2
        <4>2. Stored(All, Len(All), batch[i])
          BY <1>4, <2>5, <4>1
        <4>3. Len(All) <= Len(All)
          BY <1>1
        <4>4. Stored(All', Len(All'), batch[i])
          BY <1>1, <1>2, <2>1, <2>4, <4>2, <4>3, PrefixKeeps
        <4> QED
          BY <2>2, <4>4
      <3> QED
        BY <3>1, <3>2
    <2>6. SyncOnFlush => \A n1 \in acked' \ late' : Stored(All', synced', n1)
      <3>1. synced' \in Nat /\ synced <= synced'
        BY <1>1, <2>2
      <3> QED
        BY <1>2, <1>4, <2>1, <2>2, <3>1, SyncedKept
    <2> QED
      BY <2>5, <2>6 DEF StoredInv
  <1>12. CASE Flush
    <2>1. All' = All /\ synced' = synced /\ torn' = torn
      BY <1>12, SettlesAll DEF Settles, Flush
    <2>2. CASE SyncOnFlush
      <3>1. UNCHANGED <<batch, at, acked, late>>
        BY <1>12, <2>2 DEF Flush
      <3> QED
        BY <1>4, <2>1, <3>1 DEF StoredInv
    <2>3. CASE ~SyncOnFlush
      <3>1. at' = 0
        BY <1>12, <2>3 DEF Flush
      <3>2. \A i \in 1 .. at' : FALSE
        BY <3>1
      <3> QED
        BY <2>3, <3>2 DEF StoredInv
    <2> QED
      BY <2>2, <2>3
  <1>13. CASE Sync
    <2>1. All' = All
      BY <1>13, SettlesAll DEF Settles
    <2>2. /\ synced' = Len(file) /\ at' = 0 /\ acked' = acked \cup Elements(batch)
          /\ late' = (IF torn = {} THEN late ELSE late \cup Elements(batch))
          /\ torn' = torn
          /\ at = Len(batch) /\ buffer = << >>
      BY <1>13 DEF Sync, Acknowledge, Typed, BatchInv
    <2>3. Len(file) = Len(All) /\ synced' \in Nat /\ synced <= synced'
      <3>1. /\ Len(All) = Len(file) + Len(buffer) /\ Len(file) \in Nat
            /\ synced <= Len(All) /\ Len(buffer) = 0
        BY <2>2, AllTyped DEF Typed
      <3> QED
        BY <2>2, <3>1
    <2>4. ASSUME torn = {}, NEW n \in Elements(batch) PROVE Stored(All', synced', n)
      <3>1. PICK i \in DOMAIN batch : n = batch[i]
        BY DEF Elements
      <3>2. i \in 1 .. at
        BY <2>2, LenProperties DEF Typed, WalTypeOK
      <3> QED
        BY <1>4, <2>1, <2>2, <2>3, <2>4, <3>1, <3>2
    <2>5. ASSUME NEW n \in acked \ late, SyncOnFlush PROVE Stored(All', synced', n)
      BY <1>2, <1>4, <1>6, <2>1, <2>3, <2>5, SyncedKept
    <2>6. \A i \in 1 .. at' : FALSE
      BY <2>2
    <2>7. \A n \in acked' \ late' : n \in acked \ late \/ (torn = {} /\ n \in Elements(batch))
      BY <2>2
    <2> QED
      BY <2>4, <2>5, <2>6, <2>7 DEF StoredInv
  <1> QED
    BY <1>7, <1>8, <1>9, <1>10, <1>11, <1>12, <1>13 DEF WalNext

-----------------------------------------------------------------------------
(* The invariant, and the properties.                                      *)

LEMMA InitInvariant == WalInit => WalInv
  <1> SUFFICES ASSUME WalInit PROVE WalInv
    OBVIOUS
  <1>1. All = << >>
    BY DEF WalInit, All
  <1>2. Typed
    <2>1. /\ file = << >> /\ synced = 0 /\ buffer = << >> /\ position = 0
          /\ phase = "closed" /\ batch = << >> /\ at = 0 /\ count = 0
          /\ acked = {} /\ torn = {} /\ late = {} /\ stray = 0
      BY DEF WalInit
    <2>2. WalTypeOK
      <3>1. file \in Seq(Cells) /\ buffer \in Seq(Cells) /\ batch \in Seq(0 .. MaxEntries)
        BY <2>1, NoBatch
      <3>2. synced \in 0 .. Len(file) /\ at \in 0 .. Len(batch)
        BY <2>1, NoBatch
      <3>3. position \in Nat /\ count \in 0 .. MaxEntries /\ acked \subseteq 1 .. count
        BY <2>1, WalAssumption
      <3>4. phase \in Phases
        BY <2>1 DEF Phases
      <3>5. torn \subseteq 0 .. MaxEntries /\ late \subseteq acked /\ stray \in Nat
        BY <2>1
      <3> QED
        BY <2>1, <3>1, <3>2, <3>3, <3>4, <3>5 DEF WalTypeOK
    <2>3. BatchInv
      <3>1. \A i \in 1 .. at : FALSE
        BY <2>1
      <3>2. Len(batch) <= count
        BY <2>1
      <3> QED
        BY <2>1, <3>1, <3>2, NoBatch DEF BatchInv
    <2> QED
      BY <2>2, <2>3 DEF Typed
  <1>3. OrderInv
    BY <1>1, NoBatch DEF OrderInv, Sorted
  <1>4. WholeInv
    <2>1. \A k \in Nat \ {0} : ~(2 * k - 1 <= 0) /\ ~(2 * k <= 0)
      OBVIOUS
    <2> QED
      BY <1>1, <2>1, NoBatch DEF WalInit, WholeInv, PairsWhole, FirstsOdd
  <1>6. PlaceInv
    BY DEF WalInit, PlaceInv
  <1>5. StoredInv
    BY DEF WalInit, StoredInv
  <1> QED
    BY <1>2, <1>3, <1>4, <1>5, <1>6 DEF WalInv

LEMMA StutterInvariant == WalInv /\ UNCHANGED walVars => WalInv'
  BY DEF walVars, WalInv, Typed, WalTypeOK, BatchInv, OrderInv, PlaceInv, WholeInv,
         StoredInv, All

LEMMA Inductive == WalSpec => []WalInv
  <1>1. WalInv /\ [WalNext]_walVars => WalInv'
    <2>1. WalInv /\ WalNext => WalInv'
      BY TypedStep, OrderStep, PlaceStep, WholeStep, StoredStep DEF WalInv
    <2> QED
      BY <2>1, StutterInvariant
  <1> QED
    BY <1>1, InitInvariant, PTL DEF WalSpec

\* The file and its durable part are fronts of all cells.
LEMMA FileIsFront ==
    ASSUME Typed
    PROVE  /\ file \in Seq(Cells) /\ Prefix(file, All)
           /\ Durable \in Seq(Cells) /\ Prefix(Durable, All) /\ Len(Durable) = synced
  <1>1. file \in Seq(Cells) /\ buffer \in Seq(Cells) /\ synced \in 0 .. Len(file)
    BY DEF Typed, WalTypeOK
  <1>2. Prefix(file, All)
    BY <1>1, ConcatIsLonger DEF All
  <1>3. Durable \in Seq(Cells) /\ Len(Durable) = synced /\ Prefix(Durable, file)
    BY <1>1, CutIsPrefix DEF Durable
  <1>4. Prefix(Durable, All)
    <2>1. /\ Len(file) \in Nat /\ Len(All) \in Nat /\ Len(Durable) \in Nat
      BY <1>1, <1>3, AllTyped, LenProperties DEF Typed
    <2> QED
      BY <1>2, <1>3, <2>1 DEF Prefix
  <1> QED
    BY <1>1, <1>2, <1>3, <1>4

\* Types; entries have the numbers they were given, and none is acknowledged
\* that has none.
THEOREM WalTypesHold == WalSpec => []WalTypeOK
  <1>1. WalInv => WalTypeOK
    BY DEF WalInv, Typed
  <1> QED
    BY <1>1, Inductive, PTL

\* An append that returned Ok with sync_on_flush survives every later crash,
\* failure and reopening, unless it returned after a writer had gone on behind an
\* incomplete entry.
THEOREM AcknowledgedIsReplayedHolds == WalSpec => []AcknowledgedIsReplayed
  <1>1. WalInv => AcknowledgedIsReplayed
    <2> SUFFICES ASSUME WalInv, SyncOnFlush, NEW n \in acked \ late
                 PROVE  n \in Elements(Replayed(Durable))
      BY DEF AcknowledgedIsReplayed
    <2>1. Typed /\ Stored(All, synced, n)
      BY DEF WalInv, StoredInv
    <2>2. /\ All \in Seq(Cells) /\ synced \in Nat
          /\ Durable \in Seq(Cells) /\ Prefix(Durable, All) /\ Len(Durable) = synced
      BY <2>1, AllTyped, FileIsFront DEF Typed
    <2>4. synced <= Len(Durable)
      BY <2>2
    <2>5. Stored(Durable, Len(Durable), n)
      BY <2>1, <2>2, <2>4, PrefixKeeps
    <2> QED
      BY <2>2, <2>5, StoredIsReplayed
  <1> QED
    BY <1>1, Inductive, PTL

\* A replay applies entries in the order they were appended and none twice,
\* whatever was torn, failed, or crashed.
THEOREM ReplayInOrderHolds == WalSpec => []ReplayInOrder
  <1>1. WalInv => ReplayInOrder
    <2> SUFFICES ASSUME WalInv PROVE ReplayInOrder
      OBVIOUS
    <2>1. /\ All \in Seq(Cells) /\ file \in Seq(Cells) /\ Prefix(file, All)
          /\ Sorted(All)
      BY AllTyped, FileIsFront DEF WalInv, Typed, OrderInv
    <2>2. Sorted(file)
      BY <2>1, PrefixKeeps
    <2> QED
      BY <2>1, <2>2, SortedReplay DEF ReplayInOrder
  <1> QED
    BY <1>1, Inductive, PTL

\* position is where the next entry will be in the file, but for the cells that
\* failed writes of this writer left, also after refusals, failed flushes and
\* syncs, and restarts.
THEOREM PositionExactHolds == WalSpec => []PositionExact
  <1>1. WalInv => PositionExact
    BY AllTyped DEF WalInv, Typed, PlaceInv, PositionExact
  <1> QED
    BY <1>1, Inductive, PTL

\* Between two calls an entry is incomplete only if its own write failed or a
\* writer found it so; when there is none, strict replay succeeds.
THEOREM CleanBetweenCallsHolds == WalSpec => []CleanBetweenCalls
  <1>1. WalInv => CleanBetweenCalls
    <2> SUFFICES ASSUME WalInv, phase \in {"ready", "syncing"}
                 PROVE  /\ Incomplete(All) \subseteq torn
                        /\ torn = {} => Clean(All)
      BY DEF CleanBetweenCalls, All
    <2>1. phase # "closed"
      OBVIOUS
    <2>2. Incomplete(All) \subseteq torn
      BY <2>1 DEF WalInv, WholeInv
    <2>3. All \in Seq(Cells)
      BY AllTyped DEF WalInv, Typed
    <2>4. torn = {} => PairsWhole(All) /\ \E m \in Nat : Len(All) = 2 * m
      BY <2>1 DEF WalInv, WholeInv
    <2>5. torn = {} => Clean(All)
      BY <2>3, <2>4, CleanIsWhole
    <2> QED
      BY <2>2, <2>5
  <1> QED
    BY <1>1, Inductive, PTL
=============================================================================
