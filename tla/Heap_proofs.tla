---------------------------- MODULE Heap_proofs ----------------------------
(***************************************************************************)
(* The heap keeps its blocks apart, implements AbstractHeap, counts what   *)
(* it has handed out and grows only without room, for any sizes of pages   *)
(* and headers, any alignment and any requests.                            *)
(*                                                                         *)
(* Sound is the property of a heap record that every method keeps; there   *)
(* is one lemma per operator that makes a record from another, and the     *)
(* calls compose them.  Counted, of the counters, comes after the          *)
(* refinement, behind what it needs of sums.                               *)
(***************************************************************************)
EXTENDS Heap, Induction, FiniteSetTheorems, WellFoundedInduction

MajorMap == UNION {[S -> [size : Nat, usage : Int]] : S \in SUBSET Address}
MinorMap == UNION {[S -> [block : Address, size : Nat, req : Requests]] : S \in SUBSET Address}

\* The values of heap.
HeapType ==
    [majors : MajorMap, minors : MinorMap, bestBet : Address \cup {Null},
     heapEnd : Address, inuse : Int, mapped : SUBSET Address,
     mode : {"intact", "faulted", "destroyed"}]

\* BlocksApart and the two parts of NoDangling, of any record.
MajorsApart(h) ==
    \A a \in DOMAIN h.majors :
        /\ MajorEnd(h, a) <= h.heapEnd
        /\ \A b \in DOMAIN h.majors : a < b => MajorEnd(h, a) <= b

MinorsApart(h) ==
    \A m \in DOMAIN h.minors :
        /\ h.minors[m].block \in DOMAIN h.majors
        /\ h.minors[m].block + MajorSize <= m
        /\ MinorEnd(h, m) <= MajorEnd(h, h.minors[m].block)
        /\ Size(h.minors[m].req) <= h.minors[m].size
        /\ \A k \in DOMAIN h.minors : m < k => MinorEnd(h, m) <= k

BetLives(h) == h.bestBet # Null => h.bestBet \in DOMAIN h.majors
MajorsUsed(h) == \A a \in DOMAIN h.majors : MinorsOf(h, a) # {}

Sound(h) == h \in HeapType /\ MajorsApart(h) /\ MinorsApart(h) /\ BetLives(h)
----------------------------------------------------------------------------
\* Arithmetic.
LEMMA ProductMonotone ==
    ASSUME NEW i \in Nat, NEW k \in Nat, NEW p \in Nat, i <= k
    PROVE  i * p \in Nat /\ k * p \in Nat /\ i * p <= k * p
<1>1. PICK d \in Nat : k = i + d
  <2>1. k - i \in Nat /\ k = i + (k - i)
    OBVIOUS
  <2> QED
    BY <2>1
<1>2. i * p \in Nat /\ d * p \in Nat
  OBVIOUS
<1>3. k * p = i * p + d * p
  BY <1>1
<1> QED
  BY <1>2, <1>3

LEMMA Division ==
    ASSUME NEW x \in Nat, NEW p \in Nat \ {0}
    PROVE  x = p * (x \div p) + (x % p) /\ x % p \in 0 .. p - 1 /\ x \div p \in Nat
  OBVIOUS

LEMMA MultipleHasNoRemainder ==
    ASSUME NEW k \in Nat, NEW p \in Nat \ {0}
    PROVE  (p * k) % p = 0
  OBVIOUS

\* Every set of natural numbers that is not empty has a least element.
LEMMA MinIsElement ==
    ASSUME NEW S \in SUBSET Nat, S # {}
    PROVE  Min(S) \in S /\ \A x \in S : Min(S) <= x
<1>1. PICK m \in S : \A n \in S : ~ (<<n, m>> \in OpToRel(<, Nat))
  BY NatLessThanWellFounded, WFMin
<1>2. \A n \in S : ~ (n < m)
  BY <1>1 DEF OpToRel
<1>3. \A n \in S : m <= n
  BY <1>2
<1> QED
  BY <1>3 DEF Min

\* ALIGN leaves room for the alignment information in front of the address,
\* moves it by less than Alignment, and aligns it.
LEMMA PointerCorrect ==
    ASSUME NEW m \in Nat
    PROVE  /\ Pointer(m) \in Nat
           /\ m + MinorSize + AlignInfo <= Pointer(m)
           /\ Pointer(m) < m + MinorSize + AlignInfo + Alignment
           /\ Pointer(m) % Alignment = 0
<1> DEFINE p == m + MinorSize + AlignInfo
           q == p \div Alignment
<1>1. p \in Nat /\ Alignment \in Nat \ {0}
  BY HeapAssumption
<1>2. p = Alignment * q + (p % Alignment) /\ p % Alignment \in 0 .. Alignment - 1 /\ q \in Nat
  BY <1>1, Division
<1> HIDE DEF p, q
<1>3. CASE p % Alignment = 0
  <2>1. Pointer(m) = p
    BY <1>3 DEF Pointer, p
  <2> QED
    BY <1>1, <1>3, <2>1 DEF p
<1>4. CASE p % Alignment # 0
  <2>1. Pointer(m) = p + (Alignment - (p % Alignment))
    BY <1>4 DEF Pointer, p
  <2>2. Pointer(m) = Alignment * (q + 1)
    BY <1>1, <1>2, <2>1
  <2>3. Pointer(m) % Alignment = 0
    BY <1>1, <1>2, <2>2, MultipleHasNoRemainder
  <2>4. Pointer(m) \in Nat /\ p <= Pointer(m) /\ Pointer(m) < p + Alignment
    BY <1>1, <1>2, <1>4, <2>1
  <2> QED
    BY <2>3, <2>4 DEF p
<1> QED
  BY <1>3, <1>4

\* A new major is large enough for its header and the block asked for.
LEMMA PagesCorrect ==
    ASSUME NEW n \in Nat
    PROVE  /\ PagesFor(n) \in Nat \ {0}
           /\ PagesFor(n) * PageSize \in Nat
           /\ MajorSize + Need(n) <= PagesFor(n) * PageSize
<1> DEFINE need == MajorSize + Need(n)
           q == need \div PageSize
           pages == IF need % PageSize = 0 THEN q ELSE q + 1
<1>1. need \in Nat \ {0} /\ PageSize \in Nat \ {0} /\ PageCount \in Nat
  BY HeapAssumption DEF Need, Size
<1>2. need = PageSize * q + (need % PageSize) /\ need % PageSize \in 0 .. PageSize - 1 /\ q \in Nat
  BY <1>1, Division
<1>3. PagesFor(n) = IF pages < PageCount THEN PageCount ELSE pages
  BY DEF PagesFor
<1> HIDE DEF need, q
<1>4. pages \in Nat \ {0} /\ need <= pages * PageSize
  <2>1. CASE need % PageSize = 0
    BY <1>1, <1>2, <2>1
  <2>2. CASE need % PageSize # 0
    <3>1. (q + 1) * PageSize = PageSize * q + PageSize
      BY <1>1, <1>2
    <3>2. PageSize * q \in Nat
      BY <1>1, <1>2
    <3> QED
      BY <1>1, <1>2, <2>2, <3>1, <3>2
  <2> QED
    BY <2>1, <2>2
<1> HIDE DEF pages
<1>5. PagesFor(n) \in Nat \ {0} /\ pages <= PagesFor(n)
  BY <1>1, <1>3, <1>4
<1>6. pages * PageSize \in Nat /\ PagesFor(n) * PageSize \in Nat /\ pages * PageSize <= PagesFor(n) * PageSize
  BY <1>1, <1>4, <1>5, ProductMonotone
<1> QED
  BY <1>1, <1>4, <1>5, <1>6 DEF need
----------------------------------------------------------------------------
\* Types of the maps, and what is in them.
LEMMA MajorMapType ==
    ASSUME NEW M
    PROVE  M \in MajorMap <=> /\ DOMAIN M \subseteq Address
                              /\ M \in [DOMAIN M -> [size : Nat, usage : Int]]
  BY DEF MajorMap

LEMMA MinorMapType ==
    ASSUME NEW N
    PROVE  N \in MinorMap <=> /\ DOMAIN N \subseteq Address
                              /\ N \in [DOMAIN N -> [block : Address, size : Nat, req : Requests]]
  BY DEF MinorMap

LEMMA AddressType == Address \subseteq Nat \ {0} /\ HeapStart \in Address
  BY HeapAssumption DEF Address

\* The fields of a heap record.
LEMMA FieldTypes ==
    ASSUME NEW h \in HeapType
    PROVE  /\ DOMAIN h.majors \subseteq Address
           /\ \A a \in DOMAIN h.majors :
                 a \in Nat /\ h.majors[a].size \in Nat /\ h.majors[a].usage \in Int /\ MajorEnd(h, a) \in Nat
           /\ DOMAIN h.minors \subseteq Address
           /\ \A m \in DOMAIN h.minors :
                 /\ m \in Nat /\ h.minors[m].block \in Address /\ h.minors[m].size \in Nat
                 /\ h.minors[m].req \in Requests /\ MinorEnd(h, m) \in Nat
           /\ h.heapEnd \in Nat /\ h.heapEnd <= HeapMax /\ HeapStart <= h.heapEnd
           /\ h.bestBet \in Nat /\ h.inuse \in Int
<1>1. h.majors \in MajorMap /\ h.minors \in MinorMap
  BY DEF HeapType
<1>2. \A a \in DOMAIN h.majors : h.majors[a] \in [size : Nat, usage : Int]
  BY <1>1, MajorMapType
<1>3. \A m \in DOMAIN h.minors : h.minors[m] \in [block : Address, size : Nat, req : Requests]
  BY <1>1, MinorMapType
<1>4. DOMAIN h.majors \subseteq Address /\ DOMAIN h.minors \subseteq Address
  BY <1>1, MajorMapType, MinorMapType
<1>5. h.heapEnd \in Address /\ h.bestBet \in Address \cup {Null} /\ h.inuse \in Int
  BY DEF HeapType
<1>6. MinorSize \in Nat
  BY HeapAssumption
<1>7. ASSUME NEW a \in DOMAIN h.majors
      PROVE  MajorEnd(h, a) \in Nat
  <2>1. a \in Nat /\ h.majors[a].size \in Nat
    BY <1>2, <1>4, AddressType
  <2> QED
    BY <2>1 DEF MajorEnd
<1>8. ASSUME NEW m \in DOMAIN h.minors
      PROVE  MinorEnd(h, m) \in Nat
  <2>1. m \in Nat /\ h.minors[m].size \in Nat
    BY <1>3, <1>4, AddressType
  <2> QED
    BY <1>6, <2>1 DEF MinorEnd
<1>9. h.heapEnd \in Nat /\ h.heapEnd <= HeapMax /\ HeapStart <= h.heapEnd /\ h.bestBet \in Nat
  BY <1>5, HeapAssumption DEF Address, Null
<1> QED
  BY <1>2, <1>3, <1>4, <1>5, <1>7, <1>8, <1>9, AddressType

LEMMA NeedType ==
    ASSUME NEW n \in Requests
    PROVE  n \in Nat /\ Size(n) \in Nat \ {0} /\ Need(n) \in Nat \ {0} /\ Need(n) = Size(n) + MinorSize
  BY HeapAssumption DEF Need, Size
----------------------------------------------------------------------------
\* The search.
LEMMA FirstMetIsElement ==
    ASSUME NEW h \in HeapType, NEW n, NEW S \in SUBSET DOMAIN h.majors, S # {}
    PROVE  FirstMet(h, n, S) \in S
<1>1. S \in SUBSET Nat /\ S \cap FirstPass(h, n) \in SUBSET Nat
  BY FieldTypes, AddressType
<1> QED
  BY <1>1, MinIsElement DEF FirstMet

LEMMA LastOrBefore ==
    ASSUME NEW k \in Nat, NEW n \in Nat, k <= n, NEW j \in 1 .. k
    PROVE  j \in 1 .. n /\ (j = k \/ j \in 1 .. (k - 1))
  OBVIOUS

\* Of finitely many numbers one is the largest.
LEMMA LargestExists ==
    ASSUME NEW S, IsFiniteSet(S), S # {}, NEW f \in [S -> Int]
    PROVE  \E a \in S : \A b \in S : f[b] <= f[a]
<1>1. PICK n \in Nat : ExistsBijection(1 .. n, S)
  BY FS_NatBijection
<1>2. PICK e \in Bijection(1 .. n, S) : TRUE
  BY <1>1 DEF ExistsBijection
<1>3. e \in [1 .. n -> S] /\ \A b \in S : \E i \in 1 .. n : e[i] = b
  BY <1>2 DEF Bijection, Injection, Surjection
<1> DEFINE g == [i \in 1 .. n |-> f[e[i]]]
           \* the numbers k of elements, counted from the first, that have no largest one
           Bad == {k \in 1 .. n : ~ \E i \in 1 .. k : \A j \in 1 .. k : g[j] <= g[i]}
<1>4. n >= 1
  BY <1>3
<1>5. \A i \in 1 .. n : g[i] \in Int /\ g[i] = f[e[i]]
  BY <1>3
<1> HIDE DEF g
<1>6. Bad = {}
  <2> SUFFICES ASSUME Bad # {} PROVE FALSE
    OBVIOUS
  <2>1. PICK k \in Bad : \A l \in Bad : k <= l
    <3>1. Bad \in SUBSET Nat
      OBVIOUS
    <3> HIDE DEF Bad
    <3> QED
      BY <3>1, MinIsElement
  <2>2. /\ k \in 1 .. n
        /\ \A i \in 1 .. k : \E j \in 1 .. k : ~ (g[j] <= g[i])
    BY <2>1
  <2>3. k # 1
    <3> SUFFICES ASSUME k = 1 PROVE FALSE
      OBVIOUS
    <3>1. \E j \in 1 .. 1 : ~ (g[j] <= g[1])
      BY <2>2
    <3>2. g[1] \in Int
      BY <1>4, <1>5
    <3> QED
      BY <3>1, <3>2
  <2>4. k - 1 \in 1 .. n /\ k - 1 \notin Bad
    <3>1. k - 1 \in 1 .. n /\ ~ (k <= k - 1)
      BY <2>2, <2>3
    <3> HIDE DEF Bad
    <3> QED
      BY <2>1, <3>1
  <2>5. PICK i \in 1 .. (k - 1) : \A j \in 1 .. (k - 1) : g[j] <= g[i]
    BY <2>4
  <2>6. g[k] \in Int /\ g[i] \in Int /\ i \in 1 .. k /\ k \in 1 .. k
    <3>1. i \in 1 .. k /\ i \in 1 .. n /\ k \in 1 .. k
      BY <2>2, <2>4, <2>5
    <3> QED
      BY <1>5, <2>2, <3>1
  <2>7. \A j \in 1 .. k : g[j] \in Int /\ (j = k \/ g[j] <= g[i])
    <3>1. \A j \in 1 .. k : j \in 1 .. n /\ (j = k \/ j \in 1 .. (k - 1))
      <4>1. k \in Nat /\ n \in Nat /\ k <= n
        BY <2>2
      <4> QED
        BY <4>1, LastOrBefore
    <3> QED
      BY <1>5, <2>5, <3>1
  <2> HIDE DEF Bad
  <2>8. CASE g[k] <= g[i]
    BY <2>2, <2>6, <2>7, <2>8
  <2>9. CASE g[i] <= g[k]
    <3>1. ASSUME NEW j \in 1 .. k PROVE g[j] <= g[k]
      <4>1. g[j] \in Int /\ g[k] \in Int /\ g[i] \in Int /\ (j = k \/ g[j] <= g[i])
        BY <2>6, <2>7
      <4> QED
        BY <2>9, <4>1
    <3> QED
      BY <2>2, <2>6, <3>1
  <2> QED
    BY <2>6, <2>8, <2>9
<1>7. PICK i \in 1 .. n : \A j \in 1 .. n : g[j] <= g[i]
  <2>1. n \in 1 .. n
    BY <1>4
  <2>2. n \notin Bad
    BY <1>6
  <2> QED
    BY <2>1, <2>2
<1>8. \A b \in S : f[b] <= f[e[i]]
  BY <1>3, <1>5, <1>7
<1> QED
  BY <1>3, <1>8

LEMMA BestBetIsMajor ==
    ASSUME NEW h \in HeapType, NEW n
    PROVE  BestBetAfter(h, n) \in DOMAIN h.majors \cup {h.bestBet}
<1> DEFINE S == Searched(h, n)
           top == {a \in S : \A b \in S : Avail(h, b) <= Avail(h, a)}
<1>1. S \in SUBSET DOMAIN h.majors
  BY DEF Searched, FirstPass
<1>2. IsFiniteSet(S)
  <2>1. IsFiniteSet(Address)
    BY FS_Interval, HeapAssumption DEF Address
  <2>2. S \subseteq Address
    BY <1>1, FieldTypes
  <2> QED
    BY <2>1, <2>2, FS_Subset
<1>3. S # {} => top # {}
  <2>1. \A a \in S : Avail(h, a) \in Int
    BY <1>1, FieldTypes DEF Avail
  <2> DEFINE f == [a \in S |-> Avail(h, a)]
  <2>2. f \in [S -> Int] /\ \A a \in S : f[a] = Avail(h, a)
    BY <2>1
  <2> HIDE DEF f, S
  <2>3. S # {} => \E a \in S : \A b \in S : f[b] <= f[a]
    BY <1>2, <2>2, LargestExists
  <2> QED
    BY <2>2, <2>3
<1>4. S # {} => FirstMet(h, n, top) \in DOMAIN h.majors
  BY <1>1, <1>3, FirstMetIsElement
<1>5. (BestBetAfter(h, n) = FirstMet(h, n, top) /\ S # {}) \/ BestBetAfter(h, n) = h.bestBet
  BY DEF BestBetAfter
<1> QED
  BY <1>4, <1>5
----------------------------------------------------------------------------
\* A new minor.

\* The room the search has found is in the major and clear of all minors,
\* those of other majors included.
LEMMA GapClear ==
    ASSUME NEW h, Sound(h), NEW a \in DOMAIN h.majors, NEW n \in Requests, NEW g \in Gaps(h, a, n)
    PROVE  /\ g \in Address /\ a + MajorSize <= g /\ g + Need(n) <= MajorEnd(h, a)
           /\ \A k \in DOMAIN h.minors : k # g /\ (g + Need(n) <= k \/ MinorEnd(h, k) <= g)
<1>0. h \in HeapType /\ MajorsApart(h) /\ MinorsApart(h)
  BY DEF Sound
<1> USE FieldTypes, NeedType
<1>1. MajorSize \in Nat /\ MinorSize \in Nat \ {0} /\ HeapStart \in Nat /\ HeapMax \in Nat
  BY HeapAssumption
<1>2. a \in Nat /\ HeapStart <= a /\ MajorEnd(h, a) \in Nat /\ MajorEnd(h, a) <= HeapMax
  BY <1>0, <1>1 DEF MajorsApart, Address
<1>3. \A k \in DOMAIN h.minors : /\ k \in Nat /\ MinorEnd(h, k) \in Nat /\ k < MinorEnd(h, k)
                                 /\ h.minors[k].block \in DOMAIN h.majors
                                 /\ h.minors[k].block \in Nat
  BY <1>0, <1>1 DEF MinorsApart, MinorEnd
<1>4. Gap(h, a, g, n) /\ (g = a + MajorSize \/ \E m \in MinorsOf(h, a) : g = MinorEnd(h, m))
  BY DEF Gaps
<1>5. g \in Nat /\ a + MajorSize <= g
  <2>1. ASSUME NEW m \in MinorsOf(h, a)
        PROVE  m \in DOMAIN h.minors /\ a + MajorSize <= m
    BY <1>0 DEF MinorsOf, MinorsApart
  <2> QED
    BY <1>1, <1>2, <1>3, <1>4, <2>1
<1>6. g + Need(n) <= MajorEnd(h, a)
  BY <1>4 DEF Gap
<1>7. g \in Address
  BY <1>1, <1>2, <1>5, <1>6 DEF Address
<1>8. ASSUME NEW k \in DOMAIN h.minors
      PROVE  g + Need(n) <= k \/ MinorEnd(h, k) <= g
  <2> DEFINE b == h.minors[k].block
  <2>0. /\ b \in DOMAIN h.majors /\ b \in Nat /\ k \in Nat /\ MinorEnd(h, k) \in Nat
        /\ b + MajorSize <= k /\ MinorEnd(h, k) <= MajorEnd(h, b) /\ MajorEnd(h, b) \in Nat
    BY <1>0, <1>3 DEF MinorsApart
  <2>1. CASE b = a
    BY <1>4, <2>1 DEF Gap, MinorsOf
  <2>2. CASE b < a
    <3>1. MajorEnd(h, b) <= a
      BY <1>0, <2>0, <2>2 DEF MajorsApart
    <3> HIDE DEF b
    <3> QED
      BY <1>1, <1>2, <1>5, <2>0, <3>1
  <2>3. CASE a < b
    <3>1. MajorEnd(h, a) <= b
      BY <1>0, <2>0, <2>3 DEF MajorsApart
    <3> HIDE DEF b
    <3> QED
      BY <1>1, <1>2, <1>5, <1>6, <2>0, <3>1
  <2> QED
    BY <1>2, <2>0, <2>1, <2>2, <2>3
<1>9. ASSUME NEW k \in DOMAIN h.minors
      PROVE  k # g
  BY <1>3, <1>5, <1>8, <1>9
<1> QED
  BY <1>5, <1>6, <1>7, <1>8, <1>9

LEMMA WithMinorFields ==
    ASSUME NEW h \in HeapType, NEW a \in DOMAIN h.majors, NEW n \in Requests, NEW g \in Address
    PROVE  LET r == WithMinor(h, a, g, n) IN
           /\ r \in HeapType
           /\ DOMAIN r.majors = DOMAIN h.majors
           /\ \A b \in DOMAIN h.majors : r.majors[b].size = h.majors[b].size
           /\ DOMAIN r.minors = DOMAIN h.minors \cup {g}
           /\ r.minors[g] = [block |-> a, size |-> Size(n), req |-> n]
           /\ \A m \in DOMAIN h.minors : m # g => r.minors[m] = h.minors[m]
           /\ r.bestBet = h.bestBet /\ r.heapEnd = h.heapEnd /\ r.mode = h.mode /\ r.mapped = h.mapped
<1> DEFINE new == [block |-> a, size |-> Size(n), req |-> n]
           M == [h.majors EXCEPT ![a].usage = @ + Need(n)]
           N == [m \in DOMAIN h.minors \cup {g} |-> IF m = g THEN new ELSE h.minors[m]]
           i == h.inuse + Size(n)
<1>1. WithMinor(h, a, g, n) = [h EXCEPT !.minors = N, !.majors = M, !.inuse = i]
  BY DEF WithMinor, HeapType
<1>2. h.majors \in [DOMAIN h.majors -> [size : Nat, usage : Int]] /\ h.minors \in MinorMap
  BY MajorMapType DEF HeapType
<1>3. /\ M \in [DOMAIN h.majors -> [size : Nat, usage : Int]]
      /\ \A b \in DOMAIN h.majors : M[b].size = h.majors[b].size
  BY <1>2, NeedType
<1>4. DOMAIN h.majors \subseteq Address /\ DOMAIN h.minors \subseteq Address
  BY FieldTypes
<1>5. M \in MajorMap /\ DOMAIN M = DOMAIN h.majors
  BY <1>3, <1>4, MajorMapType
<1>6. new \in [block : Address, size : Nat, req : Requests]
  BY <1>4, NeedType
<1>7. /\ DOMAIN N = DOMAIN h.minors \cup {g} /\ N[g] = new
      /\ \A m \in DOMAIN h.minors : m # g => N[m] = h.minors[m]
  OBVIOUS
<1>8. N \in MinorMap
  <2>1. h.minors \in [DOMAIN h.minors -> [block : Address, size : Nat, req : Requests]]
    BY <1>2, MinorMapType
  <2>2. DOMAIN N \subseteq Address /\ N \in [DOMAIN N -> [block : Address, size : Nat, req : Requests]]
    BY <1>4, <1>6, <2>1
  <2> HIDE DEF N
  <2> QED
    BY <2>2, MinorMapType
<1>9. i \in Int
  BY FieldTypes, NeedType
<1> HIDE DEF M, N, i
<1> QED
  BY <1>1, <1>3, <1>5, <1>7, <1>8, <1>9 DEF HeapType

LEMMA WithMinorSound ==
    ASSUME NEW h, Sound(h), NEW a \in DOMAIN h.majors, NEW n \in Requests, NEW g \in Gaps(h, a, n)
    PROVE  Sound(WithMinor(h, a, g, n))
<1> DEFINE r == WithMinor(h, a, g, n)
<1>0. h \in HeapType /\ MajorsApart(h) /\ MinorsApart(h) /\ BetLives(h)
  BY DEF Sound
<1>1. /\ g \in Address /\ a + MajorSize <= g /\ g + Need(n) <= MajorEnd(h, a)
      /\ \A k \in DOMAIN h.minors : k # g /\ (g + Need(n) <= k \/ MinorEnd(h, k) <= g)
  BY GapClear
<1>2. /\ r \in HeapType /\ DOMAIN r.majors = DOMAIN h.majors
      /\ \A b \in DOMAIN h.majors : r.majors[b].size = h.majors[b].size
      /\ DOMAIN r.minors = DOMAIN h.minors \cup {g}
      /\ r.minors[g] = [block |-> a, size |-> Size(n), req |-> n]
      /\ \A m \in DOMAIN h.minors : r.minors[m] = h.minors[m]
      /\ r.bestBet = h.bestBet /\ r.heapEnd = h.heapEnd
  BY <1>0, <1>1, WithMinorFields
<1> HIDE DEF r
<1>3. \A b \in DOMAIN h.majors : MajorEnd(r, b) = MajorEnd(h, b)
  BY <1>2 DEF MajorEnd
<1>4. \A k \in DOMAIN h.minors : MinorEnd(r, k) = MinorEnd(h, k)
  BY <1>2 DEF MinorEnd
<1>5. MinorEnd(r, g) = g + Need(n)
  <2>1. g \in Nat /\ MinorSize \in Nat /\ Size(n) \in Nat /\ Need(n) = Size(n) + MinorSize
    BY <1>1, AddressType, HeapAssumption, NeedType
  <2>2. r.minors[g].size = Size(n)
    BY <1>2
  <2> QED
    BY <2>1, <2>2 DEF MinorEnd
<1>6. MajorsApart(r)
  BY <1>0, <1>2, <1>3 DEF MajorsApart
<1>7. MinorsApart(r)
  <2>1. ASSUME NEW m \in DOMAIN h.minors
        PROVE  /\ r.minors[m].block \in DOMAIN r.majors
               /\ r.minors[m].block + MajorSize <= m
               /\ MinorEnd(r, m) <= MajorEnd(r, r.minors[m].block)
               /\ Size(r.minors[m].req) <= r.minors[m].size
               /\ \A k \in DOMAIN r.minors : m < k => MinorEnd(r, m) <= k
    <3>1. m < g => MinorEnd(h, m) <= g
      <4>1. m \in Nat /\ g \in Nat /\ Need(n) \in Nat
        BY <1>0, <1>1, AddressType, FieldTypes, NeedType
      <4> QED
        BY <1>1, <4>1
    <3> QED
      BY <1>0, <1>2, <1>3, <1>4, <3>1 DEF MinorsApart
  <2>2. /\ r.minors[g].block \in DOMAIN r.majors
        /\ r.minors[g].block + MajorSize <= g
        /\ MinorEnd(r, g) <= MajorEnd(r, r.minors[g].block)
        /\ Size(r.minors[g].req) <= r.minors[g].size
    <3>1. r.minors[g].block = a /\ r.minors[g].size = Size(n) /\ r.minors[g].req = n
      BY <1>2
    <3>2. Size(n) <= Size(n)
      BY NeedType
    <3> QED
      BY <1>1, <1>2, <1>3, <1>5, <3>1, <3>2
  <2>3. ASSUME NEW k \in DOMAIN r.minors, g < k
        PROVE  MinorEnd(r, g) <= k
    <3>1. k \in DOMAIN h.minors /\ k \in Nat /\ g \in Nat
      BY <1>0, <1>1, <1>2, <2>3, AddressType, FieldTypes
    <3>2. k < MinorEnd(h, k)
      <4>1. h.minors[k].size \in Nat /\ MinorSize \in Nat \ {0}
        BY <1>0, <3>1, FieldTypes, HeapAssumption
      <4> QED
        BY <3>1, <4>1 DEF MinorEnd
    <3>3. MinorEnd(h, k) \in Nat
      BY <1>0, <3>1, FieldTypes
    <3>4. ~ (MinorEnd(h, k) <= g)
      BY <2>3, <3>1, <3>2, <3>3
    <3> QED
      BY <1>1, <1>5, <3>1, <3>4
  <2> QED
    BY <1>2, <2>1, <2>2, <2>3 DEF MinorsApart
<1> QED
  BY <1>0, <1>2, <1>6, <1>7 DEF Sound, BetLives, r
----------------------------------------------------------------------------
\* A heap that has grown.
LEMMA ExtendedFields ==
    ASSUME NEW h \in HeapType, NEW got \in Nat, h.heapEnd + got * PageSize <= HeapMax
    PROVE  LET r == Extended(h, got) IN
           /\ r \in HeapType
           /\ r.majors = h.majors /\ r.minors = h.minors /\ r.bestBet = h.bestBet /\ r.mode = h.mode
           /\ got * PageSize \in Nat /\ r.heapEnd = h.heapEnd + got * PageSize
<1> DEFINE pages == {h.heapEnd + i * PageSize : i \in 0 .. got - 1}
           e == h.heapEnd + got * PageSize
<1>1. PageSize \in Nat /\ HeapStart \in Nat /\ HeapMax \in Nat
  BY HeapAssumption
<1>2. h.heapEnd \in Nat /\ HeapStart <= h.heapEnd
  BY FieldTypes
<1>3. got * PageSize \in Nat
  BY <1>1
<1>4. ASSUME NEW i \in 0 .. got - 1
      PROVE  h.heapEnd + i * PageSize \in Address
  <2>1. i * PageSize \in Nat /\ i * PageSize <= got * PageSize
    BY <1>1, ProductMonotone
  <2> QED
    BY <1>1, <1>2, <1>3, <2>1 DEF Address
<1>5. e \in Address
  BY <1>1, <1>2, <1>3 DEF Address
<1>6. Extended(h, got) = [h EXCEPT !.mapped = h.mapped \cup pages, !.heapEnd = e]
  BY DEF Extended, HeapType
<1>7. h.mapped \cup pages \subseteq Address
  BY <1>4 DEF HeapType
<1> HIDE DEF pages, e
<1>8. /\ Extended(h, got) \in HeapType
      /\ Extended(h, got).majors = h.majors /\ Extended(h, got).minors = h.minors
      /\ Extended(h, got).bestBet = h.bestBet /\ Extended(h, got).mode = h.mode
      /\ Extended(h, got).heapEnd = e
  BY <1>5, <1>6, <1>7 DEF HeapType
<1> QED
  BY <1>3, <1>8 DEF e

\* The layout depends on nothing but the maps, and on the end only as a bound.
LEMMA LayoutCarries ==
    ASSUME NEW h, Sound(h), NEW r, r.majors = h.majors, r.minors = h.minors,
           r.heapEnd \in Nat, h.heapEnd <= r.heapEnd
    PROVE  MajorsApart(r) /\ MinorsApart(r)
<1>1. h \in HeapType /\ MajorsApart(h) /\ MinorsApart(h)
  BY DEF Sound
<1>2. h.heapEnd \in Nat /\ \A a \in DOMAIN h.majors : MajorEnd(h, a) \in Nat
  BY <1>1, FieldTypes
<1>3. MajorsApart(r)
  BY <1>1, <1>2 DEF MajorsApart, MajorEnd
<1>4. MinorsApart(r)
  BY <1>1 DEF MinorsApart, MajorEnd, MinorEnd
<1> QED
  BY <1>3, <1>4

\* A major that holds a minor is not empty.
LEMMA UsedMajorExtent ==
    ASSUME NEW h, Sound(h), NEW b \in DOMAIN h.majors, MinorsOf(h, b) # {}
    PROVE  b < MajorEnd(h, b)
<1>0. h \in HeapType /\ MinorsApart(h)
  BY DEF Sound
<1>1. PICK m \in DOMAIN h.minors : h.minors[m].block = b
  BY DEF MinorsOf
<1>2. b + MajorSize <= m /\ MinorEnd(h, m) <= MajorEnd(h, b)
  BY <1>0, <1>1 DEF MinorsApart
<1>3. /\ m \in Nat /\ h.minors[m].size \in Nat /\ MinorSize \in Nat /\ MajorSize \in Nat \ {0}
      /\ b \in Nat /\ MajorEnd(h, b) \in Nat
  BY <1>0, FieldTypes, HeapAssumption
<1>4. m <= MinorEnd(h, m) /\ MinorEnd(h, m) \in Nat
  BY <1>3 DEF MinorEnd
<1> QED
  BY <1>2, <1>3, <1>4

\* A new major begins where the heap ended, behind all others.
LEMMA WithMajorSound ==
    ASSUME NEW h, Sound(h), MajorsUsed(h), NEW n \in Requests, ~TooLarge(h, n)
    PROVE  LET r == WithMajor(h, n)
               a == h.heapEnd IN
           /\ Sound(r) /\ r.minors = h.minors /\ r.mode = h.mode
           /\ DOMAIN r.majors = DOMAIN h.majors \cup {a}
           /\ MajorSize + Need(n) <= r.majors[a].size
           /\ \A m \in DOMAIN h.minors : h.minors[m].block # a
<1> DEFINE a == h.heapEnd
           size == PagesFor(n) * PageSize
           x == Extended(h, PagesFor(n))
           new == [size |-> size, usage |-> MajorSize]
           M == [b \in DOMAIN h.majors \cup {a} |-> IF b = a THEN new ELSE h.majors[b]]
           r == WithMajor(h, n)
<1>0. h \in HeapType /\ MajorsApart(h) /\ MinorsApart(h) /\ BetLives(h)
  BY DEF Sound
<1>1. /\ PagesFor(n) \in Nat /\ size \in Nat /\ MajorSize + Need(n) <= size
      /\ n \in Nat /\ Need(n) \in Nat \ {0} /\ MajorSize \in Nat \ {0} /\ HeapMax \in Nat
  BY PagesCorrect, NeedType, HeapAssumption
<1>2. a \in Address /\ a \in Nat /\ a + size \in Nat /\ a + size <= HeapMax
  <2>1. a \in Address /\ a \in Nat
    BY <1>0, FieldTypes DEF HeapType
  <2>2. ~ (a + size > HeapMax)
    BY DEF TooLarge
  <2> QED
    BY <1>1, <2>1, <2>2
<1>3. /\ x \in HeapType /\ x.majors = h.majors /\ x.minors = h.minors
      /\ x.bestBet = h.bestBet /\ x.mode = h.mode /\ x.heapEnd = a + size
  BY <1>0, <1>1, <1>2, ExtendedFields
<1> HIDE DEF x
<1>4. \A b \in DOMAIN h.majors : b \in Nat /\ h.majors[b].size \in Nat /\ b < a /\ MajorEnd(h, b) <= a
  <2> SUFFICES ASSUME NEW b \in DOMAIN h.majors
               PROVE  b \in Nat /\ h.majors[b].size \in Nat /\ b < a /\ MajorEnd(h, b) <= a
    OBVIOUS
  <2>1. b \in Nat /\ h.majors[b].size \in Nat /\ MajorEnd(h, b) \in Nat /\ MajorEnd(h, b) <= a
    BY <1>0, FieldTypes DEF MajorsApart
  <2>2. b < MajorEnd(h, b)
    BY UsedMajorExtent DEF MajorsUsed
  <2> QED
    BY <1>2, <2>1, <2>2
<1>5. a \notin DOMAIN h.majors
  BY <1>2, <1>4
<1>6. /\ DOMAIN M = DOMAIN h.majors \cup {a} /\ M[a] = new
      /\ \A b \in DOMAIN h.majors : M[b] = h.majors[b]
  BY <1>5
<1>7. M \in MajorMap
  <2>1. h.majors \in [DOMAIN h.majors -> [size : Nat, usage : Int]] /\ DOMAIN h.majors \subseteq Address
    BY <1>0, MajorMapType DEF HeapType
  <2>2. new \in [size : Nat, usage : Int]
    BY <1>1
  <2>3. DOMAIN M \subseteq Address /\ M \in [DOMAIN M -> [size : Nat, usage : Int]]
    BY <1>2, <2>1, <2>2
  <2> HIDE DEF M
  <2> QED
    BY <2>3, MajorMapType
<1>8. PICK bet \in {a, h.bestBet} : r = [x EXCEPT !.majors = M, !.bestBet = bet]
  <2> DEFINE bet == IF ~ (DOMAIN h.majors # {} /\ Avail(h, Max(DOMAIN h.majors)) < Need(n))
                       /\ new.size - new.usage > BestSize(h)
                    THEN a ELSE h.bestBet
  <2>1. r = [x EXCEPT !.majors = M, !.bestBet = bet]
    BY <1>3 DEF WithMajor, x, HeapType
  <2>2. bet \in {a, h.bestBet}
    OBVIOUS
  <2> HIDE DEF bet, r, M
  <2> QED
    BY <2>1, <2>2
<1> HIDE DEF M, r
<1>9. /\ r \in HeapType /\ r.majors = M /\ r.minors = h.minors /\ r.bestBet = bet
      /\ r.mode = h.mode /\ r.heapEnd = a + size
  <2>1. bet \in Address \cup {Null}
    BY <1>0, <1>2 DEF HeapType
  <2> QED
    BY <1>3, <1>7, <1>8, <2>1 DEF HeapType
<1>10. /\ MajorEnd(r, a) = a + size
       /\ \A b \in DOMAIN h.majors : MajorEnd(r, b) = MajorEnd(h, b) /\ MajorEnd(h, b) \in Nat
  <2>1. M[a].size = size
    BY <1>6
  <2>2. \A b \in DOMAIN h.majors : MajorEnd(h, b) \in Nat
    BY <1>0, FieldTypes
  <2> QED
    BY <1>6, <1>9, <2>1, <2>2 DEF MajorEnd
<1>11. MajorsApart(r)
  <2>1. ASSUME NEW b \in DOMAIN r.majors
        PROVE  MajorEnd(r, b) <= r.heapEnd
    BY <1>1, <1>2, <1>4, <1>6, <1>9, <1>10
  <2>2. ASSUME NEW b \in DOMAIN r.majors, NEW c \in DOMAIN r.majors, b < c
        PROVE  MajorEnd(r, b) <= c
    <3>1. CASE b = a
      BY <1>2, <1>4, <1>6, <1>9, <2>2, <3>1
    <3>2. CASE b # a /\ c = a
      BY <1>4, <1>6, <1>9, <1>10, <3>2
    <3>3. CASE b # a /\ c # a
      BY <1>0, <1>6, <1>9, <1>10, <2>2, <3>3 DEF MajorsApart
    <3> QED
      BY <3>1, <3>2, <3>3
  <2> QED
    BY <2>1, <2>2 DEF MajorsApart
<1>12. MinorsApart(r)
  BY <1>0, <1>6, <1>9, <1>10 DEF MinorsApart, MinorEnd
<1>13. BetLives(r)
  BY <1>0, <1>6, <1>8, <1>9 DEF BetLives
<1>14. \A m \in DOMAIN h.minors : h.minors[m].block # a
  BY <1>0, <1>5 DEF MinorsApart
<1>15. r.majors[a].size = size
  BY <1>6, <1>9
<1> HIDE DEF a, size, new
<1>16. Sound(r)
  BY <1>9, <1>11, <1>12, <1>13 DEF Sound
<1> QED
  BY <1>1, <1>6, <1>9, <1>14, <1>15, <1>16 DEF r, a
----------------------------------------------------------------------------
\* Allocate.

\* r is h with one more minor, at g, for a request of n bytes.
OneMore(h, r, g, n) ==
    /\ g \in Address \ DOMAIN h.minors
    /\ DOMAIN r.minors = DOMAIN h.minors \cup {g}
    /\ r.minors[g].req = n
    /\ \A m \in DOMAIN h.minors : r.minors[m] = h.minors[m]

LEMMA SearchedSound ==
    ASSUME NEW h, Sound(h), MajorsUsed(h), NEW n
    PROVE  LET s == [h EXCEPT !.bestBet = BestBetAfter(h, n)] IN
           /\ Sound(s) /\ MajorsUsed(s)
           /\ s.majors = h.majors /\ s.minors = h.minors /\ s.heapEnd = h.heapEnd /\ s.mode = h.mode
<1> DEFINE s == [h EXCEPT !.bestBet = BestBetAfter(h, n)]
<1>1. h \in HeapType /\ BetLives(h)
  BY DEF Sound
<1>2. BestBetAfter(h, n) \in DOMAIN h.majors \cup {h.bestBet}
  BY <1>1, BestBetIsMajor
<1>3. BestBetAfter(h, n) \in Address \cup {Null}
  BY <1>1, <1>2, FieldTypes DEF HeapType
<1>4. /\ s \in HeapType /\ s.majors = h.majors /\ s.minors = h.minors
      /\ s.heapEnd = h.heapEnd /\ s.mode = h.mode /\ s.bestBet = BestBetAfter(h, n)
  BY <1>1, <1>3 DEF HeapType
<1> HIDE DEF s
<1>5. h.heapEnd \in Nat /\ h.heapEnd <= h.heapEnd
  BY <1>1, FieldTypes
<1>6. MajorsApart(s) /\ MinorsApart(s)
  BY <1>4, <1>5, LayoutCarries
<1>7. BetLives(s)
  BY <1>1, <1>2, <1>4 DEF BetLives
<1>8. MajorsUsed(s)
  BY <1>4 DEF MajorsUsed, MinorsOf
<1> QED
  BY <1>4, <1>6, <1>7, <1>8 DEF Sound, s

\* A new minor leaves no major without one if only its own might have had none.
LEMMA WithMinorUsed ==
    ASSUME NEW h, Sound(h), NEW a \in DOMAIN h.majors, NEW n \in Requests, NEW g \in Gaps(h, a, n),
           \A b \in DOMAIN h.majors \ {a} : MinorsOf(h, b) # {}
    PROVE  /\ MajorsUsed(WithMinor(h, a, g, n))
           /\ OneMore(h, WithMinor(h, a, g, n), g, n)
           /\ WithMinor(h, a, g, n).mode = h.mode
<1> DEFINE r == WithMinor(h, a, g, n)
<1>1. h \in HeapType /\ g \in Address /\ g \notin DOMAIN h.minors
  BY GapClear DEF Sound
<1>2. /\ DOMAIN r.majors = DOMAIN h.majors
      /\ DOMAIN r.minors = DOMAIN h.minors \cup {g}
      /\ r.minors[g] = [block |-> a, size |-> Size(n), req |-> n]
      /\ \A m \in DOMAIN h.minors : r.minors[m] = h.minors[m]
      /\ r.mode = h.mode
  BY <1>1, WithMinorFields
<1> HIDE DEF r
<1>3. r.minors[g].block = a /\ r.minors[g].req = n
  BY <1>2
<1>4. MajorsUsed(r)
  <2> SUFFICES ASSUME NEW b \in DOMAIN r.majors
               PROVE  MinorsOf(r, b) # {}
    BY DEF MajorsUsed
  <2>1. CASE b = a
    BY <1>2, <1>3, <2>1 DEF MinorsOf
  <2>2. CASE b # a
    BY <1>2, <2>2 DEF MinorsOf
  <2> QED
    BY <2>1, <2>2
<1> QED
  BY <1>1, <1>2, <1>3, <1>4 DEF OneMore, r

\* What the search, got pages and a new minor make of the heap, step by step.
LEMMA AllocatedSteps ==
    ASSUME NEW h, Sound(h), MajorsUsed(h), NEW n \in Requests, NEW got \in Granted(h, n)
    PROVE  LET s == [h EXCEPT !.bestBet = BestBetAfter(h, n)]
               r == Allocated(h, n, got)
               e == h.heapEnd
           IN \/ /\ Roomy(h, n) # {}
                 /\ \E a \in DOMAIN s.majors : \E g \in Gaps(s, a, n) : r = WithMinor(s, a, g, n)
              \/ /\ Roomy(h, n) = {} /\ got = PagesFor(n) /\ ~TooLarge(s, n)
                 /\ e \in DOMAIN WithMajor(s, n).majors
                 /\ e + MajorSize \in Gaps(WithMajor(s, n), e, n)
                 /\ r = WithMinor(WithMajor(s, n), e, e + MajorSize, n)
              \/ /\ Roomy(h, n) = {} /\ got # PagesFor(n)
                 /\ got \in Nat /\ s.heapEnd + got * PageSize <= HeapMax
                 /\ r = Extended(s, got)
<1> DEFINE s == [h EXCEPT !.bestBet = BestBetAfter(h, n)]
           a == FirstMet(h, n, Roomy(h, n))
           g == Min(Gaps(h, a, n))
           r == Allocated(h, n, got)
           e == h.heapEnd
<1>0. h \in HeapType
  BY DEF Sound
<1>1. /\ Sound(s) /\ MajorsUsed(s)
      /\ s.majors = h.majors /\ s.minors = h.minors /\ s.heapEnd = h.heapEnd /\ s.mode = h.mode
  BY SearchedSound
<1>2. r = IF Roomy(h, n) # {} THEN WithMinor(s, a, g, n)
          ELSE IF got = PagesFor(n) THEN WithMinor(WithMajor(s, n), e, e + MajorSize, n)
          ELSE Extended(s, got)
  BY DEF Allocated
<1> HIDE DEF s, a, g, r
<1>3. PagesFor(n) \in Nat \ {0} /\ PagesFor(n) * PageSize \in Nat /\ PageSize \in Nat /\ HeapMax \in Nat
  BY PagesCorrect, NeedType, HeapAssumption
<1>4. CASE Roomy(h, n) # {}
  <2>1. a \in Roomy(h, n)
    BY <1>0, <1>4, FirstMetIsElement DEF Roomy, a
  <2>2. a \in DOMAIN h.majors /\ Gaps(h, a, n) # {}
    BY <2>1 DEF Roomy, HasRoom
  <2>3. Gaps(h, a, n) \in SUBSET Nat
    BY GapClear, <2>2, AddressType
  <2>4. g \in Gaps(h, a, n)
    BY <2>2, <2>3, MinIsElement DEF g
  <2>5. g \in Gaps(s, a, n)
    BY <1>1, <2>4 DEF Gaps, Gap, MinorsOf, MinorEnd, MajorEnd
  <2> QED
    BY <1>1, <1>2, <1>4, <2>2, <2>5 DEF s, r
<1>5. CASE Roomy(h, n) = {} /\ got = PagesFor(n)
  <2> DEFINE x == WithMajor(s, n)
  <2>1. ~TooLarge(s, n)
    <3>1. PagesFor(n) \in Nat \ {0}
      BY PagesCorrect, NeedType
    <3>2. ~TooLarge(h, n)
      BY <1>5, <3>1 DEF Granted
    <3> QED
      BY <1>1, <3>2 DEF TooLarge
  <2>2. /\ Sound(x) /\ x.minors = h.minors
        /\ DOMAIN x.majors = DOMAIN h.majors \cup {e}
        /\ MajorSize + Need(n) <= x.majors[e].size
        /\ \A m \in DOMAIN h.minors : h.minors[m].block # e
    BY <1>1, <2>1, WithMajorSound
  <2> HIDE DEF x
  <2>3. e \in Nat /\ e \in DOMAIN x.majors /\ x.majors[e].size \in Nat
    BY <2>2, FieldTypes DEF Sound
  <2>4. MinorsOf(x, e) = {}
    BY <2>2 DEF MinorsOf
  <2>5. e + MajorSize \in Gaps(x, e, n)
    <3>1. MajorSize \in Nat /\ Need(n) \in Nat
      BY NeedType, HeapAssumption
    <3>2. e + MajorSize + Need(n) <= e + x.majors[e].size
      BY <2>2, <2>3, <3>1
    <3> QED
      BY <2>4, <3>2 DEF Gaps, Gap, MajorEnd
  <2> QED
    BY <1>2, <1>5, <2>1, <2>3, <2>5 DEF s, r, x
<1>6. CASE Roomy(h, n) = {} /\ got # PagesFor(n)
  <2>1. s.heapEnd \in Nat /\ s.heapEnd <= HeapMax
    BY <1>1, FieldTypes DEF Sound
  <2>2. got \in Nat /\ got * PageSize \in Nat /\ s.heapEnd + got * PageSize <= HeapMax
    <3>1. CASE TooLarge(h, n)
      <4>1. got = 0
        BY <3>1 DEF Granted
      <4> QED
        BY <1>3, <2>1, <4>1
    <3>2. CASE ~TooLarge(h, n)
      <4>1. got \in 0 .. PagesFor(n)
        BY <1>6, <3>2 DEF Granted
      <4>2. got \in Nat /\ got * PageSize \in Nat /\ got * PageSize <= PagesFor(n) * PageSize
        BY <1>3, <4>1, ProductMonotone
      <4>3. s.heapEnd + PagesFor(n) * PageSize <= HeapMax
        BY <1>1, <1>3, <2>1, <3>2 DEF TooLarge
      <4> QED
        BY <1>3, <2>1, <4>2, <4>3
    <3> QED
      BY <3>1, <3>2
  <2> QED
    BY <1>2, <1>6, <2>2 DEF s, r
<1> QED
  BY <1>4, <1>5, <1>6

LEMMA AllocatedSound ==
    ASSUME NEW h, Sound(h), MajorsUsed(h), NEW n \in Requests, NEW got \in Granted(h, n)
    PROVE  LET r == Allocated(h, n, got) IN
           /\ Sound(r) /\ MajorsUsed(r) /\ r.mode = h.mode
           /\ Succeeds(h, n, got) => \E g \in Address : OneMore(h, r, g, n)
           /\ ~Succeeds(h, n, got) => r.minors = h.minors
<1> DEFINE s == [h EXCEPT !.bestBet = BestBetAfter(h, n)]
           r == Allocated(h, n, got)
           e == h.heapEnd
           x == WithMajor(s, n)
<1>1. /\ Sound(s) /\ MajorsUsed(s)
      /\ s.majors = h.majors /\ s.minors = h.minors /\ s.heapEnd = h.heapEnd /\ s.mode = h.mode
  BY SearchedSound
<1>2. \/ /\ Roomy(h, n) # {}
         /\ \E a \in DOMAIN s.majors : \E g \in Gaps(s, a, n) : r = WithMinor(s, a, g, n)
      \/ /\ Roomy(h, n) = {} /\ got = PagesFor(n) /\ ~TooLarge(s, n)
         /\ e \in DOMAIN x.majors /\ e + MajorSize \in Gaps(x, e, n)
         /\ r = WithMinor(x, e, e + MajorSize, n)
      \/ /\ Roomy(h, n) = {} /\ got # PagesFor(n)
         /\ got \in Nat /\ s.heapEnd + got * PageSize <= HeapMax
         /\ r = Extended(s, got)
  BY AllocatedSteps, Zenon
\* what a new minor in a record with the same minors gives
<1>3. ASSUME NEW y, Sound(y), y.minors = h.minors, y.mode = h.mode,
             NEW a \in DOMAIN y.majors, NEW g \in Gaps(y, a, n), r = WithMinor(y, a, g, n),
             \A b \in DOMAIN y.majors \ {a} : MinorsOf(y, b) # {}
      PROVE  Sound(r) /\ MajorsUsed(r) /\ r.mode = h.mode /\ \E f \in Address : OneMore(h, r, f, n)
  <2>1. Sound(r) /\ MajorsUsed(r) /\ OneMore(y, r, g, n) /\ r.mode = h.mode
    BY <1>3, WithMinorSound, WithMinorUsed
  <2>2. OneMore(h, r, g, n) /\ g \in Address
    BY <1>3, <2>1 DEF OneMore
  <2> QED
    BY <2>1, <2>2
<1> HIDE DEF s, r, e, x
<1>4. CASE /\ Roomy(h, n) # {}
           /\ \E a \in DOMAIN s.majors : \E g \in Gaps(s, a, n) : r = WithMinor(s, a, g, n)
  <2>1. PICK a \in DOMAIN s.majors : \E g \in Gaps(s, a, n) : r = WithMinor(s, a, g, n)
    BY <1>4
  <2>2. \A b \in DOMAIN s.majors \ {a} : MinorsOf(s, b) # {}
    BY <1>1 DEF MajorsUsed
  <2>3. Sound(r) /\ MajorsUsed(r) /\ r.mode = h.mode /\ \E f \in Address : OneMore(h, r, f, n)
    BY <1>1, <1>3, <2>1, <2>2
  <2> QED
    BY <1>4, <2>3 DEF Succeeds, r
<1>5. CASE /\ Roomy(h, n) = {} /\ got = PagesFor(n) /\ ~TooLarge(s, n)
           /\ e \in DOMAIN x.majors /\ e + MajorSize \in Gaps(x, e, n)
           /\ r = WithMinor(x, e, e + MajorSize, n)
  <2>1. /\ Sound(x) /\ x.minors = h.minors /\ x.mode = h.mode
        /\ DOMAIN x.majors = DOMAIN h.majors \cup {e}
    BY <1>1, <1>5, WithMajorSound DEF x, e
  <2>2. \A b \in DOMAIN x.majors \ {e} : MinorsOf(x, b) # {}
    BY <1>1, <2>1 DEF MajorsUsed, MinorsOf
  <2>3. Sound(r) /\ MajorsUsed(r) /\ r.mode = h.mode /\ \E f \in Address : OneMore(h, r, f, n)
    BY <1>3, <1>5, <2>1, <2>2
  <2> QED
    BY <1>5, <2>3 DEF Succeeds, r
<1>6. CASE /\ Roomy(h, n) = {} /\ got # PagesFor(n)
           /\ got \in Nat /\ s.heapEnd + got * PageSize <= HeapMax
           /\ r = Extended(s, got)
  <2>1. /\ r \in HeapType /\ r.majors = h.majors /\ r.minors = h.minors
        /\ r.bestBet = s.bestBet /\ r.mode = h.mode
        /\ got * PageSize \in Nat /\ r.heapEnd = s.heapEnd + got * PageSize
    BY <1>1, <1>6, ExtendedFields DEF Sound
  <2>2. MajorsApart(r) /\ MinorsApart(r)
    <3>1. s.heapEnd \in Nat
      BY <1>1, FieldTypes DEF Sound
    <3>2. r.heapEnd \in Nat /\ s.heapEnd <= r.heapEnd
      BY <2>1, <3>1
    <3> QED
      BY <1>1, <2>1, <3>2, LayoutCarries
  <2>3. BetLives(r) /\ MajorsUsed(r)
    BY <1>1, <2>1 DEF Sound, BetLives, MajorsUsed, MinorsOf
  <2> QED
    BY <1>6, <2>1, <2>2, <2>3 DEF Succeeds, Sound, r
<1> QED
  BY <1>2, <1>4, <1>5, <1>6
----------------------------------------------------------------------------
\* Free.
LEMMA WithoutMinorSound ==
    ASSUME NEW h, Sound(h), NEW m \in DOMAIN h.minors
    PROVE  LET r == WithoutMinor(h, m) IN
           /\ Sound(r) /\ r.mode = h.mode
           /\ DOMAIN r.majors = DOMAIN h.majors
           /\ DOMAIN r.minors = DOMAIN h.minors \ {m}
           /\ \A k \in DOMAIN r.minors : r.minors[k] = h.minors[k]
<1> DEFINE a == h.minors[m].block
           d == h.minors[m].size + MinorSize
           M == [h.majors EXCEPT ![a].usage = @ - d]
           N == Restrict(h.minors, DOMAIN h.minors \ {m})
           i == h.inuse - h.minors[m].size
           r == WithoutMinor(h, m)
<1>0. h \in HeapType /\ MajorsApart(h) /\ MinorsApart(h) /\ BetLives(h)
  BY DEF Sound
<1>1. r = [h EXCEPT !.minors = N, !.majors = M, !.inuse = i]
  BY <1>0 DEF WithoutMinor, HeapType
<1>2. /\ h.majors \in [DOMAIN h.majors -> [size : Nat, usage : Int]]
      /\ h.minors \in [DOMAIN h.minors -> [block : Address, size : Nat, req : Requests]]
      /\ DOMAIN h.majors \subseteq Address /\ DOMAIN h.minors \subseteq Address
  BY <1>0, MajorMapType, MinorMapType DEF HeapType
<1>3. h.minors[m].size \in Nat /\ d \in Nat /\ h.inuse \in Int /\ a \in DOMAIN h.majors
  BY <1>0, FieldTypes, HeapAssumption DEF MinorsApart
<1> HIDE DEF d, a
<1>4. /\ M \in [DOMAIN h.majors -> [size : Nat, usage : Int]]
      /\ \A b \in DOMAIN h.majors : M[b].size = h.majors[b].size
  BY <1>2, <1>3
<1>5. M \in MajorMap /\ DOMAIN M = DOMAIN h.majors
  BY <1>2, <1>4, MajorMapType
<1>6. /\ DOMAIN N = DOMAIN h.minors \ {m}
      /\ \A k \in DOMAIN N : N[k] = h.minors[k]
      /\ N \in [DOMAIN N -> [block : Address, size : Nat, req : Requests]]
  BY <1>2 DEF Restrict
<1> HIDE DEF N, M
<1>7. N \in MinorMap
  BY <1>2, <1>6, MinorMapType
<1>8. i \in Int
  BY <1>3
<1> HIDE DEF i, r
<1>9. /\ r \in HeapType /\ r.majors = M /\ r.minors = N
      /\ r.bestBet = h.bestBet /\ r.heapEnd = h.heapEnd /\ r.mode = h.mode
  BY <1>0, <1>1, <1>5, <1>7, <1>8 DEF HeapType
<1>10. \A b \in DOMAIN h.majors : MajorEnd(r, b) = MajorEnd(h, b)
  BY <1>4, <1>9 DEF MajorEnd
<1>11. \A k \in DOMAIN r.minors : MinorEnd(r, k) = MinorEnd(h, k)
  BY <1>6, <1>9 DEF MinorEnd
<1>12. MajorsApart(r)
  BY <1>0, <1>5, <1>9, <1>10 DEF MajorsApart
<1>13. MinorsApart(r)
  BY <1>0, <1>5, <1>6, <1>9, <1>10, <1>11 DEF MinorsApart
<1>14. BetLives(r)
  BY <1>0, <1>5, <1>9 DEF BetLives
<1> QED
  BY <1>5, <1>6, <1>9, <1>12, <1>13, <1>14 DEF Sound, r

LEMMA WithoutMajorSound ==
    ASSUME NEW h, Sound(h), NEW a \in DOMAIN h.majors, MinorsOf(h, a) = {},
           \A b \in DOMAIN h.majors \ {a} : MinorsOf(h, b) # {}
    PROVE  LET r == WithoutMajor(h, a) IN
           Sound(r) /\ MajorsUsed(r) /\ r.minors = h.minors /\ r.mode = h.mode
<1> DEFINE M == Restrict(h.majors, DOMAIN h.majors \ {a})
           bet == IF h.bestBet = a THEN Null ELSE h.bestBet
           pages == {i \in h.mapped : i <= a \/ i > MajorEnd(h, a)}
           e == IF MajorEnd(h, a) = h.heapEnd THEN a ELSE h.heapEnd
           r == WithoutMajor(h, a)
<1>0. h \in HeapType /\ MajorsApart(h) /\ MinorsApart(h) /\ BetLives(h)
  BY DEF Sound
<1>1. r = [h EXCEPT !.majors = M, !.bestBet = bet, !.mapped = pages, !.heapEnd = e]
  BY <1>0 DEF WithoutMajor, HeapType
<1>2. /\ h.majors \in [DOMAIN h.majors -> [size : Nat, usage : Int]]
      /\ DOMAIN h.majors \subseteq Address /\ h.heapEnd \in Address
  BY <1>0, MajorMapType DEF HeapType
<1>3. /\ DOMAIN M = DOMAIN h.majors \ {a}
      /\ \A b \in DOMAIN M : M[b] = h.majors[b]
      /\ M \in [DOMAIN M -> [size : Nat, usage : Int]]
  BY <1>2 DEF Restrict
<1> HIDE DEF M
<1>4. M \in MajorMap
  BY <1>2, <1>3, MajorMapType
<1>5. bet \in Address \cup {Null} /\ pages \subseteq Address /\ e \in Address
  BY <1>0, <1>2 DEF HeapType
<1> HIDE DEF pages, r
<1>6. /\ r \in HeapType /\ r.majors = M /\ r.minors = h.minors
      /\ r.bestBet = bet /\ r.heapEnd = e /\ r.mode = h.mode
  BY <1>0, <1>1, <1>4, <1>5 DEF HeapType
<1>7. \A b \in DOMAIN M : MajorEnd(r, b) = MajorEnd(h, b)
  BY <1>3, <1>6 DEF MajorEnd
<1>8. ASSUME NEW b \in DOMAIN M
      PROVE  MajorEnd(h, b) <= e
  <2>0. /\ b \in DOMAIN h.majors /\ b # a /\ b \in Nat /\ a \in Nat /\ h.heapEnd \in Nat
        /\ MajorEnd(h, b) \in Nat /\ MajorEnd(h, a) \in Nat
    BY <1>0, <1>3, FieldTypes
  <2>1. MajorEnd(h, b) <= h.heapEnd /\ (a < b => MajorEnd(h, a) <= b) /\ (b < a => MajorEnd(h, b) <= a)
    BY <1>0, <2>0 DEF MajorsApart
  <2>2. b < MajorEnd(h, b)
    BY <2>0, UsedMajorExtent
  <2> QED
    BY <2>0, <2>1, <2>2
<1>9. MajorsApart(r)
  BY <1>0, <1>3, <1>6, <1>7, <1>8 DEF MajorsApart
<1>10. MinorsApart(r)
  <2>1. \A k \in DOMAIN h.minors : h.minors[k].block \in DOMAIN M
    BY <1>0, <1>3 DEF MinorsApart, MinorsOf
  <2> QED
    BY <1>0, <1>6, <1>7, <2>1 DEF MinorsApart, MinorEnd
<1>11. BetLives(r)
  BY <1>0, <1>3, <1>6 DEF BetLives
<1>12. MajorsUsed(r)
  BY <1>3, <1>6 DEF MajorsUsed, MinorsOf
<1> QED
  BY <1>6, <1>9, <1>10, <1>11, <1>12 DEF Sound, r

LEMMA FreedSound ==
    ASSUME NEW h, Sound(h), MajorsUsed(h), NEW m \in DOMAIN h.minors
    PROVE  LET r == Freed(h, m) IN
           /\ Sound(r) /\ MajorsUsed(r) /\ r.mode = h.mode
           /\ DOMAIN r.minors = DOMAIN h.minors \ {m}
           /\ \A k \in DOMAIN r.minors : r.minors[k] = h.minors[k]
<1> DEFINE a == h.minors[m].block
           w == WithoutMinor(h, m)
           r == Freed(h, m)
<1>1. /\ Sound(w) /\ w.mode = h.mode
      /\ DOMAIN w.majors = DOMAIN h.majors
      /\ DOMAIN w.minors = DOMAIN h.minors \ {m}
      /\ \A k \in DOMAIN w.minors : w.minors[k] = h.minors[k]
  BY WithoutMinorSound
<1>2. a \in DOMAIN w.majors
  BY <1>1 DEF Sound, MinorsApart
<1>3. ASSUME NEW b \in DOMAIN w.majors \ {a}
      PROVE  MinorsOf(w, b) # {}
  <2>1. PICK k \in DOMAIN h.minors : h.minors[k].block = b
    BY <1>1 DEF MajorsUsed, MinorsOf
  <2> QED
    BY <1>1, <2>1 DEF MinorsOf
<1>4. r = IF MinorsOf(w, a) = {} THEN WithoutMajor(w, a)
          ELSE [w EXCEPT !.bestBet = IF @ # Null /\ Avail(w, a) > Avail(w, @) THEN a ELSE @]
  BY DEF Freed
<1> HIDE DEF w, a, r
<1>5. CASE MinorsOf(w, a) = {}
  <2>1. Sound(r) /\ MajorsUsed(r) /\ r.minors = w.minors /\ r.mode = w.mode
    BY <1>1, <1>2, <1>3, <1>4, <1>5, WithoutMajorSound
  <2> QED
    BY <1>1, <2>1 DEF r
<1>6. CASE MinorsOf(w, a) # {}
  <2> DEFINE bet == IF w.bestBet # Null /\ Avail(w, a) > Avail(w, w.bestBet) THEN a ELSE w.bestBet
  <2>0. w \in HeapType /\ BetLives(w)
    BY <1>1 DEF Sound
  <2>1. r = [w EXCEPT !.bestBet = bet]
    BY <1>4, <1>6, <2>0 DEF HeapType
  <2>2. bet \in {a, w.bestBet}
    OBVIOUS
  <2> HIDE DEF bet
  <2>3. bet \in Address \cup {Null}
    BY <1>2, <2>0, <2>2, FieldTypes DEF HeapType
  <2>4. /\ r \in HeapType /\ r.majors = w.majors /\ r.minors = w.minors
        /\ r.bestBet = bet /\ r.heapEnd = w.heapEnd /\ r.mode = w.mode
    BY <2>0, <2>1, <2>3 DEF HeapType
  <2>5. MajorsApart(r) /\ MinorsApart(r)
    <3>1. w.heapEnd \in Nat /\ w.heapEnd <= w.heapEnd
      BY <2>0, FieldTypes
    <3> QED
      BY <1>1, <2>4, <3>1, LayoutCarries
  <2>6. BetLives(r)
    BY <1>2, <2>0, <2>2, <2>4 DEF BetLives
  <2>7. MajorsUsed(r)
    BY <1>3, <1>6, <2>4 DEF MajorsUsed, MinorsOf
  <2> QED
    BY <1>1, <2>4, <2>5, <2>6, <2>7 DEF Sound, r
<1> QED
  BY <1>5, <1>6

\* Reallocate to a smaller size, and a call that faults.
LEMMA ShrunkSound ==
    ASSUME NEW h, Sound(h), MajorsUsed(h), NEW m \in DOMAIN h.minors,
           NEW n \in Requests, n <= h.minors[m].req
    PROVE  LET r == [h EXCEPT !.minors[m].req = n] IN
           /\ Sound(r) /\ MajorsUsed(r)
           /\ DOMAIN r.minors = DOMAIN h.minors /\ r.minors[m].req = n
           /\ \A k \in DOMAIN h.minors \ {m} : r.minors[k] = h.minors[k]
<1> DEFINE N == [h.minors EXCEPT ![m].req = n]
           r == [h EXCEPT !.minors = N]
<1>0. h \in HeapType /\ MajorsApart(h) /\ MinorsApart(h) /\ BetLives(h)
  BY DEF Sound
<1>1. r = [h EXCEPT !.minors[m].req = n]
  BY <1>0 DEF HeapType
<1>2. /\ h.minors \in [DOMAIN h.minors -> [block : Address, size : Nat, req : Requests]]
      /\ DOMAIN h.minors \subseteq Address
  BY <1>0, MinorMapType DEF HeapType
<1>3. /\ N \in [DOMAIN h.minors -> [block : Address, size : Nat, req : Requests]]
      /\ DOMAIN N = DOMAIN h.minors /\ N[m].req = n
      /\ \A k \in DOMAIN h.minors : N[k].block = h.minors[k].block /\ N[k].size = h.minors[k].size
      /\ \A k \in DOMAIN h.minors \ {m} : N[k] = h.minors[k]
  BY <1>2
<1> HIDE DEF N
<1>4. N \in MinorMap
  BY <1>2, <1>3, MinorMapType
<1>5. /\ r \in HeapType /\ r.majors = h.majors /\ r.minors = N
      /\ r.bestBet = h.bestBet /\ r.heapEnd = h.heapEnd
  BY <1>0, <1>4 DEF HeapType
<1> HIDE DEF r
<1>6. MajorsApart(r) /\ BetLives(r)
  BY <1>0, <1>5 DEF MajorsApart, MajorEnd, BetLives
<1>7. \A k \in DOMAIN h.minors : Size(N[k].req) <= h.minors[k].size
  <2>1. Size(n) <= h.minors[m].size
    <3>1. /\ n \in Nat /\ h.minors[m].req \in Nat /\ h.minors[m].size \in Nat
          /\ Alignment \in Nat /\ AlignInfo \in Nat /\ Size(h.minors[m].req) <= h.minors[m].size
      BY <1>0, FieldTypes, HeapAssumption DEF MinorsApart
    <3> QED
      BY <3>1 DEF Size
  <2> QED
    BY <1>0, <1>3, <2>1 DEF MinorsApart
<1>8. MinorsApart(r)
  BY <1>0, <1>3, <1>5, <1>7 DEF MinorsApart, MinorEnd, MajorEnd
<1>9. MajorsUsed(r)
  BY <1>3, <1>5 DEF MajorsUsed, MinorsOf
<1> QED
  BY <1>1, <1>3, <1>5, <1>6, <1>8, <1>9 DEF Sound

LEMMA FaultedSound ==
    ASSUME NEW h, Sound(h), MajorsUsed(h)
    PROVE  Sound(Faulted(h)) /\ MajorsUsed(Faulted(h)) /\ Faulted(h).minors = h.minors
<1>0. h \in HeapType
  BY DEF Sound
<1>1. /\ Faulted(h) \in HeapType /\ Faulted(h).majors = h.majors /\ Faulted(h).minors = h.minors
      /\ Faulted(h).bestBet = h.bestBet /\ Faulted(h).heapEnd = h.heapEnd
  BY <1>0 DEF Faulted, HeapType
<1> HIDE DEF Faulted
<1>2. h.heapEnd \in Nat /\ h.heapEnd <= h.heapEnd
  BY <1>0, FieldTypes
<1>3. MajorsApart(Faulted(h)) /\ MinorsApart(Faulted(h))
  BY <1>1, <1>2, LayoutCarries
<1> QED
  BY <1>1, <1>3 DEF Sound, BetLives, MajorsUsed, MinorsOf
----------------------------------------------------------------------------
\* The inductive invariant: the heap is sound and keeps no empty major.
IInv == Sound(heap) /\ MajorsUsed(heap)

LEMMA EmptyMaps ==
    ASSUME NEW M, DOMAIN M = {}, M = [x \in {} |-> Null]
    PROVE  M \in MajorMap /\ M \in MinorMap
  BY MajorMapType, MinorMapType

\* A heap without majors and minors.
LEMMA EmptySound ==
    ASSUME NEW h \in HeapType, DOMAIN h.majors = {}, DOMAIN h.minors = {}, h.bestBet = Null
    PROVE  Sound(h) /\ MajorsUsed(h)
  BY DEF Sound, MajorsUsed, MajorsApart, MinorsApart, BetLives

LEMMA InitIInv == Init => IInv
<1> SUFFICES ASSUME Init PROVE IInv
  OBVIOUS
<1>1. heap.majors = [a \in {} |-> Null] /\ heap.minors = [a \in {} |-> Null] /\ heap.bestBet = Null
  BY DEF Init
<1>2. [a \in {} |-> Null] \in MajorMap /\ [a \in {} |-> Null] \in MinorMap
  BY EmptyMaps
<1>3. heap \in HeapType
  BY <1>2, AddressType DEF Init, HeapType
<1> QED
  BY <1>1, <1>3, EmptySound DEF IInv

LEMMA MoveKeepsIInv ==
    ASSUME IInv, NEW m \in DOMAIN heap.minors, NEW n \in Requests, Move(m, n)
    PROVE  IInv'
<1>1. PICK got \in Granted(heap, n) :
          heap' = IF Succeeds(heap, n, got) /\ ~FreeFaults(Allocated(heap, n, got), m)
                  THEN Freed(Allocated(heap, n, got), m)
                  ELSE Faulted(heap)
  BY DEF Move
<1>2. CASE Succeeds(heap, n, got) /\ ~FreeFaults(Allocated(heap, n, got), m)
  <2> DEFINE r == Allocated(heap, n, got)
  <2>1. Sound(r) /\ MajorsUsed(r) /\ \E g \in Address : OneMore(heap, r, g, n)
    BY <1>2, AllocatedSound DEF IInv
  <2>2. m \in DOMAIN r.minors
    BY <2>1 DEF OneMore
  <2>3. heap' = Freed(r, m)
    BY <1>1, <1>2
  <2> HIDE DEF r
  <2> QED
    BY <2>1, <2>2, <2>3, FreedSound DEF IInv
<1>3. CASE ~ (Succeeds(heap, n, got) /\ ~FreeFaults(Allocated(heap, n, got), m))
  BY <1>1, <1>3, FaultedSound DEF IInv
<1> QED
  BY <1>2, <1>3

LEMMA NextIInv == IInv /\ [Next]_heap => IInv'
<1> SUFFICES ASSUME IInv, [Next]_heap
             PROVE  IInv'
  OBVIOUS
<1>1. ASSUME NEW n \in Requests, Allocate(n)
      PROVE  IInv'
  <2>1. PICK got \in Granted(heap, n) : heap' = Allocated(heap, n, got)
    BY <1>1 DEF Allocate
  <2> QED
    BY <2>1, AllocatedSound DEF IInv
<1>2. ASSUME NEW m \in DOMAIN heap.minors, Free(m)
      PROVE  IInv'
  <2>1. heap' = Freed(heap, m)
    BY <1>2 DEF Free
  <2> QED
    BY <2>1, FreedSound DEF IInv
<1>3. ASSUME NEW m \in DOMAIN heap.minors, NEW n \in Requests, Shrink(m, n)
      PROVE  IInv'
  <2>1. heap' = [heap EXCEPT !.minors[m].req = n] /\ n <= heap.minors[m].req
    BY <1>3 DEF Shrink
  <2> QED
    BY <2>1, ShrunkSound DEF IInv
<1>4. ASSUME NEW m \in DOMAIN heap.minors, NEW n \in Requests, Move(m, n)
      PROVE  IInv'
  BY <1>4, MoveKeepsIInv
<1>5. CASE Fault
  <2>1. heap' = Faulted(heap)
    BY <1>5 DEF Fault
  <2> QED
    BY <2>1, FaultedSound DEF IInv
<1>6. CASE Destroy
  <2> DEFINE none == [a \in {} |-> Null]
             pages == {i \in heap.mapped : i >= heap.heapEnd}
  <2>0. heap \in HeapType
    BY DEF IInv, Sound
  <2>1. heap' = [heap EXCEPT !.majors = none, !.minors = none, !.bestBet = Null,
                             !.mapped = pages, !.mode = "destroyed"]
    BY <1>6, <2>0 DEF Destroy, HeapType
  <2>2. none \in MajorMap /\ none \in MinorMap /\ DOMAIN none = {}
    BY EmptyMaps
  <2>3. pages \subseteq Address
    BY <2>0 DEF HeapType
  <2> HIDE DEF none, pages
  <2>4. /\ heap' \in HeapType /\ heap'.majors = none /\ heap'.minors = none
        /\ heap'.bestBet = Null
    BY <2>0, <2>1, <2>2, <2>3 DEF HeapType
  <2>5. Sound(heap') /\ MajorsUsed(heap')
    BY <2>2, <2>4, EmptySound
  <2> QED
    BY <2>5 DEF IInv
<1>7. CASE UNCHANGED heap
  BY <1>7 DEF IInv
<1> QED
  BY <1>1, <1>2, <1>3, <1>4, <1>5, <1>6, <1>7 DEF Next

\* The inductive invariant holds in every state.
THEOREM SoundAlways == Spec => []IInv
  BY InitIInv, NextIInv, PTL DEF Spec

\* The heap record has its type in every state.
THEOREM TypeCorrect == Spec => []TypeOK
<1>1. IInv => TypeOK
  <2> SUFFICES ASSUME IInv PROVE TypeOK
    OBVIOUS
  <2>1. heap \in HeapType
    BY DEF IInv, Sound
  <2>2. heap.majors \in MajorMap /\ heap.minors \in MinorMap
    BY <2>1 DEF HeapType
  <2>3. /\ DOMAIN heap.majors \subseteq Address
        /\ heap.majors \in [DOMAIN heap.majors -> [size : Nat, usage : Int]]
        /\ DOMAIN heap.minors \subseteq Address
        /\ heap.minors \in [DOMAIN heap.minors -> [block : Address, size : Nat, req : Requests]]
    BY <2>2, MajorMapType, MinorMapType
  <2> QED
    BY <2>1, <2>3 DEF TypeOK, HeapType
<1> QED
  BY <1>1, SoundAlways, PTL

\* Whatever is allocated, freed and reallocated, in any order, majors and
\* minors never overlap and minors never leave their major.
THEOREM BlocksApartCorrect == Spec => []BlocksApart
<1>1. IInv => BlocksApart
  BY DEF IInv, Sound, MajorsApart, MinorsApart, BlocksApart
<1> QED
  BY <1>1, SoundAlways, PTL

\* l_bestBet never outlives its major, and no empty major is kept.
THEOREM NoDanglingCorrect == Spec => []NoDangling
<1>1. IInv => NoDangling
  BY DEF IInv, Sound, BetLives, MajorsUsed, NoDangling
<1> QED
  BY <1>1, SoundAlways, PTL
----------------------------------------------------------------------------

\* The refinement.  A minor of a heap is the block that callers know it as.
BlockOf(h, m) == [start |-> Pointer(m), size |-> h.minors[m].req]
BlocksOf(h) == {BlockOf(h, m) : m \in DOMAIN h.minors}

\* A block is aligned and lies inside its minor, which lies inside the heap.
LEMMA BlockInside ==
    ASSUME NEW h, Sound(h), NEW m \in DOMAIN h.minors
    PROVE  /\ Pointer(m) \in HeapStart .. HeapMax /\ m < Pointer(m)
           /\ Pointer(m) + h.minors[m].req <= MinorEnd(h, m)
           /\ Pointer(m) + h.minors[m].req <= HeapMax
           /\ Pointer(m) % Alignment = 0
<1> DEFINE a == h.minors[m].block
           n == h.minors[m].req
           p == Pointer(m)
<1>0. h \in HeapType /\ MajorsApart(h) /\ MinorsApart(h)
  BY DEF Sound
<1>1. /\ MinorSize \in Nat \ {0} /\ AlignInfo \in Nat \ {0} /\ Alignment \in Nat \ {0}
      /\ HeapStart \in Nat /\ HeapMax \in Nat /\ Requests \subseteq Nat
  BY HeapAssumption
<1>2. /\ m \in Nat /\ HeapStart <= m /\ h.minors[m].size \in Nat /\ n \in Nat
      /\ MinorEnd(h, m) \in Nat /\ h.heapEnd \in Nat /\ h.heapEnd <= HeapMax
  <2>1. m \in Address /\ n \in Requests
    BY <1>0, FieldTypes
  <2>2. m \in Nat /\ HeapStart <= m /\ n \in Nat
    BY <1>1, <2>1 DEF Address
  <2> QED
    BY <1>0, <2>2, FieldTypes
<1>3. /\ a \in DOMAIN h.majors /\ MinorEnd(h, m) <= MajorEnd(h, a) /\ Size(n) <= h.minors[m].size
      /\ MajorEnd(h, a) <= h.heapEnd /\ MajorEnd(h, a) \in Nat
  BY <1>0, FieldTypes DEF MinorsApart, MajorsApart
<1>4. /\ p \in Nat /\ m + MinorSize + AlignInfo <= p
      /\ p < m + MinorSize + AlignInfo + Alignment /\ p % Alignment = 0
  BY <1>2, PointerCorrect
<1>5. MinorEnd(h, m) = m + MinorSize + h.minors[m].size /\ Size(n) = n + Alignment + AlignInfo
  BY DEF MinorEnd, Size
<1> HIDE DEF a, n, p
<1>6. p + n <= MinorEnd(h, m) /\ m < p
  BY <1>1, <1>2, <1>3, <1>4, <1>5
<1>7. p + n <= HeapMax
  <2> DEFINE e == MinorEnd(h, m)
             f == MajorEnd(h, a)
  <2>1. /\ e \in Nat /\ f \in Nat /\ p + n <= e /\ e <= f /\ f <= h.heapEnd
        /\ h.heapEnd \in Nat /\ h.heapEnd <= HeapMax
    BY <1>2, <1>3, <1>6 DEF a
  <2> HIDE DEF e, f
  <2> QED
    BY <1>1, <1>2, <1>4, <2>1
<1>8. p \in HeapStart .. HeapMax
  BY <1>1, <1>2, <1>4, <1>6, <1>7
<1> QED
  BY <1>4, <1>6, <1>7, <1>8 DEF n, p

LEMMA BlockTypes ==
    ASSUME NEW h, Sound(h), NEW m \in DOMAIN h.minors
    PROVE  BlockOf(h, m) \in Abstract!Block
<1>1. h.minors[m].req \in Requests
  BY FieldTypes DEF Sound
<1> QED
  BY <1>1, BlockInside DEF BlockOf, Abstract!Block

\* Blocks of different minors are apart.
LEMMA BlocksDiffer ==
    ASSUME NEW h, Sound(h), NEW m \in DOMAIN h.minors, NEW k \in DOMAIN h.minors, m # k
    PROVE  Abstract!Apart(BlockOf(h, m), BlockOf(h, k))
<1>0. h \in HeapType /\ MinorsApart(h)
  BY DEF Sound
<1>1. ASSUME NEW x \in DOMAIN h.minors, NEW y \in DOMAIN h.minors, x < y
      PROVE  Pointer(x) < Pointer(y) /\ Pointer(x) + h.minors[x].req <= Pointer(y)
  <2>1. MinorEnd(h, x) <= y
    BY <1>0, <1>1 DEF MinorsApart
  <2>2. /\ Pointer(x) + h.minors[x].req <= MinorEnd(h, x) /\ y < Pointer(y)
        /\ Pointer(x) \in Nat /\ Pointer(y) \in Nat
    <3>1. HeapStart .. HeapMax \subseteq Nat
      BY HeapAssumption
    <3> QED
      BY <3>1, BlockInside
  <2>3. /\ y \in Nat /\ MinorEnd(h, x) \in Nat /\ h.minors[x].req \in Nat
    BY <1>0, FieldTypes, HeapAssumption
  <2> QED
    BY <2>1, <2>2, <2>3
<1>2. m \in Nat /\ k \in Nat /\ Pointer(m) \in Int /\ Pointer(k) \in Int
  BY <1>0, FieldTypes, BlockInside
<1>3. CASE m < k
  BY <1>1, <1>2, <1>3 DEF Abstract!Apart, BlockOf
<1>4. CASE k < m
  BY <1>1, <1>2, <1>4 DEF Abstract!Apart, BlockOf
<1> QED
  BY <1>2, <1>3, <1>4

LEMMA BlocksWithout ==
    ASSUME NEW h, Sound(h), NEW m \in DOMAIN h.minors
    PROVE  {BlockOf(h, k) : k \in DOMAIN h.minors \ {m}} = BlocksOf(h) \ {BlockOf(h, m)}
<1>1. ASSUME NEW k \in DOMAIN h.minors, k # m
      PROVE  BlockOf(h, k) # BlockOf(h, m)
  <2>1. BlockOf(h, k).start # BlockOf(h, m).start
    BY <1>1, BlocksDiffer DEF Abstract!Apart
  <2> QED
    BY <2>1
<1> HIDE DEF BlockOf
<1> QED
  BY <1>1 DEF BlocksOf

\* An allocation adds a block that may be handed out.
LEMMA BlocksWithOneMore ==
    ASSUME NEW h, NEW r, Sound(r), NEW n \in Requests, NEW g, OneMore(h, r, g, n)
    PROVE  /\ BlocksOf(r) = BlocksOf(h) \cup {BlockOf(r, g)}
           /\ Abstract!Fresh(BlockOf(r, g), BlocksOf(h))
           /\ BlockOf(r, g).size = n
           /\ \A m \in DOMAIN h.minors : BlockOf(r, m) = BlockOf(h, m)
<1>1. /\ DOMAIN r.minors = DOMAIN h.minors \cup {g} /\ g \notin DOMAIN h.minors
      /\ \A m \in DOMAIN h.minors : r.minors[m] = h.minors[m]
      /\ r.minors[g].req = n
  BY DEF OneMore
<1>2. \A m \in DOMAIN h.minors : BlockOf(r, m) = BlockOf(h, m)
  BY <1>1 DEF BlockOf
<1>3. BlockOf(r, g).size = n
  BY <1>1 DEF BlockOf
<1>4. \A m \in DOMAIN h.minors : Abstract!Apart(BlockOf(r, g), BlockOf(h, m))
  BY <1>1, <1>2, BlocksDiffer
<1>5. BlockOf(r, g).start % Alignment = 0 /\ BlockOf(r, g).start + BlockOf(r, g).size <= HeapMax
  BY <1>1, BlockInside DEF BlockOf
<1> HIDE DEF BlockOf
<1>6. BlocksOf(r) = BlocksOf(h) \cup {BlockOf(r, g)}
  BY <1>1, <1>2 DEF BlocksOf
<1>7. Abstract!Fresh(BlockOf(r, g), BlocksOf(h))
  BY <1>4, <1>5 DEF Abstract!Fresh, BlocksOf
<1> QED
  BY <1>2, <1>3, <1>6, <1>7

LEMMA BlocksFreed ==
    ASSUME NEW h, Sound(h), MajorsUsed(h), NEW m \in DOMAIN h.minors
    PROVE  BlocksOf(Freed(h, m)) = BlocksOf(h) \ {BlockOf(h, m)}
<1> DEFINE r == Freed(h, m)
<1>1. /\ DOMAIN r.minors = DOMAIN h.minors \ {m}
      /\ \A k \in DOMAIN r.minors : r.minors[k] = h.minors[k]
  BY FreedSound
<1> HIDE DEF r
<1>2. \A k \in DOMAIN r.minors : BlockOf(r, k) = BlockOf(h, k)
  BY <1>1 DEF BlockOf
<1> HIDE DEF BlockOf
<1>3. BlocksOf(r) = {BlockOf(h, k) : k \in DOMAIN h.minors \ {m}}
  BY <1>1, <1>2 DEF BlocksOf
<1> QED
  BY <1>3, BlocksWithout DEF r
----------------------------------------------------------------------------
LEMMA BlocksAre == Blocks = BlocksOf(heap) /\ Blocks' = BlocksOf(heap')
  BY DEF Blocks, BlocksOf, BlockOf

LEMMA AllocateImplements ==
    ASSUME IInv, NEW n \in Requests, Allocate(n)
    PROVE  Abstract!Next \/ UNCHANGED Blocks
<1>1. PICK got \in Granted(heap, n) : heap' = Allocated(heap, n, got)
  BY DEF Allocate
<1>2. /\ Sound(heap')
      /\ Succeeds(heap, n, got) => \E g \in Address : OneMore(heap, heap', g, n)
      /\ ~Succeeds(heap, n, got) => heap'.minors = heap.minors
  BY <1>1, AllocatedSound DEF IInv
<1>3. CASE Succeeds(heap, n, got)
  <2>1. PICK g \in Address : OneMore(heap, heap', g, n)
    BY <1>2, <1>3
  <2>2. /\ BlocksOf(heap') = BlocksOf(heap) \cup {BlockOf(heap', g)}
        /\ Abstract!Fresh(BlockOf(heap', g), BlocksOf(heap))
    BY <1>2, <2>1, BlocksWithOneMore
  <2>3. BlockOf(heap', g) \in Abstract!Block
    BY <1>2, <2>1, BlockTypes DEF OneMore
  <2> HIDE DEF BlockOf
  <2>4. Abstract!Allocate
    BY <2>2, <2>3, BlocksAre DEF Abstract!Allocate
  <2> QED
    BY <2>4 DEF Abstract!Next
<1>4. CASE ~Succeeds(heap, n, got)
  BY <1>2, <1>4 DEF Blocks
<1> QED
  BY <1>3, <1>4

LEMMA ShrinkImplements ==
    ASSUME IInv, NEW m \in DOMAIN heap.minors, NEW n \in Requests, Shrink(m, n)
    PROVE  Abstract!Next
<1>1. heap' = [heap EXCEPT !.minors[m].req = n] /\ n <= heap.minors[m].req
  BY DEF Shrink
<1>2. /\ Sound(heap) /\ Sound(heap')
      /\ DOMAIN heap'.minors = DOMAIN heap.minors /\ heap'.minors[m].req = n
      /\ \A k \in DOMAIN heap.minors \ {m} : heap'.minors[k] = heap.minors[k]
  BY <1>1, ShrunkSound DEF IInv
<1>3. /\ BlockOf(heap, m).start = BlockOf(heap', m).start
      /\ BlockOf(heap', m).size <= BlockOf(heap, m).size
      /\ \A k \in DOMAIN heap.minors \ {m} : BlockOf(heap', k) = BlockOf(heap, k)
  BY <1>1, <1>2 DEF BlockOf
<1>4. BlockOf(heap', m) \in Abstract!Block
  BY <1>2, BlockTypes
<1>5. {BlockOf(heap, k) : k \in DOMAIN heap.minors \ {m}} = BlocksOf(heap) \ {BlockOf(heap, m)}
  BY <1>2, BlocksWithout
<1> HIDE DEF BlockOf
<1>6. BlocksOf(heap') = (BlocksOf(heap) \ {BlockOf(heap, m)}) \cup {BlockOf(heap', m)}
  BY <1>2, <1>3, <1>5 DEF BlocksOf
<1>7. BlockOf(heap, m) \in BlocksOf(heap)
  BY DEF BlocksOf
<1>8. Abstract!Shrink
  BY <1>3, <1>4, <1>6, <1>7, BlocksAre DEF Abstract!Shrink
<1> QED
  BY <1>8 DEF Abstract!Next

LEMMA MoveImplements ==
    ASSUME IInv, NEW m \in DOMAIN heap.minors, NEW n \in Requests, Move(m, n)
    PROVE  Abstract!Next \/ UNCHANGED Blocks
<1>1. PICK got \in Granted(heap, n) :
          heap' = IF Succeeds(heap, n, got) /\ ~FreeFaults(Allocated(heap, n, got), m)
                  THEN Freed(Allocated(heap, n, got), m)
                  ELSE Faulted(heap)
  BY DEF Move
<1>2. CASE Succeeds(heap, n, got) /\ ~FreeFaults(Allocated(heap, n, got), m)
  <2> DEFINE r == Allocated(heap, n, got)
             b == BlockOf(heap, m)
  <2>1. Sound(r) /\ MajorsUsed(r) /\ \E g \in Address : OneMore(heap, r, g, n)
    BY <1>2, AllocatedSound DEF IInv
  <2>2. PICK g \in Address : OneMore(heap, r, g, n)
    BY <2>1
  <2>3. heap' = Freed(r, m)
    BY <1>1, <1>2
  <2> HIDE DEF r
  <2> DEFINE c == BlockOf(r, g)
  <2>4. /\ BlocksOf(r) = BlocksOf(heap) \cup {c} /\ Abstract!Fresh(c, BlocksOf(heap))
        /\ c.size = n /\ BlockOf(r, m) = b
    BY <2>1, <2>2, BlocksWithOneMore
  <2>5. c \in Abstract!Block
    BY <2>1, <2>2, BlockTypes DEF OneMore
  <2>6. BlocksOf(heap') = BlocksOf(r) \ {b}
    BY <2>1, <2>2, <2>3, <2>4, BlocksFreed DEF OneMore
  <2>7. b \in BlocksOf(heap)
    BY DEF BlocksOf
  <2>8. b # c
    <3>1. c.start # b.start
      BY <2>4, <2>7 DEF Abstract!Fresh, Abstract!Apart
    <3> QED
      BY <3>1
  <2>9. c.size > b.size
    BY <2>4 DEF Move, BlockOf
  <2> HIDE DEF b, c
  <2>10. BlocksOf(heap') = (BlocksOf(heap) \ {b}) \cup {c}
    BY <2>4, <2>6, <2>8
  <2>11. Abstract!Move
    BY <2>4, <2>5, <2>7, <2>9, <2>10, BlocksAre DEF Abstract!Move
  <2> QED
    BY <2>11 DEF Abstract!Next
<1>3. CASE ~ (Succeeds(heap, n, got) /\ ~FreeFaults(Allocated(heap, n, got), m))
  <2>1. heap'.minors = heap.minors
    BY <1>1, <1>3, FaultedSound DEF IInv
  <2> QED
    BY <2>1 DEF Blocks
<1> QED
  BY <1>2, <1>3

LEMMA NextImplements == IInv /\ [Next]_heap => [Abstract!Next]_Blocks
<1> SUFFICES ASSUME IInv, [Next]_heap
             PROVE  Abstract!Next \/ UNCHANGED Blocks
  OBVIOUS
<1>1. ASSUME NEW n \in Requests, Allocate(n)
      PROVE  Abstract!Next \/ UNCHANGED Blocks
  BY <1>1, AllocateImplements
<1>2. ASSUME NEW m \in DOMAIN heap.minors, Free(m)
      PROVE  Abstract!Next
  <2>1. BlocksOf(heap') = BlocksOf(heap) \ {BlockOf(heap, m)}
    BY <1>2, BlocksFreed DEF Free, IInv
  <2>2. BlockOf(heap, m) \in BlocksOf(heap)
    BY DEF BlocksOf
  <2>3. Abstract!Free
    BY <2>1, <2>2, BlocksAre DEF Abstract!Free
  <2> QED
    BY <2>3 DEF Abstract!Next
<1>3. ASSUME NEW m \in DOMAIN heap.minors, NEW n \in Requests, Shrink(m, n)
      PROVE  Abstract!Next
  BY <1>3, ShrinkImplements
<1>4. ASSUME NEW m \in DOMAIN heap.minors, NEW n \in Requests, Move(m, n)
      PROVE  Abstract!Next \/ UNCHANGED Blocks
  BY <1>4, MoveImplements
<1>5. CASE Fault
  <2>1. heap'.minors = heap.minors
    BY <1>5, FaultedSound DEF Fault, IInv
  <2> QED
    BY <2>1 DEF Blocks
<1>6. CASE Destroy
  <2>1. heap'.minors = [m \in {} |-> Null]
    BY <1>6 DEF Destroy, IInv, Sound, HeapType
  <2>2. Blocks' = {}
    BY <2>1 DEF Blocks
  <2> QED
    BY <2>2 DEF Abstract!Next, Abstract!Destroy
<1>7. CASE UNCHANGED heap
  BY <1>7 DEF Blocks
<1> QED
  BY <1>1, <1>2, <1>3, <1>4, <1>5, <1>6, <1>7 DEF Next

\* The heap implements AbstractHeap: every call hands out, takes back, shrinks
\* or moves one block the way AbstractHeap allows, or changes no block.
THEOREM HeapKeepsPromise == Spec => KeepsPromise
<1>1. Init => Abstract!Init
  BY DEF Init, Blocks, Abstract!Init
<1> QED
  BY <1>1, SoundAlways, NextImplements, PTL DEF Spec, KeepsPromise, Abstract!Spec
----------------------------------------------------------------------------
\* Sums over finite sets.  UsageAccounted writes them with MapThenSumSet, whose
\* argument is an operator.  Total is the same fold of a function, which the
\* lemmas can be about; SumOfSizes and SumOfBlocks lead from one to the other.
Pick(s) == CHOOSE x \in s : TRUE

\* The function whose value at S is the sum of w over S.
Solves(f, w, S) == f = [s \in SUBSET S |-> IF s = {} THEN 0 ELSE w[Pick(s)] + f[s \ {Pick(s)}]]
Total(w, S) == (CHOOSE f : Solves(f, w, S))[S]

LEMMA PickIsElement ==
    ASSUME NEW s, s # {}
    PROVE  Pick(s) \in s
<1>1. \E x \in s : TRUE
  OBVIOUS
<1> QED
  BY <1>1, Zenon DEF Pick

LEMMA PickShrinks ==
    ASSUME NEW S, IsFiniteSet(S), S # {}
    PROVE  /\ IsFiniteSet(S \ {Pick(S)}) /\ Cardinality(S) \in Nat \ {0}
           /\ Cardinality(S \ {Pick(S)}) = Cardinality(S) - 1
  BY PickIsElement, FS_RemoveElement, FS_EmptySet, FS_CardinalityType

\* One step of it, as a formula.
Turn(f, w, s) ==
    /\ s = {} => f[s] = 0
    /\ s # {} => f[s] = w[Pick(s)] + f[s \ {Pick(s)}]

LEMMA SolutionStep ==
    ASSUME NEW f, NEW w, NEW S, Solves(f, w, S)
    PROVE  \A s \in SUBSET S : Turn(f, w, s)
  BY DEF Solves, Turn

\* Two such functions agree where their summands do.
LEMMA SolutionsAgree ==
    ASSUME NEW f, NEW w, NEW S, Solves(f, w, S),
           NEW g, NEW v, NEW T, Solves(g, v, T),
           NEW U \in SUBSET S, U \subseteq T, IsFiniteSet(U), \A x \in U : w[x] = v[x] /\ w[x] \in Int
    PROVE  f[U] = g[U] /\ f[U] \in Int
<1> DEFINE Agree(s) == f[s] = g[s] /\ f[s] \in Int
           P == {n \in Nat : \A s \in SUBSET U : Cardinality(s) = n => Agree(s)}
<1>1. ASSUME NEW s \in SUBSET U
      PROVE  s \in SUBSET S /\ s \in SUBSET T /\ IsFiniteSet(s) /\ Cardinality(s) \in Nat
  BY FS_Subset, FS_CardinalityType
<1>6. ASSUME NEW s \in SUBSET U
      PROVE  Turn(f, w, s) /\ Turn(g, v, s)
  BY <1>1, SolutionStep
<1>2. 0 \in P
  <2>1. ASSUME NEW s \in SUBSET U, Cardinality(s) = 0 PROVE Agree(s)
    <3>1. s = {}
      BY <1>1, <2>1, FS_EmptySet
    <3>2. Turn(f, w, s) /\ Turn(g, v, s)
      BY <1>6
    <3>3. f[s] = 0 /\ g[s] = 0
      BY <3>1, <3>2, Zenon DEF Turn
    <3> QED
      BY <3>3
  <2> QED
    BY <2>1
<1>3. ASSUME NEW n \in Nat, n \in P PROVE n + 1 \in P
  <2>1. ASSUME NEW s \in SUBSET U, Cardinality(s) = n + 1 PROVE Agree(s)
    <3> DEFINE x == Pick(s)
               t == s \ {x}
    <3>1. s # {}
      BY <2>1, FS_EmptySet
    <3>2. x \in s /\ t \in SUBSET U /\ Cardinality(t) = n
      BY <1>1, <2>1, <3>1, PickIsElement, PickShrinks
    <3>3. Agree(t)
      BY <1>3, <3>2
    <3>4. f[s] = w[x] + f[t] /\ g[s] = v[x] + g[t]
      BY <1>6, <3>1 DEF Turn
    <3>5. w[x] = v[x] /\ w[x] \in Int
      BY <3>2
    <3> HIDE DEF t, x
    <3> QED
      BY <3>3, <3>4, <3>5
  <2> QED
    BY <2>1
<1> HIDE DEF P
<1>4. Nat \subseteq P
  BY <1>2, <1>3, InductionOnNat
<1>5. Cardinality(U) \in P
  BY <1>1, <1>4
<1> QED
  BY <1>5 DEF P

LEMMA SolutionExists ==
    ASSUME NEW w, NEW S, IsFiniteSet(S)
    PROVE  \E f : Solves(f, w, S)
<1> DEFINE Upto(n) == {s \in SUBSET S : Cardinality(s) <= n}
           Partial(f, n) == f = [s \in Upto(n) |-> IF s = {} THEN 0 ELSE w[Pick(s)] + f[s \ {Pick(s)}]]
           P == {n \in Nat : \E f : Partial(f, n)}
<1>1. ASSUME NEW s \in SUBSET S
      PROVE  IsFiniteSet(s) /\ Cardinality(s) \in Nat
  BY FS_Subset, FS_CardinalityType
<1>2. 0 \in P
  <2> DEFINE f == [s \in Upto(0) |-> 0]
  <2>1. \A s \in Upto(0) : s = {}
    BY <1>1, FS_EmptySet
  <2>2. Partial(f, 0)
    <3> HIDE DEF Upto
    <3> QED
      BY <2>1
  <2> HIDE DEF Partial
  <2> QED
    BY <2>2
<1>3. ASSUME NEW n \in Nat, n \in P PROVE n + 1 \in P
  <2>1. PICK f : Partial(f, n)
    BY <1>3
  <2> DEFINE g == [s \in Upto(n + 1) |-> IF s = {} THEN 0 ELSE w[Pick(s)] + f[s \ {Pick(s)}]]
  <2>2. ASSUME NEW s \in Upto(n + 1), s # {}
        PROVE  s \ {Pick(s)} \in Upto(n)
    BY <1>1, <2>2, PickShrinks
  <2>3. \A s \in Upto(n) : s \in Upto(n + 1) /\ g[s] = f[s]
    <3>1. \A s \in Upto(n) : s \in Upto(n + 1)
      BY <1>1
    <3> HIDE DEF Upto
    <3>2. \A s \in Upto(n) : f[s] = IF s = {} THEN 0 ELSE w[Pick(s)] + f[s \ {Pick(s)}]
      BY <2>1
    <3> QED
      BY <3>1, <3>2
  <2>4. \A s \in Upto(n + 1) : s # {} => g[s \ {Pick(s)}] = f[s \ {Pick(s)}]
    BY <2>2, <2>3
  <2>5. Partial(g, n + 1)
    <3> HIDE DEF Upto
    <3> QED
      BY <2>4
  <2> HIDE DEF Partial, g
  <2> QED
    BY <2>5
<1>4. Nat \subseteq P
  <2> HIDE DEF P
  <2> QED
    BY <1>2, <1>3, InductionOnNat
<1>5. Cardinality(S) \in P
  BY <1>1, <1>4
<1>6. PICK f : Partial(f, Cardinality(S))
  BY <1>5
<1>7. Upto(Cardinality(S)) = SUBSET S
  BY FS_Subset
<1>8. Solves(f, w, S)
  <2> HIDE DEF Upto
  <2> QED
    BY <1>6, <1>7 DEF Solves
<1> QED
  BY <1>8

LEMMA TotalSolution ==
    ASSUME NEW w, NEW S, IsFiniteSet(S)
    PROVE  \E f : Solves(f, w, S) /\ f[S] = Total(w, S)
<1>1. Solves(CHOOSE f : Solves(f, w, S), w, S)
  BY SolutionExists, Zenon
<1> QED
  BY <1>1 DEF Total

LEMMA TotalAgrees ==
    ASSUME NEW w, NEW v, NEW S, IsFiniteSet(S), \A x \in S : w[x] = v[x] /\ w[x] \in Int
    PROVE  Total(w, S) = Total(v, S) /\ Total(w, S) \in Int
<1>1. PICK f : Solves(f, w, S) /\ f[S] = Total(w, S)
  BY TotalSolution
<1>2. PICK g : Solves(g, v, S) /\ g[S] = Total(v, S)
  BY TotalSolution
<1>3. f[S] = g[S] /\ f[S] \in Int
  BY <1>1, <1>2, SolutionsAgree
<1> QED
  BY <1>1, <1>2, <1>3

LEMMA TotalEmpty ==
    ASSUME NEW w
    PROVE  Total(w, {}) = 0
<1>1. PICK f : Solves(f, w, {}) /\ f[{}] = Total(w, {})
  BY TotalSolution, FS_EmptySet
<1> QED
  BY <1>1, SolutionStep DEF Turn

\* Which summand is taken first makes no difference.
LEMMA TotalStep ==
    ASSUME NEW w, NEW S, IsFiniteSet(S), \A x \in S : w[x] \in Int, NEW x \in S
    PROVE  Total(w, S) = w[x] + Total(w, S \ {x})
<1>1. PICK f : Solves(f, w, S) /\ f[S] = Total(w, S)
  BY TotalSolution
<1> DEFINE P == {n \in Nat : \A s \in SUBSET S : Cardinality(s) = n =>
                    \A y \in s : f[s] = w[y] + f[s \ {y}]}
<1>2. ASSUME NEW s \in SUBSET S
      PROVE  IsFiniteSet(s) /\ Cardinality(s) \in Nat /\ f[s] \in Int
  <2>1. IsFiniteSet(s)
    BY FS_Subset
  <2> QED
    BY <1>1, <2>1, SolutionsAgree, FS_CardinalityType
<1>3. 0 \in P
  BY <1>2, FS_EmptySet
<1>4. ASSUME NEW n \in Nat, n \in P PROVE n + 1 \in P
  <2>1. ASSUME NEW s \in SUBSET S, Cardinality(s) = n + 1, NEW y \in s
        PROVE  f[s] = w[y] + f[s \ {y}]
    <3> DEFINE z == Pick(s)
               t == s \ {z}
               u == s \ {y}
               r == s \ {y, z}
    <3>1. z \in s /\ f[s] = w[z] + f[t] /\ w[y] \in Int /\ w[z] \in Int
      BY <1>1, <2>1, SolutionStep, PickIsElement DEF Turn
    <3>2. CASE y = z
      BY <3>1, <3>2
    <3>3. CASE y # z
      <4>1. /\ t \in SUBSET S /\ y \in t /\ t \ {y} = r
            /\ u \in SUBSET S /\ z \in u /\ u \ {z} = r /\ r \in SUBSET S
        BY <3>1, <3>3
      <4>2. Cardinality(t) = n /\ Cardinality(u) = n
        BY <1>2, <2>1, <3>1, FS_RemoveElement
      <4>3. f[t] = w[y] + f[r] /\ f[u] = w[z] + f[r]
        <5>1. f[t] = w[y] + f[t \ {y}]
          BY <1>4, <4>1, <4>2
        <5>2. f[u] = w[z] + f[u \ {z}]
          BY <1>4, <4>1, <4>2
        <5> QED
          BY <4>1, <5>1, <5>2
      <4>4. f[r] \in Int
        BY <1>2, <4>1
      <4> HIDE DEF t, u, r
      <4>5. f[s] = w[y] + f[u]
        BY <3>1, <4>3, <4>4
      <4> QED
        BY <4>5 DEF u
    <3> QED
      BY <3>2, <3>3
  <2> QED
    BY <2>1
<1> HIDE DEF P
<1>5. Nat \subseteq P
  BY <1>3, <1>4, InductionOnNat
<1>6. Cardinality(S) \in P
  BY <1>2, <1>5
<1>7. f[S] = w[x] + f[S \ {x}]
  BY <1>6 DEF P
<1>8. PICK g : Solves(g, w, S \ {x}) /\ g[S \ {x}] = Total(w, S \ {x})
  BY TotalSolution, FS_RemoveElement
<1>9. f[S \ {x}] = g[S \ {x}]
  <2>1. IsFiniteSet(S \ {x}) /\ S \ {x} \in SUBSET S
    BY FS_RemoveElement
  <2> QED
    BY <1>1, <1>8, <2>1, SolutionsAgree
<1> QED
  BY <1>1, <1>7, <1>8, <1>9

\* The library's sum of the bytes of some minors, with their headers.
LEMMA SumOfSizes ==
    ASSUME NEW N, NEW S, IsFiniteSet(S), NEW w,
           \A m \in S : w[m] = MinorSize + N[m].size
    PROVE  MapThenSumSet(LAMBDA m : MinorSize + N[m].size, S) = Total(w, S)
<1> DEFINE Unfolded(f) == f = [s \in SUBSET S |->
                              IF s = {} THEN 0 ELSE (MinorSize + N[Pick(s)].size) + f[s \ {Pick(s)}]]
<1>1. ASSUME NEW f PROVE Unfolded(f) <=> Solves(f, w, S)
  <2>1. \A s \in SUBSET S : s # {} => w[Pick(s)] = MinorSize + N[Pick(s)].size
    BY PickIsElement
  <2>2. [s \in SUBSET S |-> IF s = {} THEN 0 ELSE (MinorSize + N[Pick(s)].size) + f[s \ {Pick(s)}]]
        = [s \in SUBSET S |-> IF s = {} THEN 0 ELSE w[Pick(s)] + f[s \ {Pick(s)}]]
    BY <2>1
  <2> QED
    BY <2>2 DEF Solves
<1>2. MapThenSumSet(LAMBDA m : MinorSize + N[m].size, S) = (CHOOSE f : Unfolded(f))[S]
  BY Zenon DEF MapThenSumSet, MapThenFoldSet, Pick
<1> HIDE DEF Unfolded
<1>3. (CHOOSE f : Unfolded(f)) = (CHOOSE f : Solves(f, w, S))
  BY <1>1, Zenon
<1> QED
  BY <1>2, <1>3, Zenon DEF Total

\* The same without headers.
LEMMA SumOfBlocks ==
    ASSUME NEW N, NEW S, IsFiniteSet(S), NEW w,
           \A m \in S : w[m] = N[m].size
    PROVE  MapThenSumSet(LAMBDA m : N[m].size, S) = Total(w, S)
<1> DEFINE Unfolded(f) == f = [s \in SUBSET S |->
                              IF s = {} THEN 0 ELSE N[Pick(s)].size + f[s \ {Pick(s)}]]
<1>1. ASSUME NEW f PROVE Unfolded(f) <=> Solves(f, w, S)
  <2>1. \A s \in SUBSET S : s # {} => w[Pick(s)] = N[Pick(s)].size
    BY PickIsElement
  <2>2. [s \in SUBSET S |-> IF s = {} THEN 0 ELSE N[Pick(s)].size + f[s \ {Pick(s)}]]
        = [s \in SUBSET S |-> IF s = {} THEN 0 ELSE w[Pick(s)] + f[s \ {Pick(s)}]]
    BY <2>1
  <2> QED
    BY <2>2 DEF Solves
<1>2. MapThenSumSet(LAMBDA m : N[m].size, S) = (CHOOSE f : Unfolded(f))[S]
  BY Zenon DEF MapThenSumSet, MapThenFoldSet, Pick
<1> HIDE DEF Unfolded
<1>3. (CHOOSE f : Unfolded(f)) = (CHOOSE f : Solves(f, w, S))
  BY <1>1, Zenon
<1> QED
  BY <1>2, <1>3, Zenon DEF Total
----------------------------------------------------------------------------
\* The counters.

\* What a minor takes of its major, and what it adds to l_inuse.
Taken(h) == [m \in DOMAIN h.minors |-> MinorSize + h.minors[m].size]
Given(h) == [m \in DOMAIN h.minors |-> h.minors[m].size]

\* UsageAccounted of any record.
UsageOf(h, a) == MajorSize + Total(Taken(h), MinorsOf(h, a))
Counted(h) ==
    /\ \A a \in DOMAIN h.majors : h.majors[a].usage = UsageOf(h, a)
    /\ h.inuse = Total(Given(h), DOMAIN h.minors)

LEMMA MinorsFinite ==
    ASSUME NEW h \in HeapType
    PROVE  /\ IsFiniteSet(DOMAIN h.minors) /\ IsFiniteSet(DOMAIN h.majors)
           /\ \A a : MinorsOf(h, a) \subseteq DOMAIN h.minors /\ IsFiniteSet(MinorsOf(h, a))
<1>1. IsFiniteSet(Address)
  BY FS_Interval, HeapAssumption DEF Address
<1>2. IsFiniteSet(DOMAIN h.minors) /\ IsFiniteSet(DOMAIN h.majors)
  BY <1>1, FieldTypes, FS_Subset
<1>3. \A a : MinorsOf(h, a) \subseteq DOMAIN h.minors
  BY DEF MinorsOf
<1> QED
  BY <1>2, <1>3, FS_Subset

\* Minors of the same sizes take and are given the same.
LEMMA TotalsCarry ==
    ASSUME NEW h \in HeapType, NEW r \in HeapType, NEW S \in SUBSET DOMAIN h.minors, S \subseteq DOMAIN r.minors,
           \A m \in S : r.minors[m].size = h.minors[m].size
    PROVE  /\ Total(Taken(r), S) = Total(Taken(h), S) /\ Total(Taken(h), S) \in Int
           /\ Total(Given(r), S) = Total(Given(h), S) /\ Total(Given(h), S) \in Int
<1>1. IsFiniteSet(S)
  BY MinorsFinite, FS_Subset
<1>2. \A m \in S : h.minors[m].size \in Nat /\ MinorSize \in Nat
  BY FieldTypes, HeapAssumption
<1>3. \A m \in S : Taken(h)[m] = Taken(r)[m] /\ Taken(h)[m] \in Int
  BY <1>2 DEF Taken
<1>4. \A m \in S : Given(h)[m] = Given(r)[m] /\ Given(h)[m] \in Int
  BY <1>2 DEF Given
<1> QED
  BY <1>1, <1>3, <1>4, TotalAgrees

\* One minor of a set of them.
LEMMA TotalsStep ==
    ASSUME NEW h \in HeapType, NEW S \in SUBSET DOMAIN h.minors, NEW m \in S
    PROVE  /\ Total(Taken(h), S) = MinorSize + h.minors[m].size + Total(Taken(h), S \ {m})
           /\ Total(Given(h), S) = h.minors[m].size + Total(Given(h), S \ {m})
<1>1. IsFiniteSet(S)
  BY MinorsFinite, FS_Subset
<1>2. \A k \in S : h.minors[k].size \in Nat /\ MinorSize \in Nat
  BY FieldTypes, HeapAssumption
<1>3. \A k \in S : Taken(h)[k] = MinorSize + h.minors[k].size /\ Taken(h)[k] \in Int
  BY <1>2 DEF Taken
<1>4. \A k \in S : Given(h)[k] = h.minors[k].size /\ Given(h)[k] \in Int
  BY <1>2 DEF Given
<1>5. Total(Taken(h), S) = Taken(h)[m] + Total(Taken(h), S \ {m})
  BY <1>1, <1>3, TotalStep
<1>6. Total(Given(h), S) = Given(h)[m] + Total(Given(h), S \ {m})
  BY <1>1, <1>4, TotalStep
<1> QED
  BY <1>3, <1>4, <1>5, <1>6

LEMMA CountedSame ==
    ASSUME NEW h, Counted(h), NEW r, r.majors = h.majors, r.minors = h.minors, r.inuse = h.inuse
    PROVE  Counted(r)
  BY DEF Counted, UsageOf, MinorsOf, Taken, Given

\* A new minor is added to the usage of its major and to l_inuse.
LEMMA WithMinorCounters ==
    ASSUME NEW h \in HeapType, NEW a \in DOMAIN h.majors, NEW n \in Requests, NEW g
    PROVE  LET r == WithMinor(h, a, g, n) IN
           /\ r.majors[a].usage = h.majors[a].usage + Need(n)
           /\ \A b \in DOMAIN h.majors \ {a} : r.majors[b].usage = h.majors[b].usage
           /\ r.inuse = h.inuse + Size(n)
<1> DEFINE new == [block |-> a, size |-> Size(n), req |-> n]
           M == [h.majors EXCEPT ![a].usage = @ + Need(n)]
           N == [m \in DOMAIN h.minors \cup {g} |-> IF m = g THEN new ELSE h.minors[m]]
           i == h.inuse + Size(n)
           r == WithMinor(h, a, g, n)
<1>1. r = [h EXCEPT !.minors = N, !.majors = M, !.inuse = i]
  BY DEF WithMinor, HeapType
<1>2. h.majors \in [DOMAIN h.majors -> [size : Nat, usage : Int]]
  BY MajorMapType DEF HeapType
<1>3. /\ M[a].usage = h.majors[a].usage + Need(n)
      /\ \A b \in DOMAIN h.majors \ {a} : M[b].usage = h.majors[b].usage
  BY <1>2
<1> HIDE DEF M, N, i, r
<1>4. r.majors = M /\ r.inuse = i
  BY <1>1 DEF HeapType
<1> QED
  BY <1>3, <1>4 DEF i, r

LEMMA WithMinorCounted ==
    ASSUME NEW h, Sound(h), Counted(h), NEW a \in DOMAIN h.majors, NEW n \in Requests, NEW g \in Gaps(h, a, n)
    PROVE  Counted(WithMinor(h, a, g, n))
<1> DEFINE r == WithMinor(h, a, g, n)
<1>0. h \in HeapType /\ Sound(r) /\ r \in HeapType
  BY WithMinorSound DEF Sound
<1>1. /\ g \in Address /\ g \notin DOMAIN h.minors
  BY GapClear
<1>2. /\ DOMAIN r.majors = DOMAIN h.majors
      /\ DOMAIN r.minors = DOMAIN h.minors \cup {g}
      /\ r.minors[g] = [block |-> a, size |-> Size(n), req |-> n]
      /\ \A m \in DOMAIN h.minors : r.minors[m] = h.minors[m]
  BY <1>0, <1>1, WithMinorFields
<1>3. /\ r.majors[a].usage = h.majors[a].usage + Need(n)
      /\ \A b \in DOMAIN h.majors \ {a} : r.majors[b].usage = h.majors[b].usage
      /\ r.inuse = h.inuse + Size(n)
  BY <1>0, WithMinorCounters
<1> HIDE DEF r
<1>4. /\ r.minors[g].block = a /\ r.minors[g].size = Size(n)
      /\ Size(n) \in Int /\ MinorSize \in Int /\ MajorSize \in Int /\ Need(n) = Size(n) + MinorSize
  BY <1>2, NeedType, HeapAssumption
<1>5. ASSUME NEW b \in DOMAIN h.majors
      PROVE  r.majors[b].usage = UsageOf(r, b)
  <2> DEFINE S == MinorsOf(h, b)
             t == Total(Taken(h), S)
  <2>1. S \in SUBSET DOMAIN h.minors /\ S \in SUBSET DOMAIN r.minors
    BY <1>2 DEF MinorsOf
  <2>2. Total(Taken(r), S) = t /\ t \in Int
    BY <1>0, <1>2, <2>1, TotalsCarry
  <2>3. h.majors[b].usage = MajorSize + t
    BY DEF Counted, UsageOf
  <2>4. CASE b # a
    <3>1. MinorsOf(r, b) = S
      BY <1>1, <1>2, <1>4, <2>4 DEF MinorsOf
    <3> QED
      BY <1>3, <2>2, <2>3, <2>4, <3>1 DEF UsageOf
  <2>5. CASE b = a
    <3>1. MinorsOf(r, a) = S \cup {g} /\ (S \cup {g}) \ {g} = S
      BY <1>1, <1>2, <1>4, <2>5 DEF MinorsOf
    <3>2. S \cup {g} \in SUBSET DOMAIN r.minors /\ g \in S \cup {g}
      BY <1>2, <2>1
    <3>3. Total(Taken(r), S \cup {g}) = MinorSize + r.minors[g].size + Total(Taken(r), (S \cup {g}) \ {g})
      BY <1>0, <3>2, TotalsStep
    <3>4. Total(Taken(r), MinorsOf(r, a)) = MinorSize + Size(n) + t
      BY <1>4, <2>2, <3>1, <3>3
    <3> HIDE DEF t
    <3> QED
      BY <1>3, <1>4, <2>2, <2>3, <2>5, <3>4 DEF UsageOf
  <2> QED
    BY <2>4, <2>5
<1>6. r.inuse = Total(Given(r), DOMAIN r.minors)
  <2> DEFINE S == DOMAIN h.minors
             t == Total(Given(h), S)
  <2>1. S \in SUBSET DOMAIN h.minors /\ S \subseteq DOMAIN r.minors
    BY <1>2
  <2>2. Total(Given(r), S) = t /\ t \in Int
    BY <1>0, <1>2, <2>1, TotalsCarry
  <2>3. DOMAIN r.minors \in SUBSET DOMAIN r.minors /\ g \in DOMAIN r.minors /\ DOMAIN r.minors \ {g} = S
    BY <1>1, <1>2
  <2>4. Total(Given(r), DOMAIN r.minors) = r.minors[g].size + Total(Given(r), DOMAIN r.minors \ {g})
    BY <1>0, <2>3, TotalsStep
  <2>5. Total(Given(r), DOMAIN r.minors) = Size(n) + t
    BY <1>4, <2>2, <2>3, <2>4
  <2>6. h.inuse = t
    BY DEF Counted
  <2> HIDE DEF t
  <2> QED
    BY <1>3, <1>4, <2>2, <2>5, <2>6
<1> QED
  BY <1>2, <1>5, <1>6 DEF Counted, r

\* A new major has no minors: its usage is its header.
LEMMA WithMajorCounted ==
    ASSUME NEW h, Sound(h), MajorsUsed(h), Counted(h), NEW n \in Requests, ~TooLarge(h, n)
    PROVE  Counted(WithMajor(h, n))
<1> DEFINE a == h.heapEnd
           new == [size |-> PagesFor(n) * PageSize, usage |-> MajorSize]
           M == [b \in DOMAIN h.majors \cup {a} |-> IF b = a THEN new ELSE h.majors[b]]
           x == Extended(h, PagesFor(n))
           r == WithMajor(h, n)
<1>1. /\ Sound(r) /\ r.minors = h.minors /\ h \in HeapType
      /\ \A m \in DOMAIN h.minors : h.minors[m].block # a
  BY WithMajorSound DEF Sound
<1>2. h.heapEnd = a /\ h.majors = h.majors /\ x = [h EXCEPT !.mapped = x.mapped, !.heapEnd = x.heapEnd]
  BY <1>1 DEF Extended, HeapType
<1>3. r = [x EXCEPT !.majors = M, !.bestBet = r.bestBet]
  BY <1>1, <1>2 DEF WithMajor, HeapType
<1> HIDE DEF x, r, M
<1>4. r.majors = M /\ r.inuse = h.inuse
  BY <1>1, <1>2, <1>3 DEF HeapType
<1>5. \A b \in DOMAIN M : MinorsOf(r, b) = MinorsOf(h, b)
  BY <1>1 DEF MinorsOf
<1>6. Taken(r) = Taken(h) /\ Given(r) = Given(h)
  BY <1>1 DEF Taken, Given
<1>7. MinorsOf(h, a) = {}
  BY <1>1 DEF MinorsOf
<1>8. ASSUME NEW b \in DOMAIN M
      PROVE  M[b].usage = UsageOf(r, b)
  <2>1. CASE b = a
    <3>1. UsageOf(r, a) = MajorSize + 0
      BY <1>5, <1>7, <2>1, TotalEmpty DEF UsageOf
    <3>2. M[a].usage = MajorSize
      BY DEF M
    <3> QED
      BY <2>1, <3>1, <3>2, HeapAssumption
  <2>2. CASE b # a
    <3>1. b \in DOMAIN h.majors /\ M[b] = h.majors[b]
      BY <2>2 DEF M
    <3>2. UsageOf(r, b) = UsageOf(h, b)
      BY <1>5, <1>6 DEF UsageOf
    <3> QED
      BY <3>1, <3>2 DEF Counted
  <2> QED
    BY <2>1, <2>2
<1>9. r.inuse = Total(Given(r), DOMAIN r.minors)
  BY <1>1, <1>4, <1>6 DEF Counted
<1> QED
  BY <1>4, <1>8, <1>9 DEF Counted, r

LEMMA AllocatedCounted ==
    ASSUME NEW h, Sound(h), MajorsUsed(h), Counted(h), NEW n \in Requests, NEW got \in Granted(h, n)
    PROVE  Counted(Allocated(h, n, got))
<1> DEFINE s == [h EXCEPT !.bestBet = BestBetAfter(h, n)]
           r == Allocated(h, n, got)
           e == h.heapEnd
           x == WithMajor(s, n)
<1>1. /\ Sound(s) /\ MajorsUsed(s) /\ s.majors = h.majors /\ s.minors = h.minors
  BY SearchedSound
<1>2. s.inuse = h.inuse
  BY DEF Sound, HeapType
<1>3. Counted(s)
  BY <1>1, <1>2, CountedSame
<1>4. \/ \E a \in DOMAIN s.majors : \E g \in Gaps(s, a, n) : r = WithMinor(s, a, g, n)
      \/ /\ ~TooLarge(s, n) /\ e \in DOMAIN x.majors /\ e + MajorSize \in Gaps(x, e, n)
         /\ r = WithMinor(x, e, e + MajorSize, n)
      \/ r = Extended(s, got)
  BY AllocatedSteps, Zenon
<1> HIDE DEF s, r, e, x
<1>5. CASE \E a \in DOMAIN s.majors : \E g \in Gaps(s, a, n) : r = WithMinor(s, a, g, n)
  BY <1>1, <1>3, <1>5, WithMinorCounted DEF r
<1>6. CASE /\ ~TooLarge(s, n) /\ e \in DOMAIN x.majors /\ e + MajorSize \in Gaps(x, e, n)
           /\ r = WithMinor(x, e, e + MajorSize, n)
  <2>1. Sound(x) /\ Counted(x)
    BY <1>1, <1>3, <1>6, WithMajorSound, WithMajorCounted DEF x
  <2> QED
    BY <1>6, <2>1, WithMinorCounted DEF r
<1>7. CASE r = Extended(s, got)
  <2>1. r.majors = s.majors /\ r.minors = s.minors /\ r.inuse = s.inuse
    BY <1>1, <1>7 DEF Extended, Sound, HeapType
  <2> QED
    BY <1>3, <2>1, CountedSame DEF r
<1> QED
  BY <1>4, <1>5, <1>6, <1>7
----------------------------------------------------------------------------
\* A minor that is freed is taken off both counters.
LEMMA WithoutMinorCounters ==
    ASSUME NEW h \in HeapType, NEW m \in DOMAIN h.minors, h.minors[m].block \in DOMAIN h.majors
    PROVE  LET r == WithoutMinor(h, m)
               a == h.minors[m].block IN
           /\ r.majors[a].usage = h.majors[a].usage - (h.minors[m].size + MinorSize)
           /\ \A b \in DOMAIN h.majors \ {a} : r.majors[b].usage = h.majors[b].usage
           /\ r.inuse = h.inuse - h.minors[m].size
<1> DEFINE a == h.minors[m].block
           d == h.minors[m].size + MinorSize
           M == [h.majors EXCEPT ![a].usage = @ - d]
           N == Restrict(h.minors, DOMAIN h.minors \ {m})
           i == h.inuse - h.minors[m].size
           r == WithoutMinor(h, m)
<1>1. r = [h EXCEPT !.minors = N, !.majors = M, !.inuse = i]
  BY DEF WithoutMinor, HeapType
<1>2. h.majors \in [DOMAIN h.majors -> [size : Nat, usage : Int]]
  BY MajorMapType DEF HeapType
<1> HIDE DEF d
<1>3. /\ M[a].usage = h.majors[a].usage - d
      /\ \A b \in DOMAIN h.majors \ {a} : M[b].usage = h.majors[b].usage
  BY <1>2
<1> HIDE DEF M, N, i, r
<1>4. r.majors = M /\ r.inuse = i
  BY <1>1 DEF HeapType
<1> QED
  BY <1>3, <1>4 DEF i, r, d

LEMMA WithoutMinorCounted ==
    ASSUME NEW h, Sound(h), Counted(h), NEW m \in DOMAIN h.minors
    PROVE  Counted(WithoutMinor(h, m))
<1> DEFINE r == WithoutMinor(h, m)
           a == h.minors[m].block
<1>0. h \in HeapType /\ Sound(r) /\ r \in HeapType /\ a \in DOMAIN h.majors
  BY WithoutMinorSound DEF Sound, MinorsApart
<1>1. /\ DOMAIN r.majors = DOMAIN h.majors
      /\ DOMAIN r.minors = DOMAIN h.minors \ {m}
      /\ \A k \in DOMAIN r.minors : r.minors[k] = h.minors[k]
  BY WithoutMinorSound
<1>2. /\ r.majors[a].usage = h.majors[a].usage - (h.minors[m].size + MinorSize)
      /\ \A b \in DOMAIN h.majors \ {a} : r.majors[b].usage = h.majors[b].usage
      /\ r.inuse = h.inuse - h.minors[m].size
  BY <1>0, WithoutMinorCounters
<1>3. h.minors[m].size \in Int /\ MinorSize \in Int /\ MajorSize \in Int
  BY <1>0, FieldTypes, HeapAssumption
<1> HIDE DEF r
<1>4. ASSUME NEW b \in DOMAIN h.majors
      PROVE  r.majors[b].usage = UsageOf(r, b)
  <2> DEFINE S == MinorsOf(r, b)
             t == Total(Taken(h), S)
  <2>1. S \in SUBSET DOMAIN h.minors /\ S \subseteq DOMAIN r.minors
    BY <1>1 DEF MinorsOf
  <2>2. Total(Taken(r), S) = t /\ t \in Int
    BY <1>0, <1>1, <2>1, TotalsCarry
  <2>3. h.majors[b].usage = MajorSize + Total(Taken(h), MinorsOf(h, b))
    BY DEF Counted, UsageOf
  <2>4. CASE b # a
    <3>1. MinorsOf(h, b) = S
      BY <1>1, <2>4 DEF MinorsOf
    <3> QED
      BY <1>2, <2>2, <2>3, <2>4, <3>1 DEF UsageOf
  <2>5. CASE b = a
    <3>1. MinorsOf(h, a) \in SUBSET DOMAIN h.minors /\ m \in MinorsOf(h, a) /\ MinorsOf(h, a) \ {m} = S
      BY <1>1, <2>5 DEF MinorsOf
    <3>2. Total(Taken(h), MinorsOf(h, a)) = MinorSize + h.minors[m].size + t
      <4>1. Total(Taken(h), MinorsOf(h, a))
            = MinorSize + h.minors[m].size + Total(Taken(h), MinorsOf(h, a) \ {m})
        BY <1>0, <3>1, TotalsStep
      <4> QED
        BY <3>1, <4>1
    <3> HIDE DEF t
    <3> QED
      BY <1>2, <1>3, <2>2, <2>3, <2>5, <3>2 DEF UsageOf
  <2> QED
    BY <2>4, <2>5
<1>5. r.inuse = Total(Given(r), DOMAIN r.minors)
  <2> DEFINE S == DOMAIN r.minors
             t == Total(Given(h), S)
  <2>1. S \in SUBSET DOMAIN h.minors /\ S \subseteq DOMAIN r.minors /\ DOMAIN h.minors \ {m} = S
    BY <1>1
  <2>2. Total(Given(r), S) = t /\ t \in Int
    BY <1>0, <1>1, <2>1, TotalsCarry
  <2>3. DOMAIN h.minors \in SUBSET DOMAIN h.minors
    OBVIOUS
  <2>4. Total(Given(h), DOMAIN h.minors) = h.minors[m].size + Total(Given(h), DOMAIN h.minors \ {m})
    BY <1>0, <2>3, TotalsStep
  <2>5. h.inuse = h.minors[m].size + t
    BY <2>1, <2>4 DEF Counted
  <2> HIDE DEF t
  <2> QED
    BY <1>2, <1>3, <2>2, <2>5
<1> QED
  BY <1>1, <1>4, <1>5 DEF Counted, r

LEMMA WithoutMajorCounted ==
    ASSUME NEW h, Sound(h), Counted(h), NEW a \in DOMAIN h.majors
    PROVE  Counted(WithoutMajor(h, a))
<1> DEFINE r == WithoutMajor(h, a)
           M == Restrict(h.majors, DOMAIN h.majors \ {a})
<1>0. h \in HeapType
  BY DEF Sound
<1>1. r = [h EXCEPT !.majors = M, !.bestBet = r.bestBet, !.mapped = r.mapped, !.heapEnd = r.heapEnd]
  BY <1>0 DEF WithoutMajor, HeapType
<1>2. DOMAIN M = DOMAIN h.majors \ {a} /\ \A b \in DOMAIN M : M[b] = h.majors[b]
  BY DEF Restrict
<1> HIDE DEF M, r
<1>3. r.majors = M /\ r.minors = h.minors /\ r.inuse = h.inuse
  BY <1>0, <1>1 DEF HeapType
<1>4. Taken(r) = Taken(h) /\ Given(r) = Given(h) /\ \A b : MinorsOf(r, b) = MinorsOf(h, b)
  BY <1>3 DEF Taken, Given, MinorsOf
<1>5. \A b : UsageOf(r, b) = UsageOf(h, b)
  BY <1>4 DEF UsageOf
<1> QED
  BY <1>2, <1>3, <1>4, <1>5 DEF Counted, r

LEMMA FreedCounted ==
    ASSUME NEW h, Sound(h), Counted(h), NEW m \in DOMAIN h.minors
    PROVE  Counted(Freed(h, m))
<1> DEFINE a == h.minors[m].block
           w == WithoutMinor(h, m)
           r == Freed(h, m)
<1>1. Sound(w) /\ Counted(w) /\ DOMAIN w.majors = DOMAIN h.majors
  BY WithoutMinorSound, WithoutMinorCounted
<1>2. a \in DOMAIN w.majors
  BY <1>1 DEF Sound, MinorsApart
<1>3. r = IF MinorsOf(w, a) = {} THEN WithoutMajor(w, a)
          ELSE [w EXCEPT !.bestBet = IF @ # Null /\ Avail(w, a) > Avail(w, @) THEN a ELSE @]
  BY DEF Freed
<1> HIDE DEF w, a, r
<1>4. CASE MinorsOf(w, a) = {}
  BY <1>1, <1>2, <1>3, <1>4, WithoutMajorCounted DEF r
<1>5. CASE MinorsOf(w, a) # {}
  <2>1. r.majors = w.majors /\ r.minors = w.minors /\ r.inuse = w.inuse
    BY <1>1, <1>3, <1>5 DEF Sound, HeapType
  <2> QED
    BY <1>1, <2>1, CountedSame DEF r
<1> QED
  BY <1>4, <1>5

\* Reallocate to a smaller size leaves the minor as large as it was.
LEMMA ShrunkCounted ==
    ASSUME NEW h, Sound(h), Counted(h), NEW m \in DOMAIN h.minors, NEW n
    PROVE  Counted([h EXCEPT !.minors[m].req = n])
<1> DEFINE N == [h.minors EXCEPT ![m].req = n]
           r == [h EXCEPT !.minors[m].req = n]
<1>0. h \in HeapType
  BY DEF Sound
<1>1. /\ DOMAIN N = DOMAIN h.minors
      /\ \A k \in DOMAIN N : N[k].block = h.minors[k].block /\ N[k].size = h.minors[k].size
  <2>1. h.minors \in [DOMAIN h.minors -> [block : Address, size : Nat, req : Requests]]
    BY <1>0, MinorMapType DEF HeapType
  <2> QED
    BY <2>1
<1>2. r.majors = h.majors /\ r.minors = N /\ r.inuse = h.inuse
  BY <1>0 DEF HeapType
<1> HIDE DEF N, r
<1>3. Taken(r) = Taken(h) /\ Given(r) = Given(h) /\ \A a : MinorsOf(r, a) = MinorsOf(h, a)
  BY <1>1, <1>2 DEF Taken, Given, MinorsOf
<1> QED
  BY <1>1, <1>2, <1>3 DEF Counted, UsageOf, r
----------------------------------------------------------------------------
\* The counters are right until ~Heap has run.
CInv == heap.mode # "destroyed" => Counted(heap)

LEMMA InitCInv == Init => CInv
<1> SUFFICES ASSUME Init PROVE CInv
  OBVIOUS
<1>1. heap.majors = [a \in {} |-> Null] /\ heap.minors = [a \in {} |-> Null] /\ heap.inuse = 0
  BY DEF Init
<1>2. DOMAIN heap.majors = {} /\ DOMAIN heap.minors = {}
  BY <1>1
<1>3. Total(Given(heap), {}) = 0
  BY TotalEmpty
<1>4. Counted(heap)
  BY <1>1, <1>2, <1>3 DEF Counted
<1> QED
  BY <1>4 DEF CInv

LEMMA MoveKeepsCInv ==
    ASSUME IInv, Counted(heap), NEW m \in DOMAIN heap.minors, NEW n \in Requests, Move(m, n)
    PROVE  Counted(heap')
<1>1. PICK got \in Granted(heap, n) :
          heap' = IF Succeeds(heap, n, got) /\ ~FreeFaults(Allocated(heap, n, got), m)
                  THEN Freed(Allocated(heap, n, got), m)
                  ELSE Faulted(heap)
  BY DEF Move
<1>2. CASE Succeeds(heap, n, got) /\ ~FreeFaults(Allocated(heap, n, got), m)
  <2> DEFINE r == Allocated(heap, n, got)
  <2>1. Sound(r) /\ Counted(r) /\ \E g \in Address : OneMore(heap, r, g, n)
    BY <1>2, AllocatedSound, AllocatedCounted DEF IInv
  <2>2. m \in DOMAIN r.minors
    BY <2>1 DEF OneMore
  <2>3. heap' = Freed(r, m)
    BY <1>1, <1>2
  <2> HIDE DEF r
  <2> QED
    BY <2>1, <2>2, <2>3, FreedCounted
<1>3. CASE ~ (Succeeds(heap, n, got) /\ ~FreeFaults(Allocated(heap, n, got), m))
  <2>1. heap' = Faulted(heap)
    BY <1>1, <1>3
  <2>2. heap'.majors = heap.majors /\ heap'.minors = heap.minors /\ heap'.inuse = heap.inuse
    BY <2>1 DEF Faulted, IInv, Sound, HeapType
  <2> QED
    BY <2>2, CountedSame
<1> QED
  BY <1>2, <1>3

LEMMA NextCInv == IInv /\ CInv /\ [Next]_heap => CInv'
<1> SUFFICES ASSUME IInv, CInv, [Next]_heap
             PROVE  CInv'
  OBVIOUS
<1>1. Intact => Counted(heap)
  BY DEF Intact, CInv
<1>2. ASSUME NEW n \in Requests, Allocate(n)
      PROVE  Counted(heap')
  <2>1. PICK got \in Granted(heap, n) : heap' = Allocated(heap, n, got)
    BY <1>2 DEF Allocate
  <2> QED
    BY <1>1, <1>2, <2>1, AllocatedCounted DEF IInv, Allocate
<1>3. ASSUME NEW m \in DOMAIN heap.minors, Free(m)
      PROVE  Counted(heap')
  BY <1>1, <1>3, FreedCounted DEF IInv, Free
<1>4. ASSUME NEW m \in DOMAIN heap.minors, NEW n \in Requests, Shrink(m, n)
      PROVE  Counted(heap')
  BY <1>1, <1>4, ShrunkCounted DEF IInv, Shrink
<1>5. ASSUME NEW m \in DOMAIN heap.minors, NEW n \in Requests, Move(m, n)
      PROVE  Counted(heap')
  BY <1>1, <1>5, MoveKeepsCInv DEF Move
<1>6. CASE Fault
  <2>1. heap' = Faulted(heap) /\ Counted(heap)
    BY <1>1, <1>6 DEF Fault
  <2>2. heap'.majors = heap.majors /\ heap'.minors = heap.minors /\ heap'.inuse = heap.inuse
    BY <2>1 DEF Faulted, IInv, Sound, HeapType
  <2> QED
    BY <2>1, <2>2, CountedSame DEF CInv
<1>7. CASE Destroy
  <2>1. heap'.mode = "destroyed"
    BY <1>7 DEF Destroy, IInv, Sound, HeapType
  <2> QED
    BY <2>1 DEF CInv
<1>8. CASE UNCHANGED heap
  BY <1>8 DEF CInv
<1> QED
  BY <1>2, <1>3, <1>4, <1>5, <1>6, <1>7, <1>8 DEF Next, CInv

LEMMA CountersAlways == Spec => [](IInv /\ CInv)
<1>1. Init => IInv /\ CInv
  BY InitIInv, InitCInv
<1>2. IInv /\ CInv /\ [Next]_heap => (IInv /\ CInv)'
  BY NextIInv, NextCInv
<1> QED
  BY <1>1, <1>2, PTL DEF Spec

\* The usage of every major is its header and the minors in it with theirs,
\* and l_inuse is the bytes in all minors, after any sequence of calls.
THEOREM UsageAccountedCorrect == Spec => []UsageAccounted
<1>1. IInv /\ CInv => UsageAccounted
  <2> SUFFICES ASSUME IInv, CInv, heap.mode # "destroyed"
               PROVE  /\ \A a \in DOMAIN heap.majors :
                            heap.majors[a].usage =
                                MajorSize + MapThenSumSet(LAMBDA m : MinorSize + heap.minors[m].size, MinorsOf(heap, a))
                      /\ heap.inuse = MapThenSumSet(LAMBDA m : heap.minors[m].size, DOMAIN heap.minors)
    BY Zenon DEF UsageAccounted
  <2>1. heap \in HeapType /\ Counted(heap)
    BY DEF IInv, Sound, CInv
  <2>2. ASSUME NEW a \in DOMAIN heap.majors
        PROVE  heap.majors[a].usage =
                   MajorSize + MapThenSumSet(LAMBDA m : MinorSize + heap.minors[m].size, MinorsOf(heap, a))
    <3> DEFINE S == MinorsOf(heap, a)
    <3>1. IsFiniteSet(S) /\ \A m \in S : Taken(heap)[m] = MinorSize + heap.minors[m].size
      BY <2>1, MinorsFinite DEF Taken
    <3> HIDE DEF S
    <3>2. MapThenSumSet(LAMBDA m : MinorSize + heap.minors[m].size, S) = Total(Taken(heap), S)
      BY <3>1, SumOfSizes, Zenon
    <3>3. heap.majors[a].usage = MajorSize + Total(Taken(heap), S)
      BY <2>1 DEF Counted, UsageOf, S
    <3> QED
      BY <3>2, <3>3, Zenon DEF S
  <2>3. heap.inuse = MapThenSumSet(LAMBDA m : heap.minors[m].size, DOMAIN heap.minors)
    <3> DEFINE S == DOMAIN heap.minors
    <3>1. IsFiniteSet(S) /\ \A m \in S : Given(heap)[m] = heap.minors[m].size
      BY <2>1, MinorsFinite DEF Given
    <3> HIDE DEF S
    <3>2. MapThenSumSet(LAMBDA m : heap.minors[m].size, S) = Total(Given(heap), S)
      BY <3>1, SumOfBlocks, Zenon
    <3>3. heap.inuse = Total(Given(heap), S)
      BY <2>1 DEF Counted, S
    <3> QED
      BY <3>2, <3>3, Zenon DEF S
  <2> QED
    BY <2>2, <2>3, Zenon
<1> QED
  BY <1>1, CountersAlways, PTL
----------------------------------------------------------------------------
\* The heap grows only without room.

LEMMA TotalDisjoint ==
    ASSUME NEW w, NEW A, NEW B, IsFiniteSet(A), IsFiniteSet(B), A \cap B = {},
           \A x \in A \cup B : w[x] \in Int
    PROVE  /\ Total(w, A \cup B) = Total(w, A) + Total(w, B)
           /\ Total(w, A) \in Int /\ Total(w, B) \in Int
<1> DEFINE P == {n \in Nat : \A s \in SUBSET B : Cardinality(s) = n =>
                    Total(w, A \cup s) = Total(w, A) + Total(w, s)}
<1>1. ASSUME NEW s \in SUBSET B
      PROVE  /\ IsFiniteSet(s) /\ Cardinality(s) \in Nat /\ IsFiniteSet(A \cup s)
             /\ Total(w, A) \in Int /\ Total(w, s) \in Int
  <2>1. IsFiniteSet(s) /\ IsFiniteSet(A \cup s) /\ Cardinality(s) \in Nat
    BY FS_Subset, FS_Union, FS_CardinalityType
  <2> QED
    BY <2>1, TotalAgrees
<1>2. 0 \in P
  <2>1. ASSUME NEW s \in SUBSET B, Cardinality(s) = 0
        PROVE  Total(w, A \cup s) = Total(w, A) + Total(w, s)
    <3>1. s = {} /\ A \cup s = A
      BY <1>1, <2>1, FS_EmptySet
    <3> QED
      BY <1>1, <3>1, TotalEmpty
  <2> QED
    BY <2>1
<1>3. ASSUME NEW n \in Nat, n \in P PROVE n + 1 \in P
  <2>1. ASSUME NEW s \in SUBSET B, Cardinality(s) = n + 1
        PROVE  Total(w, A \cup s) = Total(w, A) + Total(w, s)
    <3>0. IsFiniteSet(s) /\ IsFiniteSet(A \cup s) /\ s # {}
      <4>1. Cardinality({}) # n + 1
        BY FS_EmptySet
      <4> QED
        BY <1>1, <2>1, <4>1
    <3>1. PICK y \in s : TRUE
      BY <3>0
    <3> DEFINE t == s \ {y}
               u == A \cup s
    <3>2. t \in SUBSET B /\ u \ {y} = A \cup t /\ y \in u /\ \A x \in u : w[x] \in Int
      OBVIOUS
    <3>3. Cardinality(t) = n
      <4>1. Cardinality(t) = Cardinality(s) - 1
        BY <3>0, FS_RemoveElement
      <4> QED
        BY <2>1, <4>1
    <3>4. Total(w, A \cup t) = Total(w, A) + Total(w, t)
      BY <1>3, <3>2, <3>3
    <3>5. Total(w, u) = w[y] + Total(w, u \ {y})
      <4> HIDE DEF u
      <4> QED
        BY <3>0, <3>2, TotalStep DEF u
    <3>6. Total(w, s) = w[y] + Total(w, t)
      <4>1. \A x \in s : w[x] \in Int
        OBVIOUS
      <4> QED
        BY <3>0, <4>1, TotalStep
    <3>7. w[y] \in Int /\ Total(w, A) \in Int /\ Total(w, t) \in Int
      BY <1>1, <3>2
    <3> HIDE DEF t, u
    <3>8. Total(w, u) = w[y] + (Total(w, A) + Total(w, t))
      BY <3>2, <3>4, <3>5
    <3>9. Total(w, u) = Total(w, A) + Total(w, s)
      BY <3>6, <3>7, <3>8
    <3> QED
      BY <3>9 DEF u
  <2> QED
    BY <2>1
<1> HIDE DEF P
<1>4. Nat \subseteq P
  BY <1>2, <1>3, InductionOnNat
<1>5. Cardinality(B) \in P
  BY <1>1, <1>4
<1> QED
  BY <1>1, <1>5 DEF P

\* Minors between two addresses take no more than lies between these.
LEMMA MinorsPacked ==
    ASSUME NEW h, Sound(h), NEW S \in SUBSET DOMAIN h.minors, NEW lo \in Int, NEW hi \in Int, lo <= hi,
           \A m \in S : lo <= m /\ MinorEnd(h, m) <= hi
    PROVE  Total(Taken(h), S) \in Int /\ Total(Taken(h), S) <= hi - lo
<1> DEFINE Fits(s, e) == (\A m \in s : MinorEnd(h, m) <= e) => Total(Taken(h), s) <= e - lo
           P == {n \in Nat : \A s \in SUBSET S : Cardinality(s) = n =>
                    \A e \in Int : lo <= e => Fits(s, e)}
<1>0. h \in HeapType /\ MinorsApart(h)
  BY DEF Sound
<1>1. ASSUME NEW s \in SUBSET S
      PROVE  IsFiniteSet(s) /\ Cardinality(s) \in Nat /\ Total(Taken(h), s) \in Int
  <2>1. s \in SUBSET DOMAIN h.minors
    OBVIOUS
  <2>2. IsFiniteSet(s)
    BY <1>0, <2>1, MinorsFinite, FS_Subset
  <2>3. Total(Taken(h), s) \in Int
    BY <1>0, <2>1, TotalsCarry
  <2> QED
    BY <2>2, <2>3, FS_CardinalityType
<1>2. 0 \in P
  <2>1. ASSUME NEW s \in SUBSET S, Cardinality(s) = 0, NEW e \in Int, lo <= e
        PROVE  Fits(s, e)
    <3>1. s = {}
      BY <1>1, <2>1, FS_EmptySet
    <3>2. Total(Taken(h), s) = 0
      BY <3>1, TotalEmpty
    <3> QED
      BY <2>1, <3>2
  <2> HIDE DEF Fits
  <2> QED
    BY <2>1
<1>3. ASSUME NEW n \in Nat, n \in P PROVE n + 1 \in P
  <2>1. ASSUME NEW s \in SUBSET S, Cardinality(s) = n + 1, NEW e \in Int,
               \A m \in s : MinorEnd(h, m) <= e
        PROVE  Total(Taken(h), s) <= e - lo
    <3>1. \A m \in s : m \in Nat /\ m \in DOMAIN h.minors
      BY <1>0, FieldTypes
    <3>2. PICK m \in s : \A k \in s : k <= m
      <4> DEFINE f == [k \in s |-> k]
      <4>1. f \in [s -> Int] /\ s # {} /\ IsFiniteSet(s)
        BY <1>1, <2>1, <3>1, FS_EmptySet
      <4> HIDE DEF f
      <4>2. \E m \in s : \A k \in s : f[k] <= f[m]
        BY <4>1, LargestExists
      <4> QED
        BY <4>2 DEF f
    <3> DEFINE t == s \ {m}
    <3>3. t \in SUBSET S /\ Cardinality(t) = n /\ m \in DOMAIN h.minors /\ m \in Int
      <4>1. Cardinality(t) = Cardinality(s) - 1
        BY <1>1, FS_RemoveElement
      <4> QED
        BY <2>1, <3>1, <4>1
    <3>4. \A k \in t : MinorEnd(h, k) <= m
      <4>1. \A k \in t : k \in DOMAIN h.minors /\ k < m
        BY <3>1, <3>2
      <4> QED
        BY <1>0, <3>3, <4>1 DEF MinorsApart
    <3>5. Total(Taken(h), t) <= m - lo
      <4>1. Fits(t, m)
        BY <1>3, <3>3
      <4> QED
        BY <3>4, <4>1
    <3>6. Total(Taken(h), s) = MinorSize + h.minors[m].size + Total(Taken(h), t)
      <4>1. s \in SUBSET DOMAIN h.minors
        OBVIOUS
      <4> QED
        BY <1>0, <4>1, TotalsStep
    <3>7. MinorEnd(h, m) <= e /\ Total(Taken(h), t) \in Int
      BY <1>1, <2>1, <3>3
    <3>8. h.minors[m].size \in Nat /\ MinorSize \in Nat
      BY <1>0, <3>3, FieldTypes, HeapAssumption
    <3> HIDE DEF t
    <3> QED
      BY <3>3, <3>5, <3>6, <3>7, <3>8 DEF MinorEnd
  <2> QED
    BY <2>1
<1> HIDE DEF P
<1>4. Nat \subseteq P
  BY <1>2, <1>3, InductionOnNat
<1>5. Cardinality(S) \in P
  BY <1>1, <1>4
<1>6. Fits(S, hi)
  BY <1>5 DEF P
<1> QED
  BY <1>1, <1>6

\* Where a new minor fits, the search finds an address for it.
LEMMA GapFound ==
    ASSUME NEW h, Sound(h), NEW a \in DOMAIN h.majors, NEW n \in Requests, NEW g \in Int,
           a + MajorSize <= g, Gap(h, a, g, n)
    PROVE  Gaps(h, a, n) # {}
<1> DEFINE below == {m \in MinorsOf(h, a) : MinorEnd(h, m) <= g}
<1>1. h \in HeapType
  BY DEF Sound
<1>2. /\ a \in Nat /\ MajorSize \in Nat /\ MajorEnd(h, a) \in Nat /\ Need(n) \in Nat
      /\ \A m \in MinorsOf(h, a) : m \in Nat /\ MinorEnd(h, m) \in Nat
  BY <1>1, FieldTypes, NeedType, HeapAssumption DEF MinorsOf
<1>3. g + Need(n) <= MajorEnd(h, a)
  BY DEF Gap
<1>4. \A m \in MinorsOf(h, a) : m \notin below => g + Need(n) <= m
  BY DEF Gap
<1>5. CASE below = {}
  <2> DEFINE f == a + MajorSize
  <2>1. f \in Int /\ f <= g
    BY <1>2
  <2> HIDE DEF f
  <2>2. f + Need(n) <= MajorEnd(h, a)
    BY <1>2, <1>3, <2>1
  <2>3. \A m \in MinorsOf(h, a) : f + Need(n) <= m
    BY <1>2, <1>4, <1>5, <2>1
  <2>4. Gap(h, a, f, n)
    BY <2>2, <2>3 DEF Gap
  <2> QED
    BY <2>4 DEF Gaps, f
<1>6. CASE below # {}
  <2>1. IsFiniteSet(below)
    BY <1>1, MinorsFinite, FS_Subset
  <2>2. PICK m \in below : \A k \in below : MinorEnd(h, k) <= MinorEnd(h, m)
    <3> DEFINE e == [k \in below |-> MinorEnd(h, k)]
    <3>1. e \in [below -> Int]
      BY <1>2
    <3> HIDE DEF e, below
    <3>2. \E m \in below : \A k \in below : e[k] <= e[m]
      BY <1>6, <2>1, <3>1, LargestExists
    <3> QED
      BY <3>2 DEF e
  <2> DEFINE f == MinorEnd(h, m)
  <2>3. f \in Int /\ f <= g /\ m \in MinorsOf(h, a)
    BY <1>2, <2>2
  <2>4. \A k \in MinorsOf(h, a) : f + Need(n) <= k \/ MinorEnd(h, k) <= f
    <3>1. \A k \in MinorsOf(h, a) : k \notin below => f + Need(n) <= k
      <4> HIDE DEF below, f
      <4> QED
        BY <1>2, <1>4, <2>3
    <3> QED
      BY <2>2, <3>1
  <2> HIDE DEF f
  <2>5. f + Need(n) <= MajorEnd(h, a)
    BY <1>2, <1>3, <2>3
  <2>6. Gap(h, a, f, n)
    BY <2>4, <2>5 DEF Gap
  <2> QED
    BY <2>3, <2>6 DEF Gaps, f
<1> QED
  BY <1>5, <1>6

\* And CASE 1 does not skip its major: the counter leaves as many bytes.
LEMMA GapCounted ==
    ASSUME NEW h, Sound(h), Counted(h), NEW a \in DOMAIN h.majors, NEW n \in Requests, NEW g \in Int,
           a + MajorSize <= g, Gap(h, a, g, n)
    PROVE  Avail(h, a) >= Need(n)
<1> DEFINE B == {m \in MinorsOf(h, a) : MinorEnd(h, m) <= g}
           C == MinorsOf(h, a) \ B
           lo == a + MajorSize
           top == g + Need(n)
           hi == MajorEnd(h, a)
<1>0. h \in HeapType /\ MinorsApart(h)
  BY DEF Sound
<1>1. /\ a \in Nat /\ MajorSize \in Nat /\ hi \in Nat /\ Need(n) \in Nat /\ h.majors[a].size \in Nat
  BY <1>0, FieldTypes, NeedType, HeapAssumption
<1>2. /\ lo \in Int /\ top \in Int /\ hi \in Int /\ lo <= g /\ top <= hi
  BY <1>1 DEF Gap
<1>3. \A m \in C : top <= m
  BY DEF Gap
<1>4. \A m \in MinorsOf(h, a) : m \in DOMAIN h.minors /\ lo <= m /\ MinorEnd(h, m) <= hi
  BY <1>0 DEF MinorsApart, MinorsOf
<1>5. /\ IsFiniteSet(B) /\ IsFiniteSet(C) /\ B \cap C = {} /\ B \cup C = MinorsOf(h, a)
      /\ B \in SUBSET DOMAIN h.minors /\ C \in SUBSET DOMAIN h.minors
  <2>1. IsFiniteSet(MinorsOf(h, a)) /\ B \subseteq MinorsOf(h, a) /\ C \subseteq MinorsOf(h, a)
    BY <1>0, MinorsFinite
  <2>2. IsFiniteSet(B) /\ IsFiniteSet(C)
    BY <2>1, FS_Subset
  <2> QED
    BY <1>4, <2>1, <2>2
<1>6. \A m \in B : lo <= m /\ MinorEnd(h, m) <= g
  BY <1>4
<1>7. \A m \in C : top <= m /\ MinorEnd(h, m) <= hi
  BY <1>3, <1>4
<1>8. \A m \in B \cup C : Taken(h)[m] \in Int
  <2>1. \A m \in DOMAIN h.minors : h.minors[m].size \in Nat /\ MinorSize \in Nat
    BY <1>0, FieldTypes, HeapAssumption
  <2> QED
    BY <1>5, <2>1 DEF Taken
<1> HIDE DEF B, C, lo, top, hi
<1>9. Total(Taken(h), B) \in Int /\ Total(Taken(h), B) <= g - lo
  BY <1>2, <1>5, <1>6, MinorsPacked
<1>10. Total(Taken(h), C) \in Int /\ Total(Taken(h), C) <= hi - top
  BY <1>2, <1>5, <1>7, MinorsPacked
<1>11. Total(Taken(h), MinorsOf(h, a)) = Total(Taken(h), B) + Total(Taken(h), C)
  BY <1>5, <1>8, TotalDisjoint
<1>12. h.majors[a].usage = MajorSize + Total(Taken(h), B) + Total(Taken(h), C)
  <2>1. h.majors[a].usage = MajorSize + (Total(Taken(h), B) + Total(Taken(h), C))
    BY <1>11 DEF Counted, UsageOf
  <2> QED
    BY <1>1, <1>9, <1>10, <2>1
<1>13. hi = a + h.majors[a].size /\ lo = a + MajorSize /\ top = g + Need(n)
  BY DEF hi, lo, top, MajorEnd
<1> QED
  BY <1>1, <1>2, <1>9, <1>10, <1>12, <1>13 DEF Avail

\* So if the search finds no major, no address of any major would do.
LEMMA NoRoomNoGap ==
    ASSUME NEW h, Sound(h), Counted(h), NEW n \in Requests, Roomy(h, n) = {},
           NEW a \in DOMAIN h.majors, NEW g \in a + MajorSize .. MajorEnd(h, a)
    PROVE  ~Gap(h, a, g, n)
<1> SUFFICES ASSUME Gap(h, a, g, n) PROVE FALSE
  OBVIOUS
<1>1. g \in Int /\ a + MajorSize <= g
  <2>1. a + MajorSize \in Int /\ MajorEnd(h, a) \in Int
    BY FieldTypes, HeapAssumption DEF Sound
  <2> QED
    BY <2>1
<1>2. Gaps(h, a, n) # {} /\ Avail(h, a) >= Need(n)
  BY <1>1, GapFound, GapCounted
<1>3. a \in Roomy(h, n)
  BY <1>2 DEF Roomy, HasRoom
<1> QED
  BY <1>3

\* A minor that Allocate puts into a new major had no other place.
LEMMA AllocatedGrows ==
    ASSUME NEW h, Sound(h), MajorsUsed(h), Counted(h), NEW n \in Requests, NEW got \in Granted(h, n),
           NEW m \in DOMAIN Allocated(h, n, got).minors, m \notin DOMAIN h.minors
    PROVE  /\ Allocated(h, n, got).minors[m].req = n
           /\ Allocated(h, n, got).minors[m].block \notin DOMAIN h.majors => Roomy(h, n) = {}
<1> DEFINE s == [h EXCEPT !.bestBet = BestBetAfter(h, n)]
           r == Allocated(h, n, got)
           e == h.heapEnd
           x == WithMajor(s, n)
<1>1. Sound(s) /\ MajorsUsed(s) /\ s.majors = h.majors /\ s.minors = h.minors
  BY SearchedSound
<1>2. \/ /\ Roomy(h, n) # {}
         /\ \E a \in DOMAIN s.majors : \E g \in Gaps(s, a, n) : r = WithMinor(s, a, g, n)
      \/ /\ Roomy(h, n) = {} /\ ~TooLarge(s, n)
         /\ e \in DOMAIN x.majors /\ e + MajorSize \in Gaps(x, e, n)
         /\ r = WithMinor(x, e, e + MajorSize, n)
      \/ Roomy(h, n) = {} /\ r = Extended(s, got)
  BY AllocatedSteps, Zenon
<1>3. ASSUME NEW y, Sound(y), y.minors = h.minors,
             NEW a \in DOMAIN y.majors, NEW g \in Gaps(y, a, n), r = WithMinor(y, a, g, n)
      PROVE  r.minors[m].req = n /\ r.minors[m].block = a
  <2>1. y \in HeapType /\ g \in Address
    BY <1>3, GapClear DEF Sound
  <2>2. DOMAIN r.minors = DOMAIN h.minors \cup {g} /\ r.minors[g] = [block |-> a, size |-> Size(n), req |-> n]
    BY <1>3, <2>1, WithMinorFields
  <2> HIDE DEF r
  <2>3. m = g
    BY <2>2 DEF r
  <2> QED
    BY <2>2, <2>3
<1> HIDE DEF s, r, e, x
<1>4. CASE /\ Roomy(h, n) # {}
           /\ \E a \in DOMAIN s.majors : \E g \in Gaps(s, a, n) : r = WithMinor(s, a, g, n)
  <2>1. PICK a \in DOMAIN s.majors : \E g \in Gaps(s, a, n) : r = WithMinor(s, a, g, n)
    BY <1>4
  <2>2. r.minors[m].req = n /\ r.minors[m].block = a
    BY <1>1, <1>3, <2>1
  <2> QED
    BY <1>1, <2>1, <2>2 DEF r
<1>5. CASE /\ Roomy(h, n) = {} /\ ~TooLarge(s, n)
           /\ e \in DOMAIN x.majors /\ e + MajorSize \in Gaps(x, e, n)
           /\ r = WithMinor(x, e, e + MajorSize, n)
  <2>1. Sound(x) /\ x.minors = h.minors
    BY <1>1, <1>5, WithMajorSound DEF x
  <2>2. r.minors[m].req = n
    BY <1>3, <1>5, <2>1
  <2> QED
    BY <1>5, <2>2 DEF r
<1>6. CASE Roomy(h, n) = {} /\ r = Extended(s, got)
  <2>1. r.minors = h.minors
    BY <1>1, <1>6 DEF Extended, Sound, HeapType
  <2> QED
    BY <2>1 DEF r
<1> QED
  BY <1>2, <1>4, <1>5, <1>6

\* GrowsOnlyWithoutRoom, of a step.
Grown(m) ==
    heap'.minors[m].block \notin DOMAIN heap.majors =>
        \A a \in DOMAIN heap.majors : \A g \in a + MajorSize .. MajorEnd(heap, a) :
            ~Gap(heap, a, g, heap'.minors[m].req)

LEMMA StepGrows ==
    ASSUME IInv, CInv, [Next]_heap, NEW m \in DOMAIN heap'.minors, m \notin DOMAIN heap.minors
    PROVE  Grown(m)
<1>1. Sound(heap) /\ MajorsUsed(heap) /\ heap \in HeapType
  BY DEF IInv, Sound
<1>2. Intact => Counted(heap)
  BY DEF Intact, CInv
<1>3. ASSUME NEW n \in Requests, NEW got \in Granted(heap, n), Intact,
             m \in DOMAIN Allocated(heap, n, got).minors,
             heap'.minors[m] = Allocated(heap, n, got).minors[m]
      PROVE  Grown(m)
  <2>1. /\ heap'.minors[m].req = n
        /\ heap'.minors[m].block \notin DOMAIN heap.majors => Roomy(heap, n) = {}
    BY <1>1, <1>2, <1>3, AllocatedGrows
  <2>2. Roomy(heap, n) = {} =>
            \A a \in DOMAIN heap.majors : \A g \in a + MajorSize .. MajorEnd(heap, a) : ~Gap(heap, a, g, n)
    BY <1>1, <1>2, <1>3, NoRoomNoGap
  <2> HIDE DEF Gap
  <2> QED
    BY <2>1, <2>2, Zenon DEF Grown
<1>4. ASSUME NEW n \in Requests, Allocate(n)
      PROVE  Grown(m)
  <2>1. PICK got \in Granted(heap, n) : heap' = Allocated(heap, n, got)
    BY <1>4 DEF Allocate
  <2> QED
    BY <1>3, <1>4, <2>1 DEF Allocate
<1>5. ASSUME NEW k \in DOMAIN heap.minors, NEW n \in Requests, Move(k, n)
      PROVE  Grown(m)
  <2>1. PICK got \in Granted(heap, n) :
          heap' = IF Succeeds(heap, n, got) /\ ~FreeFaults(Allocated(heap, n, got), k)
                  THEN Freed(Allocated(heap, n, got), k)
                  ELSE Faulted(heap)
    BY <1>5 DEF Move
  <2>2. CASE Succeeds(heap, n, got) /\ ~FreeFaults(Allocated(heap, n, got), k)
    <3> DEFINE r == Allocated(heap, n, got)
    <3>1. Sound(r) /\ MajorsUsed(r) /\ \E g \in Address : OneMore(heap, r, g, n)
      BY <1>1, <2>2, AllocatedSound
    <3>2. k \in DOMAIN r.minors
      BY <3>1 DEF OneMore
    <3>3. heap' = Freed(r, k)
      BY <2>1, <2>2
    <3> HIDE DEF r
    <3>4. m \in DOMAIN r.minors /\ heap'.minors[m] = r.minors[m]
      BY <3>1, <3>2, <3>3, FreedSound
    <3> QED
      BY <1>3, <1>5, <3>4 DEF r, Move
  <2>3. CASE ~ (Succeeds(heap, n, got) /\ ~FreeFaults(Allocated(heap, n, got), k))
    <3>1. heap'.minors = heap.minors
      BY <1>1, <2>1, <2>3, FaultedSound
    <3> QED
      BY <3>1
  <2> QED
    BY <2>2, <2>3
<1>6. ASSUME NEW k \in DOMAIN heap.minors, Free(k)
      PROVE  FALSE
  <2>1. heap' = Freed(heap, k)
    BY <1>6 DEF Free
  <2> QED
    BY <1>1, <2>1, FreedSound
<1>7. ASSUME NEW k \in DOMAIN heap.minors, NEW n \in Requests, Shrink(k, n)
      PROVE  FALSE
  <2>1. heap' = [heap EXCEPT !.minors[k].req = n] /\ n <= heap.minors[k].req
    BY <1>7 DEF Shrink
  <2> QED
    BY <1>1, <2>1, ShrunkSound
<1>8. CASE Fault
  BY <1>1, <1>8, FaultedSound DEF Fault
<1>9. CASE Destroy
  <2>1. heap'.minors = [x \in {} |-> Null]
    BY <1>1, <1>9 DEF Destroy, HeapType
  <2> QED
    BY <2>1
<1>10. CASE UNCHANGED heap
  BY <1>10
<1> QED
  BY <1>4, <1>5, <1>6, <1>7, <1>8, <1>9, <1>10 DEF Next

\* Whatever has been allocated, freed and moved before, a call adds a major
\* only if the block fits nowhere in those there are: the counters that let
\* the search skip a major never hide a gap.
THEOREM GrowsOnlyWithoutRoomAlways == Spec => GrowsOnlyWithoutRoom
<1>1. IInv /\ CInv /\ [Next]_heap =>
          [\A m \in DOMAIN heap'.minors \ DOMAIN heap.minors : Grown(m)]_heap
  BY StepGrows
<1>2. IInv /\ CInv /\ [Next]_heap =>
          [\A m \in DOMAIN heap'.minors \ DOMAIN heap.minors :
              heap'.minors[m].block \notin DOMAIN heap.majors =>
                 \A a \in DOMAIN heap.majors : \A g \in a + MajorSize .. MajorEnd(heap, a) :
                     ~Gap(heap, a, g, heap'.minors[m].req)]_heap
  BY <1>1, Zenon DEF Grown
<1> QED
  BY <1>2, CountersAlways, PTL DEF Spec, GrowsOnlyWithoutRoom
=============================================================================
