-------------------------- MODULE LinkedList_proofs --------------------------
(* What the operations of LinkedList keep and what they return. *)
EXTENDS LinkedList, Induction, SequenceTheorems

\* Find returns the index of the value it looks for, or of the first node.
LEMMA FindItemCorrect ==
    ASSUME NEW S, NEW L \in List(S), NEW x, L.items # <<>>
    PROVE  /\ FindItem(L, x) \in 1..Len(L.items)
           /\ x \in ItemsOf(L) => L.items[FindItem(L, x)] = x
<1>1. L.items \in Seq(S \cup {Null}) /\ Len(L.items) \in Nat \ {0}
  BY EmptySeq DEF List
<1>2. CASE \E i \in 1..Len(L.items) : L.items[i] = x
  <2> DEFINE at == {i \in 1..Len(L.items) : L.items[i] = x}
  <2>1. at \in SUBSET Nat /\ at # {}
    BY <1>1, <1>2
  <2>2. PICK i \in at : \A j \in at : i <= j
    BY <2>1, LeastIndex
  <2>3. i \in 1..Len(L.items) /\ L.items[i] = x /\ \A j \in 1..i-1 : L.items[j] # x
    BY <1>1, <2>2
  <2> QED
    BY <1>2, <2>3 DEF FindItem
<1>3. CASE ~ \E i \in 1..Len(L.items) : L.items[i] = x
  BY <1>1, <1>3 DEF FindItem, ItemsOf
<1> QED
  BY <1>2, <1>3

LEMMA ItemsType ==
    ASSUME NEW S, NEW L \in List(S)
    PROVE  /\ L.items \in Seq(S \cup {Null}) /\ Len(L.items) \in Nat
           /\ L.count \in 0..WordSize-1 /\ L.last \in S \cup {Null}
           /\ \A i \in 1..Len(L.items) : L.items[i] \in S \cup {Null}
           /\ ItemsOf(L) \subseteq S
<1>1. L.items \in Seq(S \cup {Null}) /\ Len(L.items) \in Nat
  BY LenProperties DEF List
<1>2. \A i \in 1..Len(L.items) : L.items[i] \in S \cup {Null}
  BY <1>1, ElementOfSeq
<1> QED
  BY <1>1, <1>2 DEF ItemsOf, List

LEMMA FirstItemType ==
    ASSUME NEW S, NEW L \in List(S)
    PROVE  FirstItem(L) \in ItemsOf(L) \cup {Null}
<1>1. CASE L.items = <<>>
  BY <1>1 DEF FirstItem
<1>2. CASE L.items # <<>>
  <2>1. 1 \in 1..Len(L.items)
    BY <1>2, ItemsType, EmptySeq
  <2> QED
    BY <2>1 DEF FirstItem, ItemsOf
<1> QED
  BY <1>1, <1>2

LEMMA ItemAfterType ==
    ASSUME NEW S, NEW L \in List(S), NEW x
    PROVE  ItemAfter(L, x) \in ItemsOf(L) \cup {Null}
<1>1. CASE L.items = <<>>
  <2>1. Len(L.items) = 0 /\ FindItem(L, x) = 1
    BY <1>1, EmptySeq DEF FindItem
  <2> QED
    BY <2>1 DEF ItemAfter
<1>2. CASE L.items # <<>>
  <2>1. FindItem(L, x) \in 1..Len(L.items) /\ Len(L.items) \in Nat
    BY <1>2, FindItemCorrect, ItemsType
  <2>2. FindItem(L, x) < Len(L.items) => FindItem(L, x) + 1 \in 1..Len(L.items)
    BY <2>1
  <2> QED
    BY <2>2 DEF ItemAfter, ItemsOf
<1> QED
  BY <1>1, <1>2

\* Add makes a list of one value, appends the value, or leaves it out.
LEMMA AddItemCases ==
    ASSUME NEW S, NEW L \in List(S), NEW x \in S
    PROVE  /\ AddItem(L, x) \in List(S)
           /\ \/ AddItem(L, x).items = <<x>>
              \/ AddItem(L, x).items = L.items
              \/ AddItem(L, x).items = Append(L.items, x)
<1>1. <<x>> \in Seq(S \cup {Null}) /\ Append(L.items, x) \in Seq(S \cup {Null})
  BY ItemsType, AppendProperties
<1>2. (L.count + 1) % WordSize \in 0..WordSize-1 /\ 1 \in 0..WordSize-1
  <2>1. L.count \in 0..WordSize-1
    BY ItemsType
  <2> QED
    BY <2>1, WordSizeAssumption
<1> QED
  BY <1>1, <1>2 DEF AddItem, ListOf, List

\* A value that is not on the list is not made a duplicate by Add, which
\* loses no value's distinctness and adds no other value.
LEMMA AddItemKeeps ==
    ASSUME NEW S, NEW L \in List(S), NEW x \in S
    PROVE  /\ ItemsOf(AddItem(L, x)) \subseteq ItemsOf(L) \cup {x}
           /\ NoDuplicates(L) /\ x \notin ItemsOf(L) /\ x # Null => NoDuplicates(AddItem(L, x))
<1>0. L.items \in Seq(S \cup {Null}) /\ Len(L.items) \in Nat
  BY ItemsType
<1>1. CASE AddItem(L, x).items = <<x>>
  <2>1. Len(<<x>>) = 1 /\ <<x>>[1] = x
    OBVIOUS
  <2> QED
    BY <1>1, <2>1 DEF ItemsOf, NoDuplicates
<1>2. CASE AddItem(L, x).items = L.items
  BY <1>2 DEF ItemsOf, NoDuplicates
<1>3. CASE AddItem(L, x).items = Append(L.items, x)
  <2> DEFINE new == Append(L.items, x)
  <2>1. /\ Len(new) = Len(L.items) + 1
        /\ \A i \in 1..Len(L.items) : new[i] = L.items[i]
        /\ new[Len(L.items) + 1] = x
    BY <1>0, AppendProperties
  <2> HIDE DEF new
  <2>2. ItemsOf(AddItem(L, x)) \subseteq ItemsOf(L) \cup {x}
    BY <1>0, <1>3, <2>1 DEF ItemsOf, new
  <2>3. ASSUME NoDuplicates(L), x \notin ItemsOf(L), x # Null
        PROVE  \A i, j \in 1..Len(new) : new[i] = new[j] => i = j
    BY <1>0, <2>1, <2>3 DEF ItemsOf, NoDuplicates
  <2> QED
    BY <1>3, <2>2, <2>3 DEF NoDuplicates, new
<1> QED
  BY <1>1, <1>2, <1>3, AddItemCases

LEMMA RemoveAtCorrect ==
    ASSUME NEW S, NEW s \in Seq(S), NEW i \in 1..Len(s)
    PROVE  /\ RemoveAt(s, i) \in Seq(S)
           /\ Len(RemoveAt(s, i)) = Len(s) - 1
           /\ \A j \in 1..Len(s)-1 : RemoveAt(s, i)[j] = IF j < i THEN s[j] ELSE s[j+1]
<1>0. Len(s) \in Nat /\ i \in Int /\ \A j \in 1..Len(s) : s[j] \in S
  BY LenProperties, ElementOfSeq
<1> DEFINE a == SubSeq(s, 1, i-1)
           b == SubSeq(s, i+1, Len(s))
<1>1. /\ a \in Seq(S) /\ Len(a) = i - 1
      /\ \A j \in 1..i-1 : a[j] = s[j]
  <2>1. \A j \in 1..i-1 : s[j] \in S
    BY <1>0
  <2> QED
    BY <1>0, <2>1, SubSeqProperties
<1>2. /\ b \in Seq(S) /\ Len(b) = Len(s) - i
      /\ \A j \in 1..Len(s)-i : b[j] = s[i+j]
  <2>1. \A j \in i+1..Len(s) : s[j] \in S
    BY <1>0
  <2> QED
    BY <1>0, <2>1, SubSeqProperties
<1>3. RemoveAt(s, i) = a \o b
  BY DEF RemoveAt
<1> HIDE DEF a, b
<1>4. /\ a \o b \in Seq(S) /\ Len(a \o b) = Len(a) + Len(b)
      /\ \A j \in 1..Len(a)+Len(b) : (a \o b)[j] = IF j <= Len(a) THEN a[j] ELSE b[j - Len(a)]
  BY <1>1, <1>2, ConcatProperties
<1>5. ASSUME NEW j \in 1..Len(s)-1
      PROVE  (a \o b)[j] = IF j < i THEN s[j] ELSE s[j+1]
  <2>1. CASE j < i
    BY <1>0, <1>1, <1>2, <1>4, <2>1
  <2>2. CASE j >= i
    <3>1. j - (i-1) \in 1..Len(s)-i /\ i + (j - (i-1)) = j + 1
      BY <1>0, <2>2
    <3>2. (a \o b)[j] = b[j - (i-1)]
      BY <1>0, <1>1, <1>2, <1>4, <2>2
    <3> QED
      BY <1>0, <1>2, <2>2, <3>1, <3>2
  <2>3. j < i \/ j >= i
    BY <1>0
  <2> QED
    BY <2>1, <2>2, <2>3, Zenon
<1> QED
  BY <1>0, <1>1, <1>2, <1>3, <1>4, <1>5

\* What Remove leaves of a list that is not empty: the list without the node
\* that Find found.
LEMMA RemoveItemCases ==
    ASSUME NEW S, NEW L \in List(S), NEW x
    PROVE  /\ RemoveItem(L, x) \in List(S)
           /\ L.items = <<>> => RemoveItem(L, x).items = <<>>
           /\ L.items # <<>> =>
                /\ Len(RemoveItem(L, x).items) = Len(L.items) - 1
                /\ \A j \in 1..Len(L.items)-1 : RemoveItem(L, x).items[j] =
                       IF j < FindItem(L, x) THEN L.items[j] ELSE L.items[j+1]
<1> DEFINE i == FindItem(L, x)
<1>0. /\ L.items \in Seq(S \cup {Null}) /\ Len(L.items) \in Nat
      /\ L.count \in 0..WordSize-1 /\ L.last \in S \cup {Null}
      /\ L = [items |-> L.items, count |-> L.count, last |-> L.last]
  BY ItemsType DEF List
<1>1. (L.count - 1) % WordSize \in 0..WordSize-1 /\ WordSize - 1 \in 0..WordSize-1
  BY <1>0, WordSizeAssumption
<1>2. CASE L.items = <<>>
  BY <1>0, <1>1, <1>2 DEF RemoveItem, List
<1>3. CASE L.items # <<>>
  <2>1. i \in 1..Len(L.items)
    BY <1>3, FindItemCorrect
  <2> HIDE DEF i
  <2>2. /\ Tail(L.items) \in Seq(S \cup {Null}) /\ Len(Tail(L.items)) = Len(L.items) - 1
        /\ \A j \in 1..Len(L.items)-1 : Tail(L.items)[j] = L.items[j+1]
    BY <1>0, <1>3, HeadTailProperties
  <2>3. /\ RemoveAt(L.items, i) \in Seq(S \cup {Null}) /\ Len(RemoveAt(L.items, i)) = Len(L.items) - 1
        /\ \A j \in 1..Len(L.items)-1 :
              RemoveAt(L.items, i)[j] = IF j < i THEN L.items[j] ELSE L.items[j+1]
    BY <1>0, <2>1, RemoveAtCorrect
  <2>4. /\ RemoveItem(L, x).items = IF i = 1 THEN Tail(L.items) ELSE RemoveAt(L.items, i)
        /\ RemoveItem(L, x) \in List(S)
    BY <1>0, <1>1, <1>3, <2>2, <2>3 DEF RemoveItem, List, i
  <2>5. CASE i = 1
    BY <1>0, <1>3, <2>2, <2>4, <2>5 DEF i
  <2>6. CASE i # 1
    BY <1>3, <2>3, <2>4, <2>6 DEF i
  <2> QED
    BY <2>5, <2>6
<1> QED
  BY <1>2, <1>3

\* Remove adds no value; and from a list of different values it takes the
\* value it is called with, or the first one when that is not there.
LEMMA RemoveItemKeeps ==
    ASSUME NEW S, NEW L \in List(S), NEW x
    PROVE  /\ ItemsOf(RemoveItem(L, x)) \subseteq ItemsOf(L)
           /\ NoDuplicates(L) => NoDuplicates(RemoveItem(L, x)) /\ x \notin ItemsOf(RemoveItem(L, x))
<1> DEFINE R == RemoveItem(L, x)
           n == Len(L.items)
<1>0. n \in Nat /\ R \in List(S)
  BY ItemsType, RemoveItemCases
<1>1. CASE L.items = <<>>
  <2>1. R.items = <<>> /\ Len(R.items) = 0
    BY <1>1, RemoveItemCases, EmptySeq
  <2> QED
    BY <2>1 DEF ItemsOf, NoDuplicates
<1>2. CASE L.items # <<>>
  <2> DEFINE i == FindItem(L, x)
  <2>1. i \in 1..n /\ (x \in ItemsOf(L) => L.items[i] = x)
    BY <1>2, FindItemCorrect
  <2>2. Len(R.items) = n - 1 /\ \A j \in 1..n-1 : R.items[j] = IF j < i THEN L.items[j] ELSE L.items[j+1]
    BY <1>2, RemoveItemCases
  <2> HIDE DEF R, i
  <2>3. ItemsOf(R) \subseteq ItemsOf(L)
    <3>1. ASSUME NEW j \in 1..n-1 PROVE \E k \in 1..n : R.items[j] = L.items[k]
      BY <1>0, <2>1, <2>2
    <3> QED
      BY <2>2, <3>1 DEF ItemsOf
  <2>4. ASSUME NoDuplicates(L) PROVE NoDuplicates(R)
    <3>1. \A j, k \in 1..n-1 : R.items[j] = R.items[k] => j = k
      BY <1>0, <2>1, <2>2, <2>4 DEF NoDuplicates
    <3> QED
      BY <2>2, <3>1 DEF NoDuplicates
  <2>5. ASSUME NoDuplicates(L) PROVE x \notin ItemsOf(R)
    <3>1. SUFFICES ASSUME x \in ItemsOf(R) PROVE FALSE
      OBVIOUS
    <3>2. L.items[i] = x
      BY <2>1, <2>3, <3>1
    <3>3. PICK j \in 1..n-1 : R.items[j] = x
      BY <2>2, <3>1 DEF ItemsOf
    <3> QED
      BY <1>0, <2>1, <2>2, <2>5, <3>2, <3>3 DEF NoDuplicates
  <2> QED
    BY <2>3, <2>4, <2>5 DEF R
<1> QED
  BY <1>1, <1>2
=============================================================================
