----------------------------- MODULE LinkedList -----------------------------
(***************************************************************************)
(* The template class LinkedList<T> (Include/LinkedList.h).  A list is a   *)
(* record:                                                                 *)
(*                                                                         *)
(*    items  the values of the nodes reachable from First by Next, in that *)
(*           order; <<>> when First is a null pointer                      *)
(*    count  the field count, an unsigned int                              *)
(*    last   the value in the node Last points to, whether or not that     *)
(*           node is still reachable from First                            *)
(*                                                                         *)
(* Null is the value 0 of T.  A list built without an item has one node    *)
(* whose value is 0, so its items are <<Null>>.                            *)
(*                                                                         *)
(* Removing a node other than the first neither decrements count nor       *)
(* moves Last, and removing the first never touches Last: count may exceed *)
(* the number of reachable nodes, and Last may be a node that was cut off. *)
(* Whatever is added behind such a node is not reachable from First.       *)
(***************************************************************************)
EXTENDS Integers, Sequences, SequencesExt

CONSTANTS Null,      \* the value 0 of T
          WordSize   \* 2^32: the counters are unsigned int

ASSUME WordSizeAssumption == WordSize \in Nat /\ WordSize > 1

\* LinkedList() and LinkedList(firstItem) with a first item of 0.
EmptyList == [items |-> <<Null>>, count |-> 0, last |-> Null]

\* LinkedList(firstItem), and what Add leaves when count was 0.
ListOf(x) == [items |-> <<x>>, count |-> 1, last |-> x]

\* The value of *First; Null when First is a null pointer.
FirstItem(L) == IF L.items = <<>> THEN Null ELSE L.items[1]

\* Is the node Last points to reachable from First?
Attached(L) == L.items # <<>> /\ L.last = L.items[Len(L.items)]

\* LinkedList::Add.  A new node is linked behind Last only if Last holds a
\* value, and becomes Last in any case.
AddItem(L, x) ==
    IF L.count = 0
    THEN ListOf(x)
    ELSE [items |-> IF Attached(L) /\ L.last # Null THEN Append(L.items, x) ELSE L.items,
          count |-> (L.count + 1) % WordSize,
          last  |-> x]

\* LinkedList::Find, counting from 1: the index of x, and the index of the
\* first node when x is not in the list.
FindItem(L, x) ==
    IF \E i \in 1..Len(L.items) : L.items[i] = x
    THEN CHOOSE i \in 1..Len(L.items) :
            L.items[i] = x /\ \A j \in 1..i-1 : L.items[j] # x
    ELSE 1

\* LinkedList::Remove(T), which is Remove(Find(item)).  Of its branches:
\* the first node (First moves on, count drops); a list whose First is null
\* (count drops only if it is 0, through the test index == count; Last moves
\* too, but no Last makes a node reachable again before count is 0 and Add
\* replaces it); any other node (unlinked, count unchanged).  The test
\* index == count holds of no other node, because count is never below the
\* number of nodes.
RemoveItem(L, x) ==
    LET i == FindItem(L, x) IN
    IF L.items = <<>>
    THEN [L EXCEPT !.count = IF @ = 0 THEN WordSize - 1 ELSE @]
    ELSE [L EXCEPT !.items = IF i = 1 THEN Tail(@) ELSE RemoveAt(@, i),
                   !.count = IF i = 1 THEN (@ - 1) % WordSize ELSE @]

\* Unlinking the last of several nodes stores Previous through the null
\* pointer nd->Next (LinkedList.h:116).
StoresThroughNull(L, x) == FindItem(L, x) > 1 /\ FindItem(L, x) = Len(L.items)

\* The value in the node after the one that holds x; Null at the end.
ItemAfter(L, x) ==
    LET i == FindItem(L, x) IN IF i < Len(L.items) THEN L.items[i + 1] ELSE Null

ItemsOf(L) == {L.items[i] : i \in 1..Len(L.items)} \ {Null}

\* The lists of values of S.
List(S) == [items : Seq(S \cup {Null}), count : 0..WordSize-1, last : S \cup {Null}]

NoDuplicates(L) ==
    \A i, j \in 1..Len(L.items) : L.items[i] = L.items[j] => i = j
=============================================================================
