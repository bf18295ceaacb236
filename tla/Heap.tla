-------------------------------- MODULE Heap --------------------------------
(***************************************************************************)
(* The class Heap (Source/MemoryAllocation/AllocateMemory.cpp), an         *)
(* adaptation of liballoc: majors, runs of pages that grow the heap at its *)
(* end, hold minors, the headers of the blocks handed out.  A major and a  *)
(* minor are named by their addresses; the lists the code keeps of them    *)
(* are in the order of addresses, since majors are added at the end of the *)
(* heap and a minor between its neighbours, so list pointers are left out. *)
(* A caller is told the address Pointer(m); it stands for the minor m.     *)
(*                                                                         *)
(* Callers free and reallocate blocks in use only.  The processor's page   *)
(* directory and its TLB are not modelled, nor are the statistics other    *)
(* than l_inuse.                                                           *)
(***************************************************************************)
EXTENDS Integers, FiniteSetsExt

CONSTANTS HeapStart, HeapMax,    \* heapStart and heapMax of the constructor
          PageSize, PageCount,   \* PageSize, l_pageCount
          MajorSize, MinorSize,  \* sizeof liballoc_major, liballoc_minor
          Alignment, AlignInfo,  \* ALIGNMENT, ALIGN_INFO
          Requests               \* the sizes callers ask for

ASSUME HeapAssumption ==
    /\ HeapStart \in Nat \ {0} /\ HeapMax \in Nat /\ HeapStart <= HeapMax
    /\ PageSize \in Nat \ {0} /\ PageCount \in Nat
    /\ MajorSize \in Nat \ {0} /\ MinorSize \in Nat \ {0}
    /\ Alignment \in Nat \ {0} /\ AlignInfo \in Nat \ {0}
    /\ Requests \subseteq Nat

Null == 0

VARIABLE heap   \* the Heap object and what is in its memory, a record:
                \* majors, minors   the headers, by their addresses
                \* bestBet          l_bestBet
                \* heapEnd, inuse   heapEnd, l_inuse
                \* mapped           the addresses of the pages that are mapped
                \* mode             "faulted" once the kernel has touched a page
                \*                  that is not mapped or copied a block to NULL
                \*                  (nothing is claimed then), "destroyed" once
                \*                  ~Heap has run
----------------------------------------------------------------------------
\* Seeded fault of Size: no room to round the address up.
SizeUnrounded(n) == n + AlignInfo

\* What Allocate makes of a request, and what that takes in a major.
Size(n) == n + Alignment + AlignInfo
Need(n) == Size(n) + MinorSize

\* ALIGN: the address given to the caller.
Pointer(m) ==
    LET p == m + MinorSize + AlignInfo
    IN IF p % Alignment = 0 THEN p ELSE p + (Alignment - (p % Alignment))

MinorsOf(h, a) == {m \in DOMAIN h.minors : h.minors[m].block = a}

MinorEnd(h, m) == m + MinorSize + h.minors[m].size
MajorEnd(h, a) == a + h.majors[a].size

Avail(h, a) == h.majors[a].size - h.majors[a].usage

\* Seeded fault of Gap: the new minor's own header is forgotten.
GapWithoutHeader(h, a, g, n) ==
    /\ g + Size(n) <= MajorEnd(h, a)
    /\ \A m \in MinorsOf(h, a) : g + Size(n) <= m \/ MinorEnd(h, m) <= g

\* CASE 2 to 4: between address g and the next minor, or the end of the
\* major, there is room for a new minor.
Gap(h, a, g, n) ==
    /\ g + Need(n) <= MajorEnd(h, a)
    /\ \A m \in MinorsOf(h, a) : g + Need(n) <= m \/ MinorEnd(h, m) <= g

\* The code tries the start of the major and the end of each minor.
Gaps(h, a, n) ==
    {g \in {a + MajorSize} \cup {MinorEnd(h, m) : m \in MinorsOf(h, a)} : Gap(h, a, g, n)}

\* CASE 1 skips a major whose free bytes, contiguous or not, are too few.
HasRoom(h, a, n) == Avail(h, a) >= Need(n) /\ Gaps(h, a, n) # {}
----------------------------------------------------------------------------
\* The first pass goes from the best bet to the last major, if the best bet
\* has enough free bytes, else over all majors.
FirstPass(h, n) ==
    IF h.bestBet # Null /\ Avail(h, h.bestBet) > Need(n)
    THEN {a \in DOMAIN h.majors : a >= h.bestBet}
    ELSE DOMAIN h.majors

\* Seeded fault of Roomy: no second pass from l_memRoot.
RoomyInFirstPass(h, n) == {a \in FirstPass(h, n) : HasRoom(h, a, n)}

Roomy(h, n) == {a \in DOMAIN h.majors : HasRoom(h, a, n)}

\* Of some majors, the one the search meets first.
FirstMet(h, n, S) ==
    IF S \cap FirstPass(h, n) # {} THEN Min(S \cap FirstPass(h, n)) ELSE Min(S)

\* The majors the search looks at.
Searched(h, n) ==
    LET roomy == Roomy(h, n)
        found == FirstMet(h, n, roomy) IN
    IF roomy = {} THEN DOMAIN h.majors
    ELSE IF found \in FirstPass(h, n) THEN {a \in FirstPass(h, n) : a <= found}
    ELSE FirstPass(h, n) \cup {a \in DOMAIN h.majors : a <= found}

BestSize(h) == IF h.bestBet = Null THEN 0 ELSE Avail(h, h.bestBet)

\* l_bestBet after the search: the first major it meets with most free bytes,
\* if those are more than the best bet's.
BestBetAfter(h, n) ==
    LET S == Searched(h, n)
        top == {a \in S : \A b \in S : Avail(h, b) <= Avail(h, a)}
    IN IF \E a \in S : Avail(h, a) > BestSize(h) THEN FirstMet(h, n, top) ELSE h.bestBet

\* The headers the search reads.
SearchFaults(h, n) == ~ (Searched(h, n) \cup ({h.bestBet} \ {Null}) \subseteq h.mapped)
----------------------------------------------------------------------------
\* allocate_new_page: how many pages the new major has.
PagesFor(n) ==
    LET need == MajorSize + Need(n)
        pages == IF need % PageSize = 0 THEN need \div PageSize ELSE need \div PageSize + 1
    IN IF pages < PageCount THEN PageCount ELSE pages

\* Seeded fault of TooLarge: the limit is not tested.
NeverTooLarge(h, n) == FALSE

TooLarge(h, n) == h.heapEnd + PagesFor(n) * PageSize > HeapMax

\* How many of these pages liballoc_alloc may get from the PageAllocator.
Granted(h, n) == IF Roomy(h, n) # {} \/ TooLarge(h, n) THEN {0} ELSE 0 .. PagesFor(n)

Succeeds(h, n, got) == Roomy(h, n) # {} \/ got = PagesFor(n)

\* liballoc_alloc, with got pages: they stay mapped even if they are too few.
Extended(h, got) ==
    [h EXCEPT !.mapped = @ \cup {h.heapEnd + i * PageSize : i \in 0 .. got - 1},
              !.heapEnd = @ + got * PageSize]

\* The new major behind the last one.  The search goes on in it, unless it
\* left the last major by CASE 1, and compares it with the best bet.
WithMajor(h, n) ==
    LET a == h.heapEnd
        grown == Extended(h, PagesFor(n))
        new == [size |-> PagesFor(n) * PageSize, usage |-> MajorSize]
        lastFull == DOMAIN h.majors # {} /\ Avail(h, Max(DOMAIN h.majors)) < Need(n)
    IN [grown EXCEPT
          !.majors = [b \in DOMAIN h.majors \cup {a} |-> IF b = a THEN new ELSE h.majors[b]],
          !.bestBet = IF ~lastFull /\ new.size - new.usage > BestSize(h) THEN a ELSE @]

\* A new minor at address g of major a.
WithMinor(h, a, g, n) ==
    LET new == [block |-> a, size |-> Size(n), req |-> n]
    IN [h EXCEPT !.minors = [m \in DOMAIN h.minors \cup {g} |-> IF m = g THEN new ELSE h.minors[m]],
                 !.majors[a].usage = @ + Need(n),
                 !.inuse = @ + Size(n)]

\* Allocate, once the search has read the headers.
Allocated(h, n, got) ==
    LET searched == [h EXCEPT !.bestBet = BestBetAfter(h, n)]
        roomy == Roomy(h, n)
        a == FirstMet(h, n, roomy)
    IN IF roomy # {} THEN WithMinor(searched, a, Min(Gaps(h, a, n)), n)
       ELSE IF got = PagesFor(n)
       THEN WithMinor(WithMajor(searched, n), h.heapEnd, h.heapEnd + MajorSize, n)
       ELSE Extended(searched, got)
----------------------------------------------------------------------------
\* Seeded fault of WithoutMinor: the header is not taken off the usage.
WithoutMinorKeepHeader(h, m) ==
    [h EXCEPT !.minors = Restrict(@, DOMAIN h.minors \ {m}),
              !.majors[h.minors[m].block].usage = @ - h.minors[m].size,
              !.inuse = @ - h.minors[m].size]

WithoutMinor(h, m) ==
    [h EXCEPT !.minors = Restrict(@, DOMAIN h.minors \ {m}),
              !.majors[h.minors[m].block].usage = @ - (h.minors[m].size + MinorSize),
              !.inuse = @ - h.minors[m].size]

\* Seeded fault of WithoutMajor: l_bestBet is left as it is.
WithoutMajorKeepBet(h, a) ==
    [h EXCEPT !.majors = Restrict(@, DOMAIN h.majors \ {a}),
              !.mapped = {i \in h.mapped : i <= a \/ i > MajorEnd(h, a)},
              !.heapEnd = IF MajorEnd(h, a) = @ THEN a ELSE @]

\* A major without minors is unlinked, and liballoc_free takes its pages:
\* its loop runs from the page behind the major down to the second page.
WithoutMajor(h, a) ==
    [h EXCEPT !.majors = Restrict(@, DOMAIN h.majors \ {a}),
              !.bestBet = IF @ = a THEN Null ELSE @,
              !.mapped = {i \in h.mapped : i <= a \/ i > MajorEnd(h, a)},
              !.heapEnd = IF MajorEnd(h, a) = @ THEN a ELSE @]

Freed(h, m) ==
    LET a == h.minors[m].block
        r == WithoutMinor(h, m)
    IN IF MinorsOf(r, a) = {} THEN WithoutMajor(r, a)
       ELSE [r EXCEPT !.bestBet = IF @ # Null /\ Avail(r, a) > Avail(r, @) THEN a ELSE @]

\* The headers Free reads or writes: the major's; those of its neighbours if
\* it is unlinked, else that of the best bet.
FreeFaults(h, m) ==
    LET a == h.minors[m].block
        before == {b \in DOMAIN h.majors : b < a}
        after == {b \in DOMAIN h.majors : b > a}
        others == IF MinorsOf(h, a) # {m} THEN {h.bestBet} \ {Null}
                  ELSE {b \in before : b = Max(before)} \cup {b \in after : b = Min(after)}
    IN ~ ({a} \cup others \subseteq h.mapped)

\* Reallocate reads the block's header, which is in the major's first page
\* or in one that no call unmaps.
HeaderFaults(h, m) ==
    h.minors[m].block \notin h.mapped /\ m < h.minors[m].block + PageSize
----------------------------------------------------------------------------
Init == heap = [majors |-> [a \in {} |-> Null], minors |-> [m \in {} |-> Null],
                bestBet |-> Null, heapEnd |-> HeapStart, inuse |-> 0,
                mapped |-> {}, mode |-> "intact"]

Intact == heap.mode = "intact"
Faulted(h) == [h EXCEPT !.mode = "faulted"]

Allocate(n) ==
    /\ Intact /\ ~SearchFaults(heap, n)
    /\ \E got \in Granted(heap, n) : heap' = Allocated(heap, n, got)

Free(m) ==
    /\ Intact /\ ~FreeFaults(heap, m)
    /\ heap' = Freed(heap, m)

\* Reallocate to a size that is not larger (size 0 is Free).
Shrink(m, n) ==
    /\ Intact /\ n > 0 /\ n <= heap.minors[m].req
    /\ ~HeaderFaults(heap, m)
    /\ heap' = [heap EXCEPT !.minors[m].req = n]

\* Reallocate to a larger size: Allocate, copy, Free.
Move(m, n) ==
    /\ Intact /\ n > heap.minors[m].req
    /\ ~HeaderFaults(heap, m) /\ ~SearchFaults(heap, n)
    /\ \E got \in Granted(heap, n) :
          LET copied == Allocated(heap, n, got) IN
          heap' = IF Succeeds(heap, n, got) /\ ~FreeFaults(copied, m)
                  THEN Freed(copied, m)
                  ELSE Faulted(heap)

\* A call that touches a page that is not mapped; what it has changed before
\* is not kept.
Fault ==
    /\ Intact
    /\ \/ \E n \in Requests : SearchFaults(heap, n)
       \/ \E m \in DOMAIN heap.minors : FreeFaults(heap, m) \/ HeaderFaults(heap, m)
    /\ heap' = Faulted(heap)

\* ~Heap.
Destroy ==
    /\ Intact
    /\ heap' = [heap EXCEPT !.majors = [a \in {} |-> Null], !.minors = [m \in {} |-> Null],
                            !.bestBet = Null, !.mapped = {i \in @ : i >= heap.heapEnd},
                            !.mode = "destroyed"]

Next == \/ \E n \in Requests : Allocate(n)
        \/ \E m \in DOMAIN heap.minors : Free(m)
        \/ \E m \in DOMAIN heap.minors, n \in Requests : Shrink(m, n)
        \/ \E m \in DOMAIN heap.minors, n \in Requests : Move(m, n)
        \/ Fault
        \/ Destroy

Spec == Init /\ [][Next]_heap
----------------------------------------------------------------------------
Address == HeapStart .. HeapMax

\* Type invariant.
TypeOK ==
    /\ DOMAIN heap = {"majors", "minors", "bestBet", "heapEnd", "inuse", "mapped", "mode"}
    /\ DOMAIN heap.majors \subseteq Address
    /\ heap.majors \in [DOMAIN heap.majors -> [size : Nat, usage : Int]]
    /\ DOMAIN heap.minors \subseteq Address
    /\ heap.minors \in [DOMAIN heap.minors -> [block : Address, size : Nat, req : Requests]]
    /\ heap.bestBet \in Address \cup {Null}
    /\ heap.heapEnd \in Address /\ heap.inuse \in Int
    /\ heap.mapped \subseteq Address
    /\ heap.mode \in {"intact", "faulted", "destroyed"}

\* Majors are apart from each other and inside the heap; minors are apart
\* from each other, inside their major and large enough for their blocks.
\* It takes Allocate's search of gaps, Free's unlinking and the growth and
\* shrinking of the heap to keep this over long sequences of calls.
BlocksApart ==
    /\ \A a \in DOMAIN heap.majors :
          /\ MajorEnd(heap, a) <= heap.heapEnd
          /\ \A b \in DOMAIN heap.majors : a < b => MajorEnd(heap, a) <= b
    /\ \A m \in DOMAIN heap.minors :
          /\ heap.minors[m].block \in DOMAIN heap.majors
          /\ heap.minors[m].block + MajorSize <= m
          /\ MinorEnd(heap, m) <= MajorEnd(heap, heap.minors[m].block)
          /\ Size(heap.minors[m].req) <= heap.minors[m].size
          /\ \A k \in DOMAIN heap.minors : m < k => MinorEnd(heap, m) <= k

\* No pointer dangles: l_bestBet is a major of the heap, a minor's block too,
\* and a major without a minor, which no Free would ever release, is not kept.
NoDangling ==
    /\ heap.bestBet # Null => heap.bestBet \in DOMAIN heap.majors
    /\ \A a \in DOMAIN heap.majors : MinorsOf(heap, a) # {}

\* The counters that CASE 1, the best bet and the memory statistics rely on
\* agree with the blocks: usage of every major, and l_inuse.
UsageAccounted ==
    heap.mode # "destroyed" =>
        /\ \A a \in DOMAIN heap.majors :
              heap.majors[a].usage =
                  MajorSize + MapThenSumSet(LAMBDA m : MinorSize + heap.minors[m].size, MinorsOf(heap, a))
        /\ heap.inuse = MapThenSumSet(LAMBDA m : heap.minors[m].size, DOMAIN heap.minors)

\* A call adds a major only if no major had room for the block anywhere,
\* whichever major the search began with and whatever the counters said.
GrowsOnlyWithoutRoom ==
    [][\A m \in DOMAIN heap'.minors \ DOMAIN heap.minors :
          heap'.minors[m].block \notin DOMAIN heap.majors =>
             \A a \in DOMAIN heap.majors : \A g \in a + MajorSize .. MajorEnd(heap, a) :
                 ~Gap(heap, a, g, heap'.minors[m].req)]_heap

\* The blocks as callers know them, and the promise of AbstractHeap.
Blocks == {[start |-> Pointer(m), size |-> heap.minors[m].req] : m \in DOMAIN heap.minors}

Abstract == INSTANCE AbstractHeap WITH blocks <- Blocks
KeepsPromise == Abstract!Spec

\* "sequentially unmap the pages" (of the major that is released): while a
\* block is in use, the header of the major it is in is mapped.
LiveBlocksMapped ==
    Intact => \A m \in DOMAIN heap.minors : heap.minors[m].block \in heap.mapped
=============================================================================
