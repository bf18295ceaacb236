---------------------------- MODULE AbstractHeap ----------------------------
(* What a heap promises its callers: the blocks it has handed out and not  *)
(* taken back are aligned, inside the heap and apart from each other.      *)
EXTENDS Integers

CONSTANTS HeapStart, HeapMax, Alignment, Requests

VARIABLE blocks   \* the blocks in use: where each starts, and its size

Block == [start : HeapStart .. HeapMax, size : Requests]

Apart(b, c) == /\ b.start # c.start
               /\ b.start + b.size <= c.start \/ c.start + c.size <= b.start

\* A block that may be handed out while the blocks of others are in use.
Fresh(b, others) == /\ b.start % Alignment = 0
                    /\ b.start + b.size <= HeapMax
                    /\ \A c \in others : Apart(b, c)

Init == blocks = {}

\* A request that is refused changes nothing.
Allocate == \E b \in blocks' \cap Block :
                blocks' = blocks \cup {b} /\ Fresh(b, blocks)

Free == \E b \in blocks : blocks' = blocks \ {b}

\* A reallocated block stays where it is or, to be larger, moves to a place
\* apart from the one it leaves.
Shrink == \E b \in blocks, c \in blocks' \cap Block :
             /\ blocks' = (blocks \ {b}) \cup {c}
             /\ c.start = b.start /\ c.size <= b.size

Move == \E b \in blocks, c \in blocks' \cap Block :
           /\ blocks' = (blocks \ {b}) \cup {c}
           /\ c.size > b.size /\ Fresh(c, blocks)

Destroy == blocks' = {}

Next == Allocate \/ Free \/ Shrink \/ Move \/ Destroy

Spec == Init /\ [][Next]_blocks
=============================================================================
