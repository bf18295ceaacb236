------------------------- MODULE PhysicalAllocator -------------------------
(***************************************************************************)
(* Physical::PageAllocator                                                 *)
(* (Source/MemoryAllocation/PhysicalAllocator.cpp): the bitmap of page     *)
(* frames.  The bitmap is an array of 64-bit words, one bit per frame.     *)
(* testBit and clearBit take a frame's bit from word bit/64, setBit from   *)
(* word bit/32; all three build the mask as the int 1 << n, which the      *)
(* processor shifts by n mod 32 and which is then extended with its sign   *)
(* to 64 bits.  HalfWord stands for 32; a word of the bitmap is the set of *)
(* the positions of its 1 bits.                                            *)
(*                                                                         *)
(* AllocatePages has no caller and is not modelled.  FreePage is called    *)
(* with frames that AllocatePage returned, and with 0: what                *)
(* RetrieveMapping answers liballoc_free for a page that is not mapped.    *)
(***************************************************************************)
EXTENDS Integers

CONSTANTS HalfWord,    \* 32: the width of the int the masks are made with
          FrameCount,  \* PageAllocator::frameCount, a number of words
          DMASegment,  \* the words that cover DMAMemoryConstraint
          Unusable,    \* the frames the memory map marks bad or reserved
          MaxHolders   \* bound: grants of one frame that are not freed yet

WordBits == 2 * HalfWord
Frame == 0 .. FrameCount * WordBits - 1

ASSUME AllocatorAssumption ==
    /\ HalfWord \in Nat \ {0} /\ FrameCount \in Nat \ {0} /\ DMASegment \in Nat \ {0}
    /\ Unusable \subseteq Frame /\ MaxHolders \in Nat

VARIABLES bitmap,   \* PageAllocator::bitmap
          holders   \* how many AllocatePage calls returned the frame and
                    \* have not been matched by a FreePage

vars == <<bitmap, holders>>
----------------------------------------------------------------------------
\* PageAllocator::dmaZoneEnd, the first word that is not reserved for DMA;
\* 0 when there is no memory above the DMA segment.
DMAZoneEnd == IF FrameCount <= DMASegment THEN 0 ELSE DMASegment

\* Seeded fault of Mask: the shift is made in 64 bits and not limited.
MaskUnwrapped(n) == {n}

\* The 64-bit mask the expression 1 << n yields.
Mask(n) == IF n % HalfWord = HalfWord - 1 THEN HalfWord - 1 .. WordBits - 1
                                          ELSE {n % HalfWord}

TestBit(bit) == bitmap[bit \div WordBits] \cap Mask(bit) # {}

\* A word beyond the end of the bitmap is memory of somebody else's; no read
\* of the bitmap sees it.
WithBit(words, bit) ==
    [w \in DOMAIN words |-> IF w = bit \div HalfWord THEN words[w] \cup Mask(bit) ELSE words[w]]

\* Seeded fault of WithoutBit: = instead of &=.
WithoutBitByAssignment(words, bit) ==
    [w \in DOMAIN words |-> IF w = bit \div WordBits THEN 0 .. WordBits - 1 \ Mask(bit) ELSE words[w]]

WithoutBit(words, bit) ==
    [w \in DOMAIN words |-> IF w = bit \div WordBits THEN words[w] \ Mask(bit) ELSE words[w]]

\* The frames of the words firstFreeBit walks over.
Zone(dma) == IF dma THEN 0 .. DMAZoneEnd * WordBits - 1
                    ELSE DMAZoneEnd * WordBits .. FrameCount * WordBits - 1

FreeFrames(dma) == {f \in Zone(dma) : ~TestBit(f)}

\* The lowest free frame of the zone; 0 when there is none.
FirstFreeBit(dma) ==
    IF FreeFrames(dma) = {} THEN 0
    ELSE CHOOSE f \in FreeFrames(dma) : \A g \in FreeFrames(dma) : f <= g
----------------------------------------------------------------------------
\* CompleteInitialisation: a clear bitmap, then the frames of the memory
\* map, then frame 0, which means "no more memory" as a return value.
Init ==
    /\ bitmap = [w \in 0 .. FrameCount - 1 |->
                    UNION {Mask(f) : f \in {g \in Unusable \cup {0} : g \div HalfWord = w}}]
    /\ holders = [f \in Frame |-> 0]

AllocatePage(dma) ==
    LET bit == FirstFreeBit(dma) IN
    /\ holders[bit] < MaxHolders
    /\ bitmap' = WithBit(bitmap, bit)
    /\ holders' = IF bit = 0 THEN holders ELSE [holders EXCEPT ![bit] = @ + 1]

FreePage(f) ==
    /\ f = 0 \/ holders[f] > 0
    /\ bitmap' = WithoutBit(bitmap, f)
    /\ holders' = IF f = 0 THEN holders ELSE [holders EXCEPT ![f] = @ - 1]

Next == \/ \E dma \in BOOLEAN : AllocatePage(dma)
        \/ \E f \in Frame : FreePage(f)

Spec == Init /\ [][Next]_vars
----------------------------------------------------------------------------
\* Type invariant.
TypeOK == /\ bitmap \in [0 .. FrameCount - 1 -> SUBSET (0 .. WordBits - 1)]
          /\ holders \in [Frame -> 0 .. MaxHolders]

\* In the lower half of the first word, where setBit, testBit and clearBit
\* agree on the place of a frame's bit, the bitmap tells the truth: the bit
\* of a frame is 1 exactly when the memory map reserves the frame or one
\* holder has it.  No allocation or release of any other frame disturbs it.
LowFramesAccounted ==
    \A f \in 1 .. HalfWord - 1 :
        /\ f \in bitmap[0] <=> f \in Unusable \/ holders[f] > 0
        /\ holders[f] <= IF f \in Unusable THEN 0 ELSE 1

\* What AllocatePage's "Mark the memory as allocated" is for: a frame that
\* was handed out is not handed out again before it is freed.
HandedOutOnce == \A f \in Frame : holders[f] <= 1
=============================================================================
