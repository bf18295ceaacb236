--------------------- MODULE PhysicalAllocator_proofs ---------------------
(* Invariants of PageAllocator, for bitmaps of any size. *)
EXTENDS PhysicalAllocator, WellFoundedInduction, TLAPS

\* Every set of natural numbers that is not empty has a least element.
LEMMA LeastElement ==
    ASSUME NEW S \in SUBSET Nat, S # {}
    PROVE  \E m \in S : \A n \in S : m <= n
<1>1. PICK m \in S : \A n \in S : ~ (<<n, m>> \in OpToRel(<, Nat))
  BY NatLessThanWellFounded, WFMin
<1>2. \A n \in S : ~ (n < m)
  BY <1>1 DEF OpToRel
<1> QED
  BY <1>2

\* What / and % yield for the bits of the first word of the bitmap.
LEMMA DivisionInFirstWord ==
    ASSUME NEW f \in Nat
    PROVE  /\ f < HalfWord => f \div HalfWord = 0 /\ f % HalfWord = f
           /\ f >= HalfWord => f \div HalfWord # 0
           /\ f < WordBits => f \div WordBits = 0
           /\ f >= WordBits => f \div WordBits # 0
           /\ f >= HalfWord /\ f < WordBits => f % HalfWord = f - HalfWord
  BY AllocatorAssumption DEF WordBits

\* firstFreeBit returns 0, or the lowest frame of the zone that tests free.
LEMMA FirstFreeBitCorrect ==
    ASSUME NEW dma \in BOOLEAN, FreeFrames(dma) # {}
    PROVE  /\ FirstFreeBit(dma) \in FreeFrames(dma)
           /\ \A g \in FreeFrames(dma) : FirstFreeBit(dma) <= g
<1>1. FreeFrames(dma) \in SUBSET Nat
  BY AllocatorAssumption DEF FreeFrames, Zone, DMAZoneEnd, WordBits
<1>2. \E f \in FreeFrames(dma) : \A g \in FreeFrames(dma) : f <= g
  BY <1>1, LeastElement
<1> QED
  BY <1>2 DEF FirstFreeBit

LEMMA FreeFramesAreFrames ==
    ASSUME NEW dma \in BOOLEAN
    PROVE  FreeFrames(dma) \subseteq Frame
  BY AllocatorAssumption DEF FreeFrames, Zone, DMAZoneEnd, WordBits, Frame

LEMMA FirstFreeBitIsFrame ==
    ASSUME NEW dma \in BOOLEAN
    PROVE  FirstFreeBit(dma) \in Frame
<1>1. 0 \in Frame
  BY AllocatorAssumption DEF Frame, WordBits
<1> QED
  BY <1>1, FirstFreeBitCorrect, FreeFramesAreFrames DEF FirstFreeBit

\* The upper half of the first word is never handed out: testBit reads the
\* bit of such a frame where it reads that of the frame HalfWord below it,
\* which is met first.
LEMMA UpperHalfNeverFirst ==
    ASSUME NEW dma \in BOOLEAN
    PROVE  FirstFreeBit(dma) \notin HalfWord .. WordBits - 1
<1> DEFINE b == FirstFreeBit(dma)
<1> SUFFICES ASSUME b \in HalfWord .. WordBits - 1
             PROVE  FALSE
  OBVIOUS
<1>1. b # 0 /\ b \in Nat /\ b - HalfWord \in Nat
  BY AllocatorAssumption DEF WordBits
<1>2. FreeFrames(dma) # {}
  BY <1>1 DEF FirstFreeBit
<1>3. b \in Zone(dma) /\ ~TestBit(b)
  BY <1>2, FirstFreeBitCorrect DEF FreeFrames
<1>4. b - HalfWord \in Zone(dma)
  BY <1>1, <1>3, AllocatorAssumption DEF Zone, DMAZoneEnd, WordBits
<1>5. /\ b \div WordBits = 0 /\ b % HalfWord = b - HalfWord
      /\ (b - HalfWord) \div WordBits = 0 /\ (b - HalfWord) % HalfWord = b - HalfWord
  <2>1. b - HalfWord < HalfWord /\ b - HalfWord < WordBits /\ b >= HalfWord /\ b < WordBits
    BY <1>1, AllocatorAssumption DEF WordBits
  <2> QED
    BY <1>1, <2>1, DivisionInFirstWord
<1>6. ~TestBit(b - HalfWord)
  BY <1>3, <1>5 DEF TestBit, Mask
<1>7. b <= b - HalfWord
  BY <1>2, <1>4, <1>6, FirstFreeBitCorrect DEF FreeFrames
<1> QED
  BY <1>1, <1>7, AllocatorAssumption

LEMMA MaskType ==
    ASSUME NEW n \in Nat
    PROVE  Mask(n) \subseteq 0 .. WordBits - 1
<1>1. n % HalfWord \in 0 .. HalfWord - 1
  BY AllocatorAssumption
<1> QED
  BY <1>1, AllocatorAssumption DEF Mask, WordBits

\* In the lower half of a word the mask of a low frame is its own bit.
LEMMA MaskOfLowFrame ==
    ASSUME NEW f \in 0 .. HalfWord - 1, NEW g \in 0 .. HalfWord - 1
    PROVE  g \in Mask(f) <=> g = f
<1>1. f % HalfWord = f
  BY DivisionInFirstWord, AllocatorAssumption
<1> QED
  BY <1>1, AllocatorAssumption DEF Mask, WordBits

\* The type invariant.
LEMMA TypeInit == Init => TypeOK
<1> SUFFICES ASSUME Init PROVE TypeOK
  OBVIOUS
<1>1. \A g \in Unusable \cup {0} : g \in Nat
  BY AllocatorAssumption DEF Frame, WordBits
<1>2. bitmap \in [0 .. FrameCount - 1 -> SUBSET (0 .. WordBits - 1)]
  BY <1>1, MaskType DEF Init
<1>3. holders \in [Frame -> 0 .. MaxHolders]
  BY AllocatorAssumption DEF Init
<1> QED
  BY <1>2, <1>3 DEF TypeOK

LEMMA TypeStep == TypeOK /\ [Next]_vars => TypeOK'
<1> SUFFICES ASSUME TypeOK, [Next]_vars PROVE TypeOK'
  OBVIOUS
<1>0. \A f \in Frame : f \in Nat
  BY AllocatorAssumption DEF Frame, WordBits
<1>1. ASSUME NEW dma \in BOOLEAN, AllocatePage(dma)
      PROVE  TypeOK'
  <2> DEFINE b == FirstFreeBit(dma)
  <2>1. b \in Frame /\ b \in Nat
    BY <1>0, FirstFreeBitIsFrame
  <2> HIDE DEF b
  <2>2. Mask(b) \subseteq 0 .. WordBits - 1
    BY <2>1, MaskType
  <2>3. bitmap' \in [0 .. FrameCount - 1 -> SUBSET (0 .. WordBits - 1)]
    BY <1>1, <2>2 DEF AllocatePage, WithBit, TypeOK, b
  <2>4. holders[b] < MaxHolders /\ holders' = IF b = 0 THEN holders ELSE [holders EXCEPT ![b] = @ + 1]
    BY <1>1 DEF AllocatePage, b
  <2>5. holders' \in [Frame -> 0 .. MaxHolders]
    BY <2>1, <2>4, AllocatorAssumption DEF TypeOK
  <2> QED
    BY <2>3, <2>5 DEF TypeOK
<1>2. ASSUME NEW f \in Frame, FreePage(f)
      PROVE  TypeOK'
  <2>1. bitmap' \in [0 .. FrameCount - 1 -> SUBSET (0 .. WordBits - 1)]
    BY <1>2 DEF FreePage, WithoutBit, TypeOK
  <2>2. holders' \in [Frame -> 0 .. MaxHolders]
    BY <1>2, AllocatorAssumption DEF FreePage, TypeOK
  <2> QED
    BY <2>1, <2>2 DEF TypeOK
<1>3. CASE UNCHANGED vars
  BY <1>3 DEF vars, TypeOK
<1> QED
  BY <1>1, <1>2, <1>3 DEF Next

\* Every word of the bitmap stays a 64-bit word: no mask reaches beyond one.
THEOREM TypeCorrect == Spec => []TypeOK
  BY TypeInit, TypeStep, PTL DEF Spec
----------------------------------------------------------------------------
\* LowFramesAccounted is not inductive: releasing a frame of the upper half
\* of the first word would clear the bit of a low frame.  Nobody ever holds
\* one of those.
UpperHalfUnheld == \A f \in HalfWord .. WordBits - 1 : holders[f] = 0

IInv == TypeOK /\ UpperHalfUnheld /\ LowFramesAccounted

LEMMA LowInit == Init => UpperHalfUnheld /\ LowFramesAccounted
<1> SUFFICES ASSUME Init PROVE UpperHalfUnheld /\ LowFramesAccounted
  OBVIOUS
<1>0. 0 .. WordBits - 1 \subseteq Frame
  BY AllocatorAssumption DEF Frame, WordBits
<1>1. \A f \in 0 .. WordBits - 1 : holders[f] = 0
  BY <1>0 DEF Init
<1>2. ASSUME NEW f \in 1 .. HalfWord - 1
      PROVE  f \in bitmap[0] <=> f \in Unusable
  \* low: the frames whose bits Init sets in word 0
  <2> DEFINE low == {g \in Unusable \cup {0} : g \div HalfWord = 0}
  <2>0. 0 \in 0 .. FrameCount - 1
    BY AllocatorAssumption
  <2>1. bitmap[0] = UNION {Mask(g) : g \in low}
    BY <2>0, Zenon DEF Init
  <2>2. \A g \in Unusable \cup {0} : g \in low <=> g \in 0 .. HalfWord - 1
    <3>1. \A g \in Unusable \cup {0} : g \in Nat
      BY AllocatorAssumption DEF Frame, WordBits
    <3>2. \A g \in Nat : g \div HalfWord = 0 <=> g < HalfWord
      BY DivisionInFirstWord, AllocatorAssumption
    <3> QED
      BY <3>1, <3>2, AllocatorAssumption
  <2>3. f \in bitmap[0] <=> \E g \in low : f \in Mask(g)
    BY <2>1
  <2>4. \A g \in low : f \in Mask(g) <=> f = g
    BY <2>2, MaskOfLowFrame
  <2> QED
    BY <2>2, <2>3, <2>4
<1>3. 1 .. HalfWord - 1 \subseteq 0 .. WordBits - 1 /\ HalfWord .. WordBits - 1 \subseteq 0 .. WordBits - 1
  BY AllocatorAssumption DEF WordBits
<1> QED
  BY <1>1, <1>2, <1>3 DEF UpperHalfUnheld, LowFramesAccounted

LEMMA LowAllocate ==
    ASSUME IInv, NEW dma \in BOOLEAN, AllocatePage(dma)
    PROVE  UpperHalfUnheld' /\ LowFramesAccounted'
<1> DEFINE b == FirstFreeBit(dma)
<1>1. b \in Frame /\ b \in Nat /\ b \notin HalfWord .. WordBits - 1
  BY FirstFreeBitIsFrame, UpperHalfNeverFirst, AllocatorAssumption DEF Frame, WordBits
<1>2. b # 0 => ~TestBit(b)
  BY FirstFreeBitCorrect DEF FirstFreeBit, FreeFrames
<1>3. /\ bitmap' = WithBit(bitmap, b)
      /\ holders' = IF b = 0 THEN holders ELSE [holders EXCEPT ![b] = @ + 1]
  BY DEF AllocatePage
<1> HIDE DEF b
<1>4. /\ 0 .. WordBits - 1 \subseteq Frame /\ 0 \in 0 .. FrameCount - 1
      /\ \A f \in 1 .. HalfWord - 1 : f \in Frame /\ f \in 0 .. HalfWord - 1
  BY AllocatorAssumption DEF Frame, WordBits
<1>5. UpperHalfUnheld'
  BY <1>1, <1>3, AllocatorAssumption DEF UpperHalfUnheld, IInv, TypeOK
<1>6. ASSUME NEW f \in 1 .. HalfWord - 1, b # f
      PROVE  holders'[f] = holders[f] /\ (f \in bitmap'[0] <=> f \in bitmap[0])
  <2>1. holders'[f] = holders[f]
    BY <1>3, <1>4, <1>6 DEF IInv, TypeOK
  <2>2. CASE b < HalfWord
    <3>1. b \in 0 .. HalfWord - 1
      BY <1>1, <2>2, AllocatorAssumption
    <3>2. f \notin Mask(b)
      BY <1>4, <1>6, <3>1, MaskOfLowFrame
    <3>3. bitmap'[0] = bitmap[0] \/ bitmap'[0] = bitmap[0] \cup Mask(b)
      BY <1>3, <1>4 DEF WithBit, IInv, TypeOK
    <3> QED
      BY <2>1, <3>2, <3>3
  <2>3. CASE b >= HalfWord
    <3>1. b \div HalfWord # 0
      BY <1>1, <2>3, DivisionInFirstWord
    <3> QED
      BY <1>3, <1>4, <2>1, <3>1 DEF WithBit, IInv, TypeOK
  <2> QED
    BY <1>1, <2>1, <2>2, <2>3, AllocatorAssumption
<1>7. ASSUME b \in 1 .. HalfWord - 1
      PROVE  b \notin Unusable /\ holders'[b] = 1 /\ b \in bitmap'[0]
  <2>1. b < HalfWord /\ b < WordBits /\ b \in 0 .. HalfWord - 1 /\ b # 0
    BY <1>7, AllocatorAssumption DEF WordBits
  <2>2. b \div WordBits = 0 /\ b \div HalfWord = 0 /\ b \in Mask(b)
    BY <1>1, <2>1, DivisionInFirstWord, MaskOfLowFrame
  <2>3. b \notin bitmap[0]
    BY <1>2, <2>1, <2>2 DEF TestBit
  <2>4. b \notin Unusable /\ holders[b] = 0
    BY <1>7, <1>4, <2>3, AllocatorAssumption DEF IInv, LowFramesAccounted, TypeOK
  <2>5. b \in bitmap'[0]
    BY <1>3, <1>4, <2>2 DEF WithBit, IInv, TypeOK
  <2>6. holders'[b] = 1
    BY <1>1, <1>3, <2>1, <2>4 DEF IInv, TypeOK
  <2> QED
    BY <2>4, <2>5, <2>6
<1> QED
  BY <1>5, <1>6, <1>7 DEF LowFramesAccounted, IInv

LEMMA LowFree ==
    ASSUME IInv, NEW f \in Frame, FreePage(f)
    PROVE  UpperHalfUnheld' /\ LowFramesAccounted'
<1>1. /\ f \in Nat /\ (f = 0 \/ holders[f] > 0)
      /\ bitmap' = WithoutBit(bitmap, f)
      /\ holders' = IF f = 0 THEN holders ELSE [holders EXCEPT ![f] = @ - 1]
  BY AllocatorAssumption DEF FreePage, Frame, WordBits
<1>2. f \notin HalfWord .. WordBits - 1
  BY <1>1, AllocatorAssumption DEF IInv, UpperHalfUnheld
<1>3. /\ 0 .. WordBits - 1 \subseteq Frame /\ 0 \in 0 .. FrameCount - 1
      /\ \A g \in 1 .. HalfWord - 1 : g \in Frame /\ g \in 0 .. HalfWord - 1
      /\ \A g \in HalfWord .. WordBits - 1 : g \in Frame
  BY AllocatorAssumption DEF Frame, WordBits
<1>4. UpperHalfUnheld'
  BY <1>1, <1>2, <1>3 DEF UpperHalfUnheld, IInv, TypeOK
<1>5. ASSUME NEW g \in 1 .. HalfWord - 1, g # f
      PROVE  holders'[g] = holders[g] /\ (g \in bitmap'[0] <=> g \in bitmap[0])
  <2>1. holders'[g] = holders[g]
    BY <1>1, <1>3, <1>5 DEF IInv, TypeOK
  <2>2. CASE f < HalfWord
    <3>1. f \in 0 .. HalfWord - 1
      BY <1>1, <2>2, AllocatorAssumption
    <3>2. g \notin Mask(f)
      BY <1>3, <1>5, <3>1, MaskOfLowFrame
    <3>3. bitmap'[0] = bitmap[0] \/ bitmap'[0] = bitmap[0] \ Mask(f)
      BY <1>1, <1>3 DEF WithoutBit, IInv, TypeOK
    <3> QED
      BY <2>1, <3>2, <3>3
  <2>3. CASE f >= WordBits
    <3>1. f \div WordBits # 0
      BY <1>1, <2>3, DivisionInFirstWord
    <3> QED
      BY <1>1, <1>3, <2>1, <3>1 DEF WithoutBit, IInv, TypeOK
  <2> QED
    BY <1>1, <1>2, <2>2, <2>3, AllocatorAssumption DEF WordBits
<1>6. ASSUME f \in 1 .. HalfWord - 1
      PROVE  f \notin Unusable /\ holders'[f] = 0 /\ f \notin bitmap'[0]
  <2>1. f < WordBits /\ f \in 0 .. HalfWord - 1
    BY <1>6, AllocatorAssumption DEF WordBits
  <2>2. f \notin Unusable /\ holders[f] = 1
    BY <1>1, <1>6 DEF IInv, LowFramesAccounted, TypeOK
  <2>3. f \div WordBits = 0 /\ f \in Mask(f)
    BY <1>1, <2>1, DivisionInFirstWord, MaskOfLowFrame
  <2>4. f \notin bitmap'[0]
    BY <1>1, <1>3, <2>3 DEF WithoutBit, IInv, TypeOK
  <2>5. f # 0
    BY <1>6, AllocatorAssumption
  <2>6. holders'[f] = 0
    BY <1>1, <2>2, <2>5 DEF IInv, TypeOK
  <2> QED
    BY <2>2, <2>4, <2>6
<1> QED
  BY <1>4, <1>5, <1>6 DEF LowFramesAccounted, IInv

\* The frames of the lower half of the first word are accounted for in every
\* reachable state: none is handed to two holders, none reserved by the
\* memory map is handed out, and none that is free is marked allocated.
THEOREM LowFramesCorrect == Spec => []LowFramesAccounted
<1>1. Init => IInv
  BY TypeInit, LowInit DEF IInv
<1>2. IInv /\ [Next]_vars => IInv'
  <2> SUFFICES ASSUME IInv, [Next]_vars PROVE IInv'
    OBVIOUS
  <2>1. TypeOK'
    BY TypeStep DEF IInv
  <2>2. UpperHalfUnheld' /\ LowFramesAccounted'
    <3>1. CASE \E dma \in BOOLEAN : AllocatePage(dma)
      BY <3>1, LowAllocate
    <3>2. CASE \E f \in Frame : FreePage(f)
      BY <3>2, LowFree
    <3>3. CASE UNCHANGED vars
      BY <3>3 DEF vars, IInv, UpperHalfUnheld, LowFramesAccounted
    <3> QED
      BY <3>1, <3>2, <3>3 DEF Next
  <2> QED
    BY <2>1, <2>2 DEF IInv
<1>3. IInv => LowFramesAccounted
  BY DEF IInv
<1> QED
  BY <1>1, <1>2, <1>3, PTL DEF Spec
=============================================================================
