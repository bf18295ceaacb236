----------------------------- MODULE MCDispatch -----------------------------
EXTENDS Dispatch, TLC
CONSTANTS t1, t2, p1, p2, b1, b2, x1, x2
MCOwner == [t \in {t1, t2} |-> IF t = t1 THEN p1 ELSE p2]
MCDriver(irq, raises, type) == [irq |-> irq, supportsInterrupts |-> raises, type |-> type]
MCDescription ==
    {MCDriver(1, TRUE, {Timer}), MCDriver(2, TRUE, {Timer, VFS}), MCDriver(1, FALSE, {VFS}), MCDriver(0, TRUE, {})}
MCFlagSets == {{0}, {2}, {0, 1}, {1, 2}, {1, 3}}
\* A thread changes places with the other one together with its process.
ThreadPermutations ==
    {t1 :> t1 @@ t2 :> t2 @@ p1 :> p1 @@ p2 :> p2, t1 :> t2 @@ t2 :> t1 @@ p1 :> p2 @@ p2 :> p1}
MCSymmetry ==
    {t @@ b @@ x : t \in ThreadPermutations, b \in Permutations({b1, b2}), x \in Permutations({x1, x2})}
=============================================================================
