---------------------------- MODULE MCScheduler ----------------------------
EXTENDS Scheduler, TLC
CONSTANTS p1, p2, p3, t1, t2, t3, t4, t5
MCProcess == {p1, p2, p3}
MCProcessFew == {p1, p2}
MCThread == {t1, t2, t3, t4, t5}
MCThreadFour == {t1, t2, t3, t4}
MCThreadFew == {t1, t2, t3}
MCBoot == <<p1, p2>>
MCBootThread == (p1 :> t1) @@ (p2 :> t2)
MCBootOne == <<p1>>
MCBootThreadOne == p1 :> t1
MCBootThree == <<p1, p2, p3>>
MCBootThreadThree == MCBootThread @@ (p3 :> t3)
MCPriority == [p \in Process |-> 1]

LateOnes == Permutations({t2, t3})
NewOnes == Permutations({t4, t5})
=============================================================================
