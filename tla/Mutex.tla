------------------------------- MODULE Mutex -------------------------------
(***************************************************************************)
(* Mutex::Lock and Mutex::Unlock (Source/IPC/Mutex.cpp) as run by several  *)
(* processors.  `atomic` is a volatile word (Include/IPC/Semaphore.h), so  *)
(* each read and each write of it in the C++ text is a step of its own; a  *)
(* processor between two of them is at one of the control points of pc:    *)
(*                                                                         *)
(*    "outside"   does not want the lock                                   *)
(*    "test"      about to read atomic in `if(this->atomic == 0)`          *)
(*    "spin"      about to read atomic in `while(this->atomic == 0)`       *)
(*    "take"      about to execute `this->atomic = 0`                      *)
(*    "critical"  Lock has returned, Unlock has not been called            *)
(*                                                                         *)
(* Lock does not set atomic when it leaves the spin loop: that is the      *)
(* code.                                                                   *)
(***************************************************************************)
EXTENDS Naturals

CONSTANT CPU    \* the processors that share the mutex

VARIABLES atomic,   \* Semaphore::atomic: 1 free, 0 taken
          pc        \* where each processor is in Lock / Unlock

vars == <<atomic, pc>>

\* Scheduler.cpp makes its two mutexes with new Mutex(true): they start free.
Init == /\ atomic = 1
        /\ pc = [c \in CPU |-> "outside"]

CallLock(c) == /\ pc[c] = "outside"
               /\ pc' = [pc EXCEPT ![c] = "test"]
               /\ UNCHANGED atomic

\* if(this->atomic == 0): spin, otherwise go and take it.
Test(c) == /\ pc[c] = "test"
           /\ pc' = [pc EXCEPT ![c] = IF atomic = 0 THEN "spin" ELSE "take"]
           /\ UNCHANGED atomic

\* The loop ends when atomic is seen non-zero, and with it Lock: atomic is
\* not written on this path.  Reading 0 is another turn of the loop.
Spin(c) == /\ pc[c] = "spin"
           /\ atomic # 0
           /\ pc' = [pc EXCEPT ![c] = "critical"]
           /\ UNCHANGED atomic

Take(c) == /\ pc[c] = "take"
           /\ atomic' = 0
           /\ pc' = [pc EXCEPT ![c] = "critical"]

\* Seeded faults of Unlock: it forgets the word; it counts instead of storing.
UnlockNoStore(c) == /\ pc[c] = "critical"
                    /\ pc' = [pc EXCEPT ![c] = "outside"]
                    /\ UNCHANGED atomic

UnlockCounting(c) == /\ pc[c] = "critical"
                     /\ atomic' = atomic + 1
                     /\ pc' = [pc EXCEPT ![c] = "outside"]

Unlock(c) == /\ pc[c] = "critical"
             /\ atomic' = 1
             /\ pc' = [pc EXCEPT ![c] = "outside"]

Step(c) == CallLock(c) \/ Test(c) \/ Spin(c) \/ Take(c) \/ Unlock(c)

Next == \E c \in CPU : Step(c)

\* A processor inside Lock or inside a critical section keeps executing:
\* every critical section of Scheduler.cpp is a bounded loop run with
\* interrupts off.  Nothing forces a processor to ask for the lock.
Fairness == \A c \in CPU : WF_vars(Test(c) \/ Spin(c) \/ Take(c) \/ Unlock(c))

Spec == Init /\ [][Next]_vars
FairSpec == Spec /\ Fairness
----------------------------------------------------------------------------
Critical == {c \in CPU : pc[c] = "critical"}

\* Type invariant.
TypeOK == /\ atomic \in {0, 1}
          /\ pc \in [CPU -> {"outside", "test", "spin", "take", "critical"}]

\* The lock is never stranded: while atomic is 0 some processor is between
\* Lock and Unlock, so a processor spinning in Lock always waits for somebody
\* who will call Unlock, whatever overlapping owners do to the word.
NoStrandedLock == atomic = 0 => Critical # {}

\* What the header says the mutex is for ("Used when enumerating the process
\* list, so that the state is consistent"): one processor at a time works on
\* the list.
MutualExclusion == \A c, d \in Critical : c = d

\* No processor is left behind in Lock with nobody getting in: whenever one
\* is inside Lock, some processor is in the critical section later on.
SomebodyGetsIn == \A c \in CPU : pc[c] \in {"test", "spin", "take"} ~> Critical # {}
=============================================================================
