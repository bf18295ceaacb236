--------------------------- MODULE Mutex_proofs ---------------------------
(* Invariants of Mutex, for any set of processors. *)
EXTENDS Mutex, TLAPS

\* The type invariant is inductive: Lock and Unlock only ever store 0 and 1.
THEOREM TypeCorrect == Spec => []TypeOK
<1>1. Init => TypeOK
  BY DEF Init, TypeOK
<1>2. TypeOK /\ [Next]_vars => TypeOK'
  BY DEF TypeOK, Next, Step, vars, CallLock, Test, Spin, Take, Unlock
<1> QED
  BY <1>1, <1>2, PTL DEF Spec

\* Mutex::Lock never leaves the word at 0 with no owner: only Take stores 0,
\* and it makes its processor an owner; an owner leaves through Unlock, which
\* stores 1.  Unlock by an owner that overlaps another stores 1 too, so that
\* the other one's Unlock is never what a spinning processor depends on.
THEOREM LockNotStranded == Spec => []NoStrandedLock
<1>1. Init => NoStrandedLock
  BY DEF Init, NoStrandedLock
<1>2. TypeOK /\ NoStrandedLock /\ [Next]_vars => NoStrandedLock'
  <2> SUFFICES ASSUME TypeOK, NoStrandedLock, [Next]_vars, atomic' = 0
               PROVE  \E c \in CPU : pc'[c] = "critical"
    BY DEF NoStrandedLock, Critical
  <2>1. ASSUME NEW c \in CPU, Take(c)
        PROVE  pc'[c] = "critical"
    BY <2>1 DEF Take, TypeOK
  <2>2. ASSUME NEW c \in CPU, Unlock(c)
        PROVE  FALSE
    BY <2>2 DEF Unlock
  <2>3. ASSUME UNCHANGED atomic,
               \A d \in CPU : pc[d] = "critical" => pc'[d] = "critical"
        PROVE  \E c \in CPU : pc'[c] = "critical"
    BY <2>3 DEF NoStrandedLock, Critical
  <2>4. ASSUME NEW c \in CPU, CallLock(c) \/ Test(c) \/ Spin(c)
        PROVE  /\ UNCHANGED atomic
               /\ \A d \in CPU : pc[d] = "critical" => pc'[d] = "critical"
    BY <2>4 DEF CallLock, Test, Spin, TypeOK
  <2>5. ASSUME UNCHANGED vars
        PROVE  \E c \in CPU : pc'[c] = "critical"
    BY <2>3, <2>5 DEF vars
  <2> QED
    BY <2>1, <2>2, <2>3, <2>4, <2>5 DEF Next, Step
<1> QED
  BY <1>1, <1>2, TypeCorrect, PTL DEF Spec
=============================================================================
