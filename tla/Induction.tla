----------------------------- MODULE Induction -----------------------------
(***************************************************************************)
(* Induction and recursion on the natural numbers.  A predicate is given   *)
(* as the set of the numbers it holds of, and the step of a recursion as a *)
(* function, so that the lemmas can be used for any of them.               *)
(***************************************************************************)
EXTENDS Integers, WellFoundedInduction, TLAPS

\* Every set of natural numbers that is not empty has a least element.
LEMMA LeastIndex ==
    ASSUME NEW S \in SUBSET Nat, S # {}
    PROVE  \E m \in S : \A n \in S : m <= n
<1>1. PICK m \in S : \A n \in S : ~ (<<n, m>> \in OpToRel(<, Nat))
  BY NatLessThanWellFounded, WFMin
<1>2. \A n \in S : ~ (n < m)
  BY <1>1 DEF OpToRel
<1> QED
  BY <1>2

\* What holds of 0, and of n + 1 when it holds of n, holds of every number.
LEMMA InductionOnNat ==
    ASSUME NEW P, 0 \in P, \A n \in Nat : n \in P => n + 1 \in P
    PROVE  Nat \subseteq P
<1> DEFINE S == {n \in Nat : n \notin P}
<1>1. SUFFICES ASSUME S # {} PROVE FALSE
  OBVIOUS
<1>2. PICK m \in S : \A n \in S : m <= n
  BY <1>1, LeastIndex
<1>3. m # 0 /\ m - 1 \in Nat
  BY <1>2
<1>4. m - 1 \in P
  BY <1>2, <1>3
<1> QED
  BY <1>2, <1>3, <1>4

\* What a recursion over 0 .. n with first value b and step op defines: op
\* gives the value at i from the value at i - 1.
Recursive(f, n, b, op) == f = [i \in 0 .. n |-> IF i = 0 THEN b ELSE op[<<i, f[i - 1]>>]]

\* There is such a function, and its value at i is in X[i].
LEMMA LoopExists ==
    ASSUME NEW n \in Nat, NEW X, NEW b \in X[0], NEW op,
           \A i \in 1 .. n : \A x \in X[i - 1] : op[<<i, x>>] \in X[i]
    PROVE  \E f : Recursive(f, n, b, op) /\ \A i \in 0 .. n : f[i] \in X[i]
<1> DEFINE Upto(k, f) == Recursive(f, k, b, op) /\ \A i \in 0 .. k : f[i] \in X[i]
           P == {k \in Nat : k <= n => \E f : Upto(k, f)}
<1>1. 0 \in P
  <2>1. Upto(0, [i \in 0 .. 0 |-> b])
    BY DEF Recursive
  <2> QED
    BY <2>1
<1>2. ASSUME NEW k \in Nat, k \in P PROVE k + 1 \in P
  <2>1. SUFFICES ASSUME k + 1 <= n PROVE \E f : Upto(k + 1, f)
    OBVIOUS
  <2>2. PICK f : Upto(k, f)
    BY <1>2, <2>1
  <2> DEFINE g == [i \in 0 .. k + 1 |-> IF i <= k THEN f[i] ELSE op[<<k + 1, f[k]>>]]
  <2>3. f[k] \in X[k] /\ k + 1 \in 1 .. n /\ (k + 1) - 1 = k
    BY <2>1, <2>2
  <2>4. op[<<k + 1, f[k]>>] \in X[k + 1]
    BY <2>3
  <2>5. ASSUME NEW i \in 0 .. k + 1 PROVE g[i] \in X[i]
    <3>1. CASE i <= k
      BY <2>2, <3>1
    <3>2. CASE i = k + 1
      BY <2>4, <3>2
    <3> QED
      BY <3>1, <3>2
  <2>6. ASSUME NEW i \in 0 .. k + 1 PROVE g[i] = IF i = 0 THEN b ELSE op[<<i, g[i - 1]>>]
    <3>1. CASE i <= k
      <4>1. f[i] = IF i = 0 THEN b ELSE op[<<i, f[i - 1]>>]
        BY <2>2, <3>1 DEF Recursive
      <4>2. i # 0 => i - 1 \in 0 .. k + 1 /\ i - 1 <= k
        BY <3>1
      <4> QED
        BY <3>1, <4>1, <4>2
    <3>2. CASE i = k + 1
      <4>1. i # 0 /\ i - 1 = k /\ ~ (i <= k) /\ k \in 0 .. k + 1 /\ k <= k
        BY <3>2
      <4>2. g[i] = op[<<i, f[k]>>] /\ g[i - 1] = f[k]
        BY <3>2, <4>1
      <4> QED
        BY <4>1, <4>2
    <3> QED
      BY <3>1, <3>2
  <2>7. g = [i \in 0 .. k + 1 |-> g[i]]
    OBVIOUS
  <2> HIDE DEF g
  <2>8. Recursive(g, k + 1, b, op)
    BY <2>6, <2>7 DEF Recursive
  <2> QED
    BY <2>5, <2>8
<1> HIDE DEF P
<1>3. n \in P
  BY <1>1, <1>2, InductionOnNat
<1> QED
  BY <1>3 DEF P

\* When every value is in one set, the function is one into that set.
LEMMA RecursionExists ==
    ASSUME NEW n \in Nat, NEW X, NEW b \in X, NEW op \in [(1 .. n) \X X -> X]
    PROVE  \E f \in [0 .. n -> X] : Recursive(f, n, b, op)
<1> DEFINE Y == [i \in 0 .. n |-> X]
<1>1. /\ b \in Y[0] /\ \A i \in 0 .. n : Y[i] = X
      /\ \A i \in 1 .. n : \A x \in Y[i - 1] : op[<<i, x>>] \in Y[i]
  OBVIOUS
<1> HIDE DEF Y
<1>2. PICK f : Recursive(f, n, b, op) /\ \A i \in 0 .. n : f[i] \in Y[i]
  BY <1>1, LoopExists
<1>3. f = [i \in 0 .. n |-> f[i]]
  BY <1>2 DEF Recursive
<1> QED
  BY <1>1, <1>2, <1>3

\* Induction as far as n.
LEMMA InductionUpTo ==
    ASSUME NEW n \in Nat, NEW P, 0 \in P, \A i \in 1 .. n : i - 1 \in P => i \in P
    PROVE  0 .. n \subseteq P
<1> DEFINE Q == {k \in Nat : k <= n => k \in P}
<1>1. 0 \in Q
  OBVIOUS
<1>2. ASSUME NEW k \in Nat, k \in Q PROVE k + 1 \in Q
  <2>1. k + 1 <= n => k + 1 \in 1 .. n /\ (k + 1) - 1 \in P
    BY <1>2
  <2> QED
    BY <2>1
<1> HIDE DEF Q
<1>3. Nat \subseteq Q
  BY <1>1, <1>2, InductionOnNat
<1> QED
  BY <1>3 DEF Q

\* What holds of a loop's first value, and of each from the one before, holds
\* of its last.
LEMMA LoopStays ==
    ASSUME NEW n \in Nat, NEW X, NEW f, f[0] \in X, \A i \in 1 .. n : f[i - 1] \in X => f[i] \in X
    PROVE  f[n] \in X
<1> DEFINE P == {i \in 0 .. n : f[i] \in X}
<1>1. 0 \in P
  OBVIOUS
<1>2. ASSUME NEW i \in 1 .. n, i - 1 \in P PROVE i \in P
  BY <1>2
<1> HIDE DEF P
<1>3. 0 .. n \subseteq P
  BY <1>1, <1>2, InductionUpTo
<1>4. n \in 0 .. n
  OBVIOUS
<1> QED
  BY <1>3, <1>4 DEF P
=============================================================================
