------------------------------ MODULE Induction ------------------------------
(* Induction and recursion over an interval of numbers, stated of sets and    *)
(* functions: the theorems of NaturalsInduction are stated of operators, and  *)
(* the provers cannot instantiate those.                                      *)
EXTENDS Integers, NaturalsInduction, WellFoundedInduction, TLAPS

\* A set of numbers that is not empty has a least one.
LEMMA LeastExists ==
  ASSUME NEW T \in SUBSET Nat, T # {}
  PROVE  \E x \in T : \A y \in T : x <= y
<1> DEFINE less == OpToRel(<, Nat)
<1>1. IsWellFoundedOn(less, Nat)
  BY NatLessThanWellFounded
<1>2. \E x \in T : \A y \in T : ~ (<<y, x>> \in less)
  <2> HIDE DEF less
  <2> QED BY <1>1, WFMin
<1>3. \A m, n \in Nat : <<m, n>> \notin less => n <= m
  BY DEF OpToRel
<1> QED
  <2> HIDE DEF less
  <2> QED BY <1>2, <1>3

\* What holds of 0 and passes from each number to the next holds up to N.
LEMMA UptoInduction ==
  ASSUME NEW N \in Nat, NEW S, 0 \in S, \A n \in 0 .. N - 1 : n \in S => n + 1 \in S
  PROVE  0 .. N \subseteq S
<1> DEFINE T == {n \in 0 .. N : n \notin S}
<1> SUFFICES ASSUME T # {} PROVE FALSE
  OBVIOUS
<1>1. PICK x \in T : \A y \in T : x <= y
  <2>1. T \in SUBSET Nat
    OBVIOUS
  <2> HIDE DEF T
  <2> QED BY <2>1, LeastExists
<1>2. x \in 0 .. N /\ x \notin S /\ x # 0
  BY <1>1
<1>3. x - 1 \in 0 .. N - 1 /\ x - 1 \notin T
  BY <1>1, <1>2
<1>4. x - 1 \in S
  BY <1>3
<1> QED BY <1>2, <1>3, <1>4

\* A function may be defined by its first value and by each from the one before.
Defines(N, D, first, step) ==
  \E f \in [0 .. N -> D] : f[0] = first /\ \A i \in 1 .. N : f[i] = step[i][f[i - 1]]

LEMMA RecursionExists ==
  ASSUME NEW N \in Nat, NEW D, NEW first \in D, NEW step \in [1 .. N -> [D -> D]]
  PROVE  Defines(N, D, first, step)
<1> DEFINE Upto(n, f) == f[0] = first /\ \A i \in 1 .. n : f[i] = step[i][f[i - 1]]
           S == {n \in 0 .. N : \E f \in [0 .. n -> D] : Upto(n, f)}
<1>1. ASSUME NEW n \in 0 .. N, NEW f \in [0 .. n -> D], Upto(n, f) PROVE n \in S
  <2> HIDE DEF Upto
  <2> QED BY <1>1
<1>2. 0 \in S
  <2> DEFINE f == [i \in 0 .. 0 |-> first]
  <2>1. f \in [0 .. 0 -> D] /\ Upto(0, f) /\ 0 \in 0 .. N
    OBVIOUS
  <2> HIDE DEF f, S, Upto
  <2> QED BY <1>1, <2>1
<1>3. ASSUME NEW n \in 0 .. N - 1, n \in S PROVE n + 1 \in S
  <2>1. PICK f \in [0 .. n -> D] : Upto(n, f)
    BY <1>3
  <2> DEFINE next == step[n + 1][f[n]]
             g == [i \in 0 .. n + 1 |-> IF i = n + 1 THEN next ELSE f[i]]
  <2>2. next \in D
    BY <2>1
  <2>3. g \in [0 .. n + 1 -> D] /\ g[n + 1] = next /\ \A i \in 0 .. n : g[i] = f[i]
    BY <2>1, <2>2
  <2>4. Upto(n + 1, g)
    <3> HIDE DEF g
    <3> QED BY <2>1, <2>3
  <2> HIDE DEF g, S, Upto
  <2> QED BY <1>1, <2>3, <2>4
<1>4. N \in S
  <2> HIDE DEF S
  <2>1. 0 .. N \subseteq S
    BY <1>2, <1>3, UptoInduction
  <2> QED BY <2>1
<1> QED BY <1>4 DEF Defines
=============================================================================
