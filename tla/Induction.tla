------------------------------ MODULE Induction ------------------------------
(***************************************************************************)
(* Induction and recursion for the proofs of this project, stated without  *)
(* operator parameters: a predicate is the set of the values that satisfy  *)
(* it, and the step of a recursion is a function.                          *)
(***************************************************************************)
EXTENDS FiniteSetTheorems, NaturalsInduction, WellFoundedInduction, TLAPS

\* A set that holds 0, and with n also n + 1, holds every natural number.
LEMMA NatSetInduction ==
    ASSUME NEW S, 0 \in S, \A n \in Nat : n \in S => n + 1 \in S
    PROVE  Nat \subseteq S
<1> DEFINE missing == Nat \ S
<1> SUFFICES ASSUME missing # {} PROVE FALSE
    OBVIOUS
<1>1. PICK x \in missing : \A y \in missing : <<y, x>> \notin OpToRel(<, Nat)
    BY NatLessThanWellFounded, WFMin, missing \subseteq Nat
<1>2. x # 0 /\ x - 1 \in Nat
    OBVIOUS
<1>3. <<x - 1, x>> \in OpToRel(<, Nat)
    BY <1>2 DEF OpToRel
<1>4. x - 1 \in S
    BY <1>1, <1>2, <1>3
<1> QED
    BY <1>2, <1>4

\* A non-empty set of natural numbers has a least element.
LEMMA LeastNat ==
    ASSUME NEW T \in SUBSET Nat, T # {}
    PROVE  \E x \in T : \A y \in T : x <= y
<1>1. PICK x \in T : \A y \in T : <<y, x>> \notin OpToRel(<, Nat)
    BY NatLessThanWellFounded, WFMin
<1>2. \A y \in T : ~(y < x)
    BY <1>1 DEF OpToRel
<1> QED
    BY <1>2

\* What holds of 0 .. n is proved from one number to the next.
LEMMA UpToInduction ==
    ASSUME NEW n \in Nat, NEW S, 0 \in S,
           \A k \in 0 .. n - 1 : k \in S => k + 1 \in S
    PROVE  0 .. n \subseteq S
<1> DEFINE T == S \cup {k \in Nat : k > n}
<1>1. \A k \in Nat : k \in T => k + 1 \in T
    OBVIOUS
<1>2. 0 \in T
    OBVIOUS
<1> HIDE DEF T
<1>3. Nat \subseteq T
    BY <1>1, <1>2, NatSetInduction
<1> QED
    BY <1>3 DEF T

\* The values of a function stay in a set when each is in it if the one before is.
LEMMA UpToStays ==
    ASSUME NEW n \in Nat, NEW f, NEW S, f[0] \in S,
           \A k \in 1 .. n : f[k - 1] \in S => f[k] \in S
    PROVE  \A k \in 0 .. n : f[k] \in S
<1> DEFINE T == {k \in 0 .. n : f[k] \in S}
<1>1. 0 \in T
    OBVIOUS
<1>2. ASSUME NEW k \in 0 .. n - 1, k \in T PROVE k + 1 \in T
  <2>1. k + 1 \in 1 .. n /\ (k + 1) - 1 = k
      OBVIOUS
  <2> QED
      BY <1>2, <2>1
<1> HIDE DEF T
<1>3. 0 .. n \subseteq T
    BY <1>1, <1>2, UpToInduction
<1> QED
    BY <1>3 DEF T

\* f is the run of n steps from start.
IsRun(f, start, step, n) == f[0] = start /\ \A k \in 1 .. n : f[k] = step[k][f[k - 1]]

\* A recursion of n steps has a solution.
LEMMA RecursionExists ==
    ASSUME NEW n \in Nat, NEW S, NEW start \in S, NEW step \in [1 .. n -> [S -> S]]
    PROVE  \E f \in [0 .. n -> S] : IsRun(f, start, step, n)
<1> DEFINE Solves(f, m) == IsRun(f, start, step, m)
           Solved == {m \in 0 .. n : \E f \in [0 .. m -> S] : Solves(f, m)}
<1>1. 0 \in Solved
  <2> DEFINE g == [k \in 0 .. 0 |-> start]
  <2>1. g \in [0 .. 0 -> S] /\ Solves(g, 0)
      BY DEF IsRun
  <2> HIDE DEF g
  <2> QED
      BY <2>1
<1>2. ASSUME NEW m \in 0 .. n - 1, m \in Solved
      PROVE  m + 1 \in Solved
  <2>1. PICK f \in [0 .. m -> S] : Solves(f, m)
      BY <1>2
  <2> DEFINE g == [k \in 0 .. m + 1 |-> IF k = m + 1 THEN step[m + 1][f[m]] ELSE f[k]]
  <2>2. step[m + 1] \in [S -> S] /\ f[m] \in S
      OBVIOUS
  <2>3. g \in [0 .. m + 1 -> S]
      BY <2>2
  <2>4. ASSUME NEW k \in 1 .. m + 1 PROVE g[k] = step[k][g[k - 1]]
    <3>1. CASE k = m + 1
        BY <3>1
    <3>2. CASE k # m + 1
        BY <3>2, <2>1 DEF IsRun
    <3> QED
        BY <3>1, <3>2
  <2>5. g[0] = start
      BY <2>1 DEF IsRun
  <2> HIDE DEF g
  <2>6. Solves(g, m + 1)
      BY <2>4, <2>5 DEF IsRun
  <2>7. m + 1 \in 0 .. n
      OBVIOUS
  <2> HIDE DEF Solves
  <2> QED
      BY <2>3, <2>6, <2>7
<1> HIDE DEF Solved
<1>3. 0 .. n \subseteq Solved
    BY <1>1, <1>2, UpToInduction
<1>4. n \in Solved
    BY <1>3
<1> QED
    BY <1>4 DEF Solved
=============================================================================
