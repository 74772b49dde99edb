---------------------------- MODULE DataInduction --------------------------
(***************************************************************************)
(* Induction in a form that takes sets and functions and no operators: a   *)
(* set of numbers that holds 0 and the successor of each of its members    *)
(* holds them all, and what follows for functions that are defined by      *)
(* recursion on an interval.                                               *)
(***************************************************************************)
EXTENDS Integers, WellFoundedInduction, TLAPS

Below == {pair \in Nat \X Nat : pair[1] < pair[2]}

\* The order of the numbers is well founded.
LEMMA BelowWellFounded == IsWellFoundedOn(Below, Nat)
BY NatLessThanWellFounded, Zenon DEF OpToRel, Below

\* Induction: a number outside T that is least would be 0 or follow one of T.
LEMMA SetInduction ==
  ASSUME NEW T \in SUBSET Nat, 0 \in T, \A n \in T : n + 1 \in T
  PROVE  T = Nat
<1> DEFINE U == Nat \ T
<1>1. SUFFICES ASSUME U # {} PROVE FALSE
  OBVIOUS
<1>2. PICK x \in U : \A y \in U : ~(<<y, x>> \in Below)
  <2>1. U \subseteq Nat
    OBVIOUS
  <2> HIDE DEF U
  <2>2. QED
    BY <1>1, <2>1, BelowWellFounded, WFMin
<1>3. x # 0 /\ x - 1 \in Nat
  OBVIOUS
<1>4. <<x - 1, x>> \in Below
  BY <1>3 DEF Below
<1>5. x - 1 \notin U
  BY <1>2, <1>4
<1>6. x \in T
  BY <1>3, <1>5
<1>7. QED
  BY <1>6

\* Induction on an interval, for the values of a function.
LEMMA IntervalInduction ==
  ASSUME NEW S, NEW n \in Nat, NEW r, r[0] \in S,
         \A i \in 1..n : r[i - 1] \in S => r[i] \in S
  PROVE  \A i \in 0..n : r[i] \in S
<1> DEFINE T == {i \in Nat : i <= n => r[i] \in S}
<1>1. 0 \in T
  OBVIOUS
<1>2. \A i \in T : i + 1 \in T
  <2> SUFFICES ASSUME NEW i \in T, i + 1 <= n PROVE r[i + 1] \in S
    OBVIOUS
  <2>1. r[i] \in S /\ i + 1 \in 1..n /\ (i + 1) - 1 = i
    OBVIOUS
  <2>2. QED
    BY <2>1
<1>3. T \in SUBSET Nat
  OBVIOUS
<1>4. T = Nat
  <2> HIDE DEF T
  <2>1. QED
    BY <1>1, <1>2, <1>3, SetInduction
<1>5. QED
  BY <1>4

\* The function g on 0..n starts with base and goes on with F, which takes the
\* number of a value and the value before it.
Recursive(g, n, base, F) ==
  \A i \in 0..n : g[i] = IF i = 0 THEN base ELSE F[<<i, g[i - 1]>>]

\* A function defined by recursion on an interval exists.
LEMMA RecursionExists ==
  ASSUME NEW S, NEW base \in S, NEW n \in Nat, NEW F \in [(1..n) \X S -> S]
  PROVE  \E g \in [0..n -> S] : Recursive(g, n, base, F)
<1> DEFINE Upto(m, g) == Recursive(g, m, base, F)
           T == {m \in Nat : m <= n => \E g \in [0..m -> S] : Upto(m, g)}
<1>1. 0 \in T
  <2> DEFINE g == [i \in 0..0 |-> base]
  <2>1. g \in [0..0 -> S] /\ Upto(0, g)
    BY DEF Recursive
  <2> HIDE DEF g, Upto
  <2>2. QED
    BY <2>1
<1>2. \A m \in T : m + 1 \in T
  <2> SUFFICES ASSUME NEW m \in T, m + 1 <= n PROVE m + 1 \in T
    OBVIOUS
  <2> HIDE DEF Upto
  <2>1. PICK g \in [0..m -> S] : Upto(m, g)
    OBVIOUS
  <2> DEFINE h == [i \in 0..(m + 1) |-> IF i = m + 1 THEN F[<<m + 1, g[m]>>] ELSE g[i]]
  <2>2. h \in [0..(m + 1) -> S]
    OBVIOUS
  <2>3. ASSUME NEW i \in 0..(m + 1)
        PROVE  h[i] = IF i = 0 THEN base ELSE F[<<i, h[i - 1]>>]
    <3>1. CASE i = m + 1
      <4>1. h[m + 1] = F[<<m + 1, g[m]>>] /\ h[m] = g[m]
        OBVIOUS
      <4>2. i - 1 = m /\ i # 0
        BY <3>1
      <4> HIDE DEF h
      <4>3. QED
        BY <3>1, <4>1, <4>2
    <3>2. CASE i # m + 1
      <4>1. i \in 0..m /\ h[i] = g[i] /\ (i # 0 => h[i - 1] = g[i - 1])
        BY <3>2
      <4>2. g[i] = IF i = 0 THEN base ELSE F[<<i, g[i - 1]>>]
        BY <2>1, <4>1 DEF Upto, Recursive
      <4> HIDE DEF h
      <4>3. QED
        BY <4>1, <4>2
    <3>3. QED
      BY <3>1, <3>2
  <2>4. Upto(m + 1, h)
    BY <2>3 DEF Upto, Recursive
  <2> HIDE DEF h
  <2>5. m + 1 \in Nat
    OBVIOUS
  <2>6. QED
    BY <2>2, <2>4, <2>5
<1>3. T = Nat
  <2> HIDE DEF T
  <2>1. T \in SUBSET Nat
    BY DEF T
  <2>2. QED
    BY <1>1, <1>2, <2>1, SetInduction
<1>4. n \in T
  BY <1>3
<1>5. QED
  BY <1>4
=============================================================================
