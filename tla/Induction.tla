----------------------------- MODULE Induction ------------------------------
(***************************************************************************)
(* Induction over the natural numbers, stated for sets: the theorems of    *)
(* the library take a predicate as a parameter, which the provers cannot   *)
(* instantiate.  With it a recursive function is shown to exist, and what  *)
(* it computes is reasoned about step by step.                             *)
(***************************************************************************)
EXTENDS Integers, FiniteSetsExt, WellFoundedInduction, TLAPS

(* A set that has 0 and the successor of each of its numbers has them all. *)
LEMMA InductionSet ==
  ASSUME NEW S, 0 \in S, \A n \in Nat : n \in S => n + 1 \in S
  PROVE  Nat \subseteq S
  <1>. DEFINE R == {p \in Nat \X Nat : p[1] < p[2]}
              T == Nat \ S
  <1>1. IsWellFoundedOn(R, Nat)
    BY NatLessThanWellFounded DEF OpToRel
  <1>2. ASSUME T # {} PROVE FALSE
    <2>1. \E x \in T : \A y \in T : <<y, x>> \notin R
      <3>. HIDE DEF R, T
      <3>1. T \subseteq Nat
        BY DEF T
      <3>. QED BY <1>1, <1>2, <3>1, WFMin
    <2>2. PICK x \in T : \A y \in T : <<y, x>> \notin R
      BY <2>1
    <2>3. x \in Nat /\ x - 1 \in Nat /\ x - 1 < x
      OBVIOUS
    <2>4. x - 1 \in T /\ <<x - 1, x>> \in R
      BY <2>3
    <2>. QED BY <2>2, <2>4
  <1>. QED BY <1>2

(* A set of numbers that is not empty has a least one. *)
LEMMA MinIs ==
  ASSUME NEW S \in SUBSET Nat, S # {}
  PROVE  Min(S) \in S /\ \A y \in S : Min(S) <= y
  <1>. DEFINE R == {p \in Nat \X Nat : p[1] < p[2]}
              P(x) == x \in S /\ \A y \in S : x <= y
  <1>1. IsWellFoundedOn(R, Nat)
    BY NatLessThanWellFounded DEF OpToRel
  <1>2. \E x \in S : \A y \in S : <<y, x>> \notin R
    <2>. HIDE DEF R
    <2>. QED BY <1>1, WFMin
  <1>3. \E x : P(x)
    <2>1. PICK x \in S : \A y \in S : <<y, x>> \notin R
      BY <1>2
    <2>2. \A y \in S : x <= y
      <3>. SUFFICES ASSUME NEW y \in S PROVE x <= y
        OBVIOUS
      <3>1. x \in Nat /\ y \in Nat /\ <<y, x>> \notin R
        BY <2>1
      <3>. QED BY <3>1
    <2>. QED BY <2>2
  <1>4. Min(S) = CHOOSE x : P(x)
    BY DEF Min
  <1>5. P(CHOOSE x : P(x))
    <2>. HIDE DEF P
    <2>. QED BY <1>3, Zenon
  <1>. QED BY <1>4, <1>5

(* The values a function of a set takes when it is applied again and again. *)
Orbit(X, F, a, m) == {g \in [0..m -> X] : g[0] = a /\ \A n \in 1..m : g[n] = F[g[n - 1]]}

(* A function of a set can be applied any number of times. *)
LEMMA Iterated ==
  ASSUME NEW X, NEW F \in [X -> X], NEW a \in X, NEW m \in Nat
  PROVE  Orbit(X, F, a, m) # {}
  <1>. DEFINE Good(g, k) == g[0] = a /\ \A n \in 1..k : g[n] = F[g[n - 1]]
              S == {k \in Nat : \E g \in [0..k -> X] : Good(g, k)}
  <1>1. 0 \in S
    <2>1. [i \in 0..0 |-> a] \in [0..0 -> X] /\ Good([i \in 0..0 |-> a], 0)
      OBVIOUS
    <2>. QED BY <2>1
  <1>2. ASSUME NEW k \in Nat, k \in S PROVE k + 1 \in S
    <2>1. PICK g \in [0..k -> X] : Good(g, k)
      BY <1>2
    <2>. DEFINE h == [i \in 0..(k + 1) |-> IF i = k + 1 THEN F[g[k]] ELSE g[i]]
    <2>2. h \in [0..(k + 1) -> X]
      OBVIOUS
    <2>3. \A n \in 1..(k + 1) : h[n] = F[h[n - 1]]
      BY <2>1
    <2>4. Good(h, k + 1)
      BY <2>1, <2>3
    <2>. HIDE DEF h, Good
    <2>. QED BY <2>2, <2>4
  <1>3. m \in S
    <2>. HIDE DEF S
    <2>. QED BY <1>1, <1>2, InductionSet
  <1>. QED BY <1>3 DEF Orbit
=============================================================================
