----------------------------- MODULE Induction -----------------------------
(***************************************************************************)
(* Induction over the natural numbers in the form the proofs of this       *)
(* project use, with a set where the library has an operator, and the      *)
(* functions that the loops of the models define.                          *)
(***************************************************************************)
EXTENDS Integers, NaturalsInduction, WellFoundedInduction, TLAPS

(***************************************************************************)
(* A set of natural numbers that is not empty has a least element.         *)
(***************************************************************************)
LEMMA LeastNat ==
  ASSUME NEW T, T \subseteq Nat, T # {}
  PROVE  \E m \in T : \A n \in T : m <= n
<1> DEFINE R == OpToRel(<, Nat)
<1>1. IsWellFoundedOn(R, Nat)
  BY NatLessThanWellFounded, Zenon
<1>2. PICK m \in T : \A n \in T : ~ (<<n, m>> \in R)
  <2> HIDE DEF R
  <2> QED BY <1>1, WFMin
<1>3. \A n \in T : ~ (n < m)
  BY <1>2 DEF OpToRel
<1> QED BY <1>3

(***************************************************************************)
(* A set with 0 and with every successor holds every natural number.       *)
(***************************************************************************)
LEMMA SetInduction ==
  ASSUME NEW T, 0 \in T, \A n \in Nat : n \in T => n + 1 \in T
  PROVE  Nat \subseteq T
<1> SUFFICES ASSUME Nat \ T # {} PROVE FALSE
  OBVIOUS
<1>1. PICK m \in Nat \ T : \A n \in Nat \ T : m <= n
  BY LeastNat
<1>2. m # 0 /\ m - 1 \in Nat /\ m - 1 \in T
  BY <1>1
<1> QED BY <1>1, <1>2

(***************************************************************************)
(* The same for an interval that starts at 0.                              *)
(***************************************************************************)
LEMMA LoopInduction ==
  ASSUME NEW M \in Nat, NEW T, 0 \in T, \A k \in 0 .. M - 1 : k \in T => k + 1 \in T
  PROVE  \A k \in 0 .. M : k \in T
<1> DEFINE U == {k \in Nat : k <= M => k \in T}
<1>1. 0 \in U
  OBVIOUS
<1>2. \A n \in Nat : n \in U => n + 1 \in U
  OBVIOUS
<1> HIDE DEF U
<1>3. Nat \subseteq U
  BY <1>1, <1>2, SetInduction
<1> QED BY <1>3 DEF U

\* The rounds of a loop with states in X, and what a loop that starts in s with
\* the rounds G[0], G[1], ... computes: f[k] is its state after k rounds.
Rounds(M, X) == [0 .. M - 1 -> [X -> X]]
Runs(M, s, G, f) == f[0] = s /\ \A k \in 0 .. M - 1 : f[k + 1] = G[k][f[k]]

(***************************************************************************)
(* A loop has a state after every round.                                   *)
(***************************************************************************)
LEMMA LoopExists ==
  ASSUME NEW M \in Nat, NEW X, NEW s \in X, NEW G \in Rounds(M, X)
  PROVE  \E f \in [0 .. M -> X] : Runs(M, s, G, f)
<1> USE DEF Rounds, Runs
<1> DEFINE T == {m \in 0 .. M : \E f \in [0 .. m -> X] : Runs(m, s, G, f)}
<1>1. 0 \in T
  <2> DEFINE f == [k \in {0} |-> s]
  <2>1. f \in [0 .. 0 -> X] /\ Runs(0, s, G, f)
    OBVIOUS
  <2> HIDE DEF f
  <2> QED BY <2>1
<1>2. ASSUME NEW m \in 0 .. M - 1, m \in T PROVE m + 1 \in T
  <2>1. PICK f \in [0 .. m -> X] : Runs(m, s, G, f)
    BY <1>2
  <2> DEFINE g == [k \in 0 .. m + 1 |-> IF k = m + 1 THEN G[m][f[m]] ELSE f[k]]
  <2>2. g \in [0 .. m + 1 -> X]
    OBVIOUS
  <2>3. Runs(m + 1, s, G, g)
    <3>1. g[0] = s
      BY <2>1
    <3>2. ASSUME NEW k \in 0 .. m PROVE g[k + 1] = G[k][g[k]]
      <4>1. CASE k = m
        BY <4>1
      <4>2. CASE k # m
        <5>1. k \in 0 .. m - 1 /\ k \in 0 .. m + 1 /\ k + 1 \in 0 .. m + 1
              /\ k # m + 1 /\ k + 1 # m + 1
          BY <4>2
        <5>2. g[k + 1] = f[k + 1] /\ g[k] = f[k]
          BY <5>1
        <5> QED BY <2>1, <5>1, <5>2
      <4> QED BY <4>1, <4>2
    <3>3. (m + 1) - 1 = m
      OBVIOUS
    <3> HIDE DEF g
    <3> QED BY <3>1, <3>2, <3>3
  <2> HIDE DEF g
  <2> QED BY <2>2, <2>3
<1>3. M \in T
  <2>1. \A k \in 0 .. M - 1 : k \in T => k + 1 \in T
    BY <1>2
  <2> HIDE DEF T
  <2>2. \A k \in 0 .. M : k \in T
    BY <1>1, <2>1, LoopInduction
  <2> QED BY <2>2
<1> QED BY <1>3
=============================================================================
