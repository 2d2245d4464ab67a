------------------------------ MODULE Extremes ------------------------------
(***************************************************************************)
(* The least and the greatest of a set of numbers, which the reports of    *)
(* the lexer and of the parser look for at both ends of a line.            *)
(***************************************************************************)
EXTENDS Naturals, WellFoundedInduction, TLAPS

(* A set of natural numbers that is not empty has a least member.          *)
LEMMA LeastOf ==
    ASSUME NEW T, T \subseteq Nat, T # {}
    PROVE  \E m \in T : \A j \in T : m <= j
<1> DEFINE R == OpToRel(<, Nat)
<1>1. PICK m \in T : \A j \in T : ~ (<<j, m>> \in R)
  <2>1. IsWellFoundedOn(R, Nat)
    BY NatLessThanWellFounded
  <2> HIDE DEF R
  <2> QED BY <2>1, WFMin
<1>2. \A j \in T : ~ (j < m)
  BY <1>1 DEF OpToRel
<1> QED BY <1>2

(* A set of numbers up to b that is not empty has a greatest member.       *)
LEMMA GreatestOf ==
    ASSUME NEW b \in Nat, NEW T, T \subseteq 0 .. b, T # {}
    PROVE  \E m \in T : \A j \in T : j <= m
<1> DEFINE D == {b - t : t \in T}
<1>1. D \subseteq Nat /\ D # {}
  <2>1. \A t \in T : b - t \in Nat
    OBVIOUS
  <2>2. PICK t \in T : TRUE
    OBVIOUS
  <2>3. b - t \in D
    OBVIOUS
  <2> QED BY <2>1, <2>3
<1>2. PICK d \in D : \A e \in D : d <= e
  <2> HIDE DEF D
  <2> QED BY <1>1, LeastOf
<1>3. PICK m \in T : d = b - m
  BY <1>2
<1>4. ASSUME NEW j \in T PROVE j <= m
  <2>1. b - j \in D
    OBVIOUS
  <2>2. d <= b - j
    BY <2>1, <1>2
  <2> QED BY <2>2, <1>3
<1> QED BY <1>4
=============================================================================
