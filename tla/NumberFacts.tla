----------------------------- MODULE NumberFacts -----------------------------
(* Facts about natural numbers that the proofs of several components need. *)
EXTENDS Integers, WellFoundedInduction, TLAPS

-----------------------------------------------------------------------------
(* Natural numbers are well ordered.  The library states this with an      *)
(* operator for the order; the first lemma hides it in a relation.         *)

LEMMA NatOrderWellFounded ==
  \E R : IsWellFoundedOn(R, Nat) /\ \A x, y \in Nat : x < y => <<x, y>> \in R
<1> DEFINE R == OpToRel(<, Nat)
<1>1. IsWellFoundedOn(R, Nat)
  BY NatLessThanWellFounded
<1>2. \A x, y \in Nat : x < y => <<x, y>> \in R
  BY DEF OpToRel
<1> HIDE DEF R
<1> QED BY <1>1, <1>2

LEMMA LeastElement ==
  ASSUME NEW T \in SUBSET Nat, T # {}
  PROVE  \E x \in T : \A y \in T : x <= y
<1>1. PICK R : IsWellFoundedOn(R, Nat) /\ \A x, y \in Nat : x < y => <<x, y>> \in R
  BY NatOrderWellFounded
<1>2. T \subseteq Nat
  OBVIOUS
<1>3. PICK x \in T : \A y \in T : ~ (<<y, x>> \in R)
  <2>1. IsWellFoundedOn(R, Nat)
    BY <1>1
  <2> QED BY ONLY <2>1, <1>2, T # {}, WFMin, Zenon
<1>4. \A y \in T : ~ (y < x)
  BY <1>1, <1>2, <1>3
<1> QED BY <1>2, <1>4

=============================================================================
