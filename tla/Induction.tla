----------------------------- MODULE Induction -----------------------------
(***************************************************************************)
(* Induction without an operator parameter: a property of numbers that     *)
(* fails somewhere fails first at some number.                             *)
(***************************************************************************)
EXTENDS Integers, WellFoundedInduction, TLAPS

(* A set of natural numbers has a least one. *)
LEMMA LeastNatural ==
  ASSUME NEW T \in SUBSET Nat, T # {}
  PROVE  \E d \in T : \A e \in T : d <= e
<1> DEFINE R == OpToRel(<, Nat)
<1>1. IsWellFoundedOn(R, Nat)
  BY NatLessThanWellFounded
<1>2. \A x, y \in Nat : x < y => <<x, y>> \in R
  BY DEF OpToRel
<1> HIDE DEF R
<1>3. PICK d \in T : \A e \in T : ~ (<<e, d>> \in R)
  BY <1>1, WFMin
<1>4. ASSUME NEW e \in T
      PROVE  d <= e
  <2>1. d \in Nat /\ e \in Nat /\ ~(e < d)
    BY <1>2, <1>3
  <2> QED BY <2>1
<1> QED BY <1>4
=============================================================================
