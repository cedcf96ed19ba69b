-------------------------- MODULE NatSetInduction --------------------------
(***************************************************************************)
(* Induction on the naturals, stated about sets: the library states it     *)
(* about an operator, which no installed prover can instantiate.           *)
(***************************************************************************)
EXTENDS Integers, WellFoundedInduction, TLAPS

(* A set of naturals that is not empty has a least element. *)
LEMMA Least ==
    ASSUME NEW T \in SUBSET Nat, T # {}
    PROVE  \E x \in T : \A y \in T : x <= y
<1> DEFINE R == OpToRel(<, Nat)
<1>1. IsWellFoundedOn(R, Nat)
  BY NatLessThanWellFounded
<1>2. \E x \in T : \A y \in T : <<y, x>> \notin R
  <2> HIDE DEF R
  <2> QED
    BY <1>1, WFMin
<1>3. PICK x \in T : \A y \in T : <<y, x>> \notin R
  BY <1>2
<1>4. \A y \in T : y < x => <<y, x>> \in R
  BY DEF OpToRel
<1>5. \A y \in T : ~(y < x)
  <2> HIDE DEF R
  <2> QED
    BY <1>3, <1>4, Zenon
<1>6. QED
  BY <1>5

(* A set that has 0 and, with n, n + 1 has every natural. *)
LEMMA SetInduction ==
    ASSUME NEW T, 0 \in T, \A n \in Nat : n \in T => n + 1 \in T
    PROVE  Nat \subseteq T
<1> SUFFICES ASSUME Nat \ T # {} PROVE FALSE
  OBVIOUS
<1>1. PICK x \in Nat \ T : \A y \in Nat \ T : x <= y
  BY Least
<1>2. x - 1 \in Nat /\ x - 1 \notin T
  BY <1>1
<1>3. QED
  BY <1>1, <1>2

=============================================================================
