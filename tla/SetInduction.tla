--------------------------- MODULE SetInduction ---------------------------
(***************************************************************************)
(* Induction over the natural numbers, stated of a set instead of a        *)
(* predicate: a set that contains 0, and with each of its numbers the next *)
(* one, contains them all.  The proofs that need induction form the set of *)
(* the numbers they have shown the claim for.                              *)
(***************************************************************************)
EXTENDS Integers, WellFoundedInduction, TLAPS

LOCAL Less == {pair \in Nat \X Nat : pair[1] < pair[2]}

\* A set of natural numbers that is not empty has a smallest one.
LEMMA LeastNumber ==
    ASSUME NEW T, T \subseteq Nat, T # {}
    PROVE  \E x \in T : \A y \in T : x <= y
  <1>1. IsWellFoundedOn(Less, Nat)
    BY NatLessThanWellFounded DEF OpToRel, Less
  <1>2. PICK x \in T : \A y \in T : ~(<<y, x>> \in Less)
    BY <1>1, WFMin
  <1>3. ASSUME NEW y \in T, y < x PROVE FALSE
    <2>1. <<y, x>> \in Nat \X Nat /\ <<y, x>>[1] = y /\ <<y, x>>[2] = x
      OBVIOUS
    <2> QED  BY <1>2, <1>3, <2>1 DEF Less
  <1> QED  BY <1>2, <1>3

\* A set that contains 0, and with each number the next one, contains them all.
LEMMA NatSetInduction ==
    ASSUME NEW S, 0 \in S, \A n \in Nat : n \in S => n + 1 \in S
    PROVE  Nat \subseteq S
  <1> DEFINE T == Nat \ S
  <1>1. T \subseteq Nat
    OBVIOUS
  <1>2. ASSUME T # {} PROVE FALSE
    <2> HIDE DEF T
    <2>1. PICK x \in T : \A y \in T : x <= y
      BY <1>1, <1>2, LeastNumber
    <2>2. x \in Nat /\ x # 0 /\ x - 1 \in Nat /\ x - 1 \notin T
      BY <1>1, <2>1 DEF T
    <2>3. (x - 1) + 1 \in S
      BY <2>2 DEF T
    <2> QED  BY <2>1, <2>2, <2>3 DEF T
  <1> QED  BY <1>2
===========================================================================
