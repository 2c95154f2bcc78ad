-------------------------- MODULE CountingInduction --------------------------
(***************************************************************************)
(* Induction over 0 .. n, stated for a set of numbers: what recursive      *)
(* functions and folds over sequences compute is shown step by step.       *)
(***************************************************************************)
EXTENDS Integers, WellFoundedInduction, TLAPS

(* A set with 0 and with the successor of each of its numbers below n has  *)
(* the numbers up to n.                                                    *)
LEMMA UpToN ==
  ASSUME NEW n \in Nat, NEW S, 0 \in S, \A k \in 0 .. n : k \in S /\ k < n => k + 1 \in S
  PROVE  0 .. n \subseteq S
<1> DEFINE Missing == (0 .. n) \ S
           R == {ss \in Nat \X Nat : ss[1] < ss[2]}
<1>1. SUFFICES ASSUME Missing # {} PROVE FALSE
  OBVIOUS
<1>2. IsWellFoundedOn(R, Nat)
  BY NatLessThanWellFounded, Zenon DEF OpToRel
<1>3. Missing \subseteq Nat
  OBVIOUS
<1>4. PICK least \in Missing : \A k \in Missing : <<k, least>> \notin R
  <2> HIDE DEF Missing, R
  <2> QED
    BY <1>1, <1>2, <1>3, WFMin, Zenon
<1>5. least \in 0 .. n /\ least # 0 /\ least \notin S
  OBVIOUS
<1>6. least - 1 \in 0 .. n /\ least - 1 < least /\ least - 1 \in Nat /\ least \in Nat
  BY <1>5
<1>7. least - 1 \notin Missing
  BY <1>4, <1>6
<1> QED
  BY <1>5, <1>6, <1>7

=============================================================================
