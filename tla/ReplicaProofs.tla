--------------------------- MODULE ReplicaProofs ---------------------------
(* What follows from Replica alone, whatever implements it. *)
EXTENDS Replica, TLAPS

\* The numbers are numbers, and the copy knows no more of them than were given out.
NumberInv ==
    /\ last \in Nat
    /\ known \in Nat
    /\ known <= last
    /\ \A r \in table : r.rev \in Nat

LEMMA HonestStep ==
    ASSUME NumberInv, Honest, [Next]_vars
    PROVE  NumberInv' /\ Honest'
<1> USE DEF NumberInv
<1>1. CASE Commit
  BY <1>1 DEF Commit, Honest, Shows
<1>2. CASE Learn
  <2>1. NumberInv'
    BY <1>2 DEF Learn
  <2>2. Honest'
    BY <1>2 DEF Learn, Honest, Shows
  <2> QED BY <2>1, <2>2
<1>3. CASE UNCHANGED vars
  BY <1>3 DEF vars, Honest, Shows
<1> QED BY <1>1, <1>2, <1>3 DEF Next

\* Whatever implements Replica keeps a copy that is never missing what it claims to know.
THEOREM HonestHolds == Spec => []Honest
<1>1. Init => NumberInv /\ Honest
  BY DEF Init, NumberInv, Honest
<1>2. NumberInv /\ Honest /\ [Next]_vars => NumberInv' /\ Honest'
  BY HonestStep
<1> QED BY <1>1, <1>2, PTL DEF Spec
=============================================================================
