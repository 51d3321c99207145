------------------------------ MODULE MCPayouts ------------------------------
(* Payouts for TLC: payouts, requesters and purses are interchangeable.     *)
EXTENDS Payouts, TLC

Symmetry == Permutations(Ids) \cup Permutations(Requesters) \cup Permutations(Purses)
=============================================================================
