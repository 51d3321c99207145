---------------------------- MODULE MCMembership ----------------------------
(* Membership and Access for TLC: one admin; the invite i1 is good for one   *)
(* join, any other for any number of them.                                   *)
EXTENDS Access, TLC

CONSTANTS i1, class, a, u, v

OneUse == [i \in Invites |-> IF i = i1 THEN 1 ELSE 0]

OneAdmin == {<<a, class>>}

RequestSymmetry == Permutations(Requests)

JoinSymmetry == Permutations({u, v}) \cup Permutations(Requests) \cup Permutations(Cohorts)
=============================================================================
