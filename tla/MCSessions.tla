----------------------------- MODULE MCSessions -----------------------------
(* Sessions for TLC: tokens, families and requests are interchangeable.      *)
EXTENDS Sessions, TLC

Symmetry == Permutations(Tokens) \cup Permutations(Families) \cup Permutations(Requests)

\* Bound: one access token is on the blacklist at a time.
OneLoggedOut == Cardinality(out) <= 1
=============================================================================
