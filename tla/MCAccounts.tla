----------------------------- MODULE MCAccounts -----------------------------
(* Accounts for TLC: users, reset codes and requests are alike.         *)
EXTENDS Accounts, TLC

Symmetry == Permutations(Users) \cup Permutations(ResetCodes) \cup Permutations(Requests)
=============================================================================
