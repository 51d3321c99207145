----------------------------- MODULE MCSettlement -----------------------------
(* Settlement for TLC: sessions and contributions are interchangeable.      *)
EXTENDS Settlement, TLC

Symmetry == Permutations(Sessions) \cup Permutations(Invoices)

\* No account from before Paystack: the group registers its account itself.
RegisteredNow == account.provider = "paystack"
=============================================================================
