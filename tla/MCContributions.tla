--------------------------- MODULE MCContributions ---------------------------
(* Contributions for model checking: invoices, sessions and rows are           *)
(* interchangeable, so states that differ by a permutation are explored once.  *)
EXTENDS Reports, TLC

\* Every provider has issued some invoice.
EveryIssuer == CHOOSE f \in [Invoices -> Providers] : {f[i] : i \in Invoices} = Providers

InvoiceSymmetry == Permutations(Invoices)

OverlapSymmetry == Permutations(Contribs) \cup Permutations(Sessions) \cup Permutations(Invoices)
=============================================================================
