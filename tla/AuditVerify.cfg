\* Two requests are enough for verify_chain to reject a log nobody touched.
SPECIFICATION Spec
CONSTANTS
    Entities = {e1, e2}
    Sessions = {s1, s2}
    Nobody = Nobody
    Shapes = {"head_first"}
    MaxTransactions = 3
SYMMETRY Symmetry
INVARIANT UntamperedChainVerifies
CHECK_DEADLOCK FALSE
