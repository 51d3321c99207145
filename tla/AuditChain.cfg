\* Transactions of every shape, two rows, rollbacks at any point.
SPECIFICATION Spec
CONSTANTS
    Entities = {e1, e2}
    Sessions = {s1, s2}
    Nobody = Nobody
    Shapes = {"head_first", "row_first", "commit_first"}
    MaxTransactions = 4
INVARIANTS
    TypeOK
    ChainIsLinear
    VerifiesUnlessOvertaken
PROPERTIES
    ImplementsChainedLog
CHECK_DEADLOCK FALSE
