\* Two overlapping requests, sweeps and purse requests in every combination,
\* and one decider: every other handler, one at a time.
SPECIFICATION Spec
CONSTANTS
    Purses = {p, q}
    Group = Group
    Requestable = {p, q, Group}
    Ids = {a, b}
    Requesters = {r1, r2}
    Deciders = {d1}
    Nobody = Nobody
    Nothing = Nothing
    Amounts = {1, 2}
    Collectable = 2
    Accounts = {"none", "custodian", "direct"}
    Decisions = {"approve", "reject", "transfer", "webhook"}
SYMMETRY Symmetry
INVARIANTS
    BalancesMatchRows
    PurseRequestStaysCovered
    SweepStaysCovered
    PurseNeverOverdrawn
    SentMoneyIsCounted
