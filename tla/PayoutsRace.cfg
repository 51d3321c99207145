\* Two overlapping requests, a sweep and a purse request among them, and two
\* overlapping deciders: the requests' locks against each other with the
\* deadlocks that PostgreSQL breaks, and approvals that commit over each other.
SPECIFICATION Spec
CONSTANTS
    Purses = {p}
    Group = Group
    Requestable = {p, Group}
    Ids = {a, b}
    Requesters = {r1, r2}
    Deciders = {d1, d2}
    Nobody = Nobody
    Nothing = Nothing
    Amounts = {1}
    Collectable = 1
    Accounts = {"custodian"}
    Decisions = {"approve", "transfer", "webhook"}
INVARIANTS
    TypeOK
    CompletedWasPaid
