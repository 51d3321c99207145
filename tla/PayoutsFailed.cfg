\* The provider takes a transfer and answers with an error, and approvals overlap.
SPECIFICATION Spec
CONSTANTS
    Purses = {p}
    Group = Group
    Requestable = {p}
    Ids = {a}
    Requesters = {r1}
    Deciders = {d1, d2}
    Nobody = Nobody
    Nothing = Nothing
    Amounts = {1}
    Collectable = 1
    Accounts = {"custodian"}
    Decisions = {"approve", "reject", "transfer", "webhook"}
INVARIANTS
    FailedMoneyNeverLeft
