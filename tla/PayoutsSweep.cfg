\* One session at a time: a sweep after a purse payout.
SPECIFICATION Spec
CONSTANTS
    Purses = {p, q}
    Group = Group
    Requestable = {p, q, Group}
    Ids = {a, b, c}
    Requesters = {r1}
    Deciders = {d1}
    Nobody = Nobody
    Nothing = Nothing
    Amounts = {1, 2}
    Collectable = 2
    Accounts = {"custodian"}
    Decisions = {}
INVARIANTS
    GroupNeverOverdrawn
