\* Two purses, one created under a key that is retried, one by a second
\* request; an account that joins through an invite to a purse, members added
\* by hand, purses closed.
SPECIFICATION Spec
CONSTANTS
    i1 = i1
    class = class
    a = a
    u = u
    v = v
    Groups = {class}
    Users = {a, u}
    Registered = {a, u}
    AdminRole = {a}
    Admins <- OneAdmin
    Cohorts = {}
    Purses = {p1, p2}
    AutoPurses = {p1}
    Invites = {i2}
    MaxUses <- OneUse
    PurseInvites = {i2}
    Keys = {k}
    Requests = {r1, r2}
    MaxEdits = 0
    Handlers = {"add", "remove", "close"}
    None = None
INVARIANTS
    OnePursePerKey
    WhoeverOwesMayFollow
SYMMETRY RequestSymmetry
CHECK_DEADLOCK FALSE
