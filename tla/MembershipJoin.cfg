\* Joins through an invite that is good for one member, against the
\* creation of a purse, an edit of the cohort, removals and restarts.
SPECIFICATION Spec
CONSTANTS
    i1 = i1
    class = class
    a = a
    u = u
    v = v
    Groups = {class}
    Users = {a, u, v}
    Registered = {a}
    AdminRole = {a}
    Admins <- OneAdmin
    Cohorts = {c, d}
    Purses = {p1}
    AutoPurses = {p1}
    Invites = {i1}
    MaxUses <- OneUse
    PurseInvites = {}
    Keys = {}
    Requests = {r1, r2}
    MaxEdits = 2
    Handlers = {"remove", "revoke", "restart"}
    None = None
INVARIANTS
    TypeOK
    UseLimit
    NobodyIsForgotten
    CohortsAgree
SYMMETRY JoinSymmetry
CHECK_DEADLOCK FALSE
