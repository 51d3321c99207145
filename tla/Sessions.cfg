\* Two requests at a time over one family of three tokens. The clock runs
\* to the expiry of the activity record of the login, a tick is half a
\* second, and an access token lives one and a half seconds. At most one
\* access token is on the blacklist: entries do not touch each other.
SPECIFICATION Spec
CONSTANTS
    Families = {f1}
    Tokens = {t1, t2, t3}
    Requests = {r1, r2}
    None = None
    TTL = 2
    Idle = 0
    AccessTTL = 3
    Second = 2
    MaxTime = 2
SYMMETRY Symmetry
CONSTRAINT OneLoggedOut
INVARIANTS
    TypeOK
    RevocationHolds
    LogoutOutlivesToken
PROPERTIES
    IdleFamiliesEnd
CHECK_DEADLOCK FALSE
