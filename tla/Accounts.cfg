\* Two users, two reset codes and one code of each other kind, two requests
\* at a time: a code can change hands while a request holds it.
SPECIFICATION Spec
CONSTANTS
    Users = {u, v}
    VerifyCodes = {a1}
    ResetCodes = {b1, b2}
    GrantCodes = {g1}
    Requests = {r1, r2}
    None = None
    MaxOwed = 2
SYMMETRY Symmetry
INVARIANTS
    TypeOK
    OneChangePerCode
PROPERTIES
    CodesStayWithOwners
CHECK_DEADLOCK FALSE
