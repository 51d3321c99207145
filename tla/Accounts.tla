------------------------------ MODULE Accounts ------------------------------
(***************************************************************************)
(* Accounts and the six-digit codes that are mailed to their owners: one   *)
(* to verify the address, one to reset the password, and the grant that a  *)
(* checked reset code is exchanged for.  Codes live in Redis, in one store *)
(* for each purpose and for all users; the accounts are rows of users.     *)
(*                                                                         *)
(* A code is drawn at random and reserved with SET NX, so it may be one    *)
(* that belonged to somebody else before it expired or was used.  Requests *)
(* interleave between their Redis commands and their commits.              *)
(***************************************************************************)
EXTENDS Integers, FiniteSets

CONSTANTS
    Users,      \* addresses somebody may register
    VerifyCodes, \* six-digit codes drawn for the verification of an address
    ResetCodes, \* six-digit codes drawn for a forgotten password
    GrantCodes, \* six-digit codes drawn for a grant
    Requests,   \* requests that can be open at the same time
    None,       \* nobody, no code
    MaxOwed     \* bound on the reset codes of one user that set no password

ASSUME NoneAssumption == None \notin Users \cup VerifyCodes \cup ResetCodes \cup GrantCodes

ASSUME OwedAssumption == MaxOwed \in Nat

ASSUME FinitenessAssumption == IsFiniteSet(ResetCodes \cup GrantCodes \cup Requests)

Stores == {"verify_email", "reset_password", "reset_grant"}

\* Each store has key names of its own.
Codes(s) == CASE s = "verify_email"   -> VerifyCodes
              [] s = "reset_password" -> ResetCodes
              [] s = "reset_grant"    -> GrantCodes

AllCodes == VerifyCodes \cup ResetCodes \cup GrantCodes

VARIABLES
    account,   \* users: no row, unverified or verified
    code,      \* <store>:<code>: the user it was issued to
    cooldown,  \* reset_cooldown:<email>
    req,       \* the open requests
    owed       \* history: changes of password that each user's codes still allow

vars == <<account, code, cooldown, req, owed>>

-----------------------------------------------------------------------------
(* Types                                                                   *)

Request ==
    {q \in [pc: {"idle", "insert", "issue", "burn", "verified", "cool", "consume", "password"},
            user: Users \cup {None}, code: AllCodes \cup {None}, store: Stores \cup {None},
            overtaken: BOOLEAN] :
        q.pc # "idle" => q.user \in Users}

\* overtaken: history, the code the request found in order was issued anew.
Closed == [pc |-> "idle", user |-> None, code |-> None, store |-> None, overtaken |-> FALSE]

TypeOK ==
    /\ account \in [Users -> {"absent", "unverified", "verified"}]
    /\ DOMAIN code = Stores
    /\ \A s \in Stores : code[s] \in [Codes(s) -> Users \cup {None}]
    /\ cooldown \in [Users -> BOOLEAN]
    /\ req \in [Requests -> Request]
    /\ owed \in [Users -> Int]

-----------------------------------------------------------------------------
(* Helpers                                                                 *)

Finish(r) == req' = [req EXCEPT ![r] = Closed]

Open(r, pc, u, c, s) ==
    /\ req[r].pc = "idle"
    /\ req' = [req EXCEPT ![r] = [Closed EXCEPT !.pc = pc, !.user = u, !.code = c, !.store = s]]

\* The request has found code c of store s in order, and will delete it.
Holds(q, s, c) ==
    /\ q.pc \in {"burn", "consume"}
    /\ q.store = s
    /\ q.code = c

\* The code is gone, whoever it belongs to by now.
Delete(s, c) == code' = [code EXCEPT ![s][c] = None]

Peek(s, c) == code[s][c]

\* MULTI of GET and DEL: one command for the others.
Consume(s, c) == Delete(s, c)

-----------------------------------------------------------------------------
Init ==
    /\ account = [u \in Users |-> "absent"]
    /\ code = [s \in Stores |-> [c \in Codes(s) |-> None]]
    /\ cooldown = [u \in Users |-> FALSE]
    /\ req = [r \in Requests |-> Closed]
    /\ owed = [u \in Users |-> 0]

-----------------------------------------------------------------------------
(* SingleUseTokenStore                                                     *)

\* SET NX: only a code that nobody holds is reserved.
Reserve(r, c) ==
    LET s == req[r].store
        u == req[r].user
    IN  /\ req[r].pc = "issue"
        /\ c \in Codes(s)
        /\ s = "reset_password" => owed[u] < MaxOwed
        /\ code[s][c] = None
        /\ code' = [code EXCEPT ![s][c] = u]
        /\ owed' = [owed EXCEPT ![u] = IF s = "reset_password" THEN @ + 1 ELSE @]
        /\ req' = [q \in Requests |->
                     IF q = r THEN Closed
                     ELSE IF Holds(req[q], s, c) THEN [req[q] EXCEPT !.overtaken = TRUE]
                     ELSE req[q]]
        /\ UNCHANGED <<account, cooldown>>

\* All five draws were taken: the request fails, what it committed stays.
ReserveFails(r) ==
    /\ req[r].pc = "issue"
    /\ \E c \in Codes(req[r].store) : code[req[r].store][c] # None
    /\ Finish(r)
    /\ UNCHANGED <<account, code, cooldown, owed>>

ExpireCode(s, c) ==
    /\ code[s][c] # None
    /\ Delete(s, c)
    /\ UNCHANGED <<account, cooldown, req, owed>>

-----------------------------------------------------------------------------
(* Registration and the verification of the address                        *)

Register(r, u) ==
    /\ account[u] = "absent"
    /\ Open(r, "insert", u, None, "verify_email")
    /\ UNCHANGED <<account, code, cooldown, owed>>

\* users.email is unique: the second of two registrations is refused.
RegisterCommit(r) ==
    LET u == req[r].user IN
    /\ req[r].pc = "insert"
    /\ IF account[u] = "absent"
          THEN /\ account' = [account EXCEPT ![u] = "unverified"]
               /\ req' = [req EXCEPT ![r].pc = "issue"]
          ELSE /\ Finish(r)
               /\ UNCHANGED account
    /\ UNCHANGED <<code, cooldown, owed>>

ResendVerification(r, u) ==
    /\ account[u] = "unverified"
    /\ Open(r, "issue", u, None, "verify_email")
    /\ UNCHANGED <<account, code, cooldown, owed>>

\* The code is looked up, and must belong to the user of the address given.
VerifyEmailTaking(r, u, c) == \* mutant: the code is consumed before its owner is compared
    /\ code["verify_email"][c] # None
    /\ Consume("verify_email", c)
    /\ Open(r, IF code["verify_email"][c] = u THEN "verified" ELSE "idle", u, None, None)
    /\ UNCHANGED <<account, cooldown, owed>>

VerifyEmail(r, u, c) ==
    /\ Peek("verify_email", c) = u
    /\ Open(r, "burn", u, c, "verify_email")
    /\ UNCHANGED <<account, code, cooldown, owed>>

VerifyEmailBurnFirst(r) == \* mutant: the owner is read after the deletion
    LET q == req[r] IN
    /\ q.pc = "burn"
    /\ Delete("verify_email", q.code)
    /\ req' = [req EXCEPT ![r] = [Closed EXCEPT !.pc = "verified", !.user = code'["verify_email"][q.code]]]
    /\ UNCHANGED <<account, cooldown, owed>>

VerifyEmailBurn(r) ==
    LET q == req[r] IN
    /\ q.pc = "burn"
    /\ Delete("verify_email", q.code)
    /\ req' = [req EXCEPT ![r] = [Closed EXCEPT !.pc = "verified", !.user = q.user]]
    /\ UNCHANGED <<account, cooldown, owed>>

VerifyEmailCommit(r) ==
    /\ req[r].pc = "verified"
    /\ account' = [account EXCEPT ![req[r].user] = "verified"]
    /\ Finish(r)
    /\ UNCHANGED <<code, cooldown, owed>>

-----------------------------------------------------------------------------
(* Forgotten passwords                                                     *)

\* EXISTS and SET are two commands.
ForgotPassword(r, u) ==
    /\ ~cooldown[u]
    /\ Open(r, "cool", u, None, "reset_password")
    /\ UNCHANGED <<account, code, cooldown, owed>>

\* An unknown address is answered like a known one.
ForgotPasswordCool(r) ==
    LET u == req[r].user IN
    /\ req[r].pc = "cool"
    /\ cooldown' = [cooldown EXCEPT ![u] = TRUE]
    /\ IF account[u] = "absent" THEN Finish(r) ELSE req' = [req EXCEPT ![r].pc = "issue"]
    /\ UNCHANGED <<account, code, owed>>

CooldownEnds(u) ==
    /\ cooldown[u]
    /\ cooldown' = [cooldown EXCEPT ![u] = FALSE]
    /\ UNCHANGED <<account, code, req, owed>>

\* The code is peeked at here and consumed in the next step.
VerifyResetCode(r, u, c) ==
    /\ Peek("reset_password", c) = u
    /\ Open(r, "consume", u, c, "reset_password")
    /\ UNCHANGED <<account, code, cooldown, owed>>

\* What consume returns is ignored: the grant is issued in any case.
VerifyResetConsume(r) ==
    LET q == req[r] IN
    /\ q.pc = "consume"
    /\ Consume("reset_password", q.code)
    /\ owed' = [owed EXCEPT ![q.user] = IF Peek("reset_password", q.code) = q.user THEN @ ELSE @ + 1]
    /\ req' = [req EXCEPT ![r] = [Closed EXCEPT !.pc = "issue", !.user = q.user, !.store = "reset_grant"]]
    /\ UNCHANGED <<account, cooldown>>

\* With a grant, or with the mailed code itself.
ResetPasswordPeeking(r, s, c) == \* mutant: GET without DEL
    /\ s # "verify_email"
    /\ code[s][c] # None
    /\ Open(r, "password", code[s][c], None, None)
    /\ UNCHANGED <<account, code, cooldown, owed>>

ResetPassword(r, s, c) ==
    /\ s # "verify_email"
    /\ code[s][c] # None
    /\ Consume(s, c)
    /\ Open(r, "password", Peek(s, c), None, None)
    /\ UNCHANGED <<account, cooldown, owed>>

ResetPasswordCommit(r) ==
    /\ req[r].pc = "password"
    /\ owed' = [owed EXCEPT ![req[r].user] = @ - 1]
    /\ Finish(r)
    /\ UNCHANGED <<account, code, cooldown>>

-----------------------------------------------------------------------------
\* A restart of the server ends every open request; Redis keeps its keys.
Crash ==
    /\ \E r \in Requests : req[r].pc # "idle"
    /\ req' = [r \in Requests |-> Closed]
    /\ UNCHANGED <<account, code, cooldown, owed>>

Step(r) ==
    \/ \E c \in AllCodes : Reserve(r, c)
    \/ ReserveFails(r)
    \/ RegisterCommit(r)
    \/ VerifyEmailBurn(r)
    \/ VerifyEmailCommit(r)
    \/ ForgotPasswordCool(r)
    \/ VerifyResetConsume(r)
    \/ ResetPasswordCommit(r)

ArriveVerification(r) ==
    \/ \E u \in Users : Register(r, u) \/ ResendVerification(r, u)
    \/ \E u \in Users, c \in VerifyCodes : VerifyEmail(r, u, c)

ArriveReset(r) ==
    \/ \E u \in Users : ForgotPassword(r, u)
    \/ \E u \in Users, c \in ResetCodes : VerifyResetCode(r, u, c)
    \/ \E s \in Stores : \E c \in Codes(s) : ResetPassword(r, s, c)

Next ==
    \/ \E r \in Requests : Step(r) \/ ArriveVerification(r) \/ ArriveReset(r)
    \/ \E s \in Stores : \E c \in Codes(s) : ExpireCode(s, c)
    \/ \E u \in Users : CooldownEnds(u)
    \/ Crash

Spec == Init /\ [][Next]_vars

-----------------------------------------------------------------------------
(* Properties                                                              *)

\* Every reset code that was mailed sets a password at most once: through
\* itself or through the one grant it is exchanged for. A code allows one more
\* change each time verify_reset_code issues a grant for a code that had gone
\* since it looked: it ignores what consume returns.
OneChangePerCode == \A u \in Users : owed[u] >= 0

\* Nobody loses a live code to a request that names another address, as the
\* comment in verify_email promises; unless it was issued to its new owner
\* while that request had already found it in order for the old one.
CodesStayWithOwners ==
    [][\A s \in Stores, r \in Requests : \A c \in Codes(s) :
        (code[s][c] # None /\ code'[s][c] = None /\ req'[r] # req[r]) =>
            \/ code[s][c] \in {req[r].user, req'[r].user}
            \/ req[r].overtaken]_vars
=============================================================================
