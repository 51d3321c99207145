------------------------------ MODULE Sessions ------------------------------
(***************************************************************************)
(* Sessions of signed-in users.  A login founds a family of refresh tokens *)
(* in Redis: each token has a record, the family a pointer to its current  *)
(* token, and a separate key holds the last time a human was seen.  With   *)
(* each refresh token a signed access token is minted, which no store      *)
(* knows until a logout puts it on the blacklist.                          *)
(*                                                                         *)
(* Every Redis command (or MULTI) is one step of a request, so requests    *)
(* interleave between commands.  A token in a response may be presented by *)
(* any later request any number of times: a response that is lost and      *)
(* retried, two tabs, an old token.                                        *)
(*                                                                         *)
(* Time counts in ticks, Second of them to a second: keys expire, and TTLs *)
(* are given to Redis in whole seconds.                                    *)
(***************************************************************************)
EXTENDS Integers, FiniteSets

CONSTANTS
    Families,   \* families of refresh tokens that can be founded (bound)
    Tokens,     \* refresh tokens that can be minted (bound)
    Requests,   \* requests that can be open at the same time
    None,       \* no token, no family
    TTL,        \* REFRESH_TOKEN_EXPIRE_DAYS
    Idle,       \* INACTIVITY_TIMEOUT_MINUTES
    AccessTTL,  \* ACCESS_TOKEN_EXPIRE_MINUTES
    Second,     \* ticks in a second
    MaxTime     \* bound on the clock

ASSUME NoneAssumption == None \notin Tokens \cup Families

ASSUME TimesAssumption ==
    /\ TTL \in Nat \ {0}
    /\ Idle \in Nat
    /\ AccessTTL \in Nat \ {0}
    /\ Second \in Nat \ {0}
    /\ MaxTime \in Nat
    /\ Idle < TTL

VARIABLES
    now,       \* the clock of the server and of Redis
    family,    \* the family each token was minted for, written in its record
    record,    \* refresh:<token>: when the key expires (0: no such key)
    pointer,   \* refresh_family:<family>: its current token, when it expires
    active,    \* last_active:<family>: when a human was last seen, and expiry
    access,    \* when the access token minted with a refresh token expires
    blacklist, \* blacklist:<jti>: when the key expires (0: no such key)
    hand,      \* the open requests
    given,     \* (clients) tokens that were put in a response
    human,     \* history: when a human was last seen in each family
    ended,     \* history: families revoked while nobody was renewing them
    unwatched, \* history: families whose activity was cleared while they lived
    out        \* history: access tokens that were blacklisted, until they expire

redisVars   == <<record, pointer, active, blacklist>>
historyVars == <<human, ended, unwatched, out>>
vars == <<now, family, redisVars, access, hand, given, historyVars>>

-----------------------------------------------------------------------------
(* Types                                                                   *)

NoPointer == [token |-> None, until |-> 0]
NoActivity == [at |-> 0, until |-> 0]

\* token: the one presented, or the access token of a logout; current: the one
\* to be deleted, or the refresh token a logout looks up; after: what follows
\* when a revocation is over.
Request ==
    [pc: {"idle", "seed", "beat", "gate", "rotate", "compare", "issue", "lookup",
          "revoke", "delete", "drop", "clear", "blacklist"},
     token: Tokens \cup {None}, family: Families \cup {None},
     current: Tokens \cup {None}, at: Nat, after: {"end", "clear", "blacklist"}]

Closed == [pc |-> "idle", token |-> None, family |-> None, current |-> None,
           at |-> 0, after |-> "end"]

TypeOK ==
    /\ now \in Nat
    /\ family \in [Tokens -> Families \cup {None}]
    /\ record \in [Tokens -> Nat]
    /\ pointer \in [Families -> [token: Tokens \cup {None}, until: Nat]]
    /\ active \in [Families -> [at: Nat, until: Nat]]
    /\ access \in [Tokens -> Nat]
    /\ blacklist \in [Tokens -> Nat]
    /\ hand \in [Requests -> Request]
    /\ given \in SUBSET Tokens
    /\ human \in [Families -> Nat]
    /\ ended \in SUBSET Families
    /\ unwatched \in SUBSET Families
    /\ out \in SUBSET Tokens

-----------------------------------------------------------------------------
(* Helpers                                                                 *)

Reversed(ticks) == -ticks - (-ticks % Second) \* mutant: now - expires_at, no minimum

SecondShort(ticks) == IF ticks <= Second THEN 1 ELSE ticks - Second \* mutant: a second short

\* int((expires_at - now).total_seconds()), and 1 at the least.
WholeSeconds(ticks) == LET cut == ticks - (ticks % Second) IN
    IF cut < Second THEN Second ELSE cut

Unexpired(a) == access[a] > now

Blacklisted(a) == blacklist[a] # 0

\* What get_current_user lets through.
Accepted(a) ==
    /\ a \in given
    /\ Unexpired(a)
    /\ ~Blacklisted(a)

\* A last-active time is recorded, and older than the threshold.
Stale(f) ==
    /\ active[f].until # 0
    /\ now - active[f].at > Idle

\* MULTI: the token's record and the family's pointer.
Mint(t, f) ==
    /\ family[t] = None
    /\ family' = [family EXCEPT ![t] = f]
    /\ record' = [record EXCEPT ![t] = now + TTL]
    /\ pointer' = [pointer EXCEPT ![f] = [token |-> t, until |-> now + TTL]]

\* The signed token that goes with refresh token t; nothing is stored of it.
MintAccess(t) == access' = [access EXCEPT ![t] = now + AccessTTL]

Founded(f) == \E t \in Tokens : family[t] = f

Go(r, pc) == hand' = [hand EXCEPT ![r].pc = pc]

Finish(r) == hand' = [hand EXCEPT ![r] = Closed]

-----------------------------------------------------------------------------
Init ==
    /\ now = 0
    /\ family = [t \in Tokens |-> None]
    /\ record = [t \in Tokens |-> 0]
    /\ pointer = [f \in Families |-> NoPointer]
    /\ active = [f \in Families |-> NoActivity]
    /\ access = [t \in Tokens |-> 0]
    /\ blacklist = [t \in Tokens |-> 0]
    /\ hand = [r \in Requests |-> Closed]
    /\ given = {}
    /\ human = [f \in Families |-> 0]
    /\ ended = {}
    /\ unwatched = {}
    /\ out = {}

-----------------------------------------------------------------------------
(* Login and heartbeat: the only two signs of a human                      *)

\* The password is right and the address verified.
Login(r, f, t) ==
    /\ hand[r].pc = "idle"
    /\ ~Founded(f)
    /\ Mint(t, f)
    /\ hand' = [hand EXCEPT ![r] = [Closed EXCEPT !.pc = "seed", !.token = t, !.family = f]]
    /\ UNCHANGED <<now, active, blacklist, access, given, historyVars>>

\* touch: the same TTL as the family's keys had when they were last written.
Touch(f) ==
    /\ active' = [active EXCEPT ![f] = [at |-> now, until |-> now + TTL]]
    /\ human' = [human EXCEPT ![f] = now]
    /\ unwatched' = unwatched \ {f}

LoginTouch(r) ==
    LET h == hand[r] IN
    /\ h.pc = "seed"
    /\ Touch(h.family)
    /\ MintAccess(h.token)
    /\ given' = given \cup {h.token}
    /\ Finish(r)
    /\ UNCHANGED <<now, family, record, pointer, blacklist, ended, out>>

Heartbeat(r, a) ==
    /\ hand[r].pc = "idle"
    /\ Accepted(a)
    /\ hand' = [hand EXCEPT ![r] = [Closed EXCEPT !.pc = "beat", !.family = family[a]]]
    /\ UNCHANGED <<now, family, redisVars, access, given, historyVars>>

HeartbeatTouch(r) ==
    LET h == hand[r] IN
    /\ h.pc = "beat"
    /\ Touch(h.family)
    /\ Finish(r)
    /\ UNCHANGED <<now, family, record, pointer, blacklist, access, given, ended, out>>

-----------------------------------------------------------------------------
(* Refresh: peek, the inactivity gate, then rotate                         *)

Refresh(r, t) ==
    /\ hand[r].pc = "idle"
    /\ t \in given
    /\ record[t] # 0
    /\ hand' = [hand EXCEPT ![r] = [Closed EXCEPT !.pc = "gate", !.token = t, !.family = family[t]]]
    /\ UNCHANGED <<now, family, redisVars, access, given, historyVars>>

RefreshGate(r) ==
    LET h == hand[r] IN
    /\ h.pc = "gate"
    /\ hand' = [hand EXCEPT ![r] =
                   IF Stale(h.family) THEN [h EXCEPT !.pc = "revoke", !.token = None, !.after = "clear"]
                                      ELSE [h EXCEPT !.pc = "rotate", !.at = now]]
    /\ UNCHANGED <<now, family, redisVars, access, given, historyVars>>

\* rotate reads the token's record once more.
RotateRead(r) ==
    /\ hand[r].pc = "rotate"
    /\ IF record[hand[r].token] = 0 THEN Finish(r) ELSE Go(r, "compare")
    /\ UNCHANGED <<now, family, redisVars, access, given, historyVars>>

\* A token that is not the family's current one was rotated before: reuse.
Reuse(f) == [Closed EXCEPT !.pc = "revoke", !.family = f]

RotateCompareLax(r) == \* mutant: a family without a pointer is no reuse
    /\ hand[r].pc = "compare"
    /\ IF pointer[hand[r].family].token \in {hand[r].token, None}
          THEN hand' = [hand EXCEPT ![r].pc = "issue", ![r].token = None]
          ELSE hand' = [hand EXCEPT ![r] = Reuse(hand[r].family)]
    /\ UNCHANGED <<now, family, redisVars, access, given, historyVars>>

RotateCompare(r) ==
    /\ hand[r].pc = "compare"
    /\ IF pointer[hand[r].family].token = hand[r].token
          THEN hand' = [hand EXCEPT ![r].pc = "issue", ![r].token = None]
          ELSE hand' = [hand EXCEPT ![r] = Reuse(hand[r].family)]
    /\ UNCHANGED <<now, family, redisVars, access, given, historyVars>>

RotateIssueTouching(r, t) == \* mutant: the silent refresh counts as a human
    /\ hand[r].pc = "issue"
    /\ Mint(t, hand[r].family)
    /\ active' = [active EXCEPT ![hand[r].family] = [at |-> now, until |-> now + TTL]]
    /\ MintAccess(t)
    /\ given' = given \cup {t}
    /\ Finish(r)
    /\ UNCHANGED <<now, blacklist, historyVars>>

RotateIssue(r, t) ==
    /\ hand[r].pc = "issue"
    /\ Mint(t, hand[r].family)
    /\ MintAccess(t)
    /\ given' = given \cup {t}
    /\ Finish(r)
    /\ UNCHANGED <<now, active, blacklist, historyVars>>

-----------------------------------------------------------------------------
(* revoke_family: three commands                                           *)

RevokeRead(r) ==
    LET h == hand[r] IN
    /\ h.pc = "revoke"
    /\ hand' = [hand EXCEPT ![r].current = pointer[h.family].token,
                            ![r].pc = IF pointer[h.family].token = None THEN "drop" ELSE "delete"]
    /\ UNCHANGED <<now, family, redisVars, access, given, historyVars>>

RevokeDelete(r) ==
    /\ hand[r].pc = "delete"
    /\ record' = [record EXCEPT ![hand[r].current] = 0]
    /\ Go(r, "drop")
    /\ UNCHANGED <<now, family, pointer, active, blacklist, access, given, historyVars>>

\* A refresh that passed the comparison can still write a new pointer.
Renewing(f) == \E r \in Requests : hand[r].pc = "issue" /\ hand[r].family = f

RevokeDrop(r) ==
    LET h == hand[r] IN
    /\ h.pc = "drop"
    /\ pointer' = [pointer EXCEPT ![h.family] = NoPointer]
    /\ ended' = IF Renewing(h.family) THEN ended ELSE ended \cup {h.family}
    /\ IF h.after = "end" THEN Finish(r) ELSE hand' = [hand EXCEPT ![r].pc = "clear", ![r].current = None]
    /\ UNCHANGED <<now, family, record, active, blacklist, access, given, human, unwatched, out>>

\* clear is the last command of a stale refresh; a logout goes on.
Clear(r) ==
    LET h == hand[r] IN
    /\ h.pc = "clear"
    /\ active' = [active EXCEPT ![h.family] = NoActivity]
    /\ unwatched' = IF Renewing(h.family) \/ pointer[h.family] # NoPointer
                       THEN unwatched \cup {h.family} ELSE unwatched
    /\ IF h.after = "blacklist"
          THEN hand' = [hand EXCEPT ![r] = [Closed EXCEPT !.pc = "blacklist", !.token = h.token]]
          ELSE Finish(r)
    /\ UNCHANGED <<now, family, record, pointer, blacklist, access, given, human, ended, out>>

-----------------------------------------------------------------------------
(* Logout                                                                  *)

\* The access token lets the request in; the refresh token in its body or cookie
\* may be of another response or login, and be gone from Redis.
Logout(r, a, t) ==
    /\ hand[r].pc = "idle"
    /\ Accepted(a)
    /\ t \in given
    /\ hand' = [hand EXCEPT ![r] =
                   IF record[t] = 0
                      THEN [Closed EXCEPT !.pc = "blacklist", !.token = a]
                      ELSE [Closed EXCEPT !.pc = "lookup", !.token = a, !.current = t,
                                          !.family = family[t]]]
    /\ UNCHANGED <<now, family, redisVars, access, given, historyVars>>

\* Without a refresh token the answer is the same logged_out, and nothing is
\* done: both tokens stay good.
LogoutBare(a) ==
    /\ Accepted(a)
    /\ UNCHANGED vars

\* revoke_by_token looks the token up again; it may be gone by now.
LogoutLookup(r) ==
    /\ hand[r].pc = "lookup"
    /\ hand' = [hand EXCEPT ![r].pc = IF record[hand[r].current] = 0 THEN "clear" ELSE "revoke",
                            ![r].current = None, ![r].after = "blacklist"]
    /\ UNCHANGED <<now, family, redisVars, access, given, historyVars>>

\* The access token may have expired since the request was let in.
Blacklist(r) ==
    LET h == hand[r] IN
    /\ h.pc = "blacklist"
    /\ blacklist' = [blacklist EXCEPT ![h.token] = now + WholeSeconds(access[h.token] - now)]
    /\ out' = IF access[h.token] = 0 THEN out ELSE out \cup {h.token}
    /\ Finish(r)
    /\ UNCHANGED <<now, family, record, pointer, active, access, given, human, ended, unwatched>>

-----------------------------------------------------------------------------
(* Time and restarts                                                       *)

Expired(until) == IF until <= now + 1 THEN 0 ELSE until

\* Redis drops the keys whose time has come; an expired access token (0) is
\* of no more use.
Tick ==
    /\ now < MaxTime
    /\ now' = now + 1
    /\ record' = [t \in Tokens |-> Expired(record[t])]
    /\ pointer' = [f \in Families |-> IF Expired(pointer[f].until) = 0 THEN NoPointer ELSE pointer[f]]
    /\ active' = [f \in Families |-> IF Expired(active[f].until) = 0 THEN NoActivity ELSE active[f]]
    /\ blacklist' = [t \in Tokens |-> Expired(blacklist[t])]
    /\ access' = [t \in Tokens |-> Expired(access[t])]
    /\ out' = {a \in out : access'[a] # 0}
    /\ UNCHANGED <<family, hand, given, human, ended, unwatched>>

\* A restart of the server ends every open request; Redis keeps its keys.
Crash ==
    /\ \E r \in Requests : hand[r].pc # "idle"
    /\ hand' = [r \in Requests |-> Closed]
    /\ UNCHANGED <<now, family, redisVars, access, given, historyVars>>

-----------------------------------------------------------------------------
Step(r) ==
    \/ LoginTouch(r)
    \/ HeartbeatTouch(r)
    \/ RefreshGate(r)
    \/ RotateRead(r)
    \/ RotateCompare(r)
    \/ \E t \in Tokens : RotateIssue(r, t)
    \/ RevokeRead(r)
    \/ RevokeDelete(r)
    \/ RevokeDrop(r)
    \/ Clear(r)
    \/ LogoutLookup(r)
    \/ Blacklist(r)

Arrive(r) ==
    \/ \E f \in Families, t \in Tokens : Login(r, f, t)
    \/ \E t \in Tokens : Refresh(r, t)
    \/ \E a \in Tokens : Heartbeat(r, a)
    \/ \E a, t \in Tokens : Logout(r, a, t)

Move ==
    \/ \E r \in Requests : Step(r) \/ Arrive(r)
    \/ Tick
    \/ Crash

Next ==
    \/ Move
    \/ \E a \in Tokens : LogoutBare(a)

Spec == Init /\ [][Next]_vars

-----------------------------------------------------------------------------
(* Properties                                                              *)

\* A family that is revoked (by a logout, by inactivity, by a reused token)
\* is gone for good: no refresh brings it back, unless one was already
\* between its comparison with the family's pointer and its write.
RevocationHolds == \A f \in ended : pointer[f] = NoPointer

\* A family is renewed only if its human was seen no longer than Idle ago
\* when the gate was passed. Two things excuse more: the activity record is
\* written with a TTL of its own, which no refresh renews, and after it has
\* expired the gate no longer bites; and a family that lives on although its
\* activity was cleared (it was renewed while it was being revoked, or the
\* logout's token expired between its two lookups) is watched again only
\* after the next heartbeat.
IdleFamiliesEnd ==
    [][\A r \in Requests :
        (hand[r].pc = "issue" /\ family' # family /\ hand'[r].pc = "idle") =>
            \/ hand[r].at - human[hand[r].family] <= Idle
            \/ hand[r].at - human[hand[r].family] >= TTL
            \/ hand[r].family \in unwatched]_vars

\* Once a logout that presents a refresh token (any) is answered, its access
\* token is not accepted again while it is valid, except within the last
\* second before it expires: the time its blacklist entry lives is cut to
\* whole seconds. A logout without one (LogoutBare) promises nothing.
LogoutOutlivesToken ==
    \A a \in out : Accepted(a) => access[a] - now < Second
=============================================================================
