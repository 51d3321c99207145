---------------------------- MODULE SessionsProofs ----------------------------
(***************************************************************************)
(* Proofs about Sessions, for any number of families, tokens and requests, *)
(* any lifetimes and an unbounded clock: types, RevocationHolds,           *)
(* LogoutOutlivesToken and IdleFamiliesEnd.                                *)
(***************************************************************************)
EXTENDS Sessions, TLAPS

-----------------------------------------------------------------------------
(* What a request holds at each of its steps                               *)

Naming == {"seed", "gate", "rotate", "compare", "lookup", "blacklist"}
Revoking == {"revoke", "delete", "drop", "clear"}

WellFormed(h) ==
    /\ h.pc \notin {"idle", "blacklist"} => h.family \in Families
    /\ h.pc \in Naming => h.token \in Tokens
    /\ h.pc \in Revoking /\ h.after = "blacklist" => h.token \in Tokens
    /\ h.pc \in {"delete", "lookup"} => h.current \in Tokens

Hand == {h \in Request : WellFormed(h)}

\* A token in a response was minted.
GivenMinted == \A t \in given : family[t] \in Families

\* A login that has not answered yet holds a token of its own family.
SeedsMinted == \A r \in Requests : hand[r].pc = "seed" => family[hand[r].token] = hand[r].family

TInv ==
    /\ TypeOK
    /\ hand \in [Requests -> Hand]
    /\ GivenMinted
    /\ SeedsMinted

\* A logout without a refresh token changes nothing.
LEMMA NextMoves == Next => Move \/ UNCHANGED vars
BY DEF Next, LogoutBare

LEMMA ClosedIsHand == Closed \in Hand
BY DEF Closed, Hand, Request, WellFormed, Naming, Revoking

LEMMA HandChanges ==
    ASSUME hand \in [Requests -> Hand], NEW r \in Requests, NEW h \in Hand,
           hand' = [hand EXCEPT ![r] = h]
    PROVE  /\ hand' \in [Requests -> Hand]
           /\ hand'[r] = h
           /\ \A q \in Requests \ {r} : hand'[q] = hand[q]
OBVIOUS

LEMMA HandsAreRequests == ASSUME hand \in [Requests -> Hand] PROVE hand \in [Requests -> Request]
BY DEF Hand

LEMMA HandsAreRequestsNext == ASSUME hand' \in [Requests -> Hand] PROVE hand' \in [Requests -> Request]
BY DEF Hand

\* A request that ends keeps nothing.
LEMMA Finishes ==
    ASSUME hand \in [Requests -> Hand], NEW r \in Requests, Finish(r)
    PROVE  /\ hand' \in [Requests -> Hand]
           /\ hand'[r].pc = "idle"
           /\ \A q \in Requests \ {r} : hand'[q] = hand[q]
<1>1. hand' = [hand EXCEPT ![r] = Closed]
  BY DEF Finish
<1>2. /\ hand' \in [Requests -> Hand]
      /\ hand'[r] = Closed
      /\ \A q \in Requests \ {r} : hand'[q] = hand[q]
  BY <1>1, ClosedIsHand, HandChanges
<1>3. QED
  BY <1>2 DEF Closed

LEMMA MintTyped ==
    ASSUME TypeOK, NEW t \in Tokens, NEW f \in Families, Mint(t, f)
    PROVE  /\ family' \in [Tokens -> Families \cup {None}]
           /\ record' \in [Tokens -> Nat]
           /\ pointer' \in [Families -> [token: Tokens \cup {None}, until: Nat]]
           /\ family'[t] = f
           /\ \A u \in Tokens : family[u] # None => family'[u] = family[u]
BY TimesAssumption DEF TypeOK, Mint

LEMMA TouchTyped ==
    ASSUME TypeOK, NEW f \in Families, Touch(f)
    PROVE  /\ active' \in [Families -> [at: Nat, until: Nat]]
           /\ human' \in [Families -> Nat]
           /\ unwatched' \in SUBSET Families
BY TimesAssumption DEF TypeOK, Touch

-----------------------------------------------------------------------------
(* What each step of a request does to it                                  *)

LEMMA ArriveHands ==
    ASSUME TInv, NEW r \in Requests, Arrive(r)
    PROVE  /\ hand' \in [Requests -> Hand]
           /\ hand[r].pc = "idle"
           /\ \A q \in Requests \ {r} : hand'[q] = hand[q]
           /\ hand'[r].pc \in {"seed", "beat", "gate", "lookup", "blacklist"}
<1>. USE NoneAssumption DEF Naming, Revoking
<1>0. /\ hand \in [Requests -> Hand]
      /\ Closed \in Request
      /\ family \in [Tokens -> Families \cup {None}]
      /\ given \in SUBSET Tokens
  BY ClosedIsHand DEF TInv, TypeOK, Hand
<1>1. ASSUME NEW f \in Families, NEW t \in Tokens, Login(r, f, t)
      PROVE  \E h \in Hand : hand' = [hand EXCEPT ![r] = h] /\ h.pc = "seed"
  <2>1. [Closed EXCEPT !.pc = "seed", !.token = t, !.family = f] \in Hand
    BY <1>0 DEF Hand, Request, WellFormed
  <2>2. [Closed EXCEPT !.pc = "seed", !.token = t, !.family = f].pc = "seed"
    BY DEF Closed
  <2>3. QED
    BY <1>1, <2>1, <2>2 DEF Login
<1>2. ASSUME NEW t \in Tokens, Refresh(r, t)
      PROVE  \E h \in Hand : hand' = [hand EXCEPT ![r] = h] /\ h.pc = "gate"
  <2>1. family[t] \in Families
    BY <1>2 DEF Refresh, TInv, GivenMinted
  <2>2. [Closed EXCEPT !.pc = "gate", !.token = t, !.family = family[t]] \in Hand
    BY <1>0, <2>1 DEF Hand, Request, WellFormed
  <2>3. [Closed EXCEPT !.pc = "gate", !.token = t, !.family = family[t]].pc = "gate"
    BY DEF Closed
  <2>4. QED
    BY <1>2, <2>2, <2>3 DEF Refresh
<1>3. ASSUME NEW a \in Tokens, Heartbeat(r, a)
      PROVE  \E h \in Hand : hand' = [hand EXCEPT ![r] = h] /\ h.pc = "beat"
  <2>1. family[a] \in Families
    BY <1>3 DEF Heartbeat, Accepted, TInv, GivenMinted
  <2>2. [Closed EXCEPT !.pc = "beat", !.family = family[a]] \in Hand
    BY <1>0, <2>1 DEF Hand, Request, WellFormed
  <2>3. [Closed EXCEPT !.pc = "beat", !.family = family[a]].pc = "beat"
    BY DEF Closed
  <2>4. QED
    BY <1>3, <2>2, <2>3 DEF Heartbeat
<1>4. ASSUME NEW a \in Tokens, NEW t \in Tokens, Logout(r, a, t)
      PROVE  \E h \in Hand : hand' = [hand EXCEPT ![r] = h] /\ h.pc \in {"lookup", "blacklist"}
  <2> DEFINE look  == [Closed EXCEPT !.pc = "lookup", !.token = a, !.current = t, !.family = family[t]]
             black == [Closed EXCEPT !.pc = "blacklist", !.token = a]
  <2>1. family[t] \in Families
    BY <1>4 DEF Logout, TInv, GivenMinted
  <2>2. look \in Hand
    BY <1>0, <2>1 DEF Hand, Request, WellFormed
  <2>3. black \in Hand
    BY <1>0 DEF Hand, Request, WellFormed
  <2>4. look.pc = "lookup" /\ black.pc = "blacklist"
    BY DEF Closed
  <2>5. hand' = [hand EXCEPT ![r] = IF record[t] = 0 THEN black ELSE look]
    BY <1>4 DEF Logout
  <2>. HIDE DEF look, black
  <2>6. QED
    BY <2>2, <2>3, <2>4, <2>5
<1>5. PICK h \in Hand : /\ hand' = [hand EXCEPT ![r] = h]
                        /\ h.pc \in {"seed", "beat", "gate", "lookup", "blacklist"}
  BY <1>1, <1>2, <1>3, <1>4 DEF Arrive
<1>6. hand[r].pc = "idle"
  BY DEF Arrive, Login, Refresh, Heartbeat, Logout
<1>7. QED
  BY <1>0, <1>5, <1>6, HandChanges

\* A step of an open request: its family stays, and only a comparison that
\* found the family's current token lets it issue a new one.
LEMMA StepHands ==
    ASSUME TInv, NEW r \in Requests, Step(r)
    PROVE  /\ hand' \in [Requests -> Hand]
           /\ hand[r].pc # "idle"
           /\ \A q \in Requests \ {r} : hand'[q] = hand[q]
           /\ hand'[r].pc # "seed"
           /\ hand'[r].pc \notin {"idle", "blacklist"} => hand'[r].family = hand[r].family
           /\ hand'[r].pc = "issue" => /\ hand[r].pc = "compare"
                                      /\ pointer[hand[r].family].token = hand[r].token
<1>. USE NoneAssumption DEF Naming, Revoking
<1>0. /\ hand \in [Requests -> Hand]
      /\ hand[r] \in Hand
      /\ Closed \in Request
      /\ pointer \in [Families -> [token: Tokens \cup {None}, until: Nat]]
      /\ now \in Nat
  BY ClosedIsHand DEF TInv, TypeOK, Hand
<1> DEFINE h == hand[r]
           Ends == LoginTouch(r) \/ HeartbeatTouch(r) \/ (\E t \in Tokens : RotateIssue(r, t)) \/ Blacklist(r)
           Kept(g) ==
             /\ g.pc # "seed"
             /\ g.pc \notin {"idle", "blacklist"} => g.family = h.family
             /\ g.pc = "issue" => h.pc = "compare" /\ pointer[h.family].token = h.token
<1>1. ASSUME Ends
      PROVE  \E g \in Hand : hand' = [hand EXCEPT ![r] = g] /\ g.pc = "idle"
  <2>1. hand' = [hand EXCEPT ![r] = Closed]
    BY <1>1 DEF LoginTouch, HeartbeatTouch, RotateIssue, Blacklist, Finish
  <2>2. QED
    BY <2>1, ClosedIsHand DEF Closed
<1>2. ASSUME RefreshGate(r)
      PROVE  \E g \in Hand : hand' = [hand EXCEPT ![r] = g] /\ g.pc \in {"revoke", "rotate"} /\ g.family = h.family
  <2>1. [h EXCEPT !.pc = "revoke", !.token = None, !.after = "clear"] \in Hand
    BY <1>0, <1>2 DEF Hand, Request, WellFormed, RefreshGate
  <2>2. [h EXCEPT !.pc = "rotate", !.at = now] \in Hand
    BY <1>0, <1>2 DEF Hand, Request, WellFormed, RefreshGate
  <2>3. /\ [h EXCEPT !.pc = "revoke", !.token = None, !.after = "clear"].pc = "revoke"
        /\ [h EXCEPT !.pc = "revoke", !.token = None, !.after = "clear"].family = h.family
        /\ [h EXCEPT !.pc = "rotate", !.at = now].pc = "rotate"
        /\ [h EXCEPT !.pc = "rotate", !.at = now].family = h.family
    BY <1>0 DEF Hand, Request
  <2>4. QED
    BY <1>2, <2>1, <2>2, <2>3 DEF RefreshGate
<1>3. ASSUME RotateRead(r)
      PROVE  \E g \in Hand : hand' = [hand EXCEPT ![r] = g] /\ (g.pc = "idle" \/ (g.pc = "compare" /\ g.family = h.family))
  <2>1. [h EXCEPT !.pc = "compare"] \in Hand
    BY <1>0, <1>3 DEF Hand, Request, WellFormed, RotateRead
  <2>2. [h EXCEPT !.pc = "compare"].pc = "compare" /\ [h EXCEPT !.pc = "compare"].family = h.family
    BY <1>0 DEF Hand, Request
  <2>3. hand' = [hand EXCEPT ![r] = Closed] \/ hand' = [hand EXCEPT ![r] = [h EXCEPT !.pc = "compare"]]
    BY <1>3 DEF RotateRead, Finish, Go
  <2>4. Closed.pc = "idle"
    BY DEF Closed
  <2>5. QED
    BY <2>1, <2>2, <2>3, <2>4, ClosedIsHand
<1>4. ASSUME RotateCompare(r)
      PROVE  \E g \in Hand : hand' = [hand EXCEPT ![r] = g] /\ Kept(g)
  <2> DEFINE won == [h EXCEPT !.pc = "issue", !.token = None]
  <2>1. won \in Hand
    BY <1>0, <1>4 DEF Hand, Request, WellFormed, RotateCompare
  <2>2. Reuse(h.family) \in Hand
    BY <1>0, <1>4 DEF Hand, Request, WellFormed, RotateCompare, Reuse, Closed
  <2>3. won.pc = "issue" /\ won.family = h.family
    BY <1>0 DEF Hand, Request
  <2>4. Reuse(h.family).pc = "revoke" /\ Reuse(h.family).family = h.family
    BY DEF Reuse, Closed
  <2>5. h.pc = "compare"
    BY <1>4 DEF RotateCompare
  <2>6. Kept(Reuse(h.family))
    BY <2>4
  <2>7. pointer[h.family].token = h.token => Kept(won)
    BY <2>3, <2>5
  <2>8. \/ pointer[h.family].token = h.token /\ hand' = [hand EXCEPT ![r] = won]
        \/ hand' = [hand EXCEPT ![r] = Reuse(h.family)]
    BY <1>0, <1>4 DEF RotateCompare
  <2>. HIDE DEF won, Kept
  <2>9. QED
    BY <2>1, <2>2, <2>6, <2>7, <2>8
<1>5. ASSUME RevokeRead(r)
      PROVE  \E g \in Hand : hand' = [hand EXCEPT ![r] = g] /\ g.pc \in {"drop", "delete"} /\ g.family = h.family
  <2> DEFINE c == pointer[h.family].token
             g == [h EXCEPT !.current = c, !.pc = IF c = None THEN "drop" ELSE "delete"]
  <2>1. c \in Tokens \cup {None}
    BY <1>0, <1>5 DEF RevokeRead, Hand, WellFormed
  <2>2. g \in Hand
    BY <1>0, <1>5, <2>1 DEF Hand, Request, WellFormed, RevokeRead
  <2>3. hand' = [hand EXCEPT ![r] = g]
    BY <1>0, <1>5 DEF RevokeRead
  <2>4. g.pc \in {"drop", "delete"} /\ g.family = h.family
    BY <1>0 DEF Hand, Request
  <2>5. QED
    BY <2>2, <2>3, <2>4
<1>6. ASSUME RevokeDelete(r)
      PROVE  \E g \in Hand : hand' = [hand EXCEPT ![r] = g] /\ g.pc = "drop" /\ g.family = h.family
  <2>1. [h EXCEPT !.pc = "drop"] \in Hand
    BY <1>0, <1>6 DEF Hand, Request, WellFormed, RevokeDelete
  <2>2. [h EXCEPT !.pc = "drop"].pc = "drop" /\ [h EXCEPT !.pc = "drop"].family = h.family
    BY <1>0 DEF Hand, Request
  <2>3. QED
    BY <1>6, <2>1, <2>2 DEF RevokeDelete, Go
<1>7. ASSUME RevokeDrop(r)
      PROVE  \E g \in Hand : hand' = [hand EXCEPT ![r] = g] /\ (g.pc = "idle" \/ (g.pc = "clear" /\ g.family = h.family))
  <2>1. [h EXCEPT !.pc = "clear", !.current = None] \in Hand
    BY <1>0, <1>7 DEF Hand, Request, WellFormed, RevokeDrop
  <2>2. /\ [h EXCEPT !.pc = "clear", !.current = None].pc = "clear"
        /\ [h EXCEPT !.pc = "clear", !.current = None].family = h.family
    BY <1>0 DEF Hand, Request
  <2>3. hand' = [hand EXCEPT ![r] = Closed] \/ hand' = [hand EXCEPT ![r] = [h EXCEPT !.pc = "clear", !.current = None]]
    BY <1>0, <1>7 DEF RevokeDrop, Finish
  <2>4. Closed.pc = "idle"
    BY DEF Closed
  <2>5. QED
    BY <2>1, <2>2, <2>3, <2>4, ClosedIsHand
<1>8. ASSUME Clear(r)
      PROVE  \E g \in Hand : hand' = [hand EXCEPT ![r] = g] /\ g.pc \in {"idle", "blacklist"}
  <2>1. h.after = "blacklist" => [Closed EXCEPT !.pc = "blacklist", !.token = h.token] \in Hand
    BY <1>0, <1>8 DEF Hand, Request, WellFormed, Clear
  <2>2. [Closed EXCEPT !.pc = "blacklist", !.token = h.token].pc = "blacklist"
    BY DEF Closed
  <2>3. Closed.pc = "idle"
    BY DEF Closed
  <2>4. QED
    BY <1>8, <2>1, <2>2, <2>3, ClosedIsHand DEF Clear, Finish
<1>9. ASSUME LogoutLookup(r)
      PROVE  \E g \in Hand : hand' = [hand EXCEPT ![r] = g] /\ g.pc \in {"clear", "revoke"} /\ g.family = h.family
  <2> DEFINE g == [h EXCEPT !.pc = IF record[h.current] = 0 THEN "clear" ELSE "revoke", !.current = None, !.after = "blacklist"]
  <2>1. g \in Hand
    BY <1>0, <1>9 DEF Hand, Request, WellFormed, LogoutLookup
  <2>2. g.pc \in {"clear", "revoke"} /\ g.family = h.family
    BY <1>0 DEF Hand, Request
  <2>3. hand' = [hand EXCEPT ![r] = g]
    BY <1>0, <1>9 DEF LogoutLookup
  <2>4. QED
    BY <2>1, <2>2, <2>3
<1>10. \E g \in Hand : hand' = [hand EXCEPT ![r] = g] /\ Kept(g)
  <2>1. CASE Ends
    BY <1>1, <2>1
  <2>2. CASE RefreshGate(r)
    BY <1>2, <2>2
  <2>3. CASE RotateRead(r)
    BY <1>3, <2>3
  <2>4. CASE RotateCompare(r)
    <3>. HIDE DEF Kept
    <3>1. QED
      BY <1>4, <2>4
  <2>5. CASE RevokeRead(r)
    BY <1>5, <2>5
  <2>6. CASE RevokeDelete(r)
    BY <1>6, <2>6
  <2>7. CASE RevokeDrop(r)
    BY <1>7, <2>7
  <2>8. CASE Clear(r)
    BY <1>8, <2>8
  <2>9. CASE LogoutLookup(r)
    BY <1>9, <2>9
  <2>10. QED
    BY <2>1, <2>2, <2>3, <2>4, <2>5, <2>6, <2>7, <2>8, <2>9 DEF Step
<1>11. PICK g \in Hand : hand' = [hand EXCEPT ![r] = g] /\ Kept(g)
  BY <1>10
<1>12. hand[r].pc # "idle"
  <2>1. Ends => hand[r].pc # "idle"
    BY DEF LoginTouch, HeartbeatTouch, RotateIssue, Blacklist
  <2>2. RefreshGate(r) => hand[r].pc # "idle"
    BY DEF RefreshGate
  <2>3. RotateRead(r) => hand[r].pc # "idle"
    BY DEF RotateRead
  <2>4. RotateCompare(r) => hand[r].pc # "idle"
    BY DEF RotateCompare
  <2>5. RevokeRead(r) => hand[r].pc # "idle"
    BY DEF RevokeRead
  <2>6. RevokeDelete(r) => hand[r].pc # "idle"
    BY DEF RevokeDelete
  <2>7. RevokeDrop(r) => hand[r].pc # "idle"
    BY DEF RevokeDrop
  <2>8. Clear(r) => hand[r].pc # "idle"
    BY DEF Clear
  <2>9. LogoutLookup(r) => hand[r].pc # "idle"
    BY DEF LogoutLookup
  <2>10. QED
    BY <2>1, <2>2, <2>3, <2>4, <2>5, <2>6, <2>7, <2>8, <2>9 DEF Step
<1>13. /\ hand' \in [Requests -> Hand]
       /\ hand'[r] = g
       /\ \A q \in Requests \ {r} : hand'[q] = hand[q]
  BY <1>0, <1>11, HandChanges
<1>14. QED
  BY <1>11, <1>12, <1>13

-----------------------------------------------------------------------------
(* Types                                                                   *)

stores == <<now, family, record, pointer, active, access, blacklist, given, human, ended, unwatched, out>>

\* The conjuncts of TypeOK about everything but the requests.
StoresTyped ==
    /\ now \in Nat
    /\ family \in [Tokens -> Families \cup {None}]
    /\ record \in [Tokens -> Nat]
    /\ pointer \in [Families -> [token: Tokens \cup {None}, until: Nat]]
    /\ active \in [Families -> [at: Nat, until: Nat]]
    /\ access \in [Tokens -> Nat]
    /\ blacklist \in [Tokens -> Nat]
    /\ given \in SUBSET Tokens
    /\ human \in [Families -> Nat]
    /\ ended \in SUBSET Families
    /\ unwatched \in SUBSET Families
    /\ out \in SUBSET Tokens

\* Most requests only read.
LEMMA Arrivals ==
    ASSUME NEW r \in Requests, Arrive(r)
    PROVE  \/ UNCHANGED stores
           \/ /\ \E f \in Families, t \in Tokens :
                   /\ ~Founded(f)
                   /\ Mint(t, f)
                   /\ hand' = [hand EXCEPT ![r] = [Closed EXCEPT !.pc = "seed", !.token = t, !.family = f]]
              /\ UNCHANGED <<now, active, blacklist, access, given, human, ended, unwatched, out>>
<1>1. ASSUME NEW a \in Tokens, NEW t \in Tokens, Refresh(r, t) \/ Heartbeat(r, t) \/ Logout(r, a, t)
      PROVE  UNCHANGED stores
  BY <1>1 DEF Refresh, Heartbeat, Logout, stores, redisVars, historyVars
<1>2. ASSUME NEW f \in Families, NEW t \in Tokens, Login(r, f, t)
      PROVE  /\ ~Founded(f)
             /\ Mint(t, f)
             /\ hand' = [hand EXCEPT ![r] = [Closed EXCEPT !.pc = "seed", !.token = t, !.family = f]]
             /\ UNCHANGED <<now, active, blacklist, access, given, human, ended, unwatched, out>>
  BY <1>2 DEF Login, historyVars
<1>3. QED
  BY <1>1, <1>2 DEF Arrive

LEMMA Quiet ==
    ASSUME NEW r \in Requests,
           RefreshGate(r) \/ RotateRead(r) \/ RotateCompare(r) \/ RevokeRead(r) \/ LogoutLookup(r)
    PROVE  UNCHANGED stores
<1>1. RefreshGate(r) => UNCHANGED stores
  BY DEF RefreshGate, stores, redisVars, historyVars
<1>2. RotateRead(r) => UNCHANGED stores
  BY DEF RotateRead, stores, redisVars, historyVars
<1>3. RotateCompare(r) => UNCHANGED stores
  BY DEF RotateCompare, stores, redisVars, historyVars
<1>4. RevokeRead(r) => UNCHANGED stores
  BY DEF RevokeRead, stores, redisVars, historyVars
<1>5. LogoutLookup(r) => UNCHANGED stores
  BY DEF LogoutLookup, stores, redisVars, historyVars
<1>6. QED
  BY <1>1, <1>2, <1>3, <1>4, <1>5

LEMMA Unchanging == ASSUME StoresTyped, UNCHANGED stores PROVE StoresTyped'
BY DEF StoresTyped, stores

LEMMA Lifetimes == ASSUME NEW d \in Int PROVE WholeSeconds(d) \in Nat /\ WholeSeconds(d) > d - Second
<1>1. Second \in Nat \ {0}
  BY TimesAssumption
<1>2. d % Second \in 0..(Second - 1)
  BY <1>1
<1>3. QED
  BY <1>1, <1>2 DEF WholeSeconds

LEMMA StepStores ==
    ASSUME TInv, NEW r \in Requests, Step(r)
    PROVE  StoresTyped'
<1>0. /\ TypeOK
      /\ StoresTyped
      /\ hand[r] \in Hand
      /\ TimesAssumption
  BY TimesAssumption DEF TInv, TypeOK, StoresTyped
<1>1. ASSUME LoginTouch(r)
      PROVE  StoresTyped'
  <2>1. hand[r].family \in Families /\ hand[r].token \in Tokens
    BY <1>0, <1>1 DEF LoginTouch, Hand, WellFormed, Naming
  <2>2. Touch(hand[r].family) /\ MintAccess(hand[r].token)
    BY <1>1 DEF LoginTouch
  <2>3. /\ active' \in [Families -> [at: Nat, until: Nat]]
        /\ human' \in [Families -> Nat]
        /\ unwatched' \in SUBSET Families
    BY <1>0, <2>1, <2>2, TouchTyped
  <2>4. access' \in [Tokens -> Nat]
    BY <1>0, <2>1, <2>2 DEF MintAccess, StoresTyped, TimesAssumption
  <2>5. QED
    BY <1>0, <1>1, <2>1, <2>3, <2>4 DEF LoginTouch, StoresTyped
<1>2. ASSUME HeartbeatTouch(r)
      PROVE  StoresTyped'
  <2>1. hand[r].family \in Families
    BY <1>0, <1>2 DEF HeartbeatTouch, Hand, WellFormed
  <2>2. Touch(hand[r].family)
    BY <1>2 DEF HeartbeatTouch
  <2>3. /\ active' \in [Families -> [at: Nat, until: Nat]]
        /\ human' \in [Families -> Nat]
        /\ unwatched' \in SUBSET Families
    BY <1>0, <2>1, <2>2, TouchTyped
  <2>4. QED
    BY <1>0, <1>2, <2>3 DEF HeartbeatTouch, StoresTyped
<1>3. ASSUME NEW t \in Tokens, RotateIssue(r, t)
      PROVE  StoresTyped'
  <2>1. hand[r].family \in Families
    BY <1>0, <1>3 DEF RotateIssue, Hand, WellFormed
  <2>2. Mint(t, hand[r].family) /\ MintAccess(t)
    BY <1>3 DEF RotateIssue
  <2>3. /\ family' \in [Tokens -> Families \cup {None}]
        /\ record' \in [Tokens -> Nat]
        /\ pointer' \in [Families -> [token: Tokens \cup {None}, until: Nat]]
    BY <1>0, <2>1, <2>2, MintTyped
  <2>4. access' \in [Tokens -> Nat]
    BY <1>0, <2>2 DEF MintAccess, StoresTyped, TimesAssumption
  <2>5. QED
    BY <1>0, <1>3, <2>3, <2>4 DEF RotateIssue, StoresTyped, historyVars
<1>4. ASSUME RevokeDelete(r)
      PROVE  StoresTyped'
  BY <1>0, <1>4 DEF RevokeDelete, StoresTyped, historyVars
<1>5. ASSUME RevokeDrop(r)
      PROVE  StoresTyped'
  <2>1. hand[r].family \in Families
    BY <1>0, <1>5 DEF RevokeDrop, Hand, WellFormed
  <2>2. pointer' = [pointer EXCEPT ![hand[r].family] = NoPointer]
    BY <1>5 DEF RevokeDrop
  <2>3. NoPointer \in [token: Tokens \cup {None}, until: Nat]
    BY DEF NoPointer
  <2>4. pointer' \in [Families -> [token: Tokens \cup {None}, until: Nat]]
    BY <1>0, <2>2, <2>3 DEF StoresTyped
  <2>5. ended' \in {ended, ended \cup {hand[r].family}}
    BY <1>5 DEF RevokeDrop
  <2>6. ended' \in SUBSET Families
    BY <1>0, <2>1, <2>5 DEF StoresTyped
  <2>7. QED
    BY <1>0, <1>5, <2>4, <2>6 DEF RevokeDrop, StoresTyped
<1>6. ASSUME Clear(r)
      PROVE  StoresTyped'
  <2>1. hand[r].family \in Families
    BY <1>0, <1>6 DEF Clear, Hand, WellFormed
  <2>2. active' = [active EXCEPT ![hand[r].family] = NoActivity]
    BY <1>6 DEF Clear
  <2>3. NoActivity \in [at: Nat, until: Nat]
    BY DEF NoActivity
  <2>4. active' \in [Families -> [at: Nat, until: Nat]]
    BY <1>0, <2>2, <2>3 DEF StoresTyped
  <2>5. unwatched' \in {unwatched, unwatched \cup {hand[r].family}}
    BY <1>6 DEF Clear
  <2>6. unwatched' \in SUBSET Families
    BY <1>0, <2>1, <2>5 DEF StoresTyped
  <2>7. QED
    BY <1>0, <1>6, <2>4, <2>6 DEF Clear, StoresTyped
<1>7. ASSUME Blacklist(r)
      PROVE  StoresTyped'
  <2> DEFINE life == access[hand[r].token] - now
             until == now + WholeSeconds(life)
  <2>1. hand[r].token \in Tokens
    BY <1>0, <1>7 DEF Blacklist, Hand, WellFormed, Naming
  <2>2. life \in Int
    BY <1>0, <2>1 DEF StoresTyped
  <2>3. WholeSeconds(life) \in Nat
    BY <2>2, Lifetimes
  <2>31. until \in Nat
    BY <1>0, <2>3 DEF StoresTyped
  <2>4. blacklist' = [blacklist EXCEPT ![hand[r].token] = until]
    BY <1>7 DEF Blacklist
  <2>. HIDE DEF until
  <2>5. blacklist' \in [Tokens -> Nat]
    BY <1>0, <2>31, <2>4 DEF StoresTyped
  <2>6. out' \in {out, out \cup {hand[r].token}}
    BY <1>7 DEF Blacklist
  <2>7. out' \in SUBSET Tokens
    BY <1>0, <2>1, <2>6 DEF StoresTyped
  <2>8. QED
    BY <1>0, <1>7, <2>5, <2>7 DEF Blacklist, StoresTyped
<1>8. QED
  BY <1>0, <1>1, <1>2, <1>3, <1>4, <1>5, <1>6, <1>7, Quiet, Unchanging DEF Step

LEMMA ArriveStores ==
    ASSUME TInv, NEW r \in Requests, Arrive(r)
    PROVE  StoresTyped'
<1>1. StoresTyped /\ TypeOK
  BY DEF TInv, TypeOK, StoresTyped
<1>2. ASSUME NEW f \in Families, NEW t \in Tokens, Mint(t, f),
             UNCHANGED <<now, active, blacklist, access, given, human, ended, unwatched, out>>
      PROVE  StoresTyped'
  BY <1>1, <1>2, MintTyped DEF StoresTyped
<1>3. QED
  BY <1>1, <1>2, Arrivals, Unchanging

LEMMA TickStores == ASSUME TInv, Tick PROVE StoresTyped'
<1>1. StoresTyped
  BY DEF TInv, TypeOK, StoresTyped
<1>2. \A n \in Nat : Expired(n) \in Nat
  BY <1>1 DEF StoresTyped, Expired
<1>3. /\ record' \in [Tokens -> Nat]
      /\ blacklist' \in [Tokens -> Nat]
      /\ access' \in [Tokens -> Nat]
  BY <1>1, <1>2 DEF Tick, StoresTyped
<1>4. pointer' \in [Families -> [token: Tokens \cup {None}, until: Nat]]
  <2>1. NoPointer \in [token: Tokens \cup {None}, until: Nat]
    BY DEF NoPointer
  <2>2. pointer' = [f \in Families |-> IF Expired(pointer[f].until) = 0 THEN NoPointer ELSE pointer[f]]
    BY DEF Tick
  <2>3. QED
    BY <1>1, <2>1, <2>2 DEF StoresTyped
<1>5. active' \in [Families -> [at: Nat, until: Nat]]
  <2>1. NoActivity \in [at: Nat, until: Nat]
    BY DEF NoActivity
  <2>2. active' = [f \in Families |-> IF Expired(active[f].until) = 0 THEN NoActivity ELSE active[f]]
    BY DEF Tick
  <2>3. QED
    BY <1>1, <2>1, <2>2 DEF StoresTyped
<1>6. out' \subseteq out /\ now' \in Nat
  BY <1>1 DEF Tick, StoresTyped
<1>7. QED
  BY <1>1, <1>3, <1>4, <1>5, <1>6 DEF Tick, StoresTyped

\* No token changes its family.
LEMMA FamiliesKept ==
    ASSUME TInv, Move
    PROVE  \A t \in Tokens : family[t] # None => family'[t] = family[t]
<1>1. ASSUME NEW t \in Tokens, NEW f \in Families, Mint(t, f)
      PROVE  \A u \in Tokens : family[u] # None => family'[u] = family[u]
  BY <1>1, MintTyped DEF TInv
<1>2. ASSUME NEW r \in Requests, Arrive(r)
      PROVE  \A u \in Tokens : family[u] # None => family'[u] = family[u]
  BY <1>1, <1>2, Arrivals DEF stores
<1>3. ASSUME NEW r \in Requests, Step(r)
      PROVE  \A u \in Tokens : family[u] # None => family'[u] = family[u]
  <2>1. ASSUME NEW t \in Tokens, RotateIssue(r, t)
        PROVE  \A u \in Tokens : family[u] # None => family'[u] = family[u]
    <3>1. hand[r].family \in Families
      BY <2>1 DEF RotateIssue, TInv, Hand, WellFormed
    <3>2. Mint(t, hand[r].family)
      BY <2>1 DEF RotateIssue
    <3>3. QED
      BY <1>1, <3>1, <3>2
  <2>2. ASSUME LoginTouch(r) \/ HeartbeatTouch(r) \/ RevokeDelete(r) \/ RevokeDrop(r) \/ Clear(r) \/ Blacklist(r)
        PROVE  family' = family
    BY <2>2 DEF LoginTouch, HeartbeatTouch, RevokeDelete, RevokeDrop, Clear, Blacklist
  <2>3. QED
    BY <1>3, <2>1, <2>2, Quiet DEF Step, stores
<1>4. ASSUME Tick \/ Crash
      PROVE  family' = family
  BY <1>4 DEF Tick, Crash
<1>5. QED
  BY <1>2, <1>3, <1>4 DEF Move

\* What is put in a response carries a family.
LEMMA GivenKept ==
    ASSUME TInv, Move
    PROVE  GivenMinted'
<1>0. /\ \A t \in given : t \in Tokens /\ family[t] \in Families
      /\ None \notin Families
      /\ family' \in [Tokens -> Families \cup {None}] => \A t \in Tokens : family'[t] \in Families \cup {None}
  BY NoneAssumption DEF TInv, GivenMinted, TypeOK
<1>1. \A t \in given : family'[t] \in Families
  BY <1>0, FamiliesKept
<1>2. ASSUME NEW r \in Requests, Arrive(r)
      PROVE  given' = given
  BY <1>2, Arrivals DEF stores
<1>3. ASSUME NEW r \in Requests, LoginTouch(r)
      PROVE  /\ given' = given \cup {hand[r].token}
             /\ family'[hand[r].token] \in Families
  <2>1. hand[r].pc = "seed" /\ family' = family
    BY <1>3 DEF LoginTouch
  <2>2. hand[r].family \in Families
    BY <2>1 DEF TInv, Hand, WellFormed
  <2>3. QED
    BY <1>3, <2>1, <2>2 DEF LoginTouch, TInv, SeedsMinted
<1>4. ASSUME NEW r \in Requests, NEW t \in Tokens, RotateIssue(r, t)
      PROVE  /\ given' = given \cup {t}
             /\ family'[t] \in Families
  <2>1. hand[r].family \in Families
    BY <1>4 DEF RotateIssue, TInv, Hand, WellFormed
  <2>2. Mint(t, hand[r].family)
    BY <1>4 DEF RotateIssue
  <2>3. QED
    BY <1>4, <2>1, <2>2, MintTyped DEF RotateIssue, TInv
<1>5. ASSUME NEW r \in Requests,
             HeartbeatTouch(r) \/ RevokeDelete(r) \/ RevokeDrop(r) \/ Clear(r) \/ Blacklist(r)
      PROVE  given' = given
  BY <1>5 DEF HeartbeatTouch, RevokeDelete, RevokeDrop, Clear, Blacklist
<1>6. ASSUME NEW r \in Requests, Step(r)
      PROVE  \/ given' = given
             \/ \E t : given' = given \cup {t} /\ family'[t] \in Families
  BY <1>3, <1>4, <1>5, <1>6, Quiet DEF Step, stores
<1>7. ASSUME Tick \/ Crash
      PROVE  given' = given
  BY <1>7 DEF Tick, Crash
<1>8. QED
  BY <1>1, <1>2, <1>6, <1>7 DEF Move, GivenMinted

\* A login's token stays of the login's family until it is answered.
LEMMA SeedsKept ==
    ASSUME TInv, Move
    PROVE  SeedsMinted'
<1>0. /\ None \notin Families
      /\ \A q \in Requests : hand[q].pc = "seed" => hand[q].token \in Tokens /\ hand[q].family \in Families
  BY NoneAssumption DEF TInv, Hand, WellFormed, Naming
<1>1. ASSUME NEW q \in Requests, hand'[q].pc = "seed", hand'[q] = hand[q]
      PROVE  family'[hand'[q].token] = hand'[q].family
  BY <1>0, <1>1, FamiliesKept DEF TInv, SeedsMinted
<1>2. ASSUME NEW r \in Requests, Step(r)
      PROVE  SeedsMinted'
  BY <1>1, <1>2, StepHands DEF SeedsMinted
<1>3. ASSUME NEW r \in Requests, Arrive(r)
      PROVE  hand'[r].pc = "seed" => family'[hand'[r].token] = hand'[r].family
  <2>1. hand[r].pc = "idle"
    BY <1>3, ArriveHands
  <2>2. ASSUME UNCHANGED stores, hand'[r].pc = "seed"
        PROVE  FALSE
    <3>1. PICK f \in Families, t \in Tokens : Login(r, f, t)
      <4>1. ASSUME NEW a \in Tokens, NEW t \in Tokens, Refresh(r, t) \/ Heartbeat(r, t) \/ Logout(r, a, t)
            PROVE  hand'[r].pc # "seed"
        BY <4>1 DEF Refresh, Heartbeat, Logout, Closed, TInv
      <4>2. QED
        BY <1>3, <2>2, <4>1 DEF Arrive
    <3>2. family[t] = None /\ family' = family /\ family' = [family EXCEPT ![t] = f]
      BY <2>2, <3>1 DEF Login, Mint, stores
    <3>3. QED
      BY <1>0, <3>2 DEF TInv, TypeOK
  <2>3. ASSUME NEW f \in Families, NEW t \in Tokens, Mint(t, f),
               hand' = [hand EXCEPT ![r] = [Closed EXCEPT !.pc = "seed", !.token = t, !.family = f]]
        PROVE  family'[hand'[r].token] = hand'[r].family
    BY <2>3, MintTyped DEF TInv, Closed
  <2>4. QED
    BY <1>3, <2>2, <2>3, Arrivals
<1>4. ASSUME NEW r \in Requests, Arrive(r)
      PROVE  SeedsMinted'
  BY <1>1, <1>3, <1>4, ArriveHands DEF SeedsMinted
<1>5. ASSUME Tick
      PROVE  SeedsMinted'
  BY <1>1, <1>5 DEF Tick, SeedsMinted
<1>6. ASSUME Crash
      PROVE  SeedsMinted'
  BY <1>6 DEF Crash, Closed, SeedsMinted
<1>7. QED
  BY <1>2, <1>4, <1>5, <1>6 DEF Move

LEMMA TypesKept == ASSUME TInv, Move PROVE TInv'
<1>1. hand' \in [Requests -> Hand]
  <2>1. ASSUME Tick
        PROVE  hand' \in [Requests -> Hand]
    BY <2>1 DEF Tick, TInv
  <2>2. ASSUME Crash
        PROVE  hand' \in [Requests -> Hand]
    BY <2>2, ClosedIsHand DEF Crash
  <2>3. QED
    BY <2>1, <2>2, ArriveHands, StepHands DEF Move
<1>2. StoresTyped'
  <2>1. ASSUME Crash
        PROVE  StoresTyped'
    BY <2>1, Unchanging DEF Crash, stores, redisVars, historyVars, TInv, TypeOK, StoresTyped
  <2>2. QED
    BY <2>1, ArriveStores, StepStores, TickStores DEF Move
<1>3. hand' \in [Requests -> Request]
  BY <1>1, HandsAreRequestsNext
<1>4. TypeOK'
  BY <1>2, <1>3 DEF TypeOK, StoresTyped
<1>5. QED
  BY <1>1, <1>4, GivenKept, SeedsKept DEF TInv

LEMMA TypesStart == Init => TInv
<1>1. SUFFICES ASSUME Init PROVE TInv
  OBVIOUS
<1>2. hand \in [Requests -> Hand]
  BY <1>1, ClosedIsHand DEF Init
<1>3. TypeOK
  BY <1>1, <1>2, HandsAreRequests DEF Init, TypeOK, NoPointer, NoActivity
<1>4. SeedsMinted /\ GivenMinted
  BY <1>1 DEF Init, Closed, SeedsMinted, GivenMinted
<1>5. QED
  BY <1>2, <1>3, <1>4 DEF TInv

LEMMA TypesStutter == ASSUME TInv, UNCHANGED vars PROVE TInv'
BY DEF vars, redisVars, historyVars, TInv, TypeOK, GivenMinted, SeedsMinted

LEMMA TypesAlways == Spec => []TInv
<1>1. TInv /\ [Next]_vars => TInv'
  BY TypesKept, TypesStutter, NextMoves
<1>2. QED
  BY <1>1, TypesStart, PTL DEF Spec

\* Types: every key of Redis, token and request of core/auth.py and
\* modules/auth/service.py stays in its set, whatever requests interleave.
THEOREM TypeCorrect == Spec => []TypeOK
<1>1. TInv => TypeOK
  BY DEF TInv
<1>2. QED
  BY <1>1, TypesAlways, PTL

-----------------------------------------------------------------------------
(* What a step does to the pointers, and who can renew a family            *)

\* Nothing points into the family, and nobody is about to point into it.
Gone(f) == pointer[f] = NoPointer /\ ~Renewing(f)

\* An open request is about a family that was founded.
OpenFounded == \A r \in Requests : hand[r].pc \notin {"idle", "blacklist"} => Founded(hand[r].family)

LEMMA FoundedKept ==
    ASSUME TInv, Move, NEW f \in Families, Founded(f)
    PROVE  Founded(f)'
BY FamiliesKept, NoneAssumption DEF Founded

LEMMA OpenKept ==
    ASSUME TInv, OpenFounded, Move
    PROVE  OpenFounded'
<1>0. \A q \in Requests : hand[q].pc \notin {"idle", "blacklist"} => hand[q].family \in Families
  BY DEF TInv, Hand, WellFormed
<1>1. ASSUME NEW q \in Requests, hand'[q].pc \notin {"idle", "blacklist"},
             hand[q].pc \notin {"idle", "blacklist"}, hand'[q].family = hand[q].family
      PROVE  \E t \in Tokens : family'[t] = hand'[q].family
  BY <1>0, <1>1, FoundedKept DEF OpenFounded, Founded
<1>2. ASSUME NEW r \in Requests, Step(r)
      PROVE  OpenFounded'
  <2>1. ASSUME hand'[r].pc \notin {"idle", "blacklist"}
        PROVE  hand[r].pc \notin {"idle", "blacklist"}
    <3>1. hand[r].pc # "idle"
      BY <1>2, StepHands
    <3>2. ASSUME hand[r].pc = "blacklist"
          PROVE  hand'[r] = Closed
      BY <1>2, <3>2 DEF Step, LoginTouch, HeartbeatTouch, RefreshGate, RotateRead, RotateCompare, RotateIssue,
             RevokeRead, RevokeDelete, RevokeDrop, Clear, LogoutLookup, Blacklist, Finish, TInv
    <3>3. QED
      BY <2>1, <3>1, <3>2 DEF Closed
  <2>2. QED
    BY <1>1, <1>2, <2>1, StepHands DEF OpenFounded, Founded
<1>3. ASSUME NEW r \in Requests, Arrive(r)
      PROVE  OpenFounded'
  <2>1. hand'[r].pc \notin {"idle", "blacklist"} => \E t \in Tokens : family'[t] = hand'[r].family
    <3>1. ASSUME NEW a \in Tokens, NEW t \in Tokens, Refresh(r, t) \/ Heartbeat(r, t) \/ Logout(r, a, t),
                 hand'[r].pc \notin {"idle", "blacklist"}
          PROVE  hand'[r].family = family'[t]
      <4>1. CASE Refresh(r, t)
        BY <4>1 DEF Refresh, Closed, TInv
      <4>2. CASE Heartbeat(r, t)
        BY <4>2 DEF Heartbeat, Closed, TInv
      <4>3. CASE Logout(r, a, t)
        <5>1. CASE record[t] # 0
          <6>1. hand'[r] = [Closed EXCEPT !.pc = "lookup", !.token = a, !.current = t, !.family = family[t]]
            BY <4>3, <5>1 DEF Logout, TInv
          <6>2. hand'[r].family = family[t]
            BY <6>1 DEF Closed
          <6>3. family' = family
            BY <4>3 DEF Logout
          <6>4. QED
            BY <6>2, <6>3
        <5>2. CASE record[t] = 0
          <6>1. hand'[r] = [Closed EXCEPT !.pc = "blacklist", !.token = a]
            BY <4>3, <5>2 DEF Logout, TInv
          <6>2. hand'[r].pc = "blacklist"
            BY <6>1 DEF Closed
          <6>3. QED
            BY <3>1, <6>2
        <5>3. QED
          BY <5>1, <5>2
      <4>4. QED
        BY <3>1, <4>1, <4>2, <4>3
    <3>2. ASSUME NEW f \in Families, NEW t \in Tokens, Login(r, f, t)
          PROVE  hand'[r].family = family'[t]
      BY <3>2, MintTyped DEF Login, Closed, TInv
    <3>3. QED
      BY <1>3, <3>1, <3>2 DEF Arrive
  <2>2. QED
    BY <1>1, <1>3, <2>1, ArriveHands DEF OpenFounded, Founded
<1>4. ASSUME Tick
      PROVE  OpenFounded'
  BY <1>1, <1>4 DEF Tick, OpenFounded, Founded
<1>5. ASSUME Crash
      PROVE  OpenFounded'
  BY <1>5 DEF Crash, Closed, OpenFounded
<1>6. QED
  BY <1>2, <1>3, <1>4, <1>5 DEF Move

\* A family that is gone stays gone.
LEMMA GoneKept ==
    ASSUME TInv, Move, NEW f \in Families, Founded(f), Gone(f)
    PROVE  Gone(f)'
<1>1. NoPointer.until = 0 /\ NoPointer.token = None
  BY DEF NoPointer
<1>2. ASSUME NEW r \in Requests, Arrive(r)
      PROVE  Gone(f)'
  <2>1. ~Renewing(f)'
    BY <1>2, ArriveHands DEF Gone, Renewing
  <2>2. pointer'[f] = pointer[f]
    <3>1. ASSUME NEW g \in Families, NEW t \in Tokens, ~Founded(g), Mint(t, g)
          PROVE  pointer'[f] = pointer[f]
      BY <3>1 DEF Mint, TInv, TypeOK
    <3>2. QED
      BY <1>2, <3>1, Arrivals DEF stores
  <2>3. QED
    BY <2>1, <2>2 DEF Gone
<1>3. ASSUME NEW r \in Requests, Step(r)
      PROVE  Gone(f)'
  <2>1. ASSUME hand'[r].pc = "issue", hand'[r].family = f
        PROVE  FALSE
    <3>1. hand[r].pc = "compare" /\ pointer[f].token = hand[r].token
      BY <1>3, <2>1, StepHands
    <3>2. hand[r].token \in Tokens
      BY <3>1 DEF TInv, Hand, WellFormed, Naming
    <3>3. QED
      BY <1>1, <3>1, <3>2, NoneAssumption DEF Gone
  <2>2. ~Renewing(f)'
    BY <1>3, <2>1, StepHands DEF Gone, Renewing
  <2>3. pointer'[f] = NoPointer
    <3>1. ASSUME NEW t \in Tokens, RotateIssue(r, t)
          PROVE  pointer'[f] = pointer[f]
      <4>1. hand[r].pc = "issue" /\ hand[r].family \in Families
        BY <3>1 DEF RotateIssue, TInv, Hand, WellFormed
      <4>2. hand[r].family # f
        BY <4>1 DEF Gone, Renewing
      <4>3. Mint(t, hand[r].family)
        BY <3>1 DEF RotateIssue
      <4>4. QED
        BY <4>1, <4>2, <4>3 DEF Mint, TInv, TypeOK
    <3>2. ASSUME RevokeDrop(r)
          PROVE  pointer'[f] \in {NoPointer, pointer[f]}
      <4>1. pointer' = [pointer EXCEPT ![hand[r].family] = NoPointer]
        BY <3>2 DEF RevokeDrop
      <4>2. QED
        BY <4>1 DEF TInv, TypeOK
    <3>3. ASSUME LoginTouch(r) \/ HeartbeatTouch(r) \/ RevokeDelete(r) \/ Clear(r) \/ Blacklist(r)
          PROVE  pointer' = pointer
      BY <3>3 DEF LoginTouch, HeartbeatTouch, RevokeDelete, Clear, Blacklist
    <3>4. QED
      BY <1>3, <3>1, <3>2, <3>3, Quiet DEF Step, stores, Gone
  <2>4. QED
    BY <2>2, <2>3 DEF Gone
<1>4. ASSUME Tick
      PROVE  Gone(f)'
  BY <1>4 DEF Tick, Gone, Renewing
<1>5. ASSUME Crash
      PROVE  Gone(f)'
  BY <1>5 DEF Crash, Gone, Renewing, redisVars, Closed
<1>6. QED
  BY <1>2, <1>3, <1>4, <1>5 DEF Move

-----------------------------------------------------------------------------
(* Revocation                                                              *)

EndedGone == \A f \in ended : Founded(f) /\ Gone(f)

RInv == TInv /\ OpenFounded /\ EndedGone

LEMMA EndedKept ==
    ASSUME RInv, Move
    PROVE  EndedGone'
<1>0. TInv /\ OpenFounded /\ ended \subseteq Families
  BY DEF RInv, TInv, TypeOK
<1>1. \A f \in ended : Founded(f)' /\ Gone(f)'
  BY <1>0, FoundedKept, GoneKept DEF RInv, EndedGone
<1>2. ASSUME NEW r \in Requests, RevokeDrop(r)
      PROVE  EndedGone'
  <2>0. PICK f \in Families : f = hand[r].family
    BY <1>0, <1>2 DEF RevokeDrop, TInv, Hand, WellFormed
  <2>1. hand[r].pc = "drop" /\ Founded(f) /\ Move
    BY <1>0, <1>2, <2>0 DEF RevokeDrop, OpenFounded, Move, Step
  <2>2. Founded(f)'
    BY <1>0, <2>1, FoundedKept
  <2>3. ASSUME ~Renewing(f)
        PROVE  Gone(f)'
    <3>1. pointer' = [pointer EXCEPT ![f] = NoPointer]
      BY <1>2, <2>0 DEF RevokeDrop
    <3>2. pointer'[f] = NoPointer
      BY <1>0, <3>1 DEF TInv, TypeOK
    <3>3. Step(r)
      BY <1>2 DEF Step
    <3>4. \A q \in Requests : hand'[q].pc = "issue" => hand'[q] = hand[q]
      BY <1>0, <2>1, <3>3, StepHands
    <3>5. ~(\E q \in Requests : hand'[q].pc = "issue" /\ hand'[q].family = f)
      BY <2>3, <3>4 DEF Renewing
    <3>6. QED
      BY <3>2, <3>5 DEF Gone, Renewing
  <2>4. ended' = IF Renewing(f) THEN ended ELSE ended \cup {f}
    BY <1>2, <2>0 DEF RevokeDrop
  <2>5. QED
    BY <1>1, <2>2, <2>3, <2>4 DEF EndedGone
<1>3. ASSUME NEW r \in Requests, Arrive(r)
      PROVE  ended' = ended
  BY <1>3, Arrivals DEF stores
<1>4. ASSUME NEW r \in Requests, NEW t \in Tokens, RotateIssue(r, t)
      PROVE  ended' = ended
  BY <1>4 DEF RotateIssue, historyVars
<1>5. ASSUME NEW r \in Requests,
             LoginTouch(r) \/ HeartbeatTouch(r) \/ RevokeDelete(r) \/ Clear(r) \/ Blacklist(r)
      PROVE  ended' = ended
  BY <1>5 DEF LoginTouch, HeartbeatTouch, RevokeDelete, Clear, Blacklist, historyVars
<1>6. ASSUME Tick \/ Crash
      PROVE  ended' = ended
  BY <1>6 DEF Tick, Crash, historyVars
<1>7. ended' = ended => EndedGone'
  BY <1>1 DEF EndedGone
<1>8. QED
  BY <1>2, <1>3, <1>4, <1>5, <1>6, <1>7, Quiet DEF Move, Step, stores

LEMMA RevocationAlways == Spec => []RInv
<1>1. Init => RInv
  <2>1. Init => OpenFounded /\ EndedGone
    BY DEF Init, Closed, OpenFounded, EndedGone
  <2>2. QED
    BY <2>1, TypesStart DEF RInv
<1>2. RInv /\ Move => RInv'
  BY TypesKept, OpenKept, EndedKept DEF RInv
<1>3. RInv /\ UNCHANGED vars => RInv'
  <2>1. OpenFounded /\ EndedGone /\ UNCHANGED vars => OpenFounded' /\ EndedGone'
    BY DEF OpenFounded, EndedGone, Founded, Gone, Renewing, vars, redisVars, historyVars
  <2>2. QED
    BY <2>1, TypesStutter DEF RInv
<1>4. QED
  BY <1>1, <1>2, <1>3, NextMoves, PTL DEF Spec

\* A family that was revoked while nobody was renewing it is never pointed
\* into again: revoke_family of core/auth.py against every interleaving of
\* rotate.
THEOREM RevokedStaysRevoked == Spec => []RevocationHolds
<1>1. RInv => RevocationHolds
  BY DEF RInv, EndedGone, Gone, RevocationHolds
<1>2. QED
  BY <1>1, RevocationAlways, PTL

-----------------------------------------------------------------------------
(* Logout                                                                  *)

\* A login's tokens are its own: no response and no other login has them.
SeedsOwn == \A q \in Requests : hand[q].pc = "seed" =>
    /\ hand[q].token \notin given
    /\ \A p \in Requests \ {q} : hand[p].pc = "seed" => hand[p].token # hand[q].token

LoggingOut(h) == h.pc \in {"lookup", "blacklist"} \/ (h.pc \in Revoking /\ h.after = "blacklist")

LogoutsGiven == \A q \in Requests : LoggingOut(hand[q]) => hand[q].token \in given

\* The blacklist entry outlives the token, or the token has not a second left.
Covered(a) == IF blacklist[a] # 0 THEN access[a] < blacklist[a] + Second
                                  ELSE access[a] < now + Second

OutCovered == \A a \in out : a \in given /\ Covered(a)

LInv == TInv /\ SeedsOwn /\ LogoutsGiven /\ OutCovered

\* Responses are added to, and by the login or refresh that minted the token.
LEMMA Given ==
    ASSUME TInv, Move
    PROVE  /\ given \subseteq given'
           /\ \A t \in given' \ given :
                 \/ family[t] = None
                 \/ \E r \in Requests : /\ LoginTouch(r)
                                        /\ t = hand[r].token
<1>1. ASSUME NEW r \in Requests, Arrive(r)
      PROVE  given' = given
  BY <1>1, Arrivals DEF stores
<1>2. ASSUME NEW r \in Requests, LoginTouch(r)
      PROVE  given' = given \cup {hand[r].token}
  BY <1>2 DEF LoginTouch
<1>3. ASSUME NEW r \in Requests, NEW t \in Tokens, RotateIssue(r, t)
      PROVE  given' = given \cup {t} /\ family[t] = None
  BY <1>3 DEF RotateIssue, Mint
<1>4. ASSUME NEW r \in Requests,
             HeartbeatTouch(r) \/ RevokeDelete(r) \/ RevokeDrop(r) \/ Clear(r) \/ Blacklist(r)
      PROVE  given' = given
  BY <1>4 DEF HeartbeatTouch, RevokeDelete, RevokeDrop, Clear, Blacklist
<1>5. ASSUME Tick \/ Crash
      PROVE  given' = given
  BY <1>5 DEF Tick, Crash
<1>6. ASSUME NEW r \in Requests, Step(r)
      PROVE  \/ given' = given
             \/ LoginTouch(r) /\ given' = given \cup {hand[r].token}
             \/ \E t \in Tokens : given' = given \cup {t} /\ family[t] = None
  BY <1>2, <1>3, <1>4, <1>6, Quiet DEF Step, stores
<1>7. QED
  BY <1>1, <1>5, <1>6 DEF Move

LEMMA SeedsOwnKept ==
    ASSUME LInv, Move
    PROVE  SeedsOwn'
<1>0. /\ TInv
      /\ None \notin Families
      /\ \A q \in Requests : hand[q].pc = "seed" =>
            /\ hand[q].token \in Tokens
            /\ family[hand[q].token] \in Families
  BY NoneAssumption DEF LInv, TInv, Hand, WellFormed, Naming, SeedsMinted
\* A seed that stays is not given: it is not fresh and not another login's.
<1>1. ASSUME NEW q \in Requests, hand[q].pc = "seed", ~LoginTouch(q)
      PROVE  hand[q].token \notin given'
  <2>1. hand[q].token \notin given /\ family[hand[q].token] # None
    BY <1>0, <1>1 DEF LInv, SeedsOwn
  <2>2. ASSUME NEW r \in Requests, LoginTouch(r)
        PROVE  hand[q].token # hand[r].token
    BY <1>1, <2>2 DEF LoginTouch, LInv, SeedsOwn
  <2>3. QED
    BY <1>0, <2>1, <2>2, Given
<1>2. ASSUME NEW q \in Requests, LoginTouch(q)
      PROVE  hand'[q].pc = "idle"
  BY <1>0, <1>2, Finishes DEF LoginTouch, TInv
<1>3. ASSUME NEW r \in Requests, Step(r)
      PROVE  SeedsOwn'
  <2>1. \A q \in Requests : hand'[q].pc = "seed" => hand'[q] = hand[q] /\ ~LoginTouch(q)
    BY <1>0, <1>2, <1>3, StepHands
  <2>2. QED
    BY <1>1, <2>1 DEF LInv, SeedsOwn
<1>4. ASSUME NEW r \in Requests, Arrive(r)
      PROVE  SeedsOwn'
  <2>1. /\ \A q \in Requests \ {r} : hand'[q] = hand[q]
        /\ given' = given
    BY <1>0, <1>4, ArriveHands, Arrivals DEF stores
  <2>2. ASSUME hand'[r].pc = "seed"
        PROVE  family[hand'[r].token] = None
    <3>1. ASSUME NEW a \in Tokens, NEW t \in Tokens, Refresh(r, t) \/ Heartbeat(r, t) \/ Logout(r, a, t)
          PROVE  hand'[r].pc # "seed"
      BY <3>1 DEF Refresh, Heartbeat, Logout, Closed, LInv, TInv
    <3>2. ASSUME NEW f \in Families, NEW t \in Tokens, Login(r, f, t)
          PROVE  family[hand'[r].token] = None
      BY <1>0, <3>2 DEF Login, Mint, Closed, TInv
    <3>3. QED
      BY <1>4, <2>2, <3>1, <3>2 DEF Arrive
  <2>3. ASSUME hand'[r].pc = "seed"
        PROVE  hand'[r].token \notin given
    BY <1>0, <2>2, <2>3 DEF TInv, GivenMinted
  <2>4. \A q \in Requests \ {r} : hand'[q].pc = "seed" =>
          hand'[q].token \notin given /\ (hand'[r].pc = "seed" => hand'[q].token # hand'[r].token)
    BY <1>0, <2>1, <2>2 DEF LInv, SeedsOwn
  <2>5. QED
    BY <2>1, <2>3, <2>4 DEF LInv, SeedsOwn
<1>5. ASSUME Tick
      PROVE  SeedsOwn'
  BY <1>5 DEF Tick, LInv, SeedsOwn
<1>6. ASSUME Crash
      PROVE  SeedsOwn'
  BY <1>6 DEF Crash, Closed, SeedsOwn
<1>7. QED
  BY <1>3, <1>4, <1>5, <1>6 DEF Move

\* A request goes on with a logout only with the token it came with.
LEMMA LogoutHands ==
    ASSUME TInv, NEW r \in Requests, Step(r), LoggingOut(hand'[r])
    PROVE  LoggingOut(hand[r]) /\ hand'[r].token = hand[r].token
<1>. USE DEF LoggingOut, Revoking
<1>0. hand \in [Requests -> Hand] /\ hand[r] \in Request
  BY DEF TInv, Hand
<1> DEFINE h == hand[r]
<1>1. ASSUME hand' = [hand EXCEPT ![r] = Closed]
      PROVE  FALSE
  <2>1. hand'[r] = Closed
    BY <1>0, <1>1
  <2>2. QED
    BY <2>1 DEF Closed
<1>2. ASSUME LoginTouch(r) \/ HeartbeatTouch(r) \/ (\E t \in Tokens : RotateIssue(r, t)) \/ Blacklist(r)
      PROVE  FALSE
  BY <1>1, <1>2 DEF LoginTouch, HeartbeatTouch, RotateIssue, Blacklist, Finish
<1>3. ASSUME RefreshGate(r)
      PROVE  FALSE
  <2>1. \/ hand'[r] = [h EXCEPT !.pc = "revoke", !.token = None, !.after = "clear"]
        \/ hand'[r] = [h EXCEPT !.pc = "rotate", !.at = now]
    BY <1>0, <1>3 DEF RefreshGate
  <2>2. CASE hand'[r] = [h EXCEPT !.pc = "revoke", !.token = None, !.after = "clear"]
    BY <1>0, <2>2 DEF Request
  <2>3. CASE hand'[r] = [h EXCEPT !.pc = "rotate", !.at = now]
    BY <1>0, <2>3 DEF Request
  <2>4. QED
    BY <2>1, <2>2, <2>3
<1>4. ASSUME RotateRead(r)
      PROVE  FALSE
  <2>1. CASE record[h.token] = 0
    BY <1>1, <1>4, <2>1 DEF RotateRead, Finish
  <2>2. CASE record[h.token] # 0
    <3>1. hand'[r] = [h EXCEPT !.pc = "compare"]
      BY <1>0, <1>4, <2>2 DEF RotateRead, Go
    <3>2. QED
      BY <1>0, <3>1 DEF Request
  <2>3. QED
    BY <2>1, <2>2
<1>5. ASSUME RotateCompare(r)
      PROVE  FALSE
  <2>1. hand'[r] = [h EXCEPT !.pc = "issue", !.token = None] \/ hand'[r] = Reuse(h.family)
    BY <1>0, <1>5 DEF RotateCompare
  <2>2. CASE hand'[r] = [h EXCEPT !.pc = "issue", !.token = None]
    BY <1>0, <2>2 DEF Request
  <2>3. CASE hand'[r] = Reuse(h.family)
    BY <2>3 DEF Reuse, Closed
  <2>4. QED
    BY <2>1, <2>2, <2>3
<1>6. ASSUME RevokeRead(r)
      PROVE  h.pc = "revoke" /\ hand'[r].after = h.after /\ hand'[r].token = h.token
  <2> DEFINE c == pointer[h.family].token
             pc == IF pointer[h.family].token = None THEN "drop" ELSE "delete"
  <2>1. hand'[r] = [h EXCEPT !.current = c, !.pc = pc]
    BY <1>0, <1>6 DEF RevokeRead
  <2>2. h.pc = "revoke"
    BY <1>6 DEF RevokeRead
  <2>. HIDE DEF c, pc
  <2>3. QED
    BY <1>0, <2>1, <2>2 DEF Request
<1>7. ASSUME RevokeDelete(r)
      PROVE  h.pc = "delete" /\ hand'[r].after = h.after /\ hand'[r].token = h.token
  <2>1. hand'[r] = [h EXCEPT !.pc = "drop"] /\ h.pc = "delete"
    BY <1>0, <1>7 DEF RevokeDelete, Go
  <2>2. QED
    BY <1>0, <2>1 DEF Request
<1>8. ASSUME RevokeDrop(r)
      PROVE  h.pc = "drop" /\ hand'[r].after = h.after /\ hand'[r].token = h.token
  <2>1. h.pc = "drop"
    BY <1>8 DEF RevokeDrop
  <2>2. CASE h.after = "end"
    BY <1>1, <1>8, <2>2 DEF RevokeDrop, Finish
  <2>3. CASE h.after # "end"
    <3>1. hand'[r] = [h EXCEPT !.pc = "clear", !.current = None]
      BY <1>0, <1>8, <2>3 DEF RevokeDrop
    <3>2. QED
      BY <1>0, <2>1, <3>1 DEF Request
  <2>4. QED
    BY <2>2, <2>3
<1>9. ASSUME Clear(r)
      PROVE  h.pc = "clear" /\ h.after = "blacklist" /\ hand'[r].token = h.token
  <2>1. h.pc = "clear"
    BY <1>9 DEF Clear
  <2>2. CASE h.after # "blacklist"
    BY <1>1, <1>9, <2>2 DEF Clear, Finish
  <2>3. CASE h.after = "blacklist"
    <3>1. hand'[r] = [Closed EXCEPT !.pc = "blacklist", !.token = h.token]
      BY <1>0, <1>9, <2>3 DEF Clear
    <3>2. hand'[r].token = h.token
      BY <3>1 DEF Closed
    <3>3. QED
      BY <2>1, <2>3, <3>2
  <2>4. QED
    BY <2>2, <2>3
<1>10. ASSUME LogoutLookup(r)
       PROVE  h.pc = "lookup" /\ hand'[r].token = h.token
  <2> DEFINE pc == IF record[h.current] = 0 THEN "clear" ELSE "revoke"
  <2>1. hand'[r] = [h EXCEPT !.pc = pc, !.current = None, !.after = "blacklist"] /\ h.pc = "lookup"
    BY <1>0, <1>10 DEF LogoutLookup
  <2>. HIDE DEF pc
  <2>2. QED
    BY <1>0, <2>1 DEF Request
<1>11. QED
  <2>1. (\E t \in Tokens : RotateIssue(r, t)) => FALSE
    BY <1>2
  <2>2. ~LoginTouch(r) /\ ~HeartbeatTouch(r) /\ ~Blacklist(r)
    BY <1>2
  <2>3. hand'[r].pc # "blacklist" => hand'[r].pc \in Revoking \cup {"lookup"}
    OBVIOUS
  <2>4. ASSUME hand'[r].pc \in {"lookup", "blacklist"}
        PROVE  LogoutLookup(r) \/ Clear(r)
    <3>1. ASSUME RevokeRead(r)
          PROVE  FALSE
      <4>1. hand'[r].pc = IF pointer[h.family].token = None THEN "drop" ELSE "delete"
        BY <1>0, <3>1 DEF RevokeRead, Request
      <4>2. QED
        BY <2>4, <4>1
    <3>2. ASSUME RevokeDelete(r)
          PROVE  FALSE
      BY <1>0, <2>4, <3>2 DEF RevokeDelete, Go, Request
    <3>3. ASSUME RevokeDrop(r)
          PROVE  FALSE
      <4>1. hand'[r] = [h EXCEPT !.pc = "clear", !.current = None]
        BY <1>0, <1>1, <3>3 DEF RevokeDrop, Finish
      <4>2. QED
        BY <1>0, <2>4, <4>1 DEF Request
    <3>4. QED
      BY <1>3, <1>4, <1>5, <2>1, <2>2, <3>1, <3>2, <3>3 DEF Step
  <2>5. QED
    BY <1>3, <1>4, <1>5, <1>6, <1>7, <1>8, <1>9, <1>10, <2>1, <2>2, <2>4 DEF Step

LEMMA LogoutsKept ==
    ASSUME LInv, Move
    PROVE  LogoutsGiven'
<1>0. TInv /\ given \subseteq given'
  BY Given DEF LInv
<1>1. ASSUME NEW r \in Requests, Step(r)
      PROVE  LogoutsGiven'
  BY <1>0, <1>1, LogoutHands, StepHands DEF LInv, LogoutsGiven
<1>2. ASSUME NEW r \in Requests, Arrive(r)
      PROVE  LoggingOut(hand'[r]) => hand'[r].token \in given
  <2>1. ASSUME NEW t \in Tokens, Refresh(r, t) \/ Heartbeat(r, t)
        PROVE  ~LoggingOut(hand'[r])
    BY <1>0, <2>1 DEF Refresh, Heartbeat, Closed, TInv, LoggingOut, Revoking
  <2>2. ASSUME NEW f \in Families, NEW t \in Tokens, Login(r, f, t)
        PROVE  ~LoggingOut(hand'[r])
    BY <1>0, <2>2 DEF Login, Closed, TInv, LoggingOut, Revoking
  <2>3. ASSUME NEW a \in Tokens, NEW t \in Tokens, Logout(r, a, t)
        PROVE  hand'[r].token \in given
    <3>1. a \in given
      BY <2>3 DEF Logout, Accepted
    <3>2. \/ hand'[r] = [Closed EXCEPT !.pc = "lookup", !.token = a, !.current = t, !.family = family[t]]
          \/ hand'[r] = [Closed EXCEPT !.pc = "blacklist", !.token = a]
      BY <1>0, <2>3 DEF Logout, TInv
    <3>3. hand'[r].token = a
      BY <3>2 DEF Closed
    <3>4. QED
      BY <3>1, <3>3
  <2>4. QED
    BY <1>2, <2>1, <2>2, <2>3 DEF Arrive
<1>3. ASSUME NEW r \in Requests, Arrive(r)
      PROVE  LogoutsGiven'
  BY <1>0, <1>2, <1>3, ArriveHands DEF LInv, LogoutsGiven
<1>4. ASSUME Tick
      PROVE  LogoutsGiven'
  BY <1>4 DEF Tick, LInv, LogoutsGiven
<1>5. ASSUME Crash
      PROVE  LogoutsGiven'
  BY <1>5 DEF Crash, Closed, LogoutsGiven, LoggingOut, Revoking
<1>6. QED
  BY <1>1, <1>3, <1>4, <1>5 DEF Move

\* A new access token is not one that was logged out.
LEMMA MintCovered ==
    ASSUME LInv, NEW t \in Tokens, t \notin given, MintAccess(t),
           UNCHANGED <<now, blacklist, out>>, given \subseteq given'
    PROVE  OutCovered'
<1>1. ASSUME NEW a \in out
      PROVE  a \in given' /\ access'[a] = access[a] /\ Covered(a)
  BY <1>1 DEF LInv, TInv, TypeOK, OutCovered, MintAccess
<1>2. QED
  BY <1>1 DEF OutCovered, Covered

LEMMA OutKept ==
    ASSUME LInv, Move
    PROVE  OutCovered'
<1>0. /\ TInv /\ TypeOK
      /\ given \subseteq given'
      /\ Second \in Nat \ {0}
      /\ out \subseteq Tokens
  BY Given, TimesAssumption DEF LInv, TInv, TypeOK
<1>1. ASSUME UNCHANGED <<now, access, blacklist, out>>
      PROVE  OutCovered'
  BY <1>0, <1>1 DEF LInv, OutCovered, Covered
<1>2. ASSUME NEW r \in Requests, LoginTouch(r)
      PROVE  OutCovered'
  <2>1. hand[r].pc = "seed" /\ hand[r].token \in Tokens
    BY <1>0, <1>2 DEF LoginTouch, TInv, Hand, WellFormed, Naming
  <2>2. hand[r].token \notin given
    BY <2>1 DEF LInv, SeedsOwn
  <2>3. MintAccess(hand[r].token) /\ UNCHANGED <<now, blacklist, out>>
    BY <1>2 DEF LoginTouch
  <2>4. QED
    BY <1>0, <2>1, <2>2, <2>3, MintCovered
<1>3. ASSUME NEW r \in Requests, NEW t \in Tokens, RotateIssue(r, t)
      PROVE  OutCovered'
  <2>1. t \notin given
    BY <1>0, <1>3, NoneAssumption DEF RotateIssue, Mint, TInv, GivenMinted
  <2>2. MintAccess(t) /\ UNCHANGED <<now, blacklist, out>>
    BY <1>3 DEF RotateIssue, historyVars
  <2>3. QED
    BY <1>0, <2>1, <2>2, MintCovered
<1>4. ASSUME NEW r \in Requests, Blacklist(r)
      PROVE  OutCovered'
  <2>0. PICK t \in Tokens : t = hand[r].token
    BY <1>0, <1>4 DEF Blacklist, TInv, Hand, WellFormed, Naming
  <2>1. t \in given
    BY <1>4, <2>0 DEF Blacklist, LInv, LogoutsGiven, LoggingOut
  <2> DEFINE whole == WholeSeconds(access[t] - now)
             until == now + whole
  <2>2. blacklist' = [blacklist EXCEPT ![t] = until] /\ access' = access /\ now' = now
    BY <1>4, <2>0 DEF Blacklist
  <2>3. access[t] \in Nat /\ now \in Nat /\ access[t] - now \in Int
    BY <1>0 DEF TypeOK
  <2>4. whole \in Nat /\ whole > (access[t] - now) - Second
    BY <2>3, Lifetimes
  <2>. HIDE DEF whole
  <2>5. until \in Nat /\ access[t] < until + Second /\ (until = 0 => access[t] < now + Second)
    BY <1>0, <2>3, <2>4
  <2>. HIDE DEF until
  <2>6. blacklist'[t] = until /\ \A a \in Tokens \ {t} : blacklist'[a] = blacklist[a]
    BY <1>0, <2>2 DEF TypeOK
  <2>7. out' \in {out, out \cup {t}}
    BY <1>4, <2>0 DEF Blacklist
  <2>8. Covered(t)'
    BY <2>2, <2>5, <2>6 DEF Covered
  <2>9. \A a \in out \ {t} : a \in given /\ Covered(a)'
    BY <1>0, <2>2, <2>6 DEF LInv, OutCovered, Covered
  <2>10. QED
    BY <1>0, <2>1, <2>7, <2>8, <2>9 DEF OutCovered
<1>5. ASSUME Tick
      PROVE  OutCovered'
  <2>1. ASSUME NEW a \in out
        PROVE  Covered(a)'
    <3>1. /\ a \in Tokens
          /\ now \in Nat
          /\ access[a] \in Nat
          /\ blacklist[a] \in Nat
          /\ Covered(a)
      BY <1>0, <2>1 DEF TypeOK, LInv, OutCovered
    <3>2. /\ now' = now + 1
          /\ access'[a] = Expired(access[a])
          /\ blacklist'[a] = Expired(blacklist[a])
      BY <1>5, <3>1 DEF Tick
    <3>3. access'[a] \in {0, access[a]}
      BY <3>2 DEF Expired
    <3>4. \/ blacklist'[a] = blacklist[a]
          \/ blacklist'[a] = 0 /\ blacklist[a] <= now + 1
      BY <3>2 DEF Expired
    <3>5. QED
      BY <1>0, <3>1, <3>2, <3>3, <3>4 DEF Covered
  <2>2. out' \subseteq out
    BY <1>5 DEF Tick
  <2>3. QED
    BY <1>0, <2>1, <2>2 DEF LInv, OutCovered
<1>6. ASSUME NEW r \in Requests,
             HeartbeatTouch(r) \/ RevokeDelete(r) \/ RevokeDrop(r) \/ Clear(r)
      PROVE  UNCHANGED <<now, access, blacklist, out>>
  BY <1>6 DEF HeartbeatTouch, RevokeDelete, RevokeDrop, Clear, historyVars
<1>7. ASSUME NEW r \in Requests, Arrive(r)
      PROVE  UNCHANGED <<now, access, blacklist, out>>
  BY <1>7, Arrivals DEF stores
<1>8. ASSUME Crash
      PROVE  UNCHANGED <<now, access, blacklist, out>>
  BY <1>8 DEF Crash, redisVars, historyVars
<1>9. UNCHANGED stores => UNCHANGED <<now, access, blacklist, out>>
  BY DEF stores
<1>10. QED
  BY <1>1, <1>2, <1>3, <1>4, <1>5, <1>6, <1>7, <1>8, <1>9, Quiet DEF Move, Step

LEMMA LogoutAlways == Spec => []LInv
<1>1. Init => LInv
  <2>1. Init => SeedsOwn /\ LogoutsGiven /\ OutCovered
    BY DEF Init, Closed, SeedsOwn, LogoutsGiven, LoggingOut, Revoking, OutCovered
  <2>2. QED
    BY <2>1, TypesStart DEF LInv
<1>2. LInv /\ Move => LInv'
  <2>1. LInv /\ Move => TInv'
    BY TypesKept DEF LInv
  <2>2. QED
    BY <2>1, SeedsOwnKept, LogoutsKept, OutKept DEF LInv
<1>3. LInv /\ UNCHANGED vars => LInv'
  <2>1. SeedsOwn /\ LogoutsGiven /\ OutCovered /\ UNCHANGED vars => SeedsOwn' /\ LogoutsGiven' /\ OutCovered'
    BY DEF SeedsOwn, LogoutsGiven, OutCovered, Covered, vars, redisVars, historyVars
  <2>2. QED
    BY <2>1, TypesStutter DEF LInv
<1>4. QED
  BY <1>1, <1>2, <1>3, NextMoves, PTL DEF Spec

\* An access token that a logout with a refresh token, its own or another,
\* put on the blacklist is refused until less than a second of its life is
\* left: the entry of core/auth.py outlives it but for the cut to whole
\* seconds. A logout without a refresh token is answered and does nothing.
THEOREM LoggedOutIsRefused == Spec => []LogoutOutlivesToken
<1>1. LInv => LogoutOutlivesToken
  <2>1. SUFFICES ASSUME LInv, NEW a \in out, Accepted(a)
                 PROVE  access[a] - now < Second
    BY DEF LogoutOutlivesToken
  <2>2. blacklist[a] = 0 /\ access[a] < now + Second
    BY <2>1 DEF LInv, OutCovered, Covered, Accepted, Blacklisted
  <2>3. access[a] \in Nat /\ now \in Nat /\ Second \in Nat
    BY <2>1, TimesAssumption DEF LInv, TInv, TypeOK
  <2>4. QED
    BY <2>2, <2>3
<1>2. QED
  BY <1>1, LogoutAlways, PTL

-----------------------------------------------------------------------------
(* Inactivity                                                              *)

\* A client holds a token of the family.
Served(f) == \E t \in given : family[t] = f

\* What lets a family be renewed although its human was last seen long ago.
Excused(f, n) == n - human[f] >= TTL \/ f \in unwatched \/ Gone(f)

\* A human was seen in the family by this step.
Seen(f) == human'[f] = now /\ active'[f].at = now /\ active'[f].until = now + TTL /\ now' = now

Passed == {"rotate", "compare", "issue"}

Clocks == \A f \in Families : human[f] <= now

\* The activity record, while it lasts, is of the last human.
Watched == \A f \in Families : active[f].until # 0 =>
    active[f].at = human[f] /\ active[f].until = human[f] + TTL

\* A served family without an activity record has an excuse.
Unseen == \A f \in Families : Served(f) /\ active[f].until = 0 => Excused(f, now)

RenewalsServed == \A q \in Requests : hand[q].pc \in {"gate"} \cup Passed => Served(hand[q].family)

InTime == \A q \in Requests : hand[q].pc \in Passed =>
    /\ hand[q].at <= now
    /\ hand[q].at - human[hand[q].family] <= Idle \/ Excused(hand[q].family, hand[q].at)

IInv == TInv /\ Clocks /\ Watched /\ Unseen /\ RenewalsServed /\ InTime

\* A request is past the gate because it passed it or was past it.
LEMMA RenewalHands ==
    ASSUME TInv, NEW r \in Requests, Step(r), hand'[r].pc \in {"gate"} \cup Passed
    PROVE  /\ hand'[r].family = hand[r].family
           /\ hand'[r].pc \in Passed
           /\ \/ /\ hand[r].pc = "gate"
                 /\ ~Stale(hand[r].family)
                 /\ hand'[r].at = now
                 /\ UNCHANGED stores
              \/ /\ hand[r].pc \in Passed
                 /\ hand'[r].at = hand[r].at
<1>. USE DEF Passed
<1>0. hand \in [Requests -> Hand] /\ hand[r] \in Request
  BY DEF TInv, Hand
<1> DEFINE h == hand[r]
<1>1. ASSUME hand' = [hand EXCEPT ![r] = Closed]
      PROVE  FALSE
  <2>1. hand'[r] = Closed
    BY <1>0, <1>1
  <2>2. QED
    BY <2>1 DEF Closed
<1>2. ASSUME LoginTouch(r) \/ HeartbeatTouch(r) \/ (\E t \in Tokens : RotateIssue(r, t)) \/ Blacklist(r)
      PROVE  FALSE
  BY <1>1, <1>2 DEF LoginTouch, HeartbeatTouch, RotateIssue, Blacklist, Finish
<1>3. ASSUME RefreshGate(r)
      PROVE  /\ hand'[r].family = h.family
             /\ hand'[r].pc = "rotate"
             /\ h.pc = "gate"
             /\ ~Stale(h.family)
             /\ hand'[r].at = now
  <2>1. CASE Stale(h.family)
    <3>1. hand'[r] = [h EXCEPT !.pc = "revoke", !.token = None, !.after = "clear"]
      BY <1>0, <1>3, <2>1 DEF RefreshGate
    <3>2. QED
      BY <1>0, <3>1 DEF Request
  <2>2. CASE ~Stale(h.family)
    <3>1. hand'[r] = [h EXCEPT !.pc = "rotate", !.at = now] /\ h.pc = "gate"
      BY <1>0, <1>3, <2>2 DEF RefreshGate
    <3>2. QED
      BY <1>0, <2>2, <3>1 DEF Request
  <2>3. QED
    BY <2>1, <2>2
<1>4. ASSUME RotateRead(r)
      PROVE  /\ hand'[r].family = h.family
             /\ hand'[r].pc = "compare"
             /\ h.pc = "rotate"
             /\ hand'[r].at = h.at
  <2>1. CASE record[h.token] = 0
    BY <1>1, <1>4, <2>1 DEF RotateRead, Finish
  <2>2. CASE record[h.token] # 0
    <3>1. hand'[r] = [h EXCEPT !.pc = "compare"] /\ h.pc = "rotate"
      BY <1>0, <1>4, <2>2 DEF RotateRead, Go
    <3>2. QED
      BY <1>0, <3>1 DEF Request
  <2>3. QED
    BY <2>1, <2>2
<1>5. ASSUME RotateCompare(r)
      PROVE  /\ hand'[r].family = h.family
             /\ hand'[r].pc = "issue"
             /\ h.pc = "compare"
             /\ hand'[r].at = h.at
  <2>1. /\ h.pc = "compare"
        /\ hand'[r] = [h EXCEPT !.pc = "issue", !.token = None] \/ hand'[r] = Reuse(h.family)
    BY <1>0, <1>5 DEF RotateCompare
  <2>2. CASE hand'[r] = [h EXCEPT !.pc = "issue", !.token = None]
    BY <1>0, <2>1, <2>2 DEF Request
  <2>3. CASE hand'[r] = Reuse(h.family)
    BY <2>3 DEF Reuse, Closed
  <2>4. QED
    BY <2>1, <2>2, <2>3
<1>6. ASSUME RevokeRead(r)
      PROVE  FALSE
  <2>1. hand'[r].pc = IF pointer[h.family].token = None THEN "drop" ELSE "delete"
    BY <1>0, <1>6 DEF RevokeRead, Request
  <2>2. QED
    BY <2>1
<1>7. ASSUME RevokeDelete(r)
      PROVE  FALSE
  BY <1>0, <1>7 DEF RevokeDelete, Go, Request
<1>8. ASSUME RevokeDrop(r)
      PROVE  FALSE
  <2>1. hand'[r] = [h EXCEPT !.pc = "clear", !.current = None]
    BY <1>0, <1>1, <1>8 DEF RevokeDrop, Finish
  <2>2. QED
    BY <1>0, <2>1 DEF Request
<1>9. ASSUME Clear(r)
      PROVE  FALSE
  <2>1. hand'[r] = [Closed EXCEPT !.pc = "blacklist", !.token = h.token]
    BY <1>0, <1>1, <1>9 DEF Clear, Finish
  <2>2. hand'[r].pc = "blacklist"
    BY <2>1 DEF Closed
  <2>3. QED
    BY <2>2
<1>10. ASSUME LogoutLookup(r)
       PROVE  FALSE
  <2> DEFINE pc == IF record[h.current] = 0 THEN "clear" ELSE "revoke"
  <2>1. hand'[r] = [h EXCEPT !.pc = pc, !.current = None, !.after = "blacklist"]
    BY <1>0, <1>10 DEF LogoutLookup
  <2>2. hand'[r].pc = pc
    BY <1>0, <2>1 DEF Request
  <2>3. QED
    BY <2>2
<1>11. QED
  BY <1>2, <1>3, <1>4, <1>5, <1>6, <1>7, <1>8, <1>9, <1>10, Quiet DEF Step

\* Either the step saw the family's human, or it leaves the record of the
\* last one: as it is, expired, or cleared with an excuse.
LEMMA Activity ==
    ASSUME IInv, OpenFounded, Move, NEW f \in Families
    PROVE  \/ Seen(f)
           \/ /\ human'[f] = human[f]
              /\ f \in unwatched => f \in unwatched'
              /\ now' >= now
              /\ \/ active'[f] = active[f]
                 \/ /\ active'[f].until = 0
                    /\ \/ now' = now + 1 /\ active[f].until <= now + 1
                       \/ f \in unwatched'
                       \/ Gone(f)'
<1> DEFINE Left == /\ human'[f] = human[f]
                   /\ f \in unwatched => f \in unwatched'
                   /\ now' >= now
                   /\ \/ active'[f] = active[f]
                      \/ /\ active'[f].until = 0
                         /\ \/ now' = now + 1 /\ active[f].until <= now + 1
                            \/ f \in unwatched'
                            \/ Gone(f)'
<1>0. TInv /\ TypeOK /\ now \in Nat
  BY DEF IInv, TInv, TypeOK
<1>1. ASSUME UNCHANGED <<now, active, human, unwatched>>
      PROVE  Left
  BY <1>0, <1>1
<1>2. ASSUME NEW g \in Families, Touch(g), now' = now
      PROVE  Seen(f) \/ Left
  BY <1>0, <1>2 DEF Touch, Seen, TypeOK
<1>3. ASSUME NEW r \in Requests, LoginTouch(r) \/ HeartbeatTouch(r)
      PROVE  Seen(f) \/ Left
  <2>1. hand[r].family \in Families
    BY <1>0, <1>3 DEF LoginTouch, HeartbeatTouch, TInv, Hand, WellFormed
  <2>2. Touch(hand[r].family) /\ now' = now
    BY <1>3 DEF LoginTouch, HeartbeatTouch
  <2>. HIDE DEF Left
  <2>3. QED
    BY <1>2, <2>1, <2>2
<1>4. ASSUME NEW r \in Requests, Clear(r)
      PROVE  Left
  <2>0. PICK g \in Families : g = hand[r].family
    BY <1>0, <1>4 DEF Clear, TInv, Hand, WellFormed
  <2>1. /\ active' = [active EXCEPT ![g] = NoActivity]
        /\ unwatched' = IF Renewing(g) \/ pointer[g] # NoPointer THEN unwatched \cup {g} ELSE unwatched
        /\ human' = human /\ now' = now
        /\ hand[r].pc = "clear"
    BY <1>4, <2>0 DEF Clear
  <2>2. CASE f # g
    BY <1>0, <2>1, <2>2 DEF TypeOK
  <2>3. CASE f = g
    <3>1. active'[f].until = 0
      BY <1>0, <2>1, <2>3 DEF TypeOK, NoActivity
    <3>2. Founded(f)
      BY <2>0, <2>1, <2>3 DEF OpenFounded
    <3>3. f \in unwatched' \/ Gone(f)
      BY <2>1, <2>3 DEF Gone
    <3>4. f \in unwatched' \/ Gone(f)'
      BY <1>0, <3>2, <3>3, GoneKept
    <3>5. QED
      BY <1>0, <2>1, <3>1, <3>4
  <2>4. QED
    BY <2>2, <2>3
<1>5. ASSUME Tick
      PROVE  Left
  <2>1. /\ now' = now + 1 /\ human' = human /\ unwatched' = unwatched
        /\ active'[f] = IF Expired(active[f].until) = 0 THEN NoActivity ELSE active[f]
    BY <1>5 DEF Tick
  <2>2. active[f].until \in Nat /\ NoActivity.until = 0
    BY <1>0 DEF TypeOK, NoActivity
  <2>3. Expired(active[f].until) = 0 => active[f].until <= now + 1
    BY <1>0, <2>2 DEF Expired
  <2>4. QED
    BY <1>0, <2>1, <2>2, <2>3
<1>6. ASSUME NEW r \in Requests, NEW t \in Tokens, RotateIssue(r, t)
      PROVE  UNCHANGED <<now, active, human, unwatched>>
  BY <1>6 DEF RotateIssue, historyVars
<1>7. ASSUME NEW r \in Requests, RevokeDelete(r) \/ RevokeDrop(r) \/ Blacklist(r)
      PROVE  UNCHANGED <<now, active, human, unwatched>>
  BY <1>7 DEF RevokeDelete, RevokeDrop, Blacklist, historyVars
<1>8. ASSUME NEW r \in Requests, Arrive(r)
      PROVE  UNCHANGED <<now, active, human, unwatched>>
  BY <1>8, Arrivals DEF stores
<1>9. ASSUME Crash
      PROVE  UNCHANGED <<now, active, human, unwatched>>
  BY <1>9 DEF Crash, redisVars, historyVars
<1>10. UNCHANGED stores => UNCHANGED <<now, active, human, unwatched>>
  BY DEF stores
<1>. HIDE DEF Left
<1>11. Seen(f) \/ Left
  BY <1>1, <1>3, <1>4, <1>5, <1>6, <1>7, <1>8, <1>9, <1>10, Quiet DEF Move, Step
<1>12. QED
  BY <1>11 DEF Left

LEMMA ServedFounded == ASSUME TInv, NEW f \in Families, Served(f) PROVE Founded(f)
BY DEF Served, Founded, TInv, TypeOK

\* A family served for the first time is one whose human just signed in.
LEMMA ServedNext ==
    ASSUME IInv, Move, NEW f \in Families
    PROVE  /\ Served(f) => Served(f)'
           /\ Served(f)' => Served(f) \/ Seen(f)
<1>0. TInv /\ None \notin Families
  BY NoneAssumption DEF IInv
<1>1. \A t \in given : t \in Tokens /\ family[t] \in Families /\ family'[t] = family[t]
  BY <1>0, FamiliesKept DEF TInv, TypeOK, GivenMinted
<1>2. Served(f) => Served(f)'
  BY <1>0, <1>1, Given DEF Served
<1>3. ASSUME NEW r \in Requests, Arrive(r), Served(f)'
      PROVE  Served(f)
  <2>1. given' = given
    BY <1>3, Arrivals DEF stores
  <2>2. QED
    BY <1>1, <1>3, <2>1 DEF Served
<1>4. ASSUME NEW r \in Requests, LoginTouch(r), Served(f)'
      PROVE  Served(f) \/ Seen(f)
  <2>1. /\ given' = given \cup {hand[r].token}
        /\ family' = family
        /\ hand[r].pc = "seed"
        /\ Touch(hand[r].family)
        /\ now' = now
    BY <1>4 DEF LoginTouch
  <2>2. family[hand[r].token] = hand[r].family
    BY <1>0, <2>1 DEF TInv, SeedsMinted
  <2>3. CASE hand[r].family = f
    BY <1>0, <2>1, <2>3 DEF Touch, Seen, TInv, TypeOK
  <2>4. CASE hand[r].family # f
    BY <1>4, <2>1, <2>2, <2>4 DEF Served
  <2>5. QED
    BY <2>3, <2>4
<1>5. ASSUME NEW r \in Requests, NEW t \in Tokens, RotateIssue(r, t), Served(f)'
      PROVE  Served(f)
  <2>1. hand[r].pc = "issue" /\ given' = given \cup {t} /\ Mint(t, hand[r].family)
    BY <1>5 DEF RotateIssue
  <2>2. hand[r].family \in Families /\ Served(hand[r].family)
    BY <1>0, <2>1 DEF IInv, RenewalsServed, Passed, TInv, Hand, WellFormed
  <2>3. family'[t] = hand[r].family
    BY <1>0, <2>1, <2>2, MintTyped DEF TInv
  <2>4. QED
    BY <1>1, <1>5, <2>1, <2>2, <2>3 DEF Served
<1>6. ASSUME given' = given, Served(f)'
      PROVE  Served(f)
  BY <1>1, <1>6 DEF Served
<1>7. ASSUME NEW r \in Requests,
             HeartbeatTouch(r) \/ RevokeDelete(r) \/ RevokeDrop(r) \/ Clear(r) \/ Blacklist(r)
      PROVE  given' = given
  BY <1>7 DEF HeartbeatTouch, RevokeDelete, RevokeDrop, Clear, Blacklist
<1>8. ASSUME Tick \/ Crash
      PROVE  given' = given
  BY <1>8 DEF Tick, Crash
<1>9. UNCHANGED stores => given' = given
  BY DEF stores
<1>10. QED
  BY <1>2, <1>3, <1>4, <1>5, <1>6, <1>7, <1>8, <1>9, Quiet DEF Move, Step

\* An excuse lasts until a human is seen, and time only adds to it.
LEMMA ExcusedKept ==
    ASSUME IInv, Move, NEW f \in Families, Founded(f),
           human'[f] = human[f], f \in unwatched => f \in unwatched',
           NEW n \in Nat, NEW m \in Nat, n <= m, Excused(f, n)
    PROVE  m - human'[f] >= TTL \/ f \in unwatched' \/ Gone(f)'
<1>1. TInv /\ human[f] \in Nat /\ TTL \in Nat
  BY TimesAssumption DEF IInv, TInv, TypeOK
<1>2. CASE n - human[f] >= TTL
  BY <1>1, <1>2
<1>3. CASE f \in unwatched
  BY <1>3
<1>4. CASE Gone(f)
  BY <1>1, <1>4, GoneKept
<1>5. QED
  BY <1>2, <1>3, <1>4 DEF Excused

LEMMA WatchKept ==
    ASSUME IInv, OpenFounded, Move
    PROVE  Clocks' /\ Watched' /\ Unseen'
<1>0. /\ TInv /\ TTL \in Nat \ {0} /\ now \in Nat
      /\ TInv'
  BY TypesKept, TimesAssumption DEF IInv, TInv, TypeOK
<1>1. SUFFICES ASSUME NEW f \in Families
               PROVE  /\ human'[f] <= now'
                      /\ active'[f].until # 0 => active'[f].at = human'[f] /\ active'[f].until = human'[f] + TTL
                      /\ Served(f)' /\ active'[f].until = 0 =>
                            now' - human'[f] >= TTL \/ f \in unwatched' \/ Gone(f)'
  BY DEF Clocks, Watched, Unseen, Excused, Served, Gone, Renewing
<1>2. CASE Seen(f)
  BY <1>0, <1>2 DEF Seen
<1>3. CASE ~Seen(f)
  <2>0. /\ human[f] \in Nat /\ active[f].until \in Nat /\ active'[f].until \in Nat
        /\ now' \in Nat
        /\ human[f] <= now
    BY <1>0 DEF TInv, TypeOK, IInv, Clocks
  <2>1. /\ human'[f] = human[f]
        /\ f \in unwatched => f \in unwatched'
        /\ now' >= now
        /\ \/ active'[f] = active[f]
           \/ /\ active'[f].until = 0
              /\ \/ now' = now + 1 /\ active[f].until <= now + 1
                 \/ f \in unwatched'
                 \/ Gone(f)'
    BY <1>3, Activity
  <2>2. human'[f] <= now'
    BY <1>0, <2>0, <2>1
  <2>3. active'[f].until # 0 => active'[f].at = human'[f] /\ active'[f].until = human'[f] + TTL
    BY <2>1 DEF IInv, Watched
  <2>4. ASSUME Served(f)', active'[f].until = 0
        PROVE  now' - human'[f] >= TTL \/ f \in unwatched' \/ Gone(f)'
    <3>1. Served(f) /\ Founded(f)
      BY <1>0, <1>3, <2>4, ServedNext, ServedFounded
    <3>2. CASE active[f].until = 0
      <4>1. Excused(f, now)
        BY <3>1, <3>2 DEF IInv, Unseen
      <4>2. now <= now'
        BY <1>0, <2>0, <2>1
      <4>3. QED
        BY <1>0, <2>0, <2>1, <3>1, <4>1, <4>2, ExcusedKept
    <3>3. CASE active[f].until # 0
      <4>1. active[f].until = human[f] + TTL
        BY <3>3 DEF IInv, Watched
      <4>2. QED
        BY <1>0, <2>0, <2>1, <2>4, <3>3, <4>1
    <3>4. QED
      BY <3>2, <3>3
  <2>5. QED
    BY <2>2, <2>3, <2>4
<1>4. QED
  BY <1>2, <1>3

LEMMA RenewalsKept ==
    ASSUME IInv, OpenFounded, Move
    PROVE  RenewalsServed' /\ InTime'
<1>0. /\ TInv /\ now \in Nat /\ now' \in Nat /\ Idle \in Nat /\ TTL \in Nat
      /\ hand \in [Requests -> Hand]
      /\ \A q \in Requests : hand[q].at \in Nat
  BY TypesKept, TimesAssumption DEF IInv, TInv, TypeOK, Hand, Request
<1>1. \A q \in Requests : hand[q].pc \in {"gate"} \cup Passed => hand[q].family \in Families
  BY <1>0 DEF Hand, WellFormed, Passed
\* A request that had passed the gate, or passes it now, passed it in time.
<1>2. ASSUME NEW f \in Families, Served(f), NEW n \in Nat, n <= now,
             n - human[f] <= Idle \/ Excused(f, n)
      PROVE  /\ n <= now'
             /\ n - human'[f] <= Idle \/ (n - human'[f] >= TTL \/ f \in unwatched' \/ Gone(f)')
  <2>1. Founded(f) /\ human[f] \in Nat /\ human'[f] \in Nat
    BY <1>0, <1>2, ServedFounded, TypesKept DEF TInv, TypeOK
  <2>2. CASE Seen(f)
    BY <1>0, <1>2, <2>1, <2>2 DEF Seen
  <2>3. CASE ~Seen(f)
    <3>1. /\ human'[f] = human[f]
          /\ f \in unwatched => f \in unwatched'
          /\ now' >= now
      BY <2>3, Activity
    <3>2. n <= now'
      BY <1>0, <1>2, <3>1
    <3>3. CASE n - human[f] <= Idle
      BY <3>1, <3>2, <3>3
    <3>4. CASE Excused(f, n)
      BY <2>1, <3>1, <3>2, <3>4, <1>2, ExcusedKept
    <3>5. QED
      BY <1>2, <3>2, <3>3, <3>4
  <2>4. QED
    BY <2>2, <2>3
<1> DEFINE Late(f, n) == n - human'[f] >= TTL \/ f \in unwatched' \/ Gone(f)'
           Kept(q) == hand'[q].pc \in {"gate"} \cup Passed =>
               \E f \in Families :
                  /\ hand'[q].family = f
                  /\ Served(f)'
                  /\ hand'[q].pc \in Passed => \E n \in Nat :
                        /\ hand'[q].at = n
                        /\ n <= now'
                        /\ n - human'[f] <= Idle \/ Late(f, n)
<1>3. ASSUME NEW q \in Requests, hand[q].pc \in Passed,
             hand'[q].family = hand[q].family, hand'[q].at = hand[q].at
      PROVE  Kept(q)
  <2>1. PICK f \in Families : f = hand[q].family
    BY <1>1, <1>3
  <2>2. PICK n \in Nat : n = hand[q].at
    BY <1>0
  <2>3. Served(f) /\ n <= now /\ (n - human[f] <= Idle \/ Excused(f, n))
    BY <1>3, <2>1, <2>2 DEF IInv, RenewalsServed, InTime
  <2>4. n <= now' /\ (n - human'[f] <= Idle \/ Late(f, n))
    BY <1>2, <2>3
  <2>5. Served(f)'
    BY <2>3, ServedNext
  <2>. HIDE DEF Late
  <2>6. QED
    BY <1>3, <2>1, <2>2, <2>4, <2>5
<1>4. ASSUME NEW q \in Requests, hand[q].pc = "gate", hand'[q].family = hand[q].family,
             hand'[q].pc = "gate" \/ (~Stale(hand[q].family) /\ hand'[q].at = now)
      PROVE  Kept(q)
  <2>1. PICK f \in Families : f = hand[q].family
    BY <1>1, <1>4
  <2>2. Served(f)
    BY <1>4, <2>1 DEF IInv, RenewalsServed
  <2>3. Served(f)'
    BY <2>2, ServedNext
  <2>4. ASSUME ~Stale(f)
        PROVE  now <= now' /\ (now - human'[f] <= Idle \/ Late(f, now))
    <3>1. now - human[f] <= Idle \/ Excused(f, now)
      BY <1>0, <2>2, <2>4 DEF Stale, IInv, Watched, Unseen, TInv, TypeOK
    <3>2. PICK n \in Nat : n = now
      BY <1>0
    <3>3. n <= now' /\ (n - human'[f] <= Idle \/ Late(f, n))
      BY <1>0, <1>2, <2>2, <3>1, <3>2
    <3>4. QED
      BY <3>2, <3>3
  <2>. HIDE DEF Late
  <2>5. QED
    BY <1>0, <1>4, <2>1, <2>3, <2>4 DEF Passed
<1>5. ASSUME NEW q \in Requests, hand'[q] = hand[q]
      PROVE  Kept(q)
  <2>. HIDE DEF Late
  <2>1. CASE hand[q].pc \in Passed
    <3>. HIDE DEF Kept
    <3>1. QED
      BY <1>3, <1>5, <2>1
  <2>2. CASE hand[q].pc = "gate"
    <3>. HIDE DEF Kept
    <3>1. QED
      BY <1>4, <1>5, <2>2
  <2>3. CASE hand[q].pc \notin {"gate"} \cup Passed
    BY <1>5, <2>3
  <2>4. QED
    BY <2>1, <2>2, <2>3
<1>6. ASSUME NEW r \in Requests, Step(r)
      PROVE  \A q \in Requests : Kept(q)
  <2>1. ASSUME hand'[r].pc \in {"gate"} \cup Passed
        PROVE  Kept(r)
    <3>. HIDE DEF Kept
    <3>1. QED
      BY <1>0, <1>3, <1>4, <1>6, <2>1, RenewalHands
  <2>2. Kept(r)
    BY <2>1
  <2>3. \A q \in Requests \ {r} : hand'[q] = hand[q]
    BY <1>0, <1>6, StepHands
  <2>. HIDE DEF Kept
  <2>4. QED
    BY <1>5, <2>2, <2>3
<1>7. ASSUME NEW r \in Requests, Arrive(r)
      PROVE  \A q \in Requests : Kept(q)
  <2>1. /\ hand'[r].pc \notin Passed
        /\ \A q \in Requests \ {r} : hand'[q] = hand[q]
    BY <1>0, <1>7, ArriveHands DEF Passed
  <2>2. ASSUME hand'[r].pc = "gate"
        PROVE  \E f \in Families : hand'[r].family = f /\ Served(f)'
    <3>1. PICK t \in Tokens : Refresh(r, t)
      <4>1. ASSUME NEW a \in Tokens, NEW t \in Tokens, Heartbeat(r, t) \/ Logout(r, a, t)
            PROVE  hand'[r].pc # "gate"
        BY <1>0, <4>1 DEF Heartbeat, Logout, Closed
      <4>2. ASSUME NEW f \in Families, NEW t \in Tokens, Login(r, f, t)
            PROVE  hand'[r].pc # "gate"
        BY <1>0, <4>2 DEF Login, Closed
      <4>3. QED
        BY <1>7, <2>2, <4>1, <4>2 DEF Arrive
    <3>2. PICK f \in Families : f = family[t]
      BY <1>0, <3>1 DEF Refresh, TInv, GivenMinted
    <3>3. Served(f)
      BY <3>1, <3>2 DEF Refresh, Served
    <3>4. Served(f)'
      BY <3>3, ServedNext
    <3>5. hand'[r] = [Closed EXCEPT !.pc = "gate", !.token = t, !.family = f]
      BY <1>0, <3>1, <3>2 DEF Refresh
    <3>6. hand'[r].family = f
      BY <3>5 DEF Closed
    <3>7. QED
      BY <3>4, <3>6
  <2>3. Kept(r)
    BY <2>1, <2>2 DEF Passed
  <2>. HIDE DEF Kept
  <2>4. QED
    BY <1>5, <2>1, <2>3
<1>8. ASSUME Tick
      PROVE  \A q \in Requests : Kept(q)
  <2>1. hand' = hand
    BY <1>8 DEF Tick
  <2>. HIDE DEF Kept
  <2>2. QED
    BY <1>5, <2>1
<1>9. ASSUME Crash
      PROVE  \A q \in Requests : Kept(q)
  BY <1>9 DEF Crash, Closed, Passed
<1>10. \A q \in Requests : Kept(q)
  <2>. HIDE DEF Kept
  <2>1. QED
    BY <1>6, <1>7, <1>8, <1>9 DEF Move
<1>11. RenewalsServed'
  BY <1>10 DEF RenewalsServed, Served
<1>12. InTime'
  <2>1. ASSUME NEW q \in Requests, hand'[q].pc \in Passed
        PROVE  /\ hand'[q].at <= now'
               /\ hand'[q].at - human'[hand'[q].family] <= Idle \/ Excused(hand[q].family, hand[q].at)'
    <3>1. PICK f \in Families, n \in Nat :
            /\ hand'[q].family = f
            /\ hand'[q].at = n
            /\ n <= now'
            /\ n - human'[f] <= Idle \/ Late(f, n)
      <4>. HIDE DEF Late
      <4>1. QED
        BY <1>10, <2>1
    <3>2. QED
      BY <3>1 DEF Excused, Gone, Renewing
  <2>2. QED
    BY <2>1 DEF InTime, Passed
<1>13. QED
  BY <1>11, <1>12

JInv == IInv /\ OpenFounded

LEMMA InactivityAlways == Spec => []JInv
<1>1. Init => JInv
  <2>1. Init => Clocks /\ Watched /\ Unseen /\ RenewalsServed /\ InTime /\ OpenFounded
    BY DEF Init, Closed, NoActivity, Clocks, Watched, Unseen, RenewalsServed, InTime, OpenFounded, Served, Passed
  <2>2. QED
    BY <2>1, TypesStart DEF JInv, IInv
<1>2. JInv /\ Move => JInv'
  <2>1. JInv /\ Move => TInv'
    BY TypesKept DEF JInv, IInv
  <2>2. JInv /\ Move => OpenFounded'
    BY OpenKept DEF JInv, IInv
  <2>3. QED
    BY <2>1, <2>2, WatchKept, RenewalsKept DEF JInv, IInv
<1>3. JInv /\ UNCHANGED vars => JInv'
  <2>1. /\ Clocks /\ Watched /\ Unseen /\ RenewalsServed /\ InTime /\ OpenFounded /\ UNCHANGED vars
        => Clocks' /\ Watched' /\ Unseen' /\ RenewalsServed' /\ InTime' /\ OpenFounded'
    BY DEF Clocks, Watched, Unseen, RenewalsServed, InTime, OpenFounded, Served, Founded, Excused, Gone, Renewing,
           vars, redisVars, historyVars
  <2>2. QED
    BY <2>1, TypesStutter DEF JInv, IInv
<1>4. QED
  BY <1>1, <1>2, <1>3, NextMoves, PTL DEF Spec

\* A family is renewed only in time, or with one of the two excuses that the
\* activity record's own lifetime and the unfenced clear leave: the gate of
\* modules/auth/service.py and the record of core/auth.py.
THEOREM OnlyTimelyRenewals == Spec => IdleFamiliesEnd
<1>1. JInv => [\A r \in Requests :
                  (hand[r].pc = "issue" /\ family' # family /\ hand'[r].pc = "idle") =>
                      \/ hand[r].at - human[hand[r].family] <= Idle
                      \/ hand[r].at - human[hand[r].family] >= TTL
                      \/ hand[r].family \in unwatched]_vars
  <2>1. SUFFICES ASSUME JInv, NEW r \in Requests, hand[r].pc = "issue"
                 PROVE  \/ hand[r].at - human[hand[r].family] <= Idle
                        \/ hand[r].at - human[hand[r].family] >= TTL
                        \/ hand[r].family \in unwatched
    OBVIOUS
  <2>2. ~Gone(hand[r].family)
    BY <2>1 DEF Gone, Renewing
  <2>3. QED
    BY <2>1, <2>2 DEF JInv, IInv, InTime, Passed, Excused
<1>2. QED
  BY <1>1, InactivityAlways, PTL DEF IdleFamiliesEnd
=============================================================================
