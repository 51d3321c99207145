---------------------------- MODULE AccountsProofs ----------------------------
(***************************************************************************)
(* Proofs about Accounts, for any number of users, codes and requests and  *)
(* any interleaving: types, OneChangePerCode and CodesStayWithOwners.      *)
(***************************************************************************)
EXTENDS Accounts, FiniteSetTheorems, TLAPS

-----------------------------------------------------------------------------
(* What a request holds at each of its steps                               *)

WellFormed(q) ==
    /\ q.pc = "insert" => q.store = "verify_email"
    /\ q.pc = "cool" => q.store = "reset_password"
    /\ q.pc = "issue" => q.store \in Stores
    /\ q.pc = "burn" => q.store = "verify_email" /\ q.code \in VerifyCodes
    /\ q.pc = "consume" => q.store = "reset_password" /\ q.code \in ResetCodes

Req == {q \in Request : WellFormed(q)}

CodesTyped ==
    /\ DOMAIN code = Stores
    /\ \A s \in Stores : code[s] \in [Codes(s) -> Users \cup {None}]

TInv == TypeOK /\ req \in [Requests -> Req]

LEMMA ClosedIsReq == Closed \in Req
BY DEF Closed, Req, Request, WellFormed

LEMMA StoreCodes ==
    /\ Codes("verify_email") = VerifyCodes
    /\ Codes("reset_password") = ResetCodes
    /\ Codes("reset_grant") = GrantCodes
BY DEF Codes

Becomes(s, c, x) == code' = [code EXCEPT ![s][c] = x]

LEMMA CodeChanges ==
    ASSUME CodesTyped, NEW s \in Stores, NEW c \in Codes(s), NEW x \in Users \cup {None}, Becomes(s, c, x)
    PROVE  /\ CodesTyped'
           /\ code'[s][c] = x
           /\ \A t \in Stores : \A d \in Codes(t) : (t # s \/ d # c) => code'[t][d] = code[t][d]
<1>. HIDE DEF Codes
<1>1. code' = [t \in Stores |-> IF t = s THEN [code[s] EXCEPT ![c] = x] ELSE code[t]]
  BY DEF CodesTyped, Becomes
<1>2. code[s] \in [Codes(s) -> Users \cup {None}]
  BY DEF CodesTyped
<1>3. /\ code'[s] = [code[s] EXCEPT ![c] = x]
      /\ \A t \in Stores : t # s => code'[t] = code[t]
      /\ DOMAIN code' = Stores
  BY <1>1
<1>4. /\ code'[s] \in [Codes(s) -> Users \cup {None}]
      /\ code'[s][c] = x
      /\ \A d \in Codes(s) : d # c => code'[s][d] = code[s][d]
  BY <1>2, <1>3
<1>5. \A t \in Stores : code'[t] \in [Codes(t) -> Users \cup {None}]
  BY <1>3, <1>4 DEF CodesTyped
<1>6. CodesTyped'
  BY <1>3, <1>5 DEF CodesTyped, Codes
<1>7. QED
  BY <1>3, <1>4, <1>6

\* The codes a step touches are of the store.
LEMMA Held ==
    ASSUME TInv, NEW r \in Requests
    PROVE  /\ req[r] \in Req
           /\ req[r].pc # "idle" => req[r].user \in Users
           /\ req[r].pc = "burn" => req[r].store = "verify_email" /\ req[r].code \in Codes("verify_email")
           /\ req[r].pc = "consume" => req[r].store = "reset_password" /\ req[r].code \in Codes("reset_password")
           /\ req[r].pc = "issue" => req[r].store \in Stores
           /\ req[r].pc = "insert" => req[r].store = "verify_email"
           /\ req[r].pc = "cool" => req[r].store = "reset_password"
BY StoreCodes DEF TInv, Req, Request, WellFormed

\* A step that replaces one request.
LEMMA ReqChanges ==
    ASSUME TInv, NEW r \in Requests, NEW q \in Req, req' = [req EXCEPT ![r] = q]
    PROVE  /\ req' \in [Requests -> Req]
           /\ req'[r] = q
           /\ \A p \in Requests \ {r} : req'[p] = req[p]
BY DEF TInv

Coherent(pc, c, s) ==
    \/ pc \in {"verified", "password"}
    \/ pc = "insert" /\ s = "verify_email"
    \/ pc = "cool" /\ s = "reset_password"
    \/ pc = "issue" /\ s \in Stores
    \/ pc = "burn" /\ s = "verify_email" /\ c \in VerifyCodes
    \/ pc = "consume" /\ s = "reset_password" /\ c \in ResetCodes

LEMMA OpenIsReq ==
    ASSUME TInv, NEW r \in Requests, NEW pc, NEW u \in Users, NEW c \in AllCodes \cup {None},
           NEW s \in Stores \cup {None}, Open(r, pc, u, c, s),
           Coherent(pc, c, s)
    PROVE  /\ req' \in [Requests -> Req]
           /\ req[r].pc = "idle"
           /\ req'[r].pc = pc /\ req'[r].user = u /\ req'[r].code = c /\ req'[r].store = s
           /\ ~req'[r].overtaken
           /\ \A p \in Requests \ {r} : req'[p] = req[p]
<1> DEFINE q == [Closed EXCEPT !.pc = pc, !.user = u, !.code = c, !.store = s]
<1>1. q.pc = pc /\ q.user = u /\ q.code = c /\ q.store = s /\ ~q.overtaken
  BY DEF Closed
<1>2. q \in Req
  BY DEF Coherent, Req, Request, WellFormed, Closed, Stores
<1>3. req' = [req EXCEPT ![r] = q] /\ req[r].pc = "idle"
  BY DEF Open
<1>. HIDE DEF q
<1>4. QED
  BY <1>1, <1>2, <1>3, ReqChanges

LEMMA FinishReq ==
    ASSUME TInv, NEW r \in Requests, Finish(r)
    PROVE  /\ req' \in [Requests -> Req]
           /\ req'[r].pc = "idle"
           /\ \A p \in Requests \ {r} : req'[p] = req[p]
<1>1. Closed \in Req /\ Closed.pc = "idle"
  BY ClosedIsReq DEF Closed
<1>2. req' = [req EXCEPT ![r] = Closed]
  BY DEF Finish
<1>3. QED
  BY <1>1, <1>2, ReqChanges

\* A request that goes on to issue a code of its store.
LEMMA GoesOn ==
    ASSUME TInv, NEW r \in Requests, req[r].pc \in {"insert", "cool"},
           req' = [req EXCEPT ![r].pc = "issue"]
    PROVE  /\ req' \in [Requests -> Req]
           /\ req'[r].pc = "issue"
           /\ req'[r].store \in {"verify_email", "reset_password"}
           /\ \A p \in Requests \ {r} : req'[p] = req[p]
<1> DEFINE q == [req[r] EXCEPT !.pc = "issue"]
<1>1. req[r] \in Req /\ req[r].store \in {"verify_email", "reset_password"} /\ req[r].user \in Users
  BY Held
<1>2. q.pc = "issue" /\ q.store = req[r].store
  BY <1>1 DEF Req, Request
<1>3. q \in Req
  BY <1>1 DEF Req, Request, WellFormed, Stores
<1>4. req' = [req EXCEPT ![r] = q]
  BY DEF TInv
<1>. HIDE DEF q
<1>5. QED
  BY <1>1, <1>2, <1>3, <1>4, ReqChanges

-----------------------------------------------------------------------------
(* Counting the changes of password that are still allowed                 *)

\* A request that will set a password, or issue the grant that will.
Owes(q, u) == q.user = u /\ (q.pc = "password" \/ (q.pc = "issue" /\ q.store = "reset_grant"))

Resets == {"reset_password", "reset_grant"}

Claim(x, u) ==
    \/ x[1] \in Resets /\ x[2] \in Codes(x[1]) /\ code[x[1]][x[2]] = u
    \/ x[1] = "request" /\ x[2] \in Requests /\ Owes(req[x[2]], u)

Claims(u) ==
    {x \in {"reset_password", "reset_grant", "request"} \X (ResetCodes \cup GrantCodes \cup Requests) : Claim(x, u)}

\* Live reset codes, live grants and requests under way are all paid for.
Balance == \A u \in Users : Cardinality(Claims(u)) <= owed[u]

LEMMA ClaimsFinite == \A u : IsFiniteSet(Claims(u))
<1> DEFINE S == {"reset_password", "reset_grant", "request"}
           T == ResetCodes \cup GrantCodes \cup Requests
<1>1. IsFiniteSet(S)
  <2>1. IsFiniteSet({} \cup {"reset_password"})
    BY FS_EmptySet, FS_AddElement
  <2>2. IsFiniteSet(({} \cup {"reset_password"}) \cup {"reset_grant"})
    BY <2>1, FS_AddElement
  <2>3. IsFiniteSet((({} \cup {"reset_password"}) \cup {"reset_grant"}) \cup {"request"})
    BY <2>2, FS_AddElement
  <2>4. S = (({} \cup {"reset_password"}) \cup {"reset_grant"}) \cup {"request"}
    OBVIOUS
  <2>5. QED
    BY <2>3, <2>4
<1>2. IsFiniteSet(T)
  BY FinitenessAssumption
<1>3. IsFiniteSet(S \X T)
  BY <1>1, <1>2, FS_Product
<1>4. ASSUME NEW u
      PROVE  Claims(u) \in SUBSET (S \X T)
  BY DEF Claims
<1>5. QED
  BY <1>3, <1>4, FS_Subset

LEMMA Counting ==
    ASSUME NEW A, NEW B, IsFiniteSet(B)
    PROVE  /\ Cardinality(B) \in Nat
           /\ A \subseteq B => Cardinality(A) \in Nat /\ Cardinality(A) <= Cardinality(B)
           /\ \A y : A \subseteq B \cup {y} => Cardinality(A) \in Nat /\ Cardinality(A) <= Cardinality(B) + 1
           /\ \A x \in B : A \subseteq B \ {x} => Cardinality(A) \in Nat /\ Cardinality(A) <= Cardinality(B) - 1
           /\ \A x \in B : \A y : A \subseteq (B \ {x}) \cup {y} =>
                 Cardinality(A) \in Nat /\ Cardinality(A) <= Cardinality(B)
<1>1. \A C : IsFiniteSet(C) => Cardinality(C) \in Nat
  BY FS_CardinalityType
<1>2. \A C : IsFiniteSet(C) => \A D \in SUBSET C : IsFiniteSet(D) /\ Cardinality(D) <= Cardinality(C)
  BY FS_Subset
<1>3. \A C, y : IsFiniteSet(C) => IsFiniteSet(C \cup {y}) /\ Cardinality(C \cup {y}) \in {Cardinality(C), Cardinality(C) + 1}
  BY FS_AddElement
<1>4. \A x \in B : IsFiniteSet(B \ {x}) /\ Cardinality(B \ {x}) = Cardinality(B) - 1
  BY FS_RemoveElement
<1>5. Cardinality(B) \in Nat
  BY <1>1
<1>6. A \subseteq B => Cardinality(A) \in Nat /\ Cardinality(A) <= Cardinality(B)
  BY <1>1, <1>2
<1>7. ASSUME NEW y, A \subseteq B \cup {y}
      PROVE  Cardinality(A) \in Nat /\ Cardinality(A) <= Cardinality(B) + 1
  <2>0. IsFiniteSet(B \cup {y}) /\ Cardinality(B \cup {y}) \in {Cardinality(B), Cardinality(B) + 1}
    BY <1>3
  <2>1. IsFiniteSet(B \cup {y}) /\ Cardinality(B \cup {y}) <= Cardinality(B) + 1
    BY <1>5, <2>0
  <2>2. IsFiniteSet(A) /\ Cardinality(A) <= Cardinality(B \cup {y})
    BY <1>2, <1>7, <2>1
  <2>3. Cardinality(A) \in Nat /\ Cardinality(B \cup {y}) \in Nat
    BY <1>1, <2>1, <2>2
  <2>4. QED
    BY <1>5, <2>1, <2>2, <2>3
<1>8. ASSUME NEW x \in B, A \subseteq B \ {x}
      PROVE  Cardinality(A) \in Nat /\ Cardinality(A) <= Cardinality(B) - 1
  <2>1. IsFiniteSet(B \ {x}) /\ Cardinality(B \ {x}) = Cardinality(B) - 1
    BY <1>4
  <2>2. IsFiniteSet(A) /\ Cardinality(A) <= Cardinality(B \ {x})
    BY <1>2, <1>8, <2>1
  <2>3. QED
    BY <1>1, <2>1, <2>2
<1>9. ASSUME NEW x \in B, NEW y, A \subseteq (B \ {x}) \cup {y}
      PROVE  Cardinality(A) \in Nat /\ Cardinality(A) <= Cardinality(B)
  <2>1. IsFiniteSet(B \ {x}) /\ Cardinality(B \ {x}) = Cardinality(B) - 1
    BY <1>4
  <2>2. Cardinality(B \ {x}) \in Nat
    BY <1>1, <2>1
  <2>3. /\ IsFiniteSet((B \ {x}) \cup {y})
        /\ Cardinality((B \ {x}) \cup {y}) \in {Cardinality(B \ {x}), Cardinality(B \ {x}) + 1}
    BY <1>3, <2>1
  <2>4. Cardinality((B \ {x}) \cup {y}) \in Nat /\ Cardinality((B \ {x}) \cup {y}) <= Cardinality(B)
    BY <1>1, <1>5, <2>1, <2>2, <2>3
  <2>5. IsFiniteSet(A) /\ Cardinality(A) <= Cardinality((B \ {x}) \cup {y})
    BY <1>2, <1>9, <2>3
  <2>6. Cardinality(A) \in Nat
    BY <1>1, <2>5
  <2>7. QED
    BY <1>5, <2>4, <2>5, <2>6
<1>10. QED
  BY <1>5, <1>6, <1>7, <1>8, <1>9

\* A step that mails no reset code and lets no request into the last stretch.
LEMMA Shrinking ==
    ASSUME TInv, Balance, owed' = owed,
           \A s \in Resets : \A c \in Codes(s) : code'[s][c] \in {code[s][c], None},
           \A q \in Requests : req'[q] = req[q] \/ ~(\E v \in Users : Owes(req'[q], v))
    PROVE  Balance'
<1>1. SUFFICES ASSUME NEW u \in Users
               PROVE  Cardinality(Claims(u)') <= owed'[u]
  BY DEF Balance
<1>2. Claims(u)' \subseteq Claims(u)
  <2>1. ASSUME NEW x, Claim(x, u)'
        PROVE  Claim(x, u)
    <3>1. CASE x[1] \in Resets /\ x[2] \in Codes(x[1]) /\ code'[x[1]][x[2]] = u
      BY <3>1, NoneAssumption DEF Claim
    <3>2. CASE x[1] = "request" /\ x[2] \in Requests /\ Owes(req'[x[2]], u)
      BY <3>2 DEF Claim
    <3>3. QED
      BY <2>1, <3>1, <3>2 DEF Claim, Owes, Codes
  <2>2. QED
    BY <2>1 DEF Claims
<1>3. Cardinality(Claims(u)') <= Cardinality(Claims(u)) /\ Cardinality(Claims(u)') \in Nat /\ Cardinality(Claims(u)) \in Nat
  BY <1>2, ClaimsFinite, Counting
<1>4. Cardinality(Claims(u)) <= owed[u] /\ owed[u] \in Int
  BY DEF Balance, TInv, TypeOK
<1>5. QED
  BY <1>3, <1>4

-----------------------------------------------------------------------------
(* The owners of codes                                                     *)

\* A request deletes the code of the user it checked it for, or one that is
\* gone, or one it was overtaken on.
HeldInv == \A r \in Requests : req[r].pc \in {"burn", "consume"} =>
    code[req[r].store][req[r].code] \in {req[r].user, None} \/ req[r].overtaken

IInv == TInv /\ Balance /\ HeldInv

\* What CodesStayWithOwners says of a step.
Stays ==
    \A s \in Stores, r \in Requests : \A c \in Codes(s) :
        (code[s][c] # None /\ code'[s][c] = None /\ req'[r] # req[r]) =>
            \/ code[s][c] \in {req[r].user, req'[r].user}
            \/ req[r].overtaken

LEMMA Typed == ASSUME TInv PROVE CodesTyped /\ Resets \subseteq Stores
BY DEF TInv, TypeOK, CodesTyped, Resets, Stores

LEMMA TypedNext ==
    ASSUME account' \in [Users -> {"absent", "unverified", "verified"}], CodesTyped',
           cooldown' \in [Users -> BOOLEAN], req' \in [Requests -> Req], owed' \in [Users -> Int]
    PROVE  TInv'
BY DEF TInv, TypeOK, CodesTyped, Req, Codes

LEMMA Losing ==
    ASSUME IInv,
           \A s \in Stores : \A c \in Codes(s) : code'[s][c] \in {code[s][c], None},
           \A q \in Requests : req'[q] = req[q] \/ req'[q].pc \notin {"burn", "consume"}
    PROVE  HeldInv'
<1>1. SUFFICES ASSUME NEW q \in Requests, req'[q] = req[q], req[q].pc \in {"burn", "consume"}
               PROVE  code'[req[q].store][req[q].code] \in {req[q].user, None} \/ req[q].overtaken
  BY DEF HeldInv
<1>2. req[q].store \in Stores /\ req[q].code \in Codes(req[q].store)
  BY <1>1, Held DEF IInv, Stores
<1>3. QED
  BY <1>1, <1>2 DEF IInv, HeldInv

\* Steps that leave the codes as they are.
LEMMA CodeKept ==
    ASSUME IInv, code' = code, owed' = owed, req' \in [Requests -> Req],
           account' \in [Users -> {"absent", "unverified", "verified"}], cooldown' \in [Users -> BOOLEAN],
           \A q \in Requests : req'[q] = req[q] \/ ~(\E v \in Users : Owes(req'[q], v)),
           \A q \in Requests : req'[q] = req[q] \/ req'[q].pc \notin {"burn", "consume"}
    PROVE  IInv' /\ Stays
<1>1. TInv'
  <2>1. CodesTyped' /\ owed' \in [Users -> Int]
    BY Typed DEF IInv, TInv, TypeOK, CodesTyped, Codes
  <2>2. QED
    BY <2>1, TypedNext
<1>2. Balance'
  BY Shrinking DEF IInv
<1>3. HeldInv'
  BY Losing
<1>4. Stays
  BY DEF Stays
<1>5. QED
  BY <1>1, <1>2, <1>3, <1>4 DEF IInv

LEMMA Kinds == ASSUME TInv
               PROVE  /\ account \in [Users -> {"absent", "unverified", "verified"}]
                      /\ cooldown \in [Users -> BOOLEAN]
                      /\ owed \in [Users -> Int]
BY DEF TInv, TypeOK

LEMMA QuietArrivals ==
    ASSUME IInv, NEW r \in Requests, NEW u \in Users, Register(r, u) \/ ResendVerification(r, u) \/ ForgotPassword(r, u)
    PROVE  IInv' /\ Stays
<1>0. TInv
  BY DEF IInv
<1>1. /\ UNCHANGED <<account, code, cooldown, owed>>
      /\ \/ Open(r, "insert", u, None, "verify_email")
         \/ Open(r, "issue", u, None, "verify_email")
         \/ Open(r, "cool", u, None, "reset_password")
  BY DEF Register, ResendVerification, ForgotPassword
<1>2. /\ req' \in [Requests -> Req]
      /\ req'[r].pc \in {"insert", "cool"} \/ (req'[r].pc = "issue" /\ req'[r].store = "verify_email")
      /\ \A p \in Requests \ {r} : req'[p] = req[p]
  BY <1>0, <1>1, OpenIsReq DEF Stores, Coherent
<1>3. QED
  BY <1>0, <1>1, <1>2, Kinds, CodeKept DEF Owes

LEMMA QuietEnds ==
    ASSUME IInv, NEW r \in Requests, Finish(r), UNCHANGED <<code, owed>>,
           account' \in [Users -> {"absent", "unverified", "verified"}], cooldown' \in [Users -> BOOLEAN]
    PROVE  IInv' /\ Stays
<1>1. /\ req' \in [Requests -> Req]
      /\ req'[r].pc = "idle"
      /\ \A p \in Requests \ {r} : req'[p] = req[p]
  BY FinishReq DEF IInv
<1>2. QED
  BY <1>1, CodeKept DEF Owes

LEMMA QuietSteps ==
    ASSUME IInv, NEW r \in Requests,
           ReserveFails(r) \/ RegisterCommit(r) \/ VerifyEmailCommit(r) \/ ForgotPasswordCool(r)
    PROVE  IInv' /\ Stays
<1>0. TInv
  BY DEF IInv
<1>1. CASE ReserveFails(r)
  BY <1>0, <1>1, Kinds, QuietEnds DEF ReserveFails
<1>2. CASE VerifyEmailCommit(r)
  <2>1. account' \in [Users -> {"absent", "unverified", "verified"}]
    BY <1>0, <1>2, Held, Kinds DEF VerifyEmailCommit
  <2>2. QED
    BY <1>0, <1>2, <2>1, Kinds, QuietEnds DEF VerifyEmailCommit
<1>3. CASE RegisterCommit(r)
  <2>1. account' \in [Users -> {"absent", "unverified", "verified"}]
    BY <1>0, <1>3, Held, Kinds DEF RegisterCommit
  <2>2. cooldown' \in [Users -> BOOLEAN] /\ UNCHANGED <<code, owed>> /\ req[r].pc = "insert"
    BY <1>0, <1>3, Kinds DEF RegisterCommit
  <2>3. CASE Finish(r)
    BY <2>1, <2>2, <2>3, QuietEnds
  <2>4. CASE req' = [req EXCEPT ![r].pc = "issue"]
    <3>1. /\ req' \in [Requests -> Req]
          /\ req'[r].pc = "issue"
          /\ req'[r].store \in {"verify_email", "reset_password"}
          /\ \A p \in Requests \ {r} : req'[p] = req[p]
      BY <1>0, <2>2, <2>4, GoesOn
    <3>2. QED
      BY <2>1, <2>2, <3>1, CodeKept DEF Owes
  <2>5. QED
    BY <1>3, <2>3, <2>4 DEF RegisterCommit
<1>4. CASE ForgotPasswordCool(r)
  <2>1. cooldown' \in [Users -> BOOLEAN]
    BY <1>0, <1>4, Held, Kinds DEF ForgotPasswordCool
  <2>2. /\ account' \in [Users -> {"absent", "unverified", "verified"}]
        /\ UNCHANGED <<code, owed>> /\ req[r].pc = "cool"
    BY <1>0, <1>4, Kinds DEF ForgotPasswordCool
  <2>3. CASE Finish(r)
    BY <2>1, <2>2, <2>3, QuietEnds
  <2>4. CASE req' = [req EXCEPT ![r].pc = "issue"]
    <3>1. /\ req' \in [Requests -> Req]
          /\ req'[r].pc = "issue"
          /\ req'[r].store \in {"verify_email", "reset_password"}
          /\ \A p \in Requests \ {r} : req'[p] = req[p]
      BY <1>0, <2>2, <2>4, GoesOn
    <3>2. QED
      BY <2>1, <2>2, <3>1, CodeKept DEF Owes
  <2>5. QED
    BY <1>4, <2>3, <2>4 DEF ForgotPasswordCool
<1>5. QED
  BY <1>1, <1>2, <1>3, <1>4

LEMMA Outside ==
    ASSUME IInv, Crash \/ \E u \in Users : CooldownEnds(u)
    PROVE  IInv' /\ Stays
<1>0. TInv
  BY DEF IInv
<1>1. CASE Crash
  <2>1. /\ req' \in [Requests -> Req]
        /\ \A q \in Requests : req'[q].pc = "idle"
    BY <1>1, ClosedIsReq DEF Crash, Closed
  <2>2. QED
    BY <1>0, <1>1, <2>1, Kinds, CodeKept DEF Crash, Owes
<1>2. CASE \E u \in Users : CooldownEnds(u)
  <2>1. PICK u \in Users : CooldownEnds(u)
    BY <1>2
  <2>2. /\ cooldown' \in [Users -> BOOLEAN] /\ req' = req
        /\ UNCHANGED <<account, code, owed>>
    BY <1>0, <2>1, Kinds DEF CooldownEnds
  <2>3. QED
    BY <1>0, <2>2, Kinds, CodeKept DEF TInv
<1>3. QED
  BY <1>1, <1>2

\* A request that found a code in order, and will delete it.
LEMMA Checking ==
    ASSUME IInv, NEW r \in Requests, NEW u \in Users, NEW c \in AllCodes,
           \/ c \in VerifyCodes /\ VerifyEmail(r, u, c)
           \/ c \in ResetCodes /\ VerifyResetCode(r, u, c)
    PROVE  IInv' /\ Stays
<1>0. TInv /\ UNCHANGED <<account, code, cooldown, owed>>
  BY DEF IInv, VerifyEmail, VerifyResetCode
<1> DEFINE As(pc, s) == /\ req' \in [Requests -> Req]
                        /\ req'[r].pc = pc /\ req'[r].store = s /\ req'[r].code = c /\ req'[r].user = u
                        /\ \A p \in Requests \ {r} : req'[p] = req[p]
                        /\ code[s][c] = u
<1>3. As("burn", "verify_email") \/ As("consume", "reset_password")
  <2>1. CASE c \in VerifyCodes /\ VerifyEmail(r, u, c)
    <3> DEFINE q == [Closed EXCEPT !.pc = "burn", !.user = u, !.code = c, !.store = "verify_email"]
    <3>1. q.pc = "burn" /\ q.user = u /\ q.code = c /\ q.store = "verify_email"
      BY DEF Closed
    <3>2. q \in Req
      BY <2>1 DEF Req, Request, WellFormed, Closed, Stores
    <3>3. req' = [req EXCEPT ![r] = q] /\ code["verify_email"][c] = u
      BY <2>1 DEF VerifyEmail, Peek, Open
    <3>. HIDE DEF q
    <3>4. /\ req' \in [Requests -> Req]
          /\ req'[r] = q
          /\ \A p \in Requests \ {r} : req'[p] = req[p]
      BY <1>0, <3>2, <3>3, ReqChanges
    <3>5. QED
      BY <3>1, <3>3, <3>4
  <2>2. CASE c \in ResetCodes /\ VerifyResetCode(r, u, c)
    <3> DEFINE q == [Closed EXCEPT !.pc = "consume", !.user = u, !.code = c, !.store = "reset_password"]
    <3>1. q.pc = "consume" /\ q.user = u /\ q.code = c /\ q.store = "reset_password"
      BY DEF Closed
    <3>2. q \in Req
      BY <2>2 DEF Req, Request, WellFormed, Closed, Stores
    <3>3. req' = [req EXCEPT ![r] = q] /\ code["reset_password"][c] = u
      BY <2>2 DEF VerifyResetCode, Peek, Open
    <3>. HIDE DEF q
    <3>4. /\ req' \in [Requests -> Req]
          /\ req'[r] = q
          /\ \A p \in Requests \ {r} : req'[p] = req[p]
      BY <1>0, <3>2, <3>3, ReqChanges
    <3>5. QED
      BY <3>1, <3>3, <3>4
  <2>3. QED
    BY <2>1, <2>2
<1>4. TInv'
  <2>1. CodesTyped' /\ owed' \in [Users -> Int]
    BY <1>0, Typed, Kinds DEF CodesTyped, Codes
  <2>2. QED
    BY <1>0, <1>3, <2>1, Kinds, TypedNext
<1>5. Balance'
  BY <1>0, <1>3, Shrinking DEF IInv, Owes
<1>6. HeldInv'
  BY <1>0, <1>3 DEF IInv, HeldInv
<1>7. Stays
  BY <1>0 DEF Stays
<1>8. QED
  BY <1>4, <1>5, <1>6, <1>7 DEF IInv

\* Codes go, and nothing is owed for them.
LEMMA Gone ==
    ASSUME IInv, UNCHANGED <<account, cooldown, owed>>, NEW s \in Stores, NEW c \in Codes(s), Delete(s, c),
           req' \in [Requests -> Req],
           \A q \in Requests : \/ req'[q] = req[q]
                               \/ /\ req'[q].pc \in {"idle", "verified"}
                                  /\ code[s][c] \in {req[q].user, None} \/ req[q].overtaken
    PROVE  IInv' /\ Stays
<1>0. TInv /\ CodesTyped
  BY Typed DEF IInv
<1>1. /\ CodesTyped'
      /\ code'[s][c] = None
      /\ \A t \in Stores : \A d \in Codes(t) : (t # s \/ d # c) => code'[t][d] = code[t][d]
  <2>1. Becomes(s, c, None) /\ None \in Users \cup {None}
    BY DEF Delete, Becomes
  <2>2. QED
    BY <1>0, <2>1, CodeChanges
<1>2. \A t \in Stores : \A d \in Codes(t) : code'[t][d] \in {code[t][d], None}
  <2>1. SUFFICES ASSUME NEW t \in Stores, NEW d \in Codes(t)
                 PROVE  code'[t][d] \in {code[t][d], None}
    OBVIOUS
  <2>2. CASE t = s /\ d = c
    BY <1>1, <2>2
  <2>3. CASE t # s \/ d # c
    BY <1>1, <2>3
  <2>4. QED
    BY <2>2, <2>3
<1>3. TInv'
  BY <1>0, <1>1, Kinds, TypedNext
<1>4. Balance'
  BY <1>0, <1>2, Shrinking, Typed DEF IInv, Owes
<1>5. HeldInv'
  BY <1>2, Losing
<1>6. Stays
  <2>1. SUFFICES ASSUME NEW t \in Stores, NEW d \in Codes(t), NEW q \in Requests,
                        code[t][d] # None, code'[t][d] = None, req'[q] # req[q]
                 PROVE  code[t][d] \in {req[q].user, req'[q].user} \/ req[q].overtaken
    BY DEF Stays
  <2>2. t = s /\ d = c
    BY <1>1, <2>1
  <2>3. QED
    BY <2>1, <2>2
<1>7. QED
  BY <1>3, <1>4, <1>5, <1>6 DEF IInv

LEMMA Burning ==
    ASSUME IInv, NEW r \in Requests, VerifyEmailBurn(r)
    PROVE  IInv' /\ Stays
<1> DEFINE q == [Closed EXCEPT !.pc = "verified", !.user = req[r].user]
<1>1. /\ TInv
      /\ req[r].pc = "burn"
      /\ Delete("verify_email", req[r].code)
      /\ UNCHANGED <<account, cooldown, owed>>
      /\ req' = [req EXCEPT ![r] = q]
  BY DEF VerifyEmailBurn, IInv
<1>2. /\ req[r].user \in Users /\ req[r].store = "verify_email"
      /\ req[r].code \in Codes("verify_email")
  BY <1>1, Held
<1>3. q \in Req /\ q.pc = "verified"
  BY <1>2 DEF Closed, Req, Request, WellFormed
<1>4. code["verify_email"][req[r].code] \in {req[r].user, None} \/ req[r].overtaken
  BY <1>1, <1>2 DEF IInv, HeldInv
<1>. HIDE DEF q
<1>5. /\ req' \in [Requests -> Req]
      /\ req'[r] = q
      /\ \A p \in Requests \ {r} : req'[p] = req[p]
  BY <1>1, <1>3, ReqChanges
<1>6. PICK c \in Codes("verify_email") : c = req[r].code
  BY <1>2
<1>7. QED
  BY <1>1, <1>3, <1>4, <1>5, <1>6, Gone DEF Stores

LEMMA Expiring ==
    ASSUME IInv, NEW s \in Stores, NEW c \in Codes(s), ExpireCode(s, c)
    PROVE  IInv' /\ Stays
<1>1. Delete(s, c) /\ UNCHANGED <<account, cooldown, owed>> /\ req' = req /\ req' \in [Requests -> Req]
  BY DEF ExpireCode, IInv, TInv
<1>2. QED
  BY <1>1, Gone

-----------------------------------------------------------------------------
(* The steps that move a claim                                             *)

\* The request of r becomes q, and the code c of s goes.
LEMMA Taking ==
    ASSUME IInv, UNCHANGED <<account, cooldown>>, owed' \in [Users -> Int],
           NEW s \in Resets, NEW c \in Codes(s), Delete(s, c),
           NEW r \in Requests, NEW q \in Req, q.pc \in {"issue", "password"}, req' = [req EXCEPT ![r] = q],
           code[s][c] \in {None, req[r].user, q.user} \/ req[r].overtaken
    PROVE  /\ TInv' /\ HeldInv' /\ Stays
           /\ \A u \in Users \ {q.user} : Claims(u)' \subseteq Claims(u)
           /\ \A u \in Users : /\ Claims(u)' \subseteq (Claims(u) \ {<<s, c>>}) \cup {<<"request", r>>}
                               /\ code[s][c] = u => <<s, c>> \in Claims(u)
<1>0. TInv /\ CodesTyped /\ s \in Stores
  BY Typed DEF IInv
<1>1. /\ CodesTyped'
      /\ code'[s][c] = None
      /\ \A t \in Stores : \A d \in Codes(t) : (t # s \/ d # c) => code'[t][d] = code[t][d]
  <2>1. Becomes(s, c, None) /\ None \in Users \cup {None}
    BY DEF Delete, Becomes
  <2>2. QED
    BY <1>0, <2>1, CodeChanges
<1>2. \A t \in Stores : \A d \in Codes(t) : code'[t][d] \in {code[t][d], None}
  <2>1. SUFFICES ASSUME NEW t \in Stores, NEW d \in Codes(t)
                 PROVE  code'[t][d] \in {code[t][d], None}
    OBVIOUS
  <2>2. CASE t = s /\ d = c
    BY <1>1, <2>2
  <2>3. CASE t # s \/ d # c
    BY <1>1, <2>3
  <2>4. QED
    BY <2>2, <2>3
<1>3. /\ req' \in [Requests -> Req]
      /\ req'[r] = q
      /\ \A p \in Requests \ {r} : req'[p] = req[p]
  BY <1>0, ReqChanges
<1>4. TInv'
  BY <1>0, <1>1, <1>3, Kinds, TypedNext
<1>5. HeldInv'
  BY <1>2, <1>3, Losing
<1>6. Stays
  <2>1. SUFFICES ASSUME NEW t \in Stores, NEW d \in Codes(t), NEW p \in Requests,
                        code[t][d] # None, code'[t][d] = None, req'[p] # req[p]
                 PROVE  code[t][d] \in {req[p].user, req'[p].user} \/ req[p].overtaken
    BY DEF Stays
  <2>2. t = s /\ d = c /\ p = r
    BY <1>1, <1>3, <2>1
  <2>3. QED
    BY <1>3, <2>1, <2>2
<1>7. ASSUME NEW u \in Users, NEW x, Claim(x, u)'
      PROVE  (Claim(x, u) /\ x # <<s, c>>) \/ (x[1] = "request" /\ x[2] = r /\ q.user = u)
  <2>1. CASE x[1] \in Resets /\ x[2] \in Codes(x[1]) /\ code'[x[1]][x[2]] = u
    <3>1. x[1] \in Stores
      BY <2>1 DEF Resets, Stores
    <3>2. x[1] # s \/ x[2] # c
      BY <1>1, <2>1, NoneAssumption
    <3>3. code[x[1]][x[2]] = u
      BY <1>1, <2>1, <3>1, <3>2
    <3>4. x # <<s, c>>
      BY <3>2
    <3>5. QED
      BY <2>1, <3>3, <3>4 DEF Claim
  <2>2. CASE x[1] = "request" /\ x[2] \in Requests /\ Owes(req'[x[2]], u)
    <3>1. CASE x[2] = r
      BY <1>3, <2>2, <3>1 DEF Owes
    <3>2. CASE x[2] # r
      <4>1. Owes(req[x[2]], u)
        BY <1>3, <2>2, <3>2
      <4>2. s # "request"
        BY DEF Resets
      <4>3. x # <<s, c>>
        BY <2>2, <4>2
      <4>4. QED
        BY <2>2, <4>1, <4>3 DEF Claim
    <3>3. QED
      BY <3>1, <3>2
  <2>3. QED
    BY <1>7, <2>1, <2>2 DEF Claim, Owes, Codes
<1>8. ASSUME NEW u \in Users, NEW x \in Claims(u)'
      PROVE  (x \in Claims(u) /\ x # <<s, c>>) \/ (x = <<"request", r>> /\ q.user = u)
  <2>1. Claim(x, u)' /\ x \in {"reset_password", "reset_grant", "request"} \X (ResetCodes \cup GrantCodes \cup Requests)
    BY <1>8 DEF Claims
  <2>2. CASE Claim(x, u) /\ x # <<s, c>>
    BY <2>1, <2>2 DEF Claims
  <2>3. CASE x[1] = "request" /\ x[2] = r /\ q.user = u
    BY <2>1, <2>3
  <2>4. QED
    BY <1>7, <2>1, <2>2, <2>3
<1>9. \A u \in Users : code[s][c] = u => <<s, c>> \in Claims(u)
  BY StoreCodes DEF Claims, Claim, Resets
<1>10. \A u \in Users \ {q.user} : Claims(u)' \subseteq Claims(u)
  BY <1>8
<1>11. \A u \in Users : Claims(u)' \subseteq (Claims(u) \ {<<s, c>>}) \cup {<<"request", r>>}
  BY <1>8
<1>12. QED
  BY <1>4, <1>5, <1>6, <1>9, <1>10, <1>11

\* How each way to change the claims of a user shows in their number.
LEMMA Counted ==
    ASSUME IInv, NEW u \in Users, NEW A
    PROVE  /\ A \subseteq Claims(u) => Cardinality(A) <= owed[u]
           /\ \A y : A \subseteq Claims(u) \cup {y} => Cardinality(A) <= owed[u] + 1
           /\ \A x \in Claims(u) : A \subseteq Claims(u) \ {x} => Cardinality(A) <= owed[u] - 1
           /\ \A x \in Claims(u) : \A y : A \subseteq (Claims(u) \ {x}) \cup {y} => Cardinality(A) <= owed[u]
<1> DEFINE B == Claims(u)
<1>1. IsFiniteSet(B) /\ Cardinality(B) <= owed[u] /\ owed[u] \in Int
  BY ClaimsFinite DEF IInv, Balance, TInv, TypeOK
<1>. HIDE DEF B
<1>2. /\ Cardinality(B) \in Nat
      /\ A \subseteq B => Cardinality(A) \in Nat /\ Cardinality(A) <= Cardinality(B)
      /\ \A y : A \subseteq B \cup {y} => Cardinality(A) \in Nat /\ Cardinality(A) <= Cardinality(B) + 1
      /\ \A x \in B : A \subseteq B \ {x} => Cardinality(A) \in Nat /\ Cardinality(A) <= Cardinality(B) - 1
      /\ \A x \in B : \A y : A \subseteq (B \ {x}) \cup {y} =>
            Cardinality(A) \in Nat /\ Cardinality(A) <= Cardinality(B)
  BY <1>1, Counting
<1>3. A \subseteq B => Cardinality(A) <= owed[u]
  BY <1>1, <1>2
<1>4. ASSUME NEW y, A \subseteq B \cup {y}
      PROVE  Cardinality(A) <= owed[u] + 1
  BY <1>1, <1>2, <1>4
<1>5. ASSUME NEW x \in B, A \subseteq B \ {x}
      PROVE  Cardinality(A) <= owed[u] - 1
  BY <1>1, <1>2, <1>5
<1>6. ASSUME NEW x \in B, NEW y, A \subseteq (B \ {x}) \cup {y}
      PROVE  Cardinality(A) <= owed[u]
  BY <1>1, <1>2, <1>6
<1>7. QED
  BY <1>3, <1>4, <1>5, <1>6 DEF B

LEMMA Consuming ==
    ASSUME IInv, NEW r \in Requests, VerifyResetConsume(r)
    PROVE  IInv' /\ Stays
<1> DEFINE q == [Closed EXCEPT !.pc = "issue", !.user = req[r].user, !.store = "reset_grant"]
<1>1. /\ TInv
      /\ req[r].pc = "consume"
      /\ Delete("reset_password", req[r].code)
      /\ UNCHANGED <<account, cooldown>>
      /\ req' = [req EXCEPT ![r] = q]
      /\ owed' = [owed EXCEPT ![req[r].user] = IF code["reset_password"][req[r].code] = req[r].user THEN @ ELSE @ + 1]
  BY DEF VerifyResetConsume, IInv, Consume, Peek
<1>2. PICK v \in Users : v = req[r].user
  BY <1>1, Held
<1>3. PICK c \in Codes("reset_password") : c = req[r].code
  BY <1>1, Held
<1>4. q \in Req /\ q.pc = "issue" /\ q.user = v
  BY <1>2 DEF Closed, Req, Request, WellFormed, Stores
<1>. HIDE DEF q
<1>5. owed \in [Users -> Int] /\ owed' \in [Users -> Int]
  BY <1>1, <1>2, Kinds
<1>6. code["reset_password"][c] \in {None, req[r].user, q.user} \/ req[r].overtaken
  BY <1>1, <1>3, Held DEF IInv, HeldInv
<1>7. Delete("reset_password", c) /\ "reset_password" \in Resets
  BY <1>1, <1>3 DEF Resets
<1>8. /\ TInv' /\ HeldInv' /\ Stays
      /\ \A u \in Users \ {q.user} : Claims(u)' \subseteq Claims(u)
      /\ \A u \in Users : /\ Claims(u)' \subseteq (Claims(u) \ {<<"reset_password", c>>}) \cup {<<"request", r>>}
                          /\ code["reset_password"][c] = u => <<"reset_password", c>> \in Claims(u)
  BY <1>1, <1>4, <1>5, <1>6, <1>7, Taking
<1>9. ASSUME NEW u \in Users
      PROVE  Cardinality(Claims(u)') <= owed'[u]
  <2>1. CASE u # v
    BY <1>1, <1>2, <1>4, <1>5, <1>8, <2>1, Counted
  <2>2. CASE u = v /\ code["reset_password"][c] = v
    <3>1. owed'[u] = owed[u]
      BY <1>1, <1>2, <1>3, <1>5, <2>2
    <3>2. QED
      BY <1>8, <2>2, <3>1, Counted
  <2>3. CASE u = v /\ code["reset_password"][c] # v
    <3>1. owed'[u] = owed[u] + 1
      BY <1>1, <1>2, <1>3, <1>5, <2>3
    <3>2. Claims(u)' \subseteq Claims(u) \cup {<<"request", r>>}
      BY <1>8
    <3>3. QED
      BY <3>1, <3>2, Counted
  <2>4. QED
    BY <2>1, <2>2, <2>3
<1>10. QED
  BY <1>8, <1>9 DEF IInv, Balance

LEMMA Redeeming ==
    ASSUME IInv, NEW r \in Requests, NEW s \in Stores, NEW c \in Codes(s), ResetPassword(r, s, c)
    PROVE  IInv' /\ Stays
<1> DEFINE q == [Closed EXCEPT !.pc = "password", !.user = code[s][c], !.code = None, !.store = None]
<1>1. /\ TInv
      /\ s \in Resets
      /\ Delete(s, c)
      /\ code[s][c] # None
      /\ UNCHANGED <<account, cooldown, owed>>
      /\ req' = [req EXCEPT ![r] = q]
  BY DEF ResetPassword, IInv, Consume, Peek, Open, Resets, Stores
<1>2. PICK v \in Users : v = code[s][c]
  BY <1>1, Typed DEF CodesTyped
<1>3. q \in Req /\ q.pc = "password" /\ q.user = v
  BY <1>2 DEF Closed, Req, Request, WellFormed
<1>. HIDE DEF q
<1>4. owed' \in [Users -> Int]
  BY <1>1, Kinds
<1>5. code[s][c] \in {None, req[r].user, q.user} \/ req[r].overtaken
  BY <1>2, <1>3
<1>6. /\ TInv' /\ HeldInv' /\ Stays
      /\ \A u \in Users \ {q.user} : Claims(u)' \subseteq Claims(u)
      /\ \A u \in Users : /\ Claims(u)' \subseteq (Claims(u) \ {<<s, c>>}) \cup {<<"request", r>>}
                          /\ code[s][c] = u => <<s, c>> \in Claims(u)
  BY <1>1, <1>3, <1>4, <1>5, Taking
<1>7. ASSUME NEW u \in Users
      PROVE  Cardinality(Claims(u)') <= owed'[u]
  <2>1. CASE u # v
    <3>1. Claims(u)' \subseteq Claims(u)
      BY <1>3, <1>6, <2>1
    <3>2. Cardinality(Claims(u)') <= owed[u]
      BY <3>1, Counted
    <3>3. QED
      BY <1>1, <3>2
  <2>2. CASE u = v
    <3>1. /\ <<s, c>> \in Claims(u)
          /\ Claims(u)' \subseteq (Claims(u) \ {<<s, c>>}) \cup {<<"request", r>>}
      BY <1>2, <1>6, <2>2
    <3>2. Cardinality(Claims(u)') <= owed[u]
      BY <3>1, Counted
    <3>3. QED
      BY <1>1, <3>2
  <2>3. QED
    BY <2>1, <2>2
<1>8. QED
  BY <1>6, <1>7 DEF IInv, Balance

LEMMA Setting ==
    ASSUME IInv, NEW r \in Requests, ResetPasswordCommit(r)
    PROVE  IInv' /\ Stays
<1>1. /\ TInv
      /\ req[r].pc = "password"
      /\ Finish(r)
      /\ UNCHANGED <<account, code, cooldown>>
  BY DEF ResetPasswordCommit, IInv
<1>2. PICK v \in Users : v = req[r].user
  BY <1>1, Held
<1>3. owed' = [owed EXCEPT ![v] = @ - 1] /\ owed \in [Users -> Int] /\ owed' \in [Users -> Int]
  BY <1>1, <1>2, Kinds DEF ResetPasswordCommit
<1>4. /\ req' \in [Requests -> Req]
      /\ req'[r].pc = "idle"
      /\ \A p \in Requests \ {r} : req'[p] = req[p]
  BY <1>1, FinishReq
<1>5. TInv'
  <2>1. CodesTyped'
    BY <1>1, Typed DEF CodesTyped, Codes
  <2>2. QED
    BY <1>1, <1>3, <1>4, <2>1, Kinds, TypedNext
<1>6. HeldInv' /\ Stays
  <2>1. HeldInv'
    BY <1>1, <1>4 DEF IInv, HeldInv
  <2>2. Stays
    BY <1>1 DEF Stays
  <2>3. QED
    BY <2>1, <2>2
<1>7. ASSUME NEW u \in Users
      PROVE  /\ Claims(u)' \subseteq Claims(u) \ {<<"request", r>>}
             /\ u = v => <<"request", r>> \in Claims(u)
  <2>1. ASSUME NEW x, Claim(x, u)'
        PROVE  Claim(x, u) /\ x # <<"request", r>>
    <3>1. CASE x[1] \in Resets /\ x[2] \in Codes(x[1]) /\ code'[x[1]][x[2]] = u
      BY <1>1, <3>1 DEF Claim, Resets
    <3>2. CASE x[1] = "request" /\ x[2] \in Requests /\ Owes(req'[x[2]], u)
      BY <1>4, <3>2 DEF Claim, Owes
    <3>3. QED
      BY <2>1, <3>1, <3>2 DEF Claim, Owes, Codes
  <2>2. Claims(u)' \subseteq Claims(u) \ {<<"request", r>>}
    BY <2>1 DEF Claims
  <2>3. u = v => <<"request", r>> \in Claims(u)
    BY <1>1, <1>2 DEF Claims, Claim, Owes
  <2>4. QED
    BY <2>2, <2>3
<1>8. ASSUME NEW u \in Users
      PROVE  Cardinality(Claims(u)') <= owed'[u]
  <2>1. CASE u # v
    <3>1. owed'[u] = owed[u]
      BY <1>3, <2>1
    <3>2. Claims(u)' \subseteq Claims(u)
      BY <1>7
    <3>3. Cardinality(Claims(u)') <= owed[u]
      BY <3>2, Counted
    <3>4. QED
      BY <3>1, <3>3
  <2>2. CASE u = v
    <3>1. owed'[u] = owed[u] - 1
      BY <1>3, <2>2
    <3>2. <<"request", r>> \in Claims(u) /\ Claims(u)' \subseteq Claims(u) \ {<<"request", r>>}
      BY <1>7, <2>2
    <3>3. Cardinality(Claims(u)') <= owed[u] - 1
      BY <3>2, Counted
    <3>4. QED
      BY <3>1, <3>3
  <2>3. QED
    BY <2>1, <2>2
<1>9. QED
  BY <1>5, <1>6, <1>8 DEF IInv, Balance
\* The requests after a code is issued: one closed, those that had found the
\* code in order overtaken.
Overtakes(r, s, c) ==
    req' = [q \in Requests |->
              IF q = r THEN Closed
              ELSE IF Holds(req[q], s, c) THEN [req[q] EXCEPT !.overtaken = TRUE]
              ELSE req[q]]

LEMMA Overtaking ==
    ASSUME TInv, NEW r \in Requests, NEW s, NEW c,
           Overtakes(r, s, c)
    PROVE  /\ req' \in [Requests -> Req]
           /\ req'[r].pc = "idle"
           /\ \A p \in Requests \ {r} : /\ req'[p].pc = req[p].pc /\ req'[p].user = req[p].user
                                        /\ req'[p].store = req[p].store /\ req'[p].code = req[p].code
                                        /\ req'[p].overtaken <=> (req[p].overtaken \/ Holds(req[p], s, c))
<1>1. Closed \in Req /\ Closed.pc = "idle"
  BY ClosedIsReq DEF Closed
<1>2. ASSUME NEW q \in Req
      PROVE  LET z == [q EXCEPT !.overtaken = TRUE]
             IN  z \in Req /\ z.pc = q.pc /\ z.user = q.user /\ z.store = q.store /\ z.code = q.code /\ z.overtaken
  BY DEF Req, Request, WellFormed
<1>3. \A q \in Requests : req[q] \in Req /\ req[q].overtaken \in BOOLEAN
  BY DEF TInv, Req, Request
<1>4. \A p \in Requests : req'[p] \in Req
  BY <1>1, <1>2, <1>3 DEF Overtakes
<1>5. req' \in [Requests -> Req] /\ req'[r].pc = "idle"
  BY <1>1, <1>4 DEF Overtakes
<1>6. ASSUME NEW p \in Requests \ {r}
      PROVE  /\ req'[p].pc = req[p].pc /\ req'[p].user = req[p].user
             /\ req'[p].store = req[p].store /\ req'[p].code = req[p].code
             /\ req'[p].overtaken <=> (req[p].overtaken \/ Holds(req[p], s, c))
  <2>1. CASE Holds(req[p], s, c)
    <3>1. req'[p] = [req[p] EXCEPT !.overtaken = TRUE]
      BY <2>1 DEF Overtakes
    <3>2. QED
      BY <1>2, <1>3, <2>1, <3>1
  <2>2. CASE ~Holds(req[p], s, c)
    <3>1. req'[p] = req[p]
      BY <2>2 DEF Overtakes
    <3>2. QED
      BY <1>3, <2>2, <3>1
  <2>3. QED
    BY <2>1, <2>2
<1>7. QED
  BY <1>5, <1>6

LEMMA Reserving ==
    ASSUME IInv, NEW r \in Requests, NEW c \in AllCodes, Reserve(r, c)
    PROVE  IInv' /\ Stays
<1>1. TInv /\ CodesTyped /\ req[r].pc = "issue" /\ UNCHANGED <<account, cooldown>>
  BY Typed DEF Reserve, IInv
<1>2. PICK v \in Users : v = req[r].user
  BY <1>1, Held
<1>3. PICK s \in Stores : s = req[r].store
  BY <1>1, Held
<1>4. /\ c \in Codes(s) /\ code[s][c] = None /\ Becomes(s, c, v)
      /\ owed' = [owed EXCEPT ![v] = IF s = "reset_password" THEN @ + 1 ELSE @]
      /\ Overtakes(r, s, c)
  BY <1>2, <1>3 DEF Reserve, Becomes, Overtakes
<1>5. /\ CodesTyped'
      /\ code'[s][c] = v
      /\ \A t \in Stores : \A d \in Codes(t) : (t # s \/ d # c) => code'[t][d] = code[t][d]
  BY <1>1, <1>4, CodeChanges
<1>6. /\ req' \in [Requests -> Req]
      /\ req'[r].pc = "idle"
      /\ \A p \in Requests \ {r} : /\ req'[p].pc = req[p].pc /\ req'[p].user = req[p].user
                                   /\ req'[p].store = req[p].store /\ req'[p].code = req[p].code
                                   /\ req'[p].overtaken <=> (req[p].overtaken \/ Holds(req[p], s, c))
  BY <1>1, <1>4, Overtaking
<1>7. /\ owed \in [Users -> Int] /\ owed' \in [Users -> Int]
      /\ \A u \in Users : owed'[u] = IF u = v /\ s = "reset_password" THEN owed[u] + 1 ELSE owed[u]
  BY <1>1, <1>4, Kinds
<1>8. TInv'
  BY <1>1, <1>5, <1>6, <1>7, Kinds, TypedNext
<1>9. HeldInv'
  <2>1. SUFFICES ASSUME NEW p \in Requests, req'[p].pc \in {"burn", "consume"}
                 PROVE  code'[req'[p].store][req'[p].code] \in {req'[p].user, None} \/ req'[p].overtaken
    BY DEF HeldInv
  <2>2. p # r /\ req[p].pc \in {"burn", "consume"}
    BY <1>6, <2>1
  <2>3. req[p].store \in Stores /\ req[p].code \in Codes(req[p].store)
    BY <1>1, <2>2, Held DEF Stores
  <2>4. code[req[p].store][req[p].code] \in {req[p].user, None} \/ req[p].overtaken
    BY <2>2 DEF IInv, HeldInv
  <2>5. CASE req[p].store = s /\ req[p].code = c
    BY <1>6, <2>2, <2>5 DEF Holds
  <2>6. CASE req[p].store # s \/ req[p].code # c
    <3>1. code'[req[p].store][req[p].code] = code[req[p].store][req[p].code]
      BY <1>5, <2>3, <2>6
    <3>2. QED
      BY <1>6, <2>2, <2>4, <3>1
  <2>7. QED
    BY <2>5, <2>6
<1>10. Stays
  <2>1. ASSUME NEW t \in Stores, NEW d \in Codes(t), code[t][d] # None
        PROVE  code'[t][d] = code[t][d]
    BY <1>4, <1>5, <2>1
  <2>2. QED
    BY <2>1 DEF Stays
<1>11. ASSUME NEW u \in Users, NEW x, Claim(x, u)'
       PROVE  \/ Claim(x, u) /\ x # <<"request", r>>
              \/ x[1] = s /\ x[2] = c /\ u = v /\ s \in Resets
  <2>1. CASE x[1] \in Resets /\ x[2] \in Codes(x[1]) /\ code'[x[1]][x[2]] = u
    <3>1. x[1] \in Stores /\ x[1] # "request"
      BY <2>1 DEF Resets, Stores
    <3>2. x # <<"request", r>>
      BY <3>1
    <3>3. CASE x[1] = s /\ x[2] = c
      BY <1>5, <2>1, <3>3
    <3>4. CASE x[1] # s \/ x[2] # c
      <4>1. code[x[1]][x[2]] = u
        BY <1>5, <2>1, <3>1, <3>4
      <4>2. QED
        BY <2>1, <3>2, <4>1 DEF Claim
    <3>5. QED
      BY <3>3, <3>4
  <2>2. CASE x[1] = "request" /\ x[2] \in Requests /\ Owes(req'[x[2]], u)
    <3>1. x[2] # r
      BY <1>6, <2>2 DEF Owes
    <3>2. Owes(req[x[2]], u)
      BY <1>6, <2>2, <3>1 DEF Owes
    <3>3. QED
      BY <2>2, <3>1, <3>2 DEF Claim
  <2>3. QED
    BY <1>11, <2>1, <2>2 DEF Claim, Owes, Codes
<1>12. ASSUME NEW u \in Users, NEW x \in Claims(u)'
       PROVE  \/ x \in Claims(u) /\ x # <<"request", r>>
              \/ x = <<s, c>> /\ u = v /\ s \in Resets
  <2>1. Claim(x, u)' /\ x \in {"reset_password", "reset_grant", "request"} \X (ResetCodes \cup GrantCodes \cup Requests)
    BY <1>12 DEF Claims
  <2>2. CASE Claim(x, u) /\ x # <<"request", r>>
    BY <2>1, <2>2 DEF Claims
  <2>3. CASE x[1] = s /\ x[2] = c /\ u = v /\ s \in Resets
    BY <2>1, <2>3
  <2>4. QED
    BY <1>11, <2>1, <2>2, <2>3
<1>13. ASSUME NEW u \in Users
       PROVE  Cardinality(Claims(u)') <= owed'[u]
  <2>1. CASE u # v \/ s = "verify_email"
    <3>1. owed'[u] = owed[u]
      BY <1>7, <2>1
    <3>2. Claims(u)' \subseteq Claims(u)
      BY <1>12, <2>1 DEF Resets
    <3>3. Cardinality(Claims(u)') <= owed[u]
      BY <3>2, Counted
    <3>4. QED
      BY <3>1, <3>3
  <2>2. CASE u = v /\ s = "reset_password"
    <3>1. owed'[u] = owed[u] + 1
      BY <1>7, <2>2
    <3>2. Claims(u)' \subseteq Claims(u) \cup {<<s, c>>}
      BY <1>12
    <3>3. Cardinality(Claims(u)') <= owed[u] + 1
      BY <3>2, Counted
    <3>4. QED
      BY <3>1, <3>3
  <2>3. CASE u = v /\ s = "reset_grant"
    <3>1. owed'[u] = owed[u]
      BY <1>7, <2>3
    <3>2. Claims(u)' \subseteq (Claims(u) \ {<<"request", r>>}) \cup {<<s, c>>}
      BY <1>12
    <3>3. <<"request", r>> \in Claims(u)
      BY <1>1, <1>2, <1>3, <2>3 DEF Claims, Claim, Owes
    <3>4. Cardinality(Claims(u)') <= owed[u]
      BY <3>2, <3>3, Counted
    <3>5. QED
      BY <3>1, <3>4
  <2>4. QED
    BY <2>1, <2>2, <2>3 DEF Stores
<1>14. QED
  BY <1>8, <1>9, <1>10, <1>13 DEF IInv, Balance

-----------------------------------------------------------------------------
(* The theorems                                                            *)

LEMMA Initially == Init => IInv
<1>1. SUFFICES ASSUME Init PROVE IInv
  OBVIOUS
<1>2. code = [s \in Stores |-> [c \in Codes(s) |-> None]]
  BY <1>1 DEF Init
<1>3. \A s \in Stores : \A c \in Codes(s) : code[s][c] = None
  BY <1>2
<1>4. CodesTyped
  <2>1. \A s \in Stores : code[s] = [c \in Codes(s) |-> None]
    BY <1>2
  <2>2. QED
    BY <1>2, <2>1 DEF CodesTyped
<1>5. /\ account \in [Users -> {"absent", "unverified", "verified"}]
      /\ cooldown \in [Users -> BOOLEAN]
      /\ owed \in [Users -> Int] /\ \A u \in Users : owed[u] = 0
      /\ req \in [Requests -> Req] /\ \A r \in Requests : req[r].pc = "idle"
  BY <1>1, ClosedIsReq DEF Init, Closed
<1>6. TInv
  BY <1>4, <1>5 DEF TInv, TypeOK, CodesTyped, Req
<1>7. HeldInv
  BY <1>5 DEF HeldInv
<1>8. ASSUME NEW u \in Users
      PROVE  Cardinality(Claims(u)) <= owed[u]
  <2>1. ASSUME NEW x, Claim(x, u)
        PROVE  FALSE
    <3>1. CASE x[1] \in Resets /\ x[2] \in Codes(x[1]) /\ code[x[1]][x[2]] = u
      <4>1. x[1] \in Stores
        BY <3>1 DEF Resets, Stores
      <4>2. QED
        BY <1>3, <3>1, <4>1, NoneAssumption
    <3>2. CASE x[1] = "request" /\ x[2] \in Requests /\ Owes(req[x[2]], u)
      BY <1>5, <3>2 DEF Owes
    <3>3. QED
      BY <2>1, <3>1, <3>2 DEF Claim
  <2>2. Claims(u) = {}
    BY <2>1 DEF Claims
  <2>3. Cardinality(Claims(u)) = 0
    BY <2>2, FS_EmptySet
  <2>4. QED
    BY <1>5, <2>3
<1>9. QED
  BY <1>6, <1>7, <1>8 DEF IInv, Balance

LEMMA Inductive == IInv /\ Next => IInv' /\ Stays
<1>1. SUFFICES ASSUME IInv, Next PROVE IInv' /\ Stays
  OBVIOUS
<1>2. ASSUME NEW r \in Requests, Step(r)
      PROVE  IInv' /\ Stays
  BY <1>1, <1>2, Reserving, QuietSteps, Burning, Consuming, Setting DEF Step
<1>3. ASSUME NEW r \in Requests, ArriveVerification(r)
      PROVE  IInv' /\ Stays
  <2>1. CASE \E u \in Users : Register(r, u) \/ ResendVerification(r, u)
    BY <1>1, <2>1, QuietArrivals
  <2>2. CASE \E u \in Users, c \in VerifyCodes : VerifyEmail(r, u, c)
    <3>1. PICK u \in Users, c \in VerifyCodes : VerifyEmail(r, u, c)
      BY <2>2
    <3>2. c \in AllCodes
      BY DEF AllCodes
    <3>3. QED
      BY <1>1, <3>1, <3>2, Checking
  <2>3. QED
    BY <1>3, <2>1, <2>2 DEF ArriveVerification
<1>4. ASSUME NEW r \in Requests, ArriveReset(r)
      PROVE  IInv' /\ Stays
  <2>1. CASE \E u \in Users : ForgotPassword(r, u)
    BY <1>1, <2>1, QuietArrivals
  <2>2. CASE \E u \in Users, c \in ResetCodes : VerifyResetCode(r, u, c)
    <3>1. PICK u \in Users, c \in ResetCodes : VerifyResetCode(r, u, c)
      BY <2>2
    <3>2. c \in AllCodes
      BY DEF AllCodes
    <3>3. QED
      BY <1>1, <3>1, <3>2, Checking
  <2>3. CASE \E s \in Stores : \E c \in Codes(s) : ResetPassword(r, s, c)
    BY <1>1, <2>3, Redeeming
  <2>4. QED
    BY <1>4, <2>1, <2>2, <2>3 DEF ArriveReset
<1>5. CASE \E s \in Stores : \E c \in Codes(s) : ExpireCode(s, c)
  BY <1>1, <1>5, Expiring
<1>6. CASE Crash \/ \E u \in Users : CooldownEnds(u)
  BY <1>1, <1>6, Outside
<1>7. QED
  BY <1>1, <1>2, <1>3, <1>4, <1>5, <1>6 DEF Next

LEMMA Stutters == IInv /\ UNCHANGED vars => IInv' /\ Stays
<1>1. SUFFICES ASSUME IInv, UNCHANGED vars PROVE IInv' /\ Stays
  OBVIOUS
<1>2. /\ req' \in [Requests -> Req] /\ req' = req
      /\ UNCHANGED <<account, code, cooldown, owed>>
  BY <1>1 DEF vars, IInv, TInv
<1>3. /\ account' \in [Users -> {"absent", "unverified", "verified"}]
      /\ cooldown' \in [Users -> BOOLEAN]
  BY <1>1, <1>2, Kinds DEF IInv
<1>4. QED
  BY <1>1, <1>2, <1>3, CodeKept

LEMMA Invariance == Spec => []IInv
<1>1. IInv /\ [Next]_vars => IInv'
  BY Inductive, Stutters
<1>2. QED
  BY <1>1, Initially, PTL DEF Spec

\* The accounts, codes, cooldowns and requests of auth/service.py always have
\* the values their rows, keys and steps allow.
THEOREM TypeCorrect == Spec => []TypeOK
<1>1. IInv => TypeOK
  BY DEF IInv, TInv
<1>2. QED
  BY <1>1, Invariance, PTL

\* However requests for reset codes, checks of them and changes of password
\* interleave, restart or meet codes drawn again, no mailed code sets a
\* password twice (a grant issued for a code that had gone counts as a code of
\* its own).
THEOREM ChangesAreMailed == Spec => []OneChangePerCode
<1>1. IInv => OneChangePerCode
  <2>1. SUFFICES ASSUME IInv, NEW u \in Users PROVE owed[u] >= 0
    BY DEF OneChangePerCode
  <2>2. Cardinality(Claims(u)) \in Nat
    BY ClaimsFinite, FS_CardinalityType
  <2>3. Cardinality(Claims(u)) <= owed[u] /\ owed[u] \in Int
    BY <2>1, Kinds DEF IInv, Balance
  <2>4. QED
    BY <2>2, <2>3
<1>2. QED
  BY <1>1, Invariance, PTL

\* A request deletes a live code only of the user it names, unless the code
\* was issued anew after the request had found it in order.
THEOREM CodesAreKept == Spec => CodesStayWithOwners
<1>1. IInv /\ [Next]_vars => [Stays]_vars
  BY Inductive
<1>2. QED
  BY <1>1, Invariance, PTL DEF Spec, CodesStayWithOwners, Stays

=============================================================================
