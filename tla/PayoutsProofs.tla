---------------------------- MODULE PayoutsProofs ----------------------------
(* Theorems about Payouts, for every choice of purses, payouts, amounts and  *)
(* sessions.                                                                 *)
EXTENDS Payouts, SumLemmas, TLAPS

-----------------------------------------------------------------------------
(* Sessions, locks and balances keep their types under the ways they are     *)
(* written.                                                                  *)

LEMMA NoRequestIsTyped == NoRequest \in Request
BY DEF NoRequest, NoShares, Request, Scopes

LEMMA ClosedIsTyped == Closed \in Session
BY DEF Closed, Session

LEMMA ProceedIsTyped ==
    ASSUME req \in [Requesters -> Request], NEW s \in Requesters,
           NEW next \in Request, Proceed(s, next)
    PROVE  req' \in [Requesters -> Request]
BY DEF Proceed

LEMMA BecomeIsTyped ==
    ASSUME sess \in [Deciders -> Session], NEW s \in Deciders,
           NEW next \in Session, Become(s, next)
    PROVE  sess' \in [Deciders -> Session]
BY DEF Become

LEMMA CloseIsTyped ==
    ASSUME sess \in [Deciders -> Session], NEW s \in Deciders, Close(s)
    PROVE  sess' \in [Deciders -> Session]
BY ClosedIsTyped, BecomeIsTyped DEF Close

LEMMA ReleaseIsTyped ==
    ASSUME TypeOK, NEW s \in Requesters, Release(s)
    PROVE  /\ exclusive' \in [Scopes -> Requesters \cup {Nobody}]
           /\ shared' \in [Scopes -> SUBSET Requesters]
BY DEF TypeOK, Release

LEMMA CountedIsNat ==
    ASSUME NEW status, NEW amount \in Nat
    PROVE  Counted(status, amount) \in Nat
BY DEF Counted

\* A payout keeps its scope and its amount; only its status is written.
LEMMA SetStatusIsTyped ==
    ASSUME TypeOK, NEW i \in Ids, NEW status \in Status, NEW ref \in Ref,
           SetStatus(i, status, ref)
    PROVE  /\ payout' \in [Ids -> Payout]
           /\ outstanding' \in [Scopes -> Int]
           /\ allocated' \in [Purses -> Int]
           /\ collected' = collected
           /\ allocation' = allocation
<1>1. payout[i] \in Payout
    BY DEF TypeOK
<1>2. /\ [payout[i] EXCEPT !.status = status, !.ref = ref] \in Payout
      /\ payout[i].amount \in Nat /\ payout[i].scope \in Scopes
    BY <1>1 DEF Payout
<1>3. payout' \in [Ids -> Payout]
    BY <1>2 DEF SetStatus, TypeOK
<1>4. outstanding' \in [Scopes -> Int]
    <2>1. /\ Counted(payout[i].status, payout[i].amount) \in Nat
          /\ Counted(status, payout[i].amount) \in Nat
        BY <1>2, CountedIsNat
    <2> QED BY <1>2, <2>1 DEF SetStatus, TypeOK
<1>5. allocated' \in [Purses -> Int]
    <2>1. ASSUME NEW p \in Purses
          PROVE  /\ Counted(payout[i].status, allocation[i][p]) \in Nat
                 /\ Counted(status, allocation[i][p]) \in Nat
        BY CountedIsNat DEF TypeOK
    <2>2. \A p \in Purses :
             allocated[p] - Counted(payout[i].status, allocation[i][p])
                          + Counted(status, allocation[i][p]) \in Int
        BY <2>1 DEF TypeOK
    <2> QED BY <2>2 DEF SetStatus
<1> QED BY <1>3, <1>4, <1>5 DEF SetStatus

-----------------------------------------------------------------------------
(* Type correctness, one step per action.                                    *)

LEMMA TypeStart ==
    ASSUME TypeOK, NEW s \in Requesters, NEW i \in Ids, CreateStart(s, i)
    PROVE  TypeOK'
<1>1. PICK x \in Requestable, amount \in Amounts :
          Proceed(s, [NoRequest EXCEPT !.pc = "lock", !.id = i, !.scope = x, !.amount = amount])
    BY DEF CreateStart
<1>2. x \in Scopes /\ amount \in Nat
    BY NamesAssumption, AmountsAssumption
<1>3. [NoRequest EXCEPT !.pc = "lock", !.id = i, !.scope = x, !.amount = amount] \in Request
    BY <1>2, NoRequestIsTyped DEF Request
<1>4. req' \in [Requesters -> Request]
    BY <1>1, <1>3, ProceedIsTyped DEF TypeOK
<1> QED BY <1>4 DEF CreateStart, TypeOK, balanceVars, settingsVars, lockVars, taskVars, outsideVars

LEMMA TypeCreate ==
    ASSUME TypeOK, NEW s \in Requesters, Create(s)
    PROVE  TypeOK'
<1> USE DEF balanceVars, settingsVars, lockVars, taskVars, outsideVars
<1>0. req[s] \in Request
    BY DEF TypeOK
<1>1. CASE CreateLock(s)
    <2>1. [req[s] EXCEPT !.pc = "collect"] \in Request
        BY <1>0, <1>1 DEF Request, CreateLock, Asks
    <2>2. req' \in [Requesters -> Request]
        BY <1>1, <2>1, ProceedIsTyped DEF CreateLock, TypeOK
    <2> QED BY <1>1, <2>2 DEF CreateLock, TypeOK
<1>2. CASE CreateCollect(s)
    <2>1. Restricted(collected, req[s].scope) \in [Purses -> Nat]
        BY DEF Restricted, TypeOK
    <2>2. [req[s] EXCEPT !.pc = "check", !.seen = Restricted(collected, req[s].scope)] \in Request
        BY <1>0, <1>2, <2>1 DEF Request, CreateCollect, Asks
    <2>3. req' \in [Requesters -> Request]
        BY <1>2, <2>2, ProceedIsTyped DEF CreateCollect, TypeOK
    <2> QED BY <1>2, <2>3 DEF CreateCollect, TypeOK
<1>3. CASE CreateCheck(s)
    <2>1. /\ [req[s] EXCEPT !.pc = "share"] \in Request
          /\ [req[s] EXCEPT !.pc = "insert", !.todo = {Group}] \in Request
        BY <1>0, <1>3 DEF Request, CreateCheck, Asks, Scopes
    <2>2. req' \in [Requesters -> Request]
        BY <1>3, <2>1, ProceedIsTyped DEF CreateCheck, TypeOK
    <2> QED BY <1>3, <2>2 DEF CreateCheck, TypeOK
<1>4. CASE CreateRefuse(s)
    <2>1. req' \in [Requesters -> Request]
        BY <1>4, NoRequestIsTyped, ProceedIsTyped DEF CreateRefuse, TypeOK
    <2> QED BY <1>4, <2>1, ReleaseIsTyped DEF CreateRefuse, TypeOK
<1>5. CASE CreateShare(s)
    <2>1. CASE Proceed(s, [req[s] EXCEPT !.pc = "insert"])
        <3>1. [req[s] EXCEPT !.pc = "insert"] \in Request
            BY <1>0, <1>5 DEF Request, CreateShare, Asks
        <3> QED BY <2>1, <3>1, <1>5, ProceedIsTyped DEF CreateShare, TypeOK
    <2>2. CASE \E shares \in [Purses -> 0 .. req[s].amount] :
                  Proceed(s, [req[s] EXCEPT !.pc = "insert", !.shares = shares,
                                            !.todo = {p \in Purses : shares[p] > 0}])
        <3>1. PICK shares \in [Purses -> 0 .. req[s].amount] :
                  Proceed(s, [req[s] EXCEPT !.pc = "insert", !.shares = shares,
                                            !.todo = {p \in Purses : shares[p] > 0}])
            BY <2>2
        <3>2. shares \in [Purses -> Nat]
            BY <1>0 DEF Request
        <3>3. {p \in Purses : shares[p] > 0} \in SUBSET Scopes
            BY DEF Scopes
        <3>4. [req[s] EXCEPT !.pc = "insert", !.shares = shares,
                             !.todo = {p \in Purses : shares[p] > 0}] \in Request
            BY <1>0, <1>5, <3>2, <3>3 DEF Request, CreateShare, Asks
        <3> QED BY <3>1, <3>4, <1>5, ProceedIsTyped DEF CreateShare, TypeOK
    <2> QED BY <1>5, <2>1, <2>2 DEF CreateShare
<1>6. CASE \E x \in Scopes : InsertLock(s, x)
    <2>1. PICK x \in Scopes : InsertLock(s, x)
        BY <1>6
    <2>2. [req[s] EXCEPT !.todo = @ \ {x}] \in Request
        BY <1>0 DEF Request
    <2>3. req' \in [Requesters -> Request]
        BY <2>1, <2>2, ProceedIsTyped DEF InsertLock, TypeOK
    <2> QED BY <2>1, <2>3 DEF InsertLock, TypeOK
<1>7. CASE CreateCommit(s)
    <2>1. /\ req[s].id \in Ids /\ req[s].scope \in Scopes /\ req[s].amount \in Nat
          /\ req[s].shares \in [Purses -> Nat]
        BY <1>0, <1>7 DEF CreateCommit, Asks, Request
    <2>2. payout' \in [Ids -> Payout]
        BY <1>7, <2>1 DEF CreateCommit, TypeOK, Payout, Status, Ref
    <2>3. allocation' \in [Ids -> [Purses -> Nat]]
        BY <1>7, <2>1 DEF CreateCommit, TypeOK
    <2>4. outstanding' \in [Scopes -> Int]
        BY <1>7, <2>1, CountedIsNat DEF CreateCommit, TypeOK
    <2>5. allocated' \in [Purses -> Int]
        <3>1. \A p \in Purses : allocated[p] + Counted("requested", req[s].shares[p]) \in Int
            BY <2>1, CountedIsNat DEF TypeOK
        <3> QED BY <1>7, <3>1 DEF CreateCommit
    <2>6. req' \in [Requesters -> Request]
        BY <1>7, NoRequestIsTyped, ProceedIsTyped DEF CreateCommit, TypeOK
    <2> QED BY <1>7, <2>2, <2>3, <2>4, <2>5, <2>6, ReleaseIsTyped DEF CreateCommit, TypeOK
<1>8. CASE DeadlockAbort(s)
    <2>1. req' \in [Requesters -> Request]
        BY <1>8, NoRequestIsTyped, ProceedIsTyped DEF DeadlockAbort, TypeOK
    <2> QED BY <1>8, <2>1, ReleaseIsTyped DEF DeadlockAbort, TypeOK
<1> QED BY <1>1, <1>2, <1>3, <1>4, <1>5, <1>6, <1>7, <1>8 DEF Create

LEMMA TypeLoad ==
    ASSUME TypeOK, NEW s \in Deciders, NEW i \in Ids,
           ApproveLoad(s, i) \/ RejectLoad(s, i) \/ TransferLoad(s, i) \/ ConfirmLoad(s, i)
    PROVE  TypeOK'
<1> USE DEF balanceVars, settingsVars, lockVars, taskVars, outsideVars
<1>1. ASSUME NEW pc \in {"approve", "reject", "send", "refused"}
      PROVE  [Closed EXCEPT !.pc = pc, !.id = i] \in Session
    BY DEF Closed, Session
<1>2. [pc |-> "confirm", id |-> i, success |-> Succeeded(i)] \in Session
    BY DEF Session, Succeeded
<1>3. sess' \in [Deciders -> Session]
    <2>1. CASE ApproveLoad(s, i)
        BY <2>1, <1>1, BecomeIsTyped DEF ApproveLoad, Open, TypeOK
    <2>2. CASE RejectLoad(s, i)
        BY <2>2, <1>1, BecomeIsTyped DEF RejectLoad, Open, TypeOK
    <2>3. CASE TransferLoad(s, i)
        BY <2>3, <1>1, BecomeIsTyped DEF TransferLoad, Open, TypeOK
    <2>4. CASE ConfirmLoad(s, i)
        BY <2>4, <1>2, BecomeIsTyped DEF ConfirmLoad, Open, TypeOK
    <2> QED BY <2>1, <2>2, <2>3, <2>4
<1> QED BY <1>3 DEF ApproveLoad, RejectLoad, TransferLoad, ConfirmLoad, TypeOK

\* The steps that commit a status.
Decided(s) ==
    \/ ApproveCommit(s) \/ RejectCommit(s)
    \/ MarkInitiated(s) \/ MarkInitiationFailed(s) \/ ConfirmCommit(s)

LEMMA TypeDecided ==
    ASSUME TypeOK, NEW s \in Deciders, Decided(s)
    PROVE  TypeOK'
<1> USE DEF settingsVars, lockVars, taskVars, outsideVars
<1> DEFINE i == sess[s].id
<1>1. i \in Ids /\ sess[s].success \in BOOLEAN
    BY DEF TypeOK, Session, Decided, ApproveCommit, RejectCommit, MarkInitiated,
           MarkInitiationFailed, ConfirmCommit, At
<1>2. payout[i].ref \in Ref
    BY <1>1 DEF TypeOK, Payout
<1>3. Confirmed(sess[s].success) \in Status
    BY DEF Confirmed, Status
<1>4. PICK status \in Status, ref \in Ref : SetStatus(i, status, ref)
    BY <1>2, <1>3 DEF Decided, ApproveCommit, RejectCommit, MarkInitiated,
                      MarkInitiationFailed, ConfirmCommit, Status, Ref
<1>5. /\ payout' \in [Ids -> Payout]
      /\ outstanding' \in [Scopes -> Int]
      /\ allocated' \in [Purses -> Int]
      /\ collected' = collected
      /\ allocation' = allocation
    BY <1>1, <1>4, SetStatusIsTyped
<1>6. sess' \in [Deciders -> Session]
    BY CloseIsTyped DEF Decided, ApproveCommit, RejectCommit, MarkInitiated,
                        MarkInitiationFailed, ConfirmCommit, TypeOK
<1>7. tasks' \subseteq Ids /\ noticed' \subseteq Ids
    BY <1>1 DEF Decided, ApproveCommit, RejectCommit, MarkInitiated,
                MarkInitiationFailed, ConfirmCommit, TypeOK
<1> QED BY <1>5, <1>6, <1>7 DEF Decided, ApproveCommit, RejectCommit, MarkInitiated,
                                MarkInitiationFailed, ConfirmCommit, TypeOK

LEMMA TypeSend ==
    ASSUME TypeOK, NEW s \in Deciders, SendAccepted(s) \/ SendRefused(s) \/ SendLost(s)
    PROVE  TypeOK'
<1> USE DEF balanceVars, settingsVars, lockVars, taskVars, outsideVars
<1>1. sess[s] \in Session /\ sess[s].id \in Ids
    BY DEF TypeOK, Session, SendAccepted, SendRefused, SendLost, At
<1>2. /\ [sess[s] EXCEPT !.pc = "initiated"] \in Session
      /\ [sess[s] EXCEPT !.pc = "refused"] \in Session
    BY <1>1 DEF Session
<1>3. sess' \in [Deciders -> Session]
    BY <1>2, BecomeIsTyped, CloseIsTyped DEF SendAccepted, SendRefused, SendLost, TypeOK
<1>4. transfer' \in [Ids -> {"none", "sent", "paid", "failed", "reversed"}]
    BY <1>1 DEF SendAccepted, SendRefused, SendLost, MaybeSent, TypeOK
<1> QED BY <1>3, <1>4 DEF SendAccepted, SendRefused, SendLost, TypeOK

LEMMA TypeOutside ==
    ASSUME TypeOK, Outside
    PROVE  TypeOK'
<1> USE DEF balanceVars, settingsVars, lockVars, taskVars, outsideVars
<1>1. CASE \E p \in Purses : Collect(p)
    BY <1>1 DEF Collect, TypeOK
<1>2. ASSUME NEW i \in Ids,
             \/ TransferSkip(i) \/ ConfirmSkip(i) \/ TransferEnds(i) \/ TransferReversed(i)
             \/ StoreTransferEvent(i) \/ ReprocessTransferEvent(i)
      PROVE  TypeOK'
    <2>1. CASE TransferSkip(i)
        BY <2>1 DEF TransferSkip, TypeOK
    <2>2. CASE ConfirmSkip(i)
        BY <2>2 DEF ConfirmSkip, TypeOK
    <2>3. CASE TransferEnds(i)
        BY <2>3 DEF TransferEnds, TypeOK
    <2>4. CASE TransferReversed(i)
        BY <2>4 DEF TransferReversed, TypeOK
    <2>5. CASE StoreTransferEvent(i)
        BY <2>5 DEF StoreTransferEvent, TypeOK
    <2>6. CASE ReprocessTransferEvent(i)
        BY <2>6 DEF ReprocessTransferEvent, TypeOK
    <2> QED BY <1>2, <2>1, <2>2, <2>3, <2>4, <2>5, <2>6
<1>3. CASE ToggleCustodian \/ SaveDirect \/ SwitchToCustodian
    BY <1>3 DEF ToggleCustodian, SaveDirect, SwitchToCustodian, TypeOK
<1>4. CASE Crash
    BY <1>4, NoRequestIsTyped, ClosedIsTyped DEF Crash, TypeOK
<1> QED BY <1>1, <1>2, <1>3, <1>4 DEF Outside

LEMMA TypeStep == TypeOK /\ [Next]_vars => TypeOK'
<1> SUFFICES ASSUME TypeOK, [Next]_vars PROVE TypeOK'
    OBVIOUS
<1>1. CASE Next
    <2>1. ASSUME NEW s \in Deciders, Decide(s) PROVE TypeOK'
        BY <2>1, TypeLoad, TypeDecided, TypeSend DEF Decide, Decided
    <2> QED BY <1>1, <2>1, TypeStart, TypeCreate, TypeOutside DEF Next
<1>2. CASE UNCHANGED vars
    BY <1>2 DEF TypeOK, vars, balanceVars, settingsVars, lockVars, taskVars, outsideVars
<1> QED BY <1>1, <1>2

LEMMA TypeInit == Init => TypeOK
BY NoRequestIsTyped, ClosedIsTyped, AccountsAssumption
   DEF Init, TypeOK, Payout, Ref, Scopes, NoShares

\* Every table, lock and session keeps its type under any number of
\* overlapping requests and decisions (the handlers of payouts/service.py).
THEOREM TypeCorrect == Spec => []TypeOK
BY TypeInit, TypeStep, PTL DEF Spec
-----------------------------------------------------------------------------
(* A completed payout was paid: the report that completes it is of its own   *)
(* transfer, and a transfer that was paid has been paid ever after.          *)

PaidOut(i) == transfer[i] \in {"paid", "reversed"}

PaidInv ==
    /\ \A i \in Ids : payout[i].status = "completed" => PaidOut(i)
    /\ \A i \in Ids : notice[i] = "success" => PaidOut(i)
    /\ \A s \in Deciders : At(s, "confirm") /\ sess[s].success => PaidOut(sess[s].id)

\* A status is written by SetStatus, or by the commit of a new payout.
LEMMA StatusOf ==
    ASSUME TypeOK, NEW i \in Ids, NEW status, NEW ref, SetStatus(i, status, ref)
    PROVE  /\ payout'[i] = [payout[i] EXCEPT !.status = status, !.ref = ref]
           /\ payout'[i].status = status
           /\ payout'[i].amount = payout[i].amount /\ payout'[i].scope = payout[i].scope
           /\ \A j \in Ids \ {i} : payout'[j] = payout[j]
<1>1. payout[i] \in Payout
    BY DEF TypeOK
<1> QED BY <1>1 DEF TypeOK, SetStatus, Payout

LEMMA RefStaysUnset ==
    ASSUME TypeOK, NEW i \in Ids, NEW status \in Status, SetStatus(i, status, payout[i].ref),
           payout[i].ref = "null"
    PROVE  payout'[i].status = status /\ payout'[i].ref = "null"
<1>1. payout'[i] = [payout[i] EXCEPT !.status = status, !.ref = "null"]
    BY DEF SetStatus, TypeOK
<1>2. payout[i] \in Payout
    BY DEF TypeOK
<1> QED BY <1>1, <1>2 DEF Payout

LEMMA CommitAddsPayout ==
    ASSUME TypeOK, NEW s \in Requesters, CreateCommit(s)
    PROVE  /\ req[s].id \in Ids
           /\ payout'[req[s].id].status = "requested"
           /\ \A j \in Ids \ {req[s].id} : payout'[j] = payout[j]
<1>1. req[s] \in Request /\ Asks(s, "insert")
    BY DEF TypeOK, CreateCommit
<1>2. req[s].id \in Ids
    BY <1>1 DEF Request, Asks
<1> QED BY <1>2 DEF CreateCommit, TypeOK

\* Steps of create other than its commit leave the tables alone.
LEMMA CreateFrame ==
    ASSUME NEW s \in Requesters, (\E i \in Ids : CreateStart(s, i)) \/ Create(s), ~CreateCommit(s)
    PROVE  UNCHANGED <<balanceVars, payout, settingsVars, sess, taskVars, outsideVars>>
BY DEF CreateStart, Create, CreateLock, CreateCollect, CreateCheck, CreateRefuse, CreateShare,
       InsertLock, DeadlockAbort

LEMMA CreateOutsideFrame ==
    ASSUME NEW s \in Requesters, (\E i \in Ids : CreateStart(s, i)) \/ Create(s)
    PROVE  UNCHANGED <<collected, settingsVars, sess, taskVars, outsideVars>>
BY CreateFrame DEF CreateCommit, balanceVars

\* Every status a decider commits.
LEMMA DecidedStatus ==
    ASSUME TypeOK, NEW s \in Deciders, Decided(s)
    PROVE  /\ sess[s].id \in Ids
           /\ ~At(s, "idle")
           /\ sess' = [sess EXCEPT ![s] = Closed]
           /\ UNCHANGED <<req, lockVars, settingsVars, transfer, notice, noticed>>
           /\ \E ref \in Ref :
                 \/ ApproveCommit(s) /\ SetStatus(sess[s].id, "approved", ref)
                 \/ RejectCommit(s) /\ SetStatus(sess[s].id, "rejected", ref)
                 \/ MarkInitiated(s) /\ SetStatus(sess[s].id, "processing", ref)
                 \/ MarkInitiationFailed(s) /\ SetStatus(sess[s].id, "failed", ref)
                 \/ ConfirmCommit(s) /\ SetStatus(sess[s].id, Confirmed(sess[s].success), ref)
<1>1. sess[s] \in Session /\ ~At(s, "idle")
    BY DEF TypeOK, Decided, ApproveCommit, RejectCommit, MarkInitiated, MarkInitiationFailed,
           ConfirmCommit, At
<1>2. sess[s].id \in Ids
    BY <1>1 DEF Session, At
<1>3. payout[sess[s].id].ref \in Ref
    BY <1>2 DEF TypeOK, Payout
<1> QED BY <1>1, <1>2, <1>3
    DEF Decided, ApproveCommit, RejectCommit, MarkInitiated, MarkInitiationFailed, ConfirmCommit,
        Close, Become, Ref, lockVars, settingsVars, taskVars, outsideVars

LEMMA PaidCreate ==
    ASSUME TypeOK, PaidInv, NEW s \in Requesters, (\E i \in Ids : CreateStart(s, i)) \/ Create(s)
    PROVE  PaidInv'
<1>1. UNCHANGED <<sess, transfer, notice>>
    BY CreateOutsideFrame DEF outsideVars
<1>2. CASE CreateCommit(s)
    BY <1>1, <1>2, CommitAddsPayout DEF PaidInv, PaidOut, At
<1>3. CASE ~CreateCommit(s)
    BY <1>1, <1>3, CreateFrame DEF PaidInv, PaidOut, At
<1> QED BY <1>2, <1>3

LEMMA PaidDecide ==
    ASSUME TypeOK, PaidInv, NEW s \in Deciders, Decide(s)
    PROVE  PaidInv'
<1> USE DEF balanceVars, outsideVars
<1>1. ASSUME NEW i \in Ids,
             ApproveLoad(s, i) \/ RejectLoad(s, i) \/ TransferLoad(s, i) \/ ConfirmLoad(s, i)
      PROVE  PaidInv'
    <2>1. /\ \A u \in Deciders \ {s} : sess'[u] = sess[u]
          /\ sess'[s].pc = "confirm" /\ sess'[s].success => notice[i] = "success" /\ sess'[s].id = i
        <3>1. CASE ApproveLoad(s, i)
            BY <3>1 DEF ApproveLoad, Open, Become, Closed, TypeOK
        <3>2. CASE RejectLoad(s, i)
            BY <3>2 DEF RejectLoad, Open, Become, Closed, TypeOK
        <3>3. CASE TransferLoad(s, i)
            BY <3>3 DEF TransferLoad, Open, Become, Closed, TypeOK
        <3>4. CASE ConfirmLoad(s, i)
            BY <3>4 DEF ConfirmLoad, Open, Become, Succeeded, TypeOK
        <3> QED BY <1>1, <3>1, <3>2, <3>3, <3>4
    <2>2. UNCHANGED <<payout, transfer, notice>>
        BY <1>1 DEF ApproveLoad, RejectLoad, TransferLoad, ConfirmLoad
    <2> QED BY <2>1, <2>2 DEF PaidInv, PaidOut, At, TypeOK
<1>2. CASE Decided(s)
    <2> DEFINE i == sess[s].id
    <2>1. /\ i \in Ids /\ sess' = [sess EXCEPT ![s] = Closed] /\ UNCHANGED <<transfer, notice>>
        BY <1>2, DecidedStatus
    <2>2. payout'[i].status = "completed" => PaidOut(i)
        <3>1. CASE ConfirmCommit(s)
            <4>1. payout'[i].status = Confirmed(sess[s].success)
                BY <3>1, <2>1, StatusOf DEF ConfirmCommit
            <4>2. sess[s].success \/ payout'[i].status = "failed"
                BY <4>1 DEF Confirmed
            <4> QED BY <3>1, <4>2 DEF ConfirmCommit, PaidInv
        <3>2. CASE ~ConfirmCommit(s)
            <4>1. PICK ref \in Ref, status \in {"approved", "rejected", "processing", "failed"} :
                      SetStatus(i, status, ref)
                BY <3>2, <1>2, DecidedStatus
            <4>2. payout'[i].status = status
                BY <4>1, <2>1, StatusOf
            <4> QED BY <4>2
        <3> QED BY <3>1, <3>2
    <2>3. \A j \in Ids \ {i} : payout'[j] = payout[j]
        BY <1>2, <2>1, DecidedStatus, StatusOf
    <2> QED BY <2>1, <2>2, <2>3 DEF PaidInv, PaidOut, At, TypeOK, Closed
<1>3. CASE SendAccepted(s) \/ SendRefused(s) \/ SendLost(s)
    <2>1. \A i \in Ids : PaidOut(i) => PaidOut(i)'
        BY <1>3 DEF SendAccepted, SendRefused, SendLost, MaybeSent, PaidOut, TypeOK
    <2>2. PICK next : sess' = [sess EXCEPT ![s] = next] /\ next.pc # "confirm"
        BY <1>3 DEF SendAccepted, SendRefused, SendLost, Become, Close, Closed, TypeOK, Session
    <2>3. UNCHANGED <<payout, notice>>
        BY <1>3 DEF SendAccepted, SendRefused, SendLost
    <2>4. \A t \in Deciders : At(t, "confirm") => sess[t].id \in Ids
        BY DEF TypeOK, Session, At
    <2> QED BY <2>1, <2>2, <2>3, <2>4 DEF PaidInv, At, TypeOK
<1> QED BY <1>1, <1>2, <1>3 DEF Decide, Decided

LEMMA PaidOutside ==
    ASSUME TypeOK, PaidInv, Outside
    PROVE  PaidInv'
<1>1. \A i \in Ids : PaidOut(i) => PaidOut(i)'
    BY DEF Outside, Collect, TransferSkip, ConfirmSkip, TransferEnds, TransferReversed,
           StoreTransferEvent, ReprocessTransferEvent, ToggleCustodian, SaveDirect,
           SwitchToCustodian, Crash, outsideVars, PaidOut, TypeOK
<1>2. \A i \in Ids : notice'[i] = "success" => PaidOut(i)'
    <2>1. CASE \E i \in Ids : StoreTransferEvent(i)
        BY <2>1, <1>1 DEF StoreTransferEvent, PaidInv, PaidOut, TypeOK
    <2>2. CASE ~\E i \in Ids : StoreTransferEvent(i)
        <3>1. UNCHANGED notice
            BY <2>2 DEF Outside, Collect, TransferSkip, ConfirmSkip, TransferEnds, TransferReversed,
                   ReprocessTransferEvent, ToggleCustodian, SaveDirect, SwitchToCustodian, Crash,
                   outsideVars
        <3> QED BY <1>1, <3>1 DEF PaidInv
    <2> QED BY <2>1, <2>2
<1>3. UNCHANGED payout
    BY DEF Outside, Collect, TransferSkip, ConfirmSkip, TransferEnds, TransferReversed,
           StoreTransferEvent, ReprocessTransferEvent, ToggleCustodian, SaveDirect,
           SwitchToCustodian, Crash
<1>4. UNCHANGED sess \/ sess' = [s \in Deciders |-> Closed]
    BY DEF Outside, Collect, TransferSkip, ConfirmSkip, TransferEnds, TransferReversed,
           StoreTransferEvent, ReprocessTransferEvent, ToggleCustodian, SaveDirect,
           SwitchToCustodian, Crash
<1>5. \A s \in Deciders : At(s, "confirm") => sess[s].id \in Ids
    BY DEF TypeOK, Session, At
<1> QED BY <1>1, <1>2, <1>3, <1>4, <1>5 DEF PaidInv, At, Closed

LEMMA PaidStep == TypeOK /\ PaidInv /\ [Next]_vars => PaidInv'
<1> SUFFICES ASSUME TypeOK, PaidInv, [Next]_vars PROVE PaidInv'
    OBVIOUS
<1>1. CASE Next
    BY <1>1, PaidCreate, PaidDecide, PaidOutside DEF Next
<1>2. CASE UNCHANGED vars
    BY <1>2 DEF vars, outsideVars, PaidInv, PaidOut, At
<1> QED BY <1>1, <1>2

LEMMA PaidInit == Init => PaidInv
BY DEF Init, PaidInv, At, Closed

\* However the handlers overlap and whatever reports are repeated or lost, a
\* completed payout was paid by the provider (apply_transfer_confirmation).
THEOREM CompletedPayoutsWerePaid == Spec => []CompletedWasPaid
<1>1. PaidInv => CompletedWasPaid
    BY DEF PaidInv, PaidOut, CompletedWasPaid
<1> QED BY <1>1, TypeInit, TypeStep, PaidInit, PaidStep, PTL DEF Spec

-----------------------------------------------------------------------------
(* The locks of create.  A requester past its FOR UPDATE holds its scope's   *)
(* row alone, and a sweep that is about to commit has share-locked every     *)
(* purse it draws from.                                                      *)

Holding == {"collect", "check", "share", "insert"}

LockInv ==
    /\ \A s \in Requesters : Asks(s, "share") => req[s].scope = Group
    /\ \A s \in Requesters : req[s].pc \in Holding => exclusive[req[s].scope] = s
    /\ \A x \in Scopes : exclusive[x] # Nobody => shared[x] \subseteq {exclusive[x]}
    /\ \A s \in Requesters : \A p \in Purses :
          /\ req[s].shares[p] # 0 =>
                /\ req[s].pc = "insert" /\ req[s].scope = Group
                /\ p \in req[s].todo \/ s \in shared[p]

LEMMA ProceedAt ==
    ASSUME TypeOK, NEW s \in Requesters, NEW next, Proceed(s, next)
    PROVE  req'[s] = next /\ \A t \in Requesters \ {s} : req'[t] = req[t]
BY DEF TypeOK, Proceed

LEMMA LockRelease ==
    ASSUME TypeOK, LockInv, NEW s \in Requesters, Proceed(s, NoRequest), Release(s)
    PROVE  LockInv'
<1>1. /\ req'[s] = NoRequest
      /\ \A t \in Requesters \ {s} : req'[t] = req[t]
    BY ProceedAt
<1>2. /\ NoRequest.pc = "idle"
      /\ \A p \in Purses : NoRequest.shares[p] = 0
    BY DEF NoRequest, NoShares
<1>3. \A t \in Requesters : Asks(t, "share")' => req'[t].scope = Group
    BY <1>1, <1>2 DEF LockInv, Asks
<1>4. ASSUME NEW t \in Requesters, req'[t].pc \in Holding
      PROVE  exclusive'[req'[t].scope] = t
    <2>1. t # s /\ req'[t] = req[t]
        BY <1>1, <1>2, <1>4 DEF Holding
    <2>2. req[t].scope \in Scopes
        BY DEF TypeOK, Request
    <2> QED BY <2>1, <2>2, <1>4 DEF LockInv, Release
<1>5. ASSUME NEW x \in Scopes, exclusive'[x] # Nobody
      PROVE  shared'[x] \subseteq {exclusive'[x]}
    BY <1>5 DEF LockInv, Release
<1>6. ASSUME NEW t \in Requesters, NEW p \in Purses, req'[t].shares[p] # 0
      PROVE  /\ req'[t].pc = "insert" /\ req'[t].scope = Group
             /\ p \in req'[t].todo \/ t \in shared'[p]
    <2>1. t # s /\ req'[t] = req[t]
        BY <1>1, <1>2, <1>6
    <2>2. p \in Scopes
        BY DEF Scopes
    <2> QED BY <2>1, <2>2, <1>6 DEF LockInv, Release
<1> QED BY <1>3, <1>4, <1>5, <1>6 DEF LockInv

\* A session may move on without touching a lock as long as it keeps its scope.
LEMMA LockProceed ==
    ASSUME TypeOK, LockInv, NEW s \in Requesters, NEW next, Proceed(s, next),
           UNCHANGED lockVars,
           next.pc = "share" => next.scope = Group,
           next.pc \in Holding => exclusive[next.scope] = s,
           \A p \in Purses : next.shares[p] # 0 =>
               /\ next.pc = "insert" /\ next.scope = Group
               /\ p \in next.todo \/ s \in shared[p]
    PROVE  LockInv'
<1>1. req'[s] = next /\ \A t \in Requesters \ {s} : req'[t] = req[t]
    BY ProceedAt
<1> QED BY <1>1 DEF LockInv, lockVars, Asks

LEMMA LockTaken ==
    ASSUME TypeOK, LockInv, NEW s \in Requesters, CreateLock(s)
    PROVE  LockInv'
<1> DEFINE x == req[s].scope
           next == [req[s] EXCEPT !.pc = "collect"]
<1>1. /\ req[s] \in Request /\ x \in Scopes /\ exclusive[x] = Nobody /\ shared[x] = {}
      /\ exclusive' = [exclusive EXCEPT ![x] = s] /\ UNCHANGED shared
      /\ Asks(s, "lock") /\ s # Nobody
    BY NamesAssumption DEF TypeOK, CreateLock, Request
<1>2. /\ next.pc = "collect" /\ next.scope = x /\ next.shares = req[s].shares
    BY <1>1 DEF Request
<1>3. req'[s] = next /\ \A t \in Requesters \ {s} : req'[t] = req[t]
    BY ProceedAt DEF CreateLock
<1>4. exclusive'[x] = s /\ \A y \in Scopes \ {x} : exclusive'[y] = exclusive[y]
    BY <1>1 DEF TypeOK
<1> HIDE DEF next
<1>5. ASSUME NEW t \in Requesters, req'[t].pc \in Holding
      PROVE  exclusive'[req'[t].scope] = t
    <2>1. CASE t = s
        BY <2>1, <1>2, <1>3, <1>4
    <2>2. CASE t # s
        <3>1. req[t].scope \in Scopes /\ t # Nobody
            BY NamesAssumption DEF TypeOK, Request
        <3>2. exclusive[req[t].scope] = t
            BY <2>2, <1>3, <1>5 DEF LockInv
        <3> QED BY <2>2, <3>1, <3>2, <1>1, <1>3, <1>4
    <2> QED BY <2>1, <2>2
<1>6. \A y \in Scopes : exclusive'[y] # Nobody => shared'[y] \subseteq {exclusive'[y]}
    BY <1>1, <1>4 DEF LockInv
<1>7. \A t \in Requesters : req'[t].pc = "share" => req'[t].scope = Group
    BY <1>2, <1>3 DEF LockInv, Asks
<1>8. ASSUME NEW t \in Requesters, NEW p \in Purses, req'[t].shares[p] # 0
      PROVE  /\ req'[t].pc = "insert" /\ req'[t].scope = Group
             /\ p \in req'[t].todo \/ t \in shared'[p]
    <2>1. t # s
        BY <1>1, <1>2, <1>3, <1>8 DEF LockInv, Asks
    <2> QED BY <2>1, <1>1, <1>3, <1>8 DEF LockInv
<1> QED BY <1>5, <1>6, <1>7, <1>8 DEF LockInv, Asks

LEMMA LockShared ==
    ASSUME TypeOK, LockInv, NEW s \in Requesters, NEW x \in Scopes, InsertLock(s, x)
    PROVE  LockInv'
<1> DEFINE next == [req[s] EXCEPT !.todo = @ \ {x}]
<1>1. /\ req[s] \in Request /\ exclusive[x] \in {Nobody, s} /\ UNCHANGED exclusive
      /\ shared' = [shared EXCEPT ![x] = @ \cup {s}]
    BY DEF TypeOK, InsertLock
<1>2. /\ next.pc = req[s].pc /\ next.scope = req[s].scope /\ next.shares = req[s].shares
      /\ next.todo = req[s].todo \ {x}
    BY <1>1 DEF Request
<1>3. req'[s] = next /\ \A t \in Requesters \ {s} : req'[t] = req[t]
    BY ProceedAt DEF InsertLock
<1>4. /\ shared'[x] = shared[x] \cup {s} /\ \A y \in Scopes \ {x} : shared'[y] = shared[y]
    BY <1>1 DEF TypeOK
<1> HIDE DEF next
<1>5. \A t \in Requesters : req'[t].pc = req[t].pc /\ req'[t].scope = req[t].scope
    BY <1>2, <1>3
<1>6. \A y \in Scopes : exclusive'[y] # Nobody => shared'[y] \subseteq {exclusive'[y]}
    BY <1>1, <1>4 DEF LockInv
<1>7. ASSUME NEW t \in Requesters, NEW p \in Purses, req'[t].shares[p] # 0
      PROVE  /\ req'[t].pc = "insert" /\ req'[t].scope = Group
             /\ p \in req'[t].todo \/ t \in shared'[p]
    <2>1. req[t].shares[p] # 0 /\ p \in Scopes
        BY <1>2, <1>3, <1>7 DEF Scopes
    <2>2. /\ req[t].pc = "insert" /\ req[t].scope = Group
          /\ p \in req[t].todo \/ t \in shared[p]
        BY <2>1 DEF LockInv
    <2>3. p \in req'[t].todo \/ t \in shared'[p]
        BY <2>1, <2>2, <1>2, <1>3, <1>4
    <2> QED BY <2>2, <2>3, <1>5
<1> QED BY <1>1, <1>5, <1>6, <1>7 DEF LockInv, Asks

LEMMA LockCreate ==
    ASSUME TypeOK, LockInv, NEW s \in Requesters, Create(s)
    PROVE  LockInv'
<1>0. req[s] \in Request
    BY DEF TypeOK
<1>1. CASE CreateCollect(s)
    <2> DEFINE next == [req[s] EXCEPT !.pc = "check", !.seen = Restricted(collected, req[s].scope)]
    <2>1. /\ next.pc = "check" /\ next.scope = req[s].scope /\ next.shares = req[s].shares
        BY <1>0 DEF Request
    <2>2. Proceed(s, next) /\ UNCHANGED lockVars /\ req[s].pc = "collect"
        BY <1>1 DEF CreateCollect, Asks
    <2> HIDE DEF next
    <2> QED BY <2>1, <2>2, LockProceed DEF LockInv, Holding
<1>2. CASE CreateCheck(s)
    <2>1. PICK next :
              /\ Proceed(s, next) /\ next.scope = req[s].scope /\ next.shares = req[s].shares
              /\ \/ next.pc = "share" /\ req[s].scope = Group
                 \/ next.pc = "insert"
        <3> DEFINE a == [req[s] EXCEPT !.pc = "share"]
                   b == [req[s] EXCEPT !.pc = "insert", !.todo = {Group}]
        <3>1. /\ a.pc = "share" /\ a.scope = req[s].scope /\ a.shares = req[s].shares
              /\ b.pc = "insert" /\ b.scope = req[s].scope /\ b.shares = req[s].shares
            BY <1>0 DEF Request
        <3>2. (Proceed(s, a) /\ req[s].scope = Group) \/ Proceed(s, b)
            BY <1>2 DEF CreateCheck
        <3> HIDE DEF a, b
        <3> QED BY <3>1, <3>2
    <2>2. UNCHANGED lockVars /\ req[s].pc = "check"
        BY <1>2 DEF CreateCheck, Asks
    <2> QED BY <2>1, <2>2, LockProceed DEF LockInv, Holding
<1>3. CASE CreateShare(s)
    <2>1. UNCHANGED lockVars /\ req[s].pc = "share"
        BY <1>3 DEF CreateShare, Asks
    <2>2. CASE Proceed(s, [req[s] EXCEPT !.pc = "insert"])
        <3> DEFINE next == [req[s] EXCEPT !.pc = "insert"]
        <3>1. next.pc = "insert" /\ next.scope = req[s].scope /\ next.shares = req[s].shares
            BY <1>0 DEF Request
        <3>2. Proceed(s, next)
            BY <2>2
        <3> HIDE DEF next
        <3> QED BY <2>1, <3>1, <3>2, LockProceed DEF LockInv, Holding
    <2>3. CASE \E shares \in [Purses -> 0 .. req[s].amount] :
                  Proceed(s, [req[s] EXCEPT !.pc = "insert", !.shares = shares,
                                            !.todo = {p \in Purses : shares[p] > 0}])
        <3>1. PICK shares \in [Purses -> 0 .. req[s].amount] :
                  Proceed(s, [req[s] EXCEPT !.pc = "insert", !.shares = shares,
                                            !.todo = {p \in Purses : shares[p] > 0}])
            BY <2>3
        <3> DEFINE next == [req[s] EXCEPT !.pc = "insert", !.shares = shares,
                                          !.todo = {p \in Purses : shares[p] > 0}]
        <3>2. /\ next.pc = "insert" /\ next.scope = req[s].scope /\ next.shares = shares
              /\ next.todo = {p \in Purses : shares[p] > 0}
            BY <1>0 DEF Request
        <3>3. Proceed(s, next)
            BY <3>1
        <3>4. \A p \in Purses : shares[p] # 0 => shares[p] > 0
            BY <1>0 DEF Request
        <3>5. req[s].scope = Group /\ exclusive[req[s].scope] = s
            BY <2>1 DEF LockInv, Asks, Holding
        <3> HIDE DEF next
        <3> QED BY <2>1, <3>2, <3>3, <3>4, <3>5, LockProceed
    <2> QED BY <1>3, <2>2, <2>3 DEF CreateShare
<1>4. CASE CreateRefuse(s) \/ CreateCommit(s) \/ DeadlockAbort(s)
    BY <1>4, LockRelease DEF CreateRefuse, CreateCommit, DeadlockAbort
<1> QED BY <1>1, <1>2, <1>3, <1>4, LockTaken, LockShared DEF Create

LEMMA LockStart ==
    ASSUME TypeOK, LockInv, NEW s \in Requesters, NEW i \in Ids, CreateStart(s, i)
    PROVE  LockInv'
<1>1. PICK x \in Requestable, amount \in Amounts :
          Proceed(s, [NoRequest EXCEPT !.pc = "lock", !.id = i, !.scope = x, !.amount = amount])
    BY DEF CreateStart
<1> DEFINE next == [NoRequest EXCEPT !.pc = "lock", !.id = i, !.scope = x, !.amount = amount]
<1>2. next.pc = "lock" /\ next.shares = NoShares
    BY DEF NoRequest
<1>3. Proceed(s, next) /\ UNCHANGED lockVars
    BY <1>1 DEF CreateStart
<1> HIDE DEF next
<1> QED BY <1>2, <1>3, LockProceed DEF Holding, NoShares

\* Nobody but create touches the requesters' locks, and a restart frees them.
LEMMA ElsewhereFrame ==
    ASSUME (\E s \in Deciders : Decide(s)) \/ Outside
    PROVE  \/ UNCHANGED <<req, lockVars>>
           \/ Crash
BY DEF Decide, ApproveLoad, RejectLoad, TransferLoad, ConfirmLoad, ApproveCommit, RejectCommit,
       SendAccepted, SendRefused, SendLost, MarkInitiated, MarkInitiationFailed, ConfirmCommit,
       Outside, Collect, TransferSkip, ConfirmSkip, TransferEnds, TransferReversed,
       StoreTransferEvent, ReprocessTransferEvent, ToggleCustodian, SaveDirect, SwitchToCustodian

LEMMA LockStep == TypeOK /\ LockInv /\ [Next]_vars => LockInv'
<1> SUFFICES ASSUME TypeOK, LockInv, [Next]_vars PROVE LockInv'
    OBVIOUS
<1>1. CASE UNCHANGED <<req, lockVars>>
    BY <1>1 DEF LockInv, lockVars, Asks
<1>2. CASE Crash
    BY <1>2 DEF Crash, LockInv, Asks, Holding, NoRequest, NoShares
<1>3. CASE UNCHANGED vars
    BY <1>3, <1>1 DEF vars
<1>4. CASE Next
    BY <1>1, <1>2, <1>4, LockStart, LockCreate, ElsewhereFrame DEF Next
<1> QED BY <1>3, <1>4

LEMMA LockInit == Init => LockInv
BY DEF Init, LockInv, Asks, Holding, NoRequest, NoShares

-----------------------------------------------------------------------------
(* Deciders that do not overlap.  The payout a decider works on still has    *)
(* the status it was loaded with.                                            *)

Serial == \A s, t \in Deciders : s = t

StatusAt(pc) ==
    CASE pc \in {"approve", "reject"} -> "requested"
      [] pc \in {"send", "initiated", "refused"} -> "approved"
      [] pc = "confirm" -> "processing"
      [] OTHER -> "absent"

DeskInv ==
    /\ \A s \in Deciders : ~At(s, "idle") => payout[sess[s].id].status = StatusAt(sess[s].pc)
    /\ \A s \in Requesters : ~Asks(s, "idle") => payout[req[s].id].status = "absent"
    /\ \A s, t \in Requesters : ~Asks(s, "idle") /\ req[s].id = req[t].id => s = t

\* A request keeps the payout and the scope it is for until it ends.
LEMMA CreateKeepsId ==
    ASSUME TypeOK, NEW s \in Requesters, Create(s)
    PROVE  /\ ~Asks(s, "idle")
           /\ \/ req'[s].id = req[s].id /\ req'[s].scope = req[s].scope
              \/ req'[s] = NoRequest
           /\ \A t \in Requesters \ {s} : req'[t] = req[t]
<1>0. req[s] \in Request
    BY DEF TypeOK
<1>1. ~Asks(s, "idle")
    <2>1. CASE \E x \in Scopes : InsertLock(s, x)
        BY <2>1 DEF InsertLock, Asks
    <2>2. CASE DeadlockAbort(s)
        BY <2>2 DEF DeadlockAbort, WaitsOn, WaitsFor, Asks
    <2> QED BY <2>1, <2>2 DEF Create, CreateLock, CreateCollect, CreateCheck, CreateRefuse,
                          CreateShare, CreateCommit, Asks
<1>2. PICK next :
          /\ Proceed(s, next)
          /\ \/ next.id = req[s].id /\ next.scope = req[s].scope
             \/ next = NoRequest
    <2>1. CASE CreateLock(s)
        <3> DEFINE next == [req[s] EXCEPT !.pc = "collect"]
        <3>1. next.id = req[s].id /\ next.scope = req[s].scope
            BY <1>0 DEF Request
        <3>2. Proceed(s, next)
            BY <2>1 DEF CreateLock
        <3> HIDE DEF next
        <3> QED BY <3>1, <3>2
    <2>2. CASE CreateCollect(s)
        <3> DEFINE next == [req[s] EXCEPT !.pc = "check", !.seen = Restricted(collected, req[s].scope)]
        <3>1. next.id = req[s].id /\ next.scope = req[s].scope
            BY <1>0 DEF Request
        <3>2. Proceed(s, next)
            BY <2>2 DEF CreateCollect
        <3> HIDE DEF next
        <3> QED BY <3>1, <3>2
    <2>3. CASE CreateCheck(s)
        <3> DEFINE a == [req[s] EXCEPT !.pc = "share"]
                   b == [req[s] EXCEPT !.pc = "insert", !.todo = {Group}]
        <3>1. a.id = req[s].id /\ a.scope = req[s].scope /\ b.id = req[s].id /\ b.scope = req[s].scope
            BY <1>0 DEF Request
        <3>2. Proceed(s, a) \/ Proceed(s, b)
            BY <2>3 DEF CreateCheck
        <3> HIDE DEF a, b
        <3> QED BY <3>1, <3>2
    <2>4. CASE CreateShare(s)
        <3>1. CASE Proceed(s, [req[s] EXCEPT !.pc = "insert"])
            <4> DEFINE next == [req[s] EXCEPT !.pc = "insert"]
            <4>1. next.id = req[s].id /\ next.scope = req[s].scope
                BY <1>0 DEF Request
            <4>2. Proceed(s, next)
                BY <3>1
            <4> HIDE DEF next
            <4> QED BY <4>1, <4>2
        <3>2. CASE \E shares \in [Purses -> 0 .. req[s].amount] :
                      Proceed(s, [req[s] EXCEPT !.pc = "insert", !.shares = shares,
                                                !.todo = {p \in Purses : shares[p] > 0}])
            <4>1. PICK shares \in [Purses -> 0 .. req[s].amount] :
                      Proceed(s, [req[s] EXCEPT !.pc = "insert", !.shares = shares,
                                                !.todo = {p \in Purses : shares[p] > 0}])
                BY <3>2
            <4> DEFINE next == [req[s] EXCEPT !.pc = "insert", !.shares = shares,
                                              !.todo = {p \in Purses : shares[p] > 0}]
            <4>2. next.id = req[s].id /\ next.scope = req[s].scope
                BY <1>0 DEF Request
            <4>3. Proceed(s, next)
                BY <4>1
            <4> HIDE DEF next
            <4> QED BY <4>2, <4>3
        <3> QED BY <2>4, <3>1, <3>2 DEF CreateShare
    <2>5. CASE \E x \in Scopes : InsertLock(s, x)
        <3>1. PICK x \in Scopes : InsertLock(s, x)
            BY <2>5
        <3> DEFINE next == [req[s] EXCEPT !.todo = @ \ {x}]
        <3>2. next.id = req[s].id /\ next.scope = req[s].scope
            BY <1>0 DEF Request
        <3>3. Proceed(s, next)
            BY <3>1 DEF InsertLock
        <3> HIDE DEF next
        <3> QED BY <3>2, <3>3
    <2>6. CASE CreateRefuse(s) \/ CreateCommit(s) \/ DeadlockAbort(s)
        BY <2>6 DEF CreateRefuse, CreateCommit, DeadlockAbort
    <2> QED BY <2>1, <2>2, <2>3, <2>4, <2>5, <2>6 DEF Create
<1> QED BY <1>1, <1>2, ProceedAt

LEMMA DeskStart ==
    ASSUME TypeOK, DeskInv, NEW s \in Requesters, NEW i \in Ids, CreateStart(s, i)
    PROVE  DeskInv'
<1>1. PICK x \in Requestable, amount \in Amounts :
          Proceed(s, [NoRequest EXCEPT !.pc = "lock", !.id = i, !.scope = x, !.amount = amount])
    BY DEF CreateStart
<1>2. req'[s].id = i /\ \A t \in Requesters \ {s} : req'[t] = req[t]
    <2> DEFINE next == [NoRequest EXCEPT !.pc = "lock", !.id = i, !.scope = x, !.amount = amount]
    <2>1. next.id = i
        BY DEF NoRequest
    <2>2. Proceed(s, next)
        BY <1>1
    <2> HIDE DEF next
    <2> QED BY <2>1, <2>2, ProceedAt
<1>3. UNCHANGED <<payout, sess>> /\ payout[i].status = "absent" /\ \A t \in Requesters : req[t].id # i
    BY DEF CreateStart
<1> QED BY <1>2, <1>3 DEF DeskInv, At, Asks

LEMMA DeskCreate ==
    ASSUME TypeOK, DeskInv, NEW s \in Requesters, Create(s)
    PROVE  DeskInv'
<1> DEFINE i == req[s].id
<1>1. /\ ~Asks(s, "idle")
      /\ req'[s].id = i \/ req'[s] = NoRequest
      /\ \A t \in Requesters \ {s} : req'[t] = req[t]
    BY CreateKeepsId
<1>2. /\ i \in Ids /\ payout[i].status = "absent"
      /\ \A t \in Requesters \ {s} : req[t].id # i
    BY <1>1, CreateKeepsId DEF DeskInv, TypeOK, Request, Asks
<1>3. NoRequest.pc = "idle" /\ NoRequest.id \notin Ids
    BY NamesAssumption DEF NoRequest
<1>4. \A t \in Requesters : ~Asks(t, "idle") => req[t].id \in Ids
    BY DEF TypeOK, Request, Asks
<1>5. UNCHANGED sess
    BY CreateOutsideFrame
<1>6. \A d \in Deciders : ~At(d, "idle") => sess[d].id \in Ids /\ payout[sess[d].id].status # "absent"
    BY DEF DeskInv, TypeOK, Session, At, StatusAt
<1>7. \A t, u \in Requesters : ~Asks(t, "idle")' /\ req'[t].id = req'[u].id => t = u
    BY <1>1, <1>2, <1>3, <1>4 DEF DeskInv, Asks
<1>8. CASE CreateCommit(s)
    <2>1. /\ req'[s] = NoRequest
          /\ \A j \in Ids \ {i} : payout'[j] = payout[j]
        BY <1>8, ProceedAt, CommitAddsPayout DEF CreateCommit
    <2>2. \A d \in Deciders : ~At(d, "idle")' => payout'[sess'[d].id].status = StatusAt(sess'[d].pc)
        BY <1>2, <1>5, <1>6, <2>1 DEF DeskInv, At
    <2>3. \A t \in Requesters : ~Asks(t, "idle")' => payout'[req'[t].id].status = "absent"
        BY <1>1, <1>2, <1>3, <1>4, <2>1 DEF DeskInv, Asks
    <2> QED BY <1>7, <2>2, <2>3 DEF DeskInv, At, Asks
<1>9. CASE ~CreateCommit(s)
    <2>1. UNCHANGED payout
        BY <1>9, CreateFrame
    <2>2. \A t \in Requesters : ~Asks(t, "idle")' => payout'[req'[t].id].status = "absent"
        BY <1>1, <1>2, <1>3, <2>1 DEF DeskInv, Asks
    <2> QED BY <1>5, <1>7, <2>1, <2>2 DEF DeskInv, At, Asks
<1> QED BY <1>8, <1>9

\* With one decider, its payout keeps the status it was loaded with until the
\* decider commits.
LEMMA DeskDecide ==
    ASSUME Serial, TypeOK, DeskInv, NEW s \in Deciders, Decide(s)
    PROVE  DeskInv'
<1> USE DEF balanceVars, outsideVars
<1>1. UNCHANGED req
    BY DEF Decide, ApproveLoad, RejectLoad, TransferLoad, ConfirmLoad, ApproveCommit, RejectCommit,
           SendAccepted, SendRefused, SendLost, MarkInitiated, MarkInitiationFailed, ConfirmCommit
<1>2. \A d \in Deciders : d = s
    BY DEF Serial
<1>3. \A t \in Requesters : ~Asks(t, "idle") => req[t].id \in Ids
    BY DEF TypeOK, Request, Asks
<1>4. ASSUME NEW i \in Ids,
             ApproveLoad(s, i) \/ RejectLoad(s, i) \/ TransferLoad(s, i) \/ ConfirmLoad(s, i)
      PROVE  DeskInv'
    <2>1. UNCHANGED payout
        BY <1>4 DEF ApproveLoad, RejectLoad, TransferLoad, ConfirmLoad
    <2>2. sess'[s].id = i /\ payout[i].status = StatusAt(sess'[s].pc)
        <3>1. CASE ApproveLoad(s, i)
            BY <3>1 DEF ApproveLoad, Open, Become, Closed, TypeOK, StatusAt
        <3>2. CASE RejectLoad(s, i)
            BY <3>2 DEF RejectLoad, Rejectable, Open, Become, Closed, TypeOK, StatusAt
        <3>3. CASE TransferLoad(s, i)
            BY <3>3 DEF TransferLoad, Open, Become, Closed, TypeOK, StatusAt
        <3>4. CASE ConfirmLoad(s, i)
            BY <3>4 DEF ConfirmLoad, Matches, Open, Become, TypeOK, StatusAt
        <3> QED BY <1>4, <3>1, <3>2, <3>3, <3>4
    <2> QED BY <1>1, <1>2, <2>1, <2>2 DEF DeskInv, At, Asks
<1>5. CASE Decided(s)
    <2>1. /\ sess[s].id \in Ids /\ ~At(s, "idle") /\ sess'[s] = Closed
        BY <1>5, DecidedStatus DEF TypeOK
    <2>2. payout[sess[s].id].status # "absent"
        BY <2>1 DEF DeskInv, TypeOK, Session, At, StatusAt
    <2>3. \A j \in Ids \ {sess[s].id} : payout'[j] = payout[j]
        BY <1>5, <2>1, DecidedStatus, StatusOf
    <2>4. \A t \in Requesters : ~Asks(t, "idle")' => payout'[req'[t].id].status = "absent"
        BY <1>1, <1>3, <2>2, <2>3 DEF DeskInv, Asks
    <2> QED BY <1>1, <1>2, <2>1, <2>4 DEF DeskInv, At, Asks, Closed
<1>6. CASE SendAccepted(s) \/ SendRefused(s) \/ SendLost(s)
    <2>1. UNCHANGED payout
        BY <1>6 DEF SendAccepted, SendRefused, SendLost
    <2>2. At(s, "send") /\ payout[sess[s].id].status = "approved"
        BY <1>6 DEF SendAccepted, SendRefused, SendLost, DeskInv, At, StatusAt
    <2>3. sess'[s].pc # "idle" => sess'[s].id = sess[s].id /\ StatusAt(sess'[s].pc) = "approved"
        BY <1>6 DEF SendAccepted, SendRefused, SendLost, Become, Close, Closed, TypeOK, Session, StatusAt
    <2> QED BY <1>1, <1>2, <2>1, <2>2, <2>3 DEF DeskInv, At, Asks
<1> QED BY <1>4, <1>5, <1>6 DEF Decide, Decided

LEMMA OutsideFrame ==
    ASSUME Outside
    PROVE  /\ UNCHANGED <<payout, allocation, outstanding, allocated>>
           /\ UNCHANGED <<req, sess, lockVars>> \/ Crash
BY DEF Outside, Collect, TransferSkip, ConfirmSkip, TransferEnds, TransferReversed,
       StoreTransferEvent, ReprocessTransferEvent, ToggleCustodian, SaveDirect, SwitchToCustodian,
       Crash, balanceVars

LEMMA DeskStep == Serial /\ TypeOK /\ DeskInv /\ [Next]_vars => DeskInv'
<1> SUFFICES ASSUME Serial, TypeOK, DeskInv, [Next]_vars PROVE DeskInv'
    OBVIOUS
<1>1. CASE Outside
    <2>1. CASE UNCHANGED <<req, sess>>
        BY <1>1, <2>1, OutsideFrame DEF DeskInv, At, Asks
    <2>2. CASE Crash
        BY <1>1, <2>2, OutsideFrame DEF DeskInv, At, Asks, Crash, NoRequest, Closed
    <2> QED BY <1>1, <2>1, <2>2, OutsideFrame
<1>2. CASE UNCHANGED vars
    BY <1>2 DEF vars, DeskInv, At, Asks
<1> QED BY <1>1, <1>2, DeskStart, DeskCreate, DeskDecide DEF Next

LEMMA DeskInit == Init => DeskInv
BY DEF Init, DeskInv, At, Asks, NoRequest, Closed

-----------------------------------------------------------------------------
(* Money that was sent stays counted.                                        *)

\* Money is sent for an approved payout only, and once; a reference is stored
\* when it was.
MoneyInv ==
    /\ \A i \in Ids : payout[i].status \in {"absent", "requested", "approved"} => payout[i].ref = "null"
    /\ \A i \in Ids : payout[i].status \in {"absent", "requested"} => transfer[i] = "none" /\ i \notin tasks
    /\ \A i \in tasks : transfer[i] = "none"
    /\ \A s \in Deciders :
          /\ At(s, "send") => transfer[sess[s].id] = "none" /\ sess[s].id \notin tasks
          /\ At(s, "confirm") /\ ~sess[s].success => transfer[sess[s].id] \in {"failed", "reversed"}
    /\ \A i \in Ids : notice[i] = "failure" => transfer[i] \in {"failed", "reversed"}
    /\ \A i \in noticed : notice[i] # "absent"
    /\ SentMoneyIsCounted

LEMMA MoneyCreate ==
    ASSUME TypeOK, DeskInv, MoneyInv, NEW s \in Requesters,
           (\E i \in Ids : CreateStart(s, i)) \/ Create(s)
    PROVE  MoneyInv'
<1>1. UNCHANGED <<sess, taskVars, outsideVars>>
    BY CreateOutsideFrame
<1>2. CASE CreateCommit(s)
    <2>1. /\ req[s].id \in Ids /\ payout[req[s].id].status = "absent"
          /\ payout'[req[s].id].status = "requested" /\ payout'[req[s].id].ref = "null"
          /\ \A j \in Ids \ {req[s].id} : payout'[j] = payout[j]
        BY <1>2, CommitAddsPayout DEF CreateCommit, DeskInv, Asks, TypeOK
    <2> QED BY <1>1, <2>1 DEF MoneyInv, SentMoneyIsCounted, InitiationFailed, Live, OutstandingStatuses, At,
                              taskVars, outsideVars
<1>3. CASE ~CreateCommit(s)
    BY <1>1, <1>3, CreateFrame DEF MoneyInv, SentMoneyIsCounted, InitiationFailed, Live, At, taskVars, outsideVars
<1> QED BY <1>2, <1>3

LEMMA MoneyLoad ==
    ASSUME Serial, TypeOK, MoneyInv, NEW s \in Deciders, NEW i \in Ids,
           ApproveLoad(s, i) \/ RejectLoad(s, i) \/ TransferLoad(s, i) \/ ConfirmLoad(s, i)
    PROVE  MoneyInv'
<1>1. \A d \in Deciders : d = s
    BY DEF Serial
<1>2. UNCHANGED <<payout, transfer, notice>> /\ tasks' \subseteq tasks /\ noticed' \subseteq noticed
    BY DEF ApproveLoad, RejectLoad, TransferLoad, ConfirmLoad, taskVars, outsideVars
<1>3. /\ sess'[s].pc = "send" =>
            sess'[s].id = i /\ transfer[i] = "none" /\ i \notin tasks'
      /\ sess'[s].pc = "confirm" /\ ~sess'[s].success =>
            sess'[s].id = i /\ transfer[i] \in {"failed", "reversed"}
    <2>1. CASE ApproveLoad(s, i)
        BY <2>1 DEF ApproveLoad, Open, Become, Closed, TypeOK
    <2>2. CASE RejectLoad(s, i)
        BY <2>2 DEF RejectLoad, Open, Become, Closed, TypeOK
    <2>3. CASE TransferLoad(s, i)
        BY <2>3 DEF TransferLoad, Open, Become, Closed, TypeOK, MoneyInv
    <2>4. CASE ConfirmLoad(s, i)
        <3>1. sess'[s] = [pc |-> "confirm", id |-> i, success |-> Succeeded(i)]
            BY <2>4 DEF ConfirmLoad, Open, Become, TypeOK
        <3>2. ~Succeeded(i) => notice[i] = "failure"
            BY <2>4 DEF ConfirmLoad, Succeeded, MoneyInv, TypeOK
        <3> QED BY <3>1, <3>2 DEF MoneyInv
    <2> QED BY <2>1, <2>2, <2>3, <2>4
<1> QED BY <1>1, <1>2, <1>3 DEF MoneyInv, SentMoneyIsCounted, InitiationFailed, Live, At

LEMMA MoneyDecided ==
    ASSUME Serial, TypeOK, DeskInv, MoneyInv, NEW s \in Deciders, Decided(s)
    PROVE  MoneyInv'
<1> DEFINE i == sess[s].id
<1>1. \A d \in Deciders : d = s
    BY DEF Serial
<1>2. /\ i \in Ids /\ sess'[s] = Closed /\ UNCHANGED <<transfer, notice, noticed>>
    BY DecidedStatus DEF TypeOK
<1>3. \A j \in Ids \ {i} : payout'[j] = payout[j]
    BY <1>2, DecidedStatus, StatusOf
<1>4. tasks' \subseteq tasks \cup {i} /\ (i \in tasks' => transfer[i] = "none")
    <2>1. CASE ApproveCommit(s)
        BY <1>2, <2>1 DEF ApproveCommit, DeskInv, MoneyInv, At, StatusAt
    <2>2. CASE ~ApproveCommit(s)
        <3>1. UNCHANGED tasks
            BY <2>2 DEF Decided, RejectCommit, MarkInitiated, MarkInitiationFailed, ConfirmCommit, taskVars
        <3> QED BY <3>1 DEF MoneyInv
    <2> QED BY <2>1, <2>2
<1>5. /\ payout'[i].status \notin {"absent", "requested"}
      /\ payout'[i].status = "approved" => payout'[i].ref = "null"
      /\ transfer[i] \in {"sent", "paid"} =>
            \/ payout'[i].status \in OutstandingStatuses
            \/ payout'[i].status = "failed" /\ payout'[i].ref = "null"
    <2>1. CASE ApproveCommit(s)
        <3>0. SetStatus(i, "approved", payout[i].ref) /\ At(s, "approve")
            BY <2>1 DEF ApproveCommit
        <3>1. payout[i].ref = "null"
            BY <1>2, <3>0 DEF DeskInv, MoneyInv, At, StatusAt
        <3>2. payout'[i].status = "approved" /\ payout'[i].ref = "null"
            BY <1>2, <3>0, <3>1, RefStaysUnset DEF Status
        <3> QED BY <3>2 DEF OutstandingStatuses
    <2>2. CASE RejectCommit(s)
        <3>1. payout'[i].status = "rejected"
            BY <1>2, <2>2, StatusOf DEF RejectCommit
        <3>2. transfer[i] = "none"
            BY <1>2, <2>2 DEF RejectCommit, DeskInv, MoneyInv, At, StatusAt
        <3> QED BY <3>1, <3>2
    <2>3. CASE MarkInitiated(s)
        <3>1. payout'[i].status = "processing"
            BY <1>2, <2>3, StatusOf DEF MarkInitiated
        <3> QED BY <3>1 DEF OutstandingStatuses
    <2>4. CASE MarkInitiationFailed(s)
        <3>0. SetStatus(i, "failed", payout[i].ref) /\ At(s, "refused")
            BY <2>4 DEF MarkInitiationFailed
        <3>1. payout[i].ref = "null"
            BY <1>2, <3>0 DEF DeskInv, MoneyInv, At, StatusAt
        <3>2. payout'[i].status = "failed" /\ payout'[i].ref = "null"
            BY <1>2, <3>0, <3>1, RefStaysUnset DEF Status
        <3> QED BY <3>2
    <2>5. CASE ConfirmCommit(s)
        <3>1. payout'[i].status = Confirmed(sess[s].success)
            BY <1>2, <2>5, StatusOf DEF ConfirmCommit
        <3>2. ~sess[s].success => transfer[i] \in {"failed", "reversed"}
            BY <2>5 DEF ConfirmCommit, MoneyInv
        <3>3. payout'[i].status = "completed" \/ (payout'[i].status = "failed" /\ ~sess[s].success)
            <4>1. CASE sess[s].success
                BY <3>1, <4>1 DEF Confirmed
            <4>2. CASE ~sess[s].success
                BY <3>1, <4>2 DEF Confirmed
            <4> QED BY <4>1, <4>2
        <3> QED BY <3>2, <3>3 DEF OutstandingStatuses
    <2> QED BY <2>1, <2>2, <2>3, <2>4, <2>5 DEF Decided
<1>6. SentMoneyIsCounted'
    <2> SUFFICES ASSUME NEW j \in Ids, transfer'[j] \in {"sent", "paid"}
                 PROVE  Live(j)' \/ InitiationFailed(j)'
        BY DEF SentMoneyIsCounted
    <2>1. CASE j = i
        BY <1>2, <1>5, <2>1 DEF Live, InitiationFailed
    <2>2. CASE j # i
        <3>1. Live(j) \/ InitiationFailed(j)
            BY <1>2 DEF MoneyInv, SentMoneyIsCounted
        <3>2. payout'[j] = payout[j]
            BY <1>3, <2>2
        <3> QED BY <3>1, <3>2 DEF Live, InitiationFailed
    <2> QED BY <2>1, <2>2
<1>9. \A j \in Ids : payout'[j].status \in {"absent", "requested", "approved"} => payout'[j].ref = "null"
    BY <1>2, <1>3, <1>5 DEF MoneyInv
<1>7. \A j \in Ids : payout'[j].status \in {"absent", "requested"} =>
          transfer'[j] = "none" /\ j \notin tasks'
    BY <1>2, <1>3, <1>4, <1>5 DEF MoneyInv
<1>8. \A j \in tasks' : transfer'[j] = "none"
    BY <1>2, <1>4 DEF MoneyInv
<1> QED BY <1>1, <1>2, <1>6, <1>7, <1>8, <1>9 DEF MoneyInv, At, Closed

LEMMA MoneySend ==
    ASSUME Serial, TypeOK, DeskInv, MoneyInv, NEW s \in Deciders,
           SendAccepted(s) \/ SendRefused(s) \/ SendLost(s)
    PROVE  MoneyInv'
<1> DEFINE i == sess[s].id
<1>1. \A d \in Deciders : d = s
    BY DEF Serial
<1>2. At(s, "send") /\ UNCHANGED <<payout, tasks, notice, noticed>>
    BY DEF SendAccepted, SendRefused, SendLost, taskVars, outsideVars
<1>3. /\ i \in Ids /\ transfer[i] = "none" /\ i \notin tasks
      /\ payout[i].status = "approved"
    BY <1>2 DEF TypeOK, Session, MoneyInv, DeskInv, At, StatusAt
<1>4. /\ transfer'[i] \in {"none", "sent"}
      /\ \A j \in Ids \ {i} : transfer'[j] = transfer[j]
    BY <1>3 DEF SendAccepted, SendRefused, SendLost, MaybeSent, TypeOK, outsideVars
<1>5. sess'[s].pc \in {"initiated", "refused", "idle"}
    BY <1>3 DEF SendAccepted, SendRefused, SendLost, Become, Close, Closed, TypeOK, Session, outsideVars
<1>6. SentMoneyIsCounted'
    BY <1>2, <1>3, <1>4 DEF MoneyInv, SentMoneyIsCounted, InitiationFailed, Live, OutstandingStatuses
<1>7. \A j \in Ids : notice'[j] = "failure" => transfer'[j] \in {"failed", "reversed"}
    BY <1>2, <1>3, <1>4 DEF MoneyInv
<1>8. \A j \in Ids : payout'[j].status \in {"absent", "requested"} =>
          transfer'[j] = "none" /\ j \notin tasks'
    BY <1>2, <1>3, <1>4 DEF MoneyInv
<1>9. \A j \in tasks' : transfer'[j] = "none"
    BY <1>2, <1>3, <1>4 DEF MoneyInv, TypeOK
<1> QED BY <1>1, <1>2, <1>3, <1>5, <1>6, <1>7, <1>8, <1>9 DEF MoneyInv, At

LEMMA MoneyProvider ==
    ASSUME TypeOK, MoneyInv, NEW i \in Ids,
           TransferEnds(i) \/ TransferReversed(i) \/ StoreTransferEvent(i)
             \/ ReprocessTransferEvent(i) \/ TransferSkip(i) \/ ConfirmSkip(i)
    PROVE  MoneyInv'
<1>1. UNCHANGED <<payout, sess>> /\ tasks' \subseteq tasks
    BY DEF TransferEnds, TransferReversed, StoreTransferEvent, ReprocessTransferEvent,
           TransferSkip, ConfirmSkip, taskVars
<1>2. /\ \A j \in Ids \ {i} : transfer'[j] = transfer[j]
      /\ transfer[i] = "none" => transfer'[i] = "none"
      /\ transfer[i] \in {"failed", "reversed"} => transfer'[i] \in {"failed", "reversed"}
      /\ transfer'[i] \in {"sent", "paid"} => transfer[i] \in {"sent", "paid"}
    BY DEF TransferEnds, TransferReversed, StoreTransferEvent, ReprocessTransferEvent,
           TransferSkip, ConfirmSkip, outsideVars, TypeOK
<1>3. /\ \A j \in Ids : notice'[j] = "failure" => transfer'[j] \in {"failed", "reversed"}
      /\ \A j \in noticed' : notice'[j] # "absent"
    <2>1. CASE StoreTransferEvent(i)
        BY <2>1 DEF StoreTransferEvent, MoneyInv, TypeOK
    <2>2. CASE ReprocessTransferEvent(i)
        BY <2>2 DEF ReprocessTransferEvent, MoneyInv, TypeOK, outsideVars
    <2>3. CASE TransferEnds(i) \/ TransferReversed(i) \/ TransferSkip(i) \/ ConfirmSkip(i)
        <3>1. UNCHANGED notice /\ noticed' \subseteq noticed
            BY <2>3 DEF TransferEnds, TransferReversed, TransferSkip, ConfirmSkip, taskVars, outsideVars
        <3>2. \A j \in Ids : transfer[j] \in {"failed", "reversed"} => transfer'[j] \in {"failed", "reversed"}
            BY <1>2
        <3>3. \A j \in Ids : notice'[j] = "failure" => transfer'[j] \in {"failed", "reversed"}
            BY <3>1, <3>2 DEF MoneyInv
        <3>4. \A j \in noticed' : notice'[j] # "absent"
            BY <3>1 DEF MoneyInv
        <3> QED BY <3>3, <3>4
    <2> QED BY <2>1, <2>2, <2>3
<1>4. SentMoneyIsCounted'
    BY <1>1, <1>2 DEF MoneyInv, SentMoneyIsCounted, InitiationFailed, Live
<1>5. \A j \in Ids : transfer[j] = "none" => transfer'[j] = "none"
    BY <1>2
<1>6. \A j \in Ids : transfer[j] \in {"failed", "reversed"} => transfer'[j] \in {"failed", "reversed"}
    BY <1>2
<1>7. \A d \in Deciders : ~At(d, "idle") => sess[d].id \in Ids
    BY DEF TypeOK, Session, At
<1>8. \A d \in Deciders :
          /\ At(d, "send")' => transfer'[sess'[d].id] = "none" /\ sess'[d].id \notin tasks'
          /\ At(d, "confirm")' /\ ~sess'[d].success => transfer'[sess'[d].id] \in {"failed", "reversed"}
    BY <1>1, <1>5, <1>6, <1>7 DEF MoneyInv, At
<1>9. \A j \in tasks' : transfer'[j] = "none"
    BY <1>1, <1>5 DEF MoneyInv, TypeOK
<1> QED BY <1>1, <1>3, <1>4, <1>5, <1>8, <1>9 DEF MoneyInv

LEMMA MoneyOutside ==
    ASSUME TypeOK, MoneyInv, Outside
    PROVE  MoneyInv'
<1>1. CASE (\E p \in Purses : Collect(p)) \/ ToggleCustodian \/ SaveDirect \/ SwitchToCustodian
    <2>1. UNCHANGED <<payout, sess, tasks, noticed, transfer, notice>>
        BY <1>1 DEF Collect, ToggleCustodian, SaveDirect, SwitchToCustodian, taskVars, outsideVars
    <2> QED BY <2>1 DEF MoneyInv, SentMoneyIsCounted, InitiationFailed, Live, At
<1>2. CASE Crash
    BY <1>2 DEF Crash, MoneyInv, SentMoneyIsCounted, InitiationFailed, Live, At, Closed, outsideVars
<1> QED BY <1>1, <1>2, MoneyProvider DEF Outside

LEMMA MoneyStep == Serial /\ TypeOK /\ DeskInv /\ MoneyInv /\ [Next]_vars => MoneyInv'
<1> SUFFICES ASSUME Serial, TypeOK, DeskInv, MoneyInv, [Next]_vars PROVE MoneyInv'
    OBVIOUS
<1>1. CASE UNCHANGED vars
    BY <1>1 DEF vars, taskVars, outsideVars, MoneyInv, SentMoneyIsCounted, InitiationFailed, Live, At
<1>2. ASSUME NEW s \in Deciders, Decide(s) PROVE MoneyInv'
    BY <1>2, MoneyLoad, MoneyDecided, MoneySend DEF Decide, Decided
<1> QED BY <1>1, <1>2, MoneyCreate, MoneyOutside DEF Next

LEMMA MoneyInit == Init => MoneyInv
BY DEF Init, MoneyInv, SentMoneyIsCounted, InitiationFailed, Live, At, Closed

\* With decisions that do not overlap, money on its way is never available a
\* second time, after timeouts, lost tasks and restarts too, unless the provider
\* took the transfer and answered with an error.
THEOREM SerialSentMoneyIsCounted ==
    ASSUME Serial
    PROVE  Spec => []SentMoneyIsCounted
<1>1. MoneyInv => SentMoneyIsCounted
    BY DEF MoneyInv
<1>2. TypeOK /\ DeskInv /\ MoneyInv /\ [Next]_vars => DeskInv' /\ MoneyInv'
    BY DeskStep, MoneyStep
<1> QED BY <1>1, <1>2, TypeInit, TypeStep, DeskInit, MoneyInit, PTL DEF Spec

-----------------------------------------------------------------------------
(* What a request checked is still there when it commits.                    *)

\* What a request has read is no more than what there is, and what it has
\* checked is still there.
CoverInv ==
    /\ \A s \in Requesters : \A p \in Purses : req[s].seen[p] <= collected[p]
    /\ PurseRequestStaysCovered

\* A request that moves on while the balances stand still.
LEMMA CoverProceed ==
    ASSUME TypeOK, CoverInv, NEW s \in Requesters, NEW next, Proceed(s, next),
           UNCHANGED balanceVars,
           \A p \in Purses : next.seen[p] <= collected[p],
           next.pc = "insert" /\ next.scope # Group => next.amount <= PurseAvailable(next.scope)
    PROVE  CoverInv'
<1>1. req'[s] = next /\ \A t \in Requesters \ {s} : req'[t] = req[t]
    BY ProceedAt
<1>2. \A t \in Requesters : \A p \in Purses : req'[t].seen[p] <= collected'[p]
    BY <1>1 DEF CoverInv, balanceVars
<1>3. \A t \in Requesters : req'[t].pc = "insert" /\ req'[t].scope # Group =>
                                req'[t].amount <= PurseAvailable(req[t].scope)'
    BY <1>1 DEF CoverInv, PurseRequestStaysCovered, Asks, PurseAvailable, balanceVars
<1> QED BY <1>2, <1>3 DEF CoverInv, PurseRequestStaysCovered, Asks

\* A step that only frees balance disturbs no request.
LEMMA CoverFreed ==
    ASSUME TypeOK, TypeOK', CoverInv, UNCHANGED req,
           \A p \in Purses : /\ collected'[p] >= collected[p]
                             /\ outstanding'[p] <= outstanding[p]
                             /\ allocated'[p] <= allocated[p]
    PROVE  CoverInv'
<1>1. \A p \in Purses : p \in Scopes /\ collected[p] \in Nat /\ collected'[p] \in Nat
          /\ outstanding[p] \in Int /\ outstanding'[p] \in Int
          /\ allocated[p] \in Int /\ allocated'[p] \in Int
    BY DEF TypeOK, Scopes
<1>2. ASSUME NEW s \in Requesters, NEW p \in Purses
      PROVE  req'[s].seen[p] <= collected'[p]
    <2>1. req[s].seen[p] \in Nat /\ req[s].seen[p] <= collected[p]
        BY DEF TypeOK, Request, CoverInv
    <2> QED BY <1>1, <2>1
<1>3. ASSUME NEW s \in Requesters, Asks(s, "insert")', req'[s].scope # Group
      PROVE  req'[s].amount <= PurseAvailable(req[s].scope)'
    <2>1. /\ req[s].scope \in Purses /\ req[s].amount \in Nat
          /\ req[s].amount <= PurseAvailable(req[s].scope)
        BY <1>3 DEF TypeOK, Request, Scopes, CoverInv, PurseRequestStaysCovered, Asks
    <2> QED BY <1>1, <2>1 DEF PurseAvailable
<1> QED BY <1>2, <1>3 DEF CoverInv, PurseRequestStaysCovered

LEMMA CoverStart ==
    ASSUME TypeOK, CoverInv, NEW s \in Requesters, NEW i \in Ids, CreateStart(s, i)
    PROVE  CoverInv'
<1>1. PICK x \in Requestable, amount \in Amounts :
          Proceed(s, [NoRequest EXCEPT !.pc = "lock", !.id = i, !.scope = x, !.amount = amount])
    BY DEF CreateStart
<1> DEFINE next == [NoRequest EXCEPT !.pc = "lock", !.id = i, !.scope = x, !.amount = amount]
<1>2. next.pc = "lock" /\ next.seen = NoShares
    BY DEF NoRequest
<1>3. Proceed(s, next) /\ UNCHANGED balanceVars
    BY <1>1 DEF CreateStart
<1>4. \A p \in Purses : NoShares[p] <= collected[p]
    BY DEF NoShares, TypeOK
<1> HIDE DEF next
<1> QED BY <1>2, <1>3, <1>4, CoverProceed

LEMMA CoverMoves ==
    ASSUME TypeOK, LockInv, CoverInv, NEW s \in Requesters, Create(s), ~CreateCommit(s)
    PROVE  CoverInv'
<1>0. /\ req[s] \in Request /\ UNCHANGED balanceVars
      /\ \A p \in Purses : req[s].seen[p] <= collected[p]
    BY CreateFrame DEF TypeOK, CoverInv
<1>1. CASE CreateLock(s)
    <2> DEFINE next == [req[s] EXCEPT !.pc = "collect"]
    <2>1. next.pc = "collect" /\ next.seen = req[s].seen
        BY <1>0 DEF Request
    <2>2. Proceed(s, next)
        BY <1>1 DEF CreateLock
    <2> HIDE DEF next
    <2> QED BY <1>0, <2>1, <2>2, CoverProceed
<1>2. CASE CreateCollect(s)
    <2> DEFINE seen == Restricted(collected, req[s].scope)
               next == [req[s] EXCEPT !.pc = "check", !.seen = seen]
    <2>1. next.pc = "check" /\ next.seen = seen
        BY <1>0 DEF Request
    <2>2. Proceed(s, next)
        BY <1>2 DEF CreateCollect
    <2>3. \A p \in Purses : seen[p] <= collected[p]
        BY DEF Restricted, TypeOK
    <2> HIDE DEF next, seen
    <2> QED BY <1>0, <2>1, <2>2, <2>3, CoverProceed
<1>3. CASE CreateCheck(s)
    <2> DEFINE a == [req[s] EXCEPT !.pc = "share"]
               b == [req[s] EXCEPT !.pc = "insert", !.todo = {Group}]
    <2>1. /\ a.pc = "share" /\ a.seen = req[s].seen
          /\ b.seen = req[s].seen /\ b.scope = req[s].scope /\ b.amount = req[s].amount
        BY <1>0 DEF Request
    <2>2. Proceed(s, a) \/ Proceed(s, b)
        BY <1>3 DEF CreateCheck
    <2>3. ASSUME req[s].scope # Group
          PROVE  req[s].amount <= PurseAvailable(req[s].scope)
        <3>1. req[s].scope \in Purses /\ req[s].scope \in Scopes
            BY <1>0, <2>3 DEF Request, Scopes
        <3>2. req[s].amount <= req[s].seen[req[s].scope] - outstanding[req[s].scope]
                                                          - allocated[req[s].scope]
            BY <1>3, <2>3 DEF CreateCheck, SeenAvailable
        <3>3. /\ req[s].amount \in Nat /\ req[s].seen[req[s].scope] \in Nat
              /\ collected[req[s].scope] \in Nat
              /\ outstanding[req[s].scope] \in Int /\ allocated[req[s].scope] \in Int
            BY <1>0, <3>1 DEF Request, TypeOK
        <3> QED BY <1>0, <3>1, <3>2, <3>3 DEF PurseAvailable
    <2> HIDE DEF a, b
    <2> QED BY <1>0, <2>1, <2>2, <2>3, CoverProceed
<1>4. CASE CreateShare(s)
    <2>1. req[s].scope = Group
        BY <1>4 DEF CreateShare, LockInv
    <2>2. CASE Proceed(s, [req[s] EXCEPT !.pc = "insert"])
        <3> DEFINE next == [req[s] EXCEPT !.pc = "insert"]
        <3>1. next.scope = Group /\ next.seen = req[s].seen
            BY <1>0, <2>1 DEF Request
        <3>2. Proceed(s, next)
            BY <2>2
        <3> HIDE DEF next
        <3> QED BY <1>0, <3>1, <3>2, CoverProceed
    <2>3. CASE \E shares \in [Purses -> 0 .. req[s].amount] :
                  Proceed(s, [req[s] EXCEPT !.pc = "insert", !.shares = shares,
                                            !.todo = {p \in Purses : shares[p] > 0}])
        <3>1. PICK shares \in [Purses -> 0 .. req[s].amount] :
                  Proceed(s, [req[s] EXCEPT !.pc = "insert", !.shares = shares,
                                            !.todo = {p \in Purses : shares[p] > 0}])
            BY <2>3
        <3> DEFINE next == [req[s] EXCEPT !.pc = "insert", !.shares = shares,
                                          !.todo = {p \in Purses : shares[p] > 0}]
        <3>2. next.scope = Group /\ next.seen = req[s].seen
            BY <1>0, <2>1 DEF Request
        <3>3. Proceed(s, next)
            BY <3>1
        <3> HIDE DEF next
        <3> QED BY <1>0, <3>2, <3>3, CoverProceed
    <2> QED BY <1>4, <2>2, <2>3 DEF CreateShare
<1>5. CASE \E x \in Scopes : InsertLock(s, x)
    <2>1. PICK x \in Scopes : InsertLock(s, x)
        BY <1>5
    <2> DEFINE next == [req[s] EXCEPT !.todo = @ \ {x}]
    <2>2. /\ next.pc = req[s].pc /\ next.seen = req[s].seen
          /\ next.scope = req[s].scope /\ next.amount = req[s].amount
        BY <1>0 DEF Request
    <2>3. Proceed(s, next)
        BY <2>1 DEF InsertLock
    <2>4. next.pc = "insert" /\ next.scope # Group => next.amount <= PurseAvailable(next.scope)
        BY <2>2 DEF CoverInv, PurseRequestStaysCovered, Asks
    <2> HIDE DEF next
    <2> QED BY <1>0, <2>2, <2>3, <2>4, CoverProceed
<1>6. CASE CreateRefuse(s) \/ DeadlockAbort(s)
    <2>1. Proceed(s, NoRequest)
        BY <1>6 DEF CreateRefuse, DeadlockAbort
    <2>2. NoRequest.pc = "idle" /\ \A p \in Purses : NoRequest.seen[p] <= collected[p]
        BY DEF NoRequest, NoShares, TypeOK
    <2> QED BY <1>0, <2>1, <2>2, CoverProceed
<1> QED BY <1>1, <1>2, <1>3, <1>4, <1>5, <1>6 DEF Create

\* What a commit takes from a purse: from its own scope, which it holds, or
\* from a purse it has share-locked, which nobody else holds.
LEMMA CommitTakes ==
    ASSUME TypeOK, LockInv, NEW s \in Requesters, CreateCommit(s)
    PROVE  /\ req[s] \in Request /\ exclusive[req[s].scope] = s
           /\ UNCHANGED collected
           /\ outstanding'[req[s].scope] = outstanding[req[s].scope] + req[s].amount
           /\ \A x \in Scopes \ {req[s].scope} : outstanding'[x] = outstanding[x]
           /\ \A p \in Purses : req[s].shares[p] = 0 => allocated'[p] = allocated[p]
           /\ \A p \in Purses : req[s].shares[p] # 0 => req[s].scope = Group /\ s \in shared[p]
<1>1. /\ req[s] \in Request /\ req[s].pc = "insert" /\ req[s].todo = {}
    BY DEF TypeOK, CreateCommit, Asks
<1>2. /\ Counted("requested", req[s].amount) = req[s].amount
      /\ \A p \in Purses : Counted("requested", req[s].shares[p]) = req[s].shares[p]
    BY DEF Counted, OutstandingStatuses
<1>3. req[s].scope \in Scopes /\ outstanding \in [Scopes -> Int] /\ allocated \in [Purses -> Int]
    BY <1>1 DEF Request, TypeOK
<1>4. /\ outstanding' = [outstanding EXCEPT ![req[s].scope] = @ + req[s].amount]
      /\ \A p \in Purses : allocated'[p] = allocated[p] + req[s].shares[p]
      /\ UNCHANGED collected
    BY <1>2 DEF CreateCommit
<1>5. \A p \in Purses : req[s].shares[p] # 0 => req[s].scope = Group /\ s \in shared[p]
    BY <1>1 DEF LockInv
<1>6. exclusive[req[s].scope] = s
    BY <1>1 DEF LockInv, Holding
<1>7. \A p \in Purses : req[s].shares[p] = 0 => allocated'[p] = allocated[p]
    BY <1>3, <1>4
<1> QED BY <1>1, <1>3, <1>4, <1>5, <1>6, <1>7

LEMMA CoverCommit ==
    ASSUME TypeOK, LockInv, CoverInv, NEW s \in Requesters, CreateCommit(s)
    PROVE  CoverInv'
<1>1. req'[s] = NoRequest /\ \A t \in Requesters \ {s} : req'[t] = req[t]
    BY ProceedAt DEF CreateCommit
<1>2. NoRequest.pc = "idle" /\ \A p \in Purses : NoRequest.seen[p] <= collected[p]
    BY DEF NoRequest, NoShares, TypeOK
<1>3. \A t \in Requesters : \A p \in Purses : req'[t].seen[p] <= collected'[p]
    BY <1>1, <1>2, CommitTakes DEF CoverInv
<1>4. ASSUME NEW t \in Requesters, Asks(t, "insert")', req'[t].scope # Group
      PROVE  req'[t].amount <= PurseAvailable(req[t].scope)'
    <2> DEFINE x == req[t].scope
    <2>1. t # s /\ req'[t] = req[t] /\ Asks(t, "insert") /\ x # Group
        BY <1>1, <1>2, <1>4 DEF Asks
    <2>2. x \in Purses /\ x \in Scopes /\ exclusive[x] = t /\ t # Nobody
        BY <2>1, NamesAssumption DEF TypeOK, Request, Scopes, LockInv, Asks, Holding
    <2>3. x # req[s].scope
        BY <2>1, <2>2, CommitTakes
    <2>4. req[s].shares[x] = 0
        <3>1. shared[x] \subseteq {t}
            BY <2>2 DEF LockInv
        <3> QED BY <2>1, <2>2, <3>1, CommitTakes
    <2>5. PurseAvailable(x)' = PurseAvailable(x)
        BY <2>1, <2>2, <2>3, <2>4, CommitTakes DEF PurseAvailable
    <2> QED BY <2>1, <2>5 DEF CoverInv, PurseRequestStaysCovered
<1> QED BY <1>3, <1>4 DEF CoverInv, PurseRequestStaysCovered

\* A decider that found its payout outstanding can only free its amount.
LEMMA DecidedFrees ==
    ASSUME TypeOK, DeskInv, NEW s \in Deciders, Decided(s)
    PROVE  /\ UNCHANGED <<req, collected>>
           /\ \A p \in Purses : outstanding'[p] <= outstanding[p] /\ allocated'[p] <= allocated[p]
<1> DEFINE i == sess[s].id
<1>1. i \in Ids /\ ~At(s, "idle") /\ UNCHANGED req
    BY DecidedStatus
<1>2. payout[i].status \in OutstandingStatuses
    <2>1. sess[s].pc \in {"approve", "reject", "send", "initiated", "refused", "confirm"}
        BY <1>1 DEF TypeOK, Session, At
    <2>2. payout[i].status = StatusAt(sess[s].pc)
        BY <1>1 DEF DeskInv
    <2> QED BY <2>1, <2>2 DEF StatusAt, OutstandingStatuses
<1>3. PICK status, ref : SetStatus(i, status, ref)
    BY DecidedStatus
<1>4. \A amount \in Nat : /\ Counted(payout[i].status, amount) = amount
                          /\ Counted(status, amount) \in Nat /\ Counted(status, amount) <= amount
    BY <1>2 DEF Counted
<1>5. payout[i].amount \in Nat /\ payout[i].scope \in Scopes
    BY <1>1 DEF TypeOK, Payout
<1>6. ASSUME NEW p \in Purses
      PROVE  outstanding'[p] <= outstanding[p] /\ allocated'[p] <= allocated[p]
    <2>1. p \in Scopes /\ outstanding[p] \in Int /\ allocated[p] \in Int /\ allocation[i][p] \in Nat
        BY <1>1 DEF TypeOK, Scopes
    <2>2. \/ outstanding'[p] = outstanding[p]
          \/ outstanding'[p] = outstanding[p] - Counted(payout[i].status, payout[i].amount)
                                                + Counted(status, payout[i].amount)
        BY <1>3, <1>5, <2>1 DEF SetStatus, TypeOK
    <2>3. allocated'[p] = allocated[p] - Counted(payout[i].status, allocation[i][p])
                                       + Counted(status, allocation[i][p])
        BY <1>3 DEF SetStatus
    <2>4. outstanding'[p] <= outstanding[p]
        BY <1>4, <1>5, <2>1, <2>2
    <2>5. allocated'[p] <= allocated[p]
        BY <1>4, <2>1, <2>3
    <2> QED BY <2>4, <2>5
<1> QED BY <1>1, <1>3, <1>6 DEF SetStatus

\* Every other step of a decider leaves requests and balances alone.
LEMMA DecideFrame ==
    ASSUME NEW s \in Deciders, Decide(s), ~Decided(s)
    PROVE  UNCHANGED <<req, balanceVars>>
BY DEF Decide, Decided, ApproveLoad, RejectLoad, TransferLoad, ConfirmLoad, SendAccepted,
       SendRefused, SendLost

\* Outside create and the decisions, balances only grow.
LEMMA OutsideGrows ==
    ASSUME TypeOK, Outside
    PROVE  /\ \A p \in Purses : collected'[p] >= collected[p]
           /\ UNCHANGED <<outstanding, allocated>>
<1>1. CASE \E p \in Purses : Collect(p)
    BY <1>1 DEF Collect, TypeOK
<1>2. CASE ~\E p \in Purses : Collect(p)
    <2>1. UNCHANGED balanceVars
        BY <1>2 DEF Outside, TransferSkip, ConfirmSkip, TransferEnds, TransferReversed,
                StoreTransferEvent, ReprocessTransferEvent, ToggleCustodian, SaveDirect,
                SwitchToCustodian, Crash
    <2> QED BY <2>1 DEF balanceVars, TypeOK
<1> QED BY <1>1, <1>2

LEMMA CoverStep ==
    Serial /\ TypeOK /\ LockInv /\ DeskInv /\ CoverInv /\ [Next]_vars => CoverInv'
<1> SUFFICES ASSUME Serial, TypeOK, LockInv, DeskInv, CoverInv, [Next]_vars PROVE CoverInv'
    OBVIOUS
<1>0. TypeOK'
    BY TypeStep
<1>1. \A p \in Purses : collected[p] >= collected[p] /\ outstanding[p] <= outstanding[p]
                                                    /\ allocated[p] <= allocated[p]
    BY DEF TypeOK, Scopes
<1>2. CASE UNCHANGED vars
    BY <1>0, <1>1, <1>2, CoverFreed DEF vars, balanceVars
<1>3. ASSUME NEW s \in Deciders, Decide(s) PROVE CoverInv'
    <2>1. CASE Decided(s)
        BY <1>0, <1>1, <2>1, DecidedFrees, CoverFreed
    <2>2. CASE ~Decided(s)
        BY <1>0, <1>1, <1>3, <2>2, DecideFrame, CoverFreed DEF balanceVars
    <2> QED BY <2>1, <2>2
<1>4. CASE Outside
    <2>1. CASE Crash
        <3>1. NoRequest.pc = "idle" /\ \A p \in Purses : NoRequest.seen[p] <= collected[p]
            BY DEF NoRequest, NoShares, TypeOK
        <3>2. \A s \in Requesters : req'[s] = NoRequest
            BY <2>1 DEF Crash
        <3>3. UNCHANGED collected
            BY <2>1 DEF Crash, balanceVars
        <3> QED BY <3>1, <3>2, <3>3 DEF CoverInv, PurseRequestStaysCovered, Asks
    <2>2. CASE ~Crash
        <3>1. UNCHANGED req
            BY <1>4, <2>2, OutsideFrame
        <3>2. \A p \in Purses : outstanding'[p] <= outstanding[p] /\ allocated'[p] <= allocated[p]
            BY <1>1, <1>4, OutsideGrows
        <3> QED BY <1>0, <1>4, <3>1, <3>2, OutsideGrows, CoverFreed
    <2> QED BY <2>1, <2>2
<1> QED BY <1>2, <1>3, <1>4, CoverStart, CoverMoves, CoverCommit DEF Next

LEMMA CoverInit == Init => CoverInv
BY DEF Init, CoverInv, PurseRequestStaysCovered, Asks, NoRequest, NoShares

\* With decisions that do not overlap, a purse request that passed its check
\* is covered at its commit, for any number of concurrent requests and sweeps.
THEOREM SerialPurseRequestStaysCovered ==
    ASSUME Serial
    PROVE  Spec => []PurseRequestStaysCovered
<1>1. CoverInv => PurseRequestStaysCovered
    BY DEF CoverInv
<1>2. TypeOK /\ LockInv /\ DeskInv /\ CoverInv /\ [Next]_vars => DeskInv' /\ CoverInv'
    BY DeskStep, CoverStep
<1> QED BY <1>1, <1>2, TypeInit, TypeStep, LockInit, LockStep, DeskInit, CoverInit, PTL DEF Spec

-----------------------------------------------------------------------------
(* The balances as sums.  Totals over the payouts' rows, over the purses and *)
(* over the scopes, and what rounding does to a sweep's shares.              *)

LEMMA ScopesAreFinite == IsFiniteSet(Scopes) /\ Purses = Scopes \ {Group} /\ Group \in Scopes
<1>1. IsFiniteSet(Purses \cup {Group})
    BY FiniteAssumption, FS_AddElement
<1> QED BY <1>1, NamesAssumption DEF Scopes

LEMMA TotalIsSum ==
    ASSUME NEW f
    PROVE  Total(f) = SumOver(f, Purses)
BY DEF Total, SumOver

LEMMA GroupAvailableIsSum ==
    ASSUME TypeOK
    PROVE  /\ GroupOutstanding = SumOver(outstanding, Purses) + outstanding[Group]
           /\ SumOver(outstanding, Purses) \in Int /\ outstanding[Group] \in Int
           /\ SumOver(collected, Purses) \in Nat
           /\ GroupAvailable = SumOver(collected, Purses) - GroupOutstanding
<1>1. \A x \in Scopes : outstanding[x] \in Int
    BY DEF TypeOK
<1>2. \A p \in Purses : collected[p] \in Nat /\ outstanding[p] \in Int
    BY <1>1 DEF TypeOK, Scopes
<1>3. GroupOutstanding = SumOver(outstanding, Scopes)
    BY DEF GroupOutstanding, SumOver
<1>4. SumOver(outstanding, Scopes) = SumOver(outstanding, Purses) + outstanding[Group]
    <2>1. Group \notin Purses /\ \A x \in Purses \cup {Group} : outstanding[x] \in Int
        BY <1>1, NamesAssumption DEF Scopes
    <2> QED BY <2>1, SumWith, FiniteAssumption DEF Scopes
<1>5. SumOver(outstanding, Purses) \in Int /\ outstanding[Group] \in Int
    BY <1>1, <1>2, SumIsInteger, FiniteAssumption, ScopesAreFinite
<1>6. SumOver(collected, Purses) \in Nat
    BY <1>2, SumOfNaturals, FiniteAssumption
<1>7. GroupAvailable = SumOver(collected, Purses) - GroupOutstanding
    BY TotalIsSum DEF GroupAvailable
<1> QED BY <1>3, <1>4, <1>5, <1>6, <1>7

\* What is left to each purse adds up to what is left to the group, when the
\* sweeps are attributed to their purses in full.
LEMMA AvailableAddsUp ==
    ASSUME TypeOK, SumOver(allocated, Purses) = outstanding[Group]
    PROVE  GroupAvailable = SumOver([p \in Purses |-> PurseAvailable(p)], Purses)
<1> DEFINE avail == [p \in Purses |-> PurseAvailable(p)]
           gone  == [p \in Purses |-> outstanding[p] + allocated[p]]
<1>1. \A p \in Purses : collected[p] \in Nat /\ outstanding[p] \in Int /\ allocated[p] \in Int
    BY DEF TypeOK, Scopes
<1>2. \A p \in Purses : gone[p] = outstanding[p] + allocated[p] /\ gone[p] \in Int /\ avail[p] \in Int
                        /\ collected[p] = avail[p] + gone[p]
    BY <1>1 DEF PurseAvailable
<1> HIDE DEF avail, gone
<1>3. SumOver(gone, Purses) = SumOver(outstanding, Purses) + SumOver(allocated, Purses)
    BY <1>1, <1>2, SumAdds, FiniteAssumption
<1>4. SumOver(collected, Purses) = SumOver(avail, Purses) + SumOver(gone, Purses)
    BY <1>2, SumAdds, FiniteAssumption
<1>5. SumOver(avail, Purses) \in Int
    BY <1>2, SumIsInteger, FiniteAssumption
<1>6. GroupAvailable = SumOver(avail, Purses)
    BY <1>3, <1>4, <1>5, GroupAvailableIsSum
<1> QED BY <1>6 DEF avail

LEMMA QuotientIsNat ==
    ASSUME NEW a \in Nat, NEW b \in Nat, b > 0
    PROVE  a \div b \in Nat
OBVIOUS

LEMMA FloorsAreSummed ==
    ASSUME NEW amount, NEW total, NEW S
    PROVE  MapThenSumSet(LAMBDA p : (amount * collected[p]) \div total, S)
             = SumOver([p \in S |-> (amount * collected[p]) \div total], S)
BY ZenonT(60) DEF MapThenSumSet, MapThenFoldSet, SumOver

\* The shares of a sweep add up to its amount, whatever rounding lost.
LEMMA SharesAddUp ==
    ASSUME TypeOK, NEW amount \in Nat, NEW eligible \in SUBSET Purses, NEW last \in eligible,
           collected[last] > 0, NEW shares, shares = Shares(amount, eligible, last)
    PROVE  SumOver(shares, Purses) = amount
<1> DEFINE total == MapThenSumSet(LAMBDA p : collected[p], eligible)
           floor == [p \in eligible |-> (amount * collected[p]) \div total]
           rest  == amount - SumOver(floor, eligible)
<1>0. IsFiniteSet(eligible) /\ \A p \in eligible : collected[p] \in Nat
    BY FiniteAssumption, FS_Subset DEF TypeOK
<1>1. total \in Nat /\ total > 0
    <2>1. total = SumOver(collected, eligible)
        BY DEF SumOver
    <2>2. total \in Nat /\ collected[last] <= total
        BY <1>0, <2>1, SumOfNaturals
    <2> HIDE DEF total
    <2> QED BY <1>0, <2>2
<1>2. \A p \in eligible : floor[p] \in Nat
    <2> HIDE DEF total
    <2> TAKE p \in eligible
    <2>1. amount * collected[p] \in Nat
        BY <1>0
    <2>2. (amount * collected[p]) \div total \in Nat
        BY <1>1, <2>1, QuotientIsNat
    <2> QED BY <2>2
<1>3. MapThenSumSet(LAMBDA p : (amount * collected[p]) \div total, eligible) = SumOver(floor, eligible)
    <2> HIDE DEF total
    <2>1. MapThenSumSet(LAMBDA p : (amount * collected[p]) \div total, eligible)
             = SumOver([p \in eligible |-> (amount * collected[p]) \div total], eligible)
        BY FloorsAreSummed, Zenon
    <2> QED BY <2>1, Zenon
<1>4. Shares(amount, eligible, last) =
          [p \in Purses |-> IF p \notin eligible THEN 0
                            ELSE IF p = last
                              THEN (amount * collected[p]) \div total
                                     + (amount - MapThenSumSet(LAMBDA q : (amount * collected[q]) \div total,
                                                               eligible))
                              ELSE (amount * collected[p]) \div total]
    BY DEF Shares
<1>5. Shares(amount, eligible, last) =
          [p \in Purses |-> IF p \notin eligible THEN 0
                            ELSE IF p = last THEN (amount * collected[p]) \div total + rest
                            ELSE (amount * collected[p]) \div total]
    BY <1>3, <1>4
<1>6. SumOver(floor, eligible) \in Nat
    BY <1>0, <1>2, SumOfNaturals
<1>7. /\ \A p \in Purses \ eligible : shares[p] = 0
      /\ \A p \in eligible : shares[p] = IF p = last THEN floor[p] + rest ELSE floor[p]
    <2> HIDE DEF total
    <2> QED BY <1>5
<1> HIDE DEF floor, total
<1>8. \A p \in eligible : shares[p] \in Int /\ floor[p] \in Int
    BY <1>2, <1>6, <1>7
<1>9. SumOver(shares, eligible) = SumOver(floor, eligible) + shares[last] - floor[last]
    BY <1>0, <1>7, <1>8, SumChanged
<1>10. SumOver(shares, eligible) = amount
    BY <1>2, <1>6, <1>7, <1>9
<1>11. SumOver(shares, Purses) = SumOver(shares, Purses \cap eligible)
    <2>1. \A p \in Purses : shares[p] \in Int /\ shares[p] = IF p \in eligible THEN shares[p] ELSE 0
        BY <1>7, <1>8
    <2> QED BY <2>1, SumRestricted, FiniteAssumption
<1>12. Purses \cap eligible = eligible
    OBVIOUS
<1> QED BY <1>10, <1>11, <1>12, Zenon

-----------------------------------------------------------------------------
(* What the balances are sums of.                                            *)

Taken(x, rows) ==
    [i \in Ids |-> IF rows[i].scope = x THEN Counted(rows[i].status, rows[i].amount) ELSE 0]

Drawn(p, rows, alloc) == [i \in Ids |-> Counted(rows[i].status, alloc[i][p])]

\* The totals are the sums over the rows, and each sweep's allocations add up
\* to its amount; a payout from one purse has none.
BalanceInv ==
    /\ \A x \in Scopes : outstanding[x] = SumOver(Taken(x, payout), Ids)
    /\ \A p \in Purses : allocated[p] = SumOver(Drawn(p, payout, allocation), Ids)
    /\ SumOver(allocated, Purses) = outstanding[Group]
    /\ \A i \in Ids : payout[i].status # "absent" =>
          SumOver(allocation[i], Purses) = IF payout[i].scope = Group THEN payout[i].amount ELSE 0

LEMMA RowsAreTyped ==
    ASSUME TypeOK, NEW i \in Ids
    PROVE  /\ payout[i] \in Payout /\ payout[i].amount \in Nat /\ payout[i].scope \in Scopes
           /\ allocation[i] \in [Purses -> Nat] /\ \A p \in Purses : allocation[i][p] \in Nat
BY DEF TypeOK, Payout

LEMMA SummandsAreNat ==
    ASSUME TypeOK
    PROVE  /\ \A x : \A i \in Ids : Taken(x, payout)[i] \in Nat
           /\ \A p \in Purses : \A i \in Ids : Drawn(p, payout, allocation)[i] \in Nat
<1>1. \A status : \A amount \in Nat : Counted(status, amount) \in Nat
    BY DEF Counted
<1> QED BY <1>1, RowsAreTyped DEF Taken, Drawn

LEMMA BalancesAreNat ==
    ASSUME TypeOK, BalanceInv
    PROVE  /\ \A x \in Scopes : outstanding[x] \in Nat
           /\ \A p \in Purses : allocated[p] \in Nat
BY SummandsAreNat, SumOfNaturals, FiniteAssumption DEF BalanceInv

\* One payout's row changes: the balances change by what it counts for.
LEMMA OneRowTaken ==
    ASSUME TypeOK, TypeOK', NEW i \in Ids, \A j \in Ids \ {i} : payout'[j] = payout[j],
           NEW x
    PROVE  SumOver(Taken(x, payout'), Ids)
              = SumOver(Taken(x, payout), Ids) + Taken(x, payout')[i] - Taken(x, payout)[i]
<1> DEFINE old == Taken(x, payout)
           new == Taken(x, payout')
<1>1. \A j \in Ids : old[j] \in Nat
    BY SummandsAreNat
<1>2. \A j \in Ids : new[j] \in Nat
    <2>1. \A status : \A amount \in Nat : Counted(status, amount) \in Nat
        BY DEF Counted
    <2>2. \A j \in Ids : payout'[j].amount \in Nat
        BY DEF TypeOK, Payout
    <2> QED BY <2>1, <2>2 DEF Taken
<1>3. \A j \in Ids \ {i} : new[j] = old[j]
    BY DEF Taken
<1> HIDE DEF old, new
<1>4. SumOver(new, Ids) = SumOver(old, Ids) + new[i] - old[i]
    BY <1>1, <1>2, <1>3, SumChanged, FiniteAssumption
<1> QED BY <1>4 DEF old, new

LEMMA OneRowDrawn ==
    ASSUME TypeOK, TypeOK', NEW i \in Ids,
           \A j \in Ids \ {i} : payout'[j] = payout[j] /\ allocation'[j] = allocation[j],
           NEW p \in Purses
    PROVE  SumOver(Drawn(p, payout', allocation'), Ids)
              = SumOver(Drawn(p, payout, allocation), Ids)
                  + Drawn(p, payout', allocation')[i] - Drawn(p, payout, allocation)[i]
<1> DEFINE old == Drawn(p, payout, allocation)
           new == Drawn(p, payout', allocation')
<1>1. \A j \in Ids : old[j] \in Nat
    BY SummandsAreNat
<1>2. \A j \in Ids : new[j] \in Nat
    <2>1. \A status : \A amount \in Nat : Counted(status, amount) \in Nat
        BY DEF Counted
    <2>2. \A j \in Ids : allocation'[j][p] \in Nat
        BY DEF TypeOK
    <2> QED BY <2>1, <2>2 DEF Drawn
<1>3. \A j \in Ids \ {i} : new[j] = old[j]
    BY DEF Drawn
<1> HIDE DEF old, new
<1>4. SumOver(new, Ids) = SumOver(old, Ids) + new[i] - old[i]
    BY <1>1, <1>2, <1>3, SumChanged, FiniteAssumption
<1> QED BY <1>4 DEF old, new

\* A decider that found its payout outstanding leaves it so, or gives back all
\* of it: to its scope and to the purses it drew from.
LEMMA BalanceDecided ==
    ASSUME TypeOK, TypeOK', DeskInv, BalanceInv, NEW s \in Deciders, Decided(s)
    PROVE  /\ BalanceInv'
           /\ \A x \in Scopes : outstanding'[x] <= outstanding[x]
<1> DEFINE i == sess[s].id
<1>1. i \in Ids /\ ~At(s, "idle")
    BY DecidedStatus
<1>2. payout[i].status \in OutstandingStatuses
    <2>1. sess[s].pc \in {"approve", "reject", "send", "initiated", "refused", "confirm"}
        BY <1>1 DEF TypeOK, Session, At
    <2>2. payout[i].status = StatusAt(sess[s].pc)
        BY <1>1 DEF DeskInv
    <2> QED BY <2>1, <2>2 DEF StatusAt, OutstandingStatuses
<1>3. PICK status, ref : SetStatus(i, status, ref)
    BY DecidedStatus
<1> DEFINE old == payout[i]
           keeps(n) == Counted(status, n)
<1>4. /\ payout'[i].status = status /\ payout'[i].amount = old.amount /\ payout'[i].scope = old.scope
      /\ \A j \in Ids \ {i} : payout'[j] = payout[j]
      /\ UNCHANGED allocation
    BY <1>1, <1>3, StatusOf DEF SetStatus
<1>5. old.amount \in Nat /\ old.scope \in Scopes /\ \A p \in Purses : allocation[i][p] \in Nat
    BY <1>1, RowsAreTyped
<1>6. \A n \in Nat : Counted(old.status, n) = n /\ keeps(n) \in {0, n} /\ keeps(n) \in Nat
    BY <1>2 DEF Counted
<1>7. \A x \in Scopes : outstanding[x] \in Int /\ outstanding'[x] \in Int
    BY DEF TypeOK
<1>8. /\ outstanding'[old.scope] = outstanding[old.scope] - old.amount + keeps(old.amount)
      /\ \A x \in Scopes \ {old.scope} : outstanding'[x] = outstanding[x]
    <2>1. outstanding' = [outstanding EXCEPT ![old.scope] =
                             @ - Counted(old.status, old.amount) + Counted(status, old.amount)]
        BY <1>3 DEF SetStatus
    <2> QED BY <1>5, <1>6, <2>1 DEF TypeOK
<1>9. \A p \in Purses : allocated'[p] = allocated[p] - allocation[i][p] + keeps(allocation[i][p])
    BY <1>3, <1>5, <1>6 DEF SetStatus
<1>10. \A p \in Purses : allocated[p] \in Int /\ allocated'[p] \in Int
    BY DEF TypeOK
<1>11. \A x \in Scopes : /\ Taken(x, payout)[i] = IF old.scope = x THEN old.amount ELSE 0
                         /\ Taken(x, payout')[i] = IF old.scope = x THEN keeps(old.amount) ELSE 0
    BY <1>1, <1>4, <1>5, <1>6 DEF Taken
<1>12. \A p \in Purses : /\ Drawn(p, payout, allocation)[i] = allocation[i][p]
                         /\ Drawn(p, payout', allocation')[i] = keeps(allocation[i][p])
    BY <1>1, <1>4, <1>5, <1>6 DEF Drawn
<1>13. SumOver(allocation[i], Purses) = IF old.scope = Group THEN old.amount ELSE 0
    BY <1>1, <1>2 DEF BalanceInv, OutstandingStatuses
<1> HIDE DEF keeps
<1>14. ASSUME NEW x \in Scopes
       PROVE  outstanding'[x] = SumOver(Taken(x, payout'), Ids) /\ outstanding'[x] <= outstanding[x]
    <2>1. SumOver(Taken(x, payout'), Ids)
              = outstanding[x] + Taken(x, payout')[i] - Taken(x, payout)[i]
        BY <1>1, <1>4, OneRowTaken DEF BalanceInv
    <2>2. CASE x = old.scope
        BY <1>5, <1>6, <1>7, <1>8, <1>11, <2>1, <2>2
    <2>3. CASE x # old.scope
        BY <1>7, <1>8, <1>11, <2>1, <2>3
    <2> QED BY <2>2, <2>3
<1>15. ASSUME NEW p \in Purses
       PROVE  allocated'[p] = SumOver(Drawn(p, payout', allocation'), Ids)
    <2>1. SumOver(Drawn(p, payout', allocation'), Ids)
              = allocated[p] + Drawn(p, payout', allocation')[i] - Drawn(p, payout, allocation)[i]
        BY <1>1, <1>4, OneRowDrawn DEF BalanceInv
    <2>2. keeps(allocation[i][p]) \in Int /\ allocation[i][p] \in Int
        BY <1>5, <1>6
    <2> QED BY <1>9, <1>10, <1>12, <2>1, <2>2
<1>16. SumOver(allocated', Purses) = outstanding'[Group]
    <2>1. CASE status \in OutstandingStatuses
        <3>1. \A n \in Nat : keeps(n) = n
            BY <2>1 DEF Counted, keeps
        <3>2. \A p \in Purses : allocated'[p] = allocated[p]
            BY <1>5, <1>9, <1>10, <3>1
        <3>3. \A x \in Scopes : outstanding'[x] = outstanding[x]
            BY <1>5, <1>7, <1>8, <3>1
        <3>4. SumOver(allocated', Purses) = SumOver(allocated, Purses)
            BY <3>2, SumSame, FiniteAssumption
        <3> QED BY <3>3, <3>4, ScopesAreFinite DEF BalanceInv
    <2>2. CASE status \notin OutstandingStatuses
        <3>1. \A n \in Nat : keeps(n) = 0
            BY <2>2 DEF Counted, keeps
        <3>2. \A p \in Purses : /\ allocated'[p] \in Int /\ allocation[i][p] \in Int
                                /\ allocated[p] = allocated'[p] + allocation[i][p]
            BY <1>5, <1>9, <1>10, <3>1
        <3>3. SumOver(allocated, Purses) = SumOver(allocated', Purses) + SumOver(allocation[i], Purses)
            BY <3>2, SumAdds, FiniteAssumption
        <3>4. outstanding'[Group] = outstanding[Group] - (IF old.scope = Group THEN old.amount ELSE 0)
            BY <1>5, <1>7, <1>8, <3>1, ScopesAreFinite
        <3>5. SumOver(allocated', Purses) \in Int /\ outstanding[Group] \in Int
            BY <1>7, <1>10, SumIsInteger, FiniteAssumption, ScopesAreFinite
        <3>6. SumOver(allocated, Purses) = outstanding[Group]
            BY DEF BalanceInv
        <3>7. SumOver(allocation[i], Purses) \in Int
            BY <1>5, SumIsInteger, FiniteAssumption
        <3> DEFINE now  == SumOver(allocated', Purses)
                   back == SumOver(allocation[i], Purses)
        <3>8. outstanding[Group] = now + back /\ outstanding'[Group] = outstanding[Group] - back
            BY <1>13, <3>3, <3>4, <3>6
        <3> HIDE DEF now, back
        <3>9. now \in Int /\ back \in Int
            BY <3>5, <3>7 DEF now, back
        <3>10. now = outstanding'[Group]
            BY <3>8, <3>9
        <3> QED BY <3>10 DEF now
    <2> QED BY <2>1, <2>2
<1>17. \A j \in Ids : payout'[j].status # "absent" =>
           SumOver(allocation'[j], Purses) = IF payout'[j].scope = Group THEN payout'[j].amount ELSE 0
    BY <1>2, <1>4, <1>13 DEF BalanceInv, OutstandingStatuses
<1> QED BY <1>14, <1>15, <1>16, <1>17 DEF BalanceInv

-----------------------------------------------------------------------------
(* A sweep past its check holds the group's row, and every commit needs it:  *)
(* a purse request share-locks the group for its foreign key.  So what the   *)
(* sweep found is still there when it is shared out, and at the commit.      *)

Sound(r, available, locked) ==
    /\ r.pc # "idle" => r.amount > 0
    /\ r.pc \in {"share", "insert"} /\ r.scope = Group => r.amount <= available
    /\ r.pc = "insert" => SumOver(r.shares, Purses) = IF r.scope = Group THEN r.amount ELSE 0
    /\ r.pc = "insert" /\ r.scope # Group => Group \in r.todo \/ locked

SweepInv == \A s \in Requesters : Sound(req[s], GroupAvailable, s \in shared[Group])

LEMMA NothingIsSound ==
    ASSUME NEW available, NEW locked
    PROVE  Sound(NoRequest, available, locked)
BY DEF Sound, NoRequest

LEMMA GroupAvailableNow == GroupAvailable = SumOver(collected, Purses) - SumOver(outstanding, Scopes)
BY DEF GroupAvailable, GroupOutstanding, Total, SumOver

LEMMA GroupAvailableNext ==
    GroupAvailable' = SumOver(collected', Purses) - SumOver(outstanding', Scopes)
BY ZenonT(60) DEF GroupAvailable, GroupOutstanding, Total, SumOver, MapThenSumSet, MapThenFoldSet

LEMMA GroupAvailableGrows ==
    ASSUME TypeOK, TypeOK',
           \A p \in Purses : collected[p] <= collected'[p],
           \A x \in Scopes : outstanding'[x] <= outstanding[x]
    PROVE  GroupAvailable \in Int /\ GroupAvailable' \in Int /\ GroupAvailable <= GroupAvailable'
<1>1. /\ \A p \in Purses : collected[p] \in Int /\ collected'[p] \in Int
      /\ \A x \in Scopes : outstanding[x] \in Int /\ outstanding'[x] \in Int
    BY DEF TypeOK
<1>2. /\ SumOver(collected, Purses) <= SumOver(collected', Purses)
      /\ SumOver(collected, Purses) \in Int /\ SumOver(collected', Purses) \in Int
    BY <1>1, SumGrows, SumIsInteger, FiniteAssumption
<1>3. /\ SumOver(outstanding', Scopes) <= SumOver(outstanding, Scopes)
      /\ SumOver(outstanding, Scopes) \in Int /\ SumOver(outstanding', Scopes) \in Int
    BY <1>1, SumGrows, SumIsInteger, ScopesAreFinite
<1>4. \A a, b, c, d \in Int : a <= b /\ d <= c => a - c \in Int /\ b - d \in Int /\ a - c <= b - d
    OBVIOUS
<1> QED BY <1>2, <1>3, <1>4, GroupAvailableNow, GroupAvailableNext

\* A step that leaves requests and locks alone, and frees balance.
LEMMA SweepFreed ==
    ASSUME TypeOK, TypeOK', SweepInv, UNCHANGED <<req, shared>>,
           \A p \in Purses : collected[p] <= collected'[p],
           \A x \in Scopes : outstanding'[x] <= outstanding[x]
    PROVE  SweepInv'
<1> SUFFICES ASSUME NEW s \in Requesters PROVE Sound(req[s], GroupAvailable', s \in shared[Group])
    BY DEF SweepInv
<1>1. req[s].amount \in Nat
    BY DEF TypeOK, Request
<1>2. GroupAvailable \in Int /\ GroupAvailable' \in Int /\ GroupAvailable <= GroupAvailable'
    BY GroupAvailableGrows
<1>3. Sound(req[s], GroupAvailable, s \in shared[Group])
    BY DEF SweepInv
<1> QED BY <1>1, <1>2, <1>3 DEF Sound

\* A request that moves on while the balances stand still.
LEMMA SweepProceed ==
    ASSUME TypeOK, SweepInv, NEW s \in Requesters, NEW next, Proceed(s, next),
           UNCHANGED <<collected, outstanding>>,
           \A t \in Requesters \ {s} : t \in shared[Group] => t \in shared'[Group],
           Sound(next, GroupAvailable, s \in shared'[Group])
    PROVE  SweepInv'
<1>1. req'[s] = next /\ \A t \in Requesters \ {s} : req'[t] = req[t]
    BY ProceedAt
<1>2. GroupAvailable' = GroupAvailable
    BY GroupAvailableNow, GroupAvailableNext
<1>3. ASSUME NEW t \in Requesters PROVE Sound(req'[t], GroupAvailable', t \in shared'[Group])
    <2>1. CASE t = s
        BY <1>1, <1>2, <2>1
    <2>2. CASE t # s
        <3>1. Sound(req[t], GroupAvailable, t \in shared[Group])
            BY DEF SweepInv
        <3> QED BY <1>1, <1>2, <2>2, <3>1 DEF Sound
    <2> QED BY <2>1, <2>2
<1> QED BY <1>3 DEF SweepInv

LEMMA SweepStart ==
    ASSUME TypeOK, SweepInv, NEW s \in Requesters, NEW i \in Ids, CreateStart(s, i)
    PROVE  SweepInv'
<1>1. PICK x \in Requestable, amount \in Amounts :
          Proceed(s, [NoRequest EXCEPT !.pc = "lock", !.id = i, !.scope = x, !.amount = amount])
    BY DEF CreateStart
<1> DEFINE next == [NoRequest EXCEPT !.pc = "lock", !.id = i, !.scope = x, !.amount = amount]
<1>2. next.pc = "lock" /\ next.amount = amount
    BY DEF NoRequest
<1>3. Proceed(s, next) /\ UNCHANGED <<collected, outstanding, shared>>
    BY <1>1 DEF CreateStart, balanceVars, lockVars
<1> HIDE DEF next
<1>4. Sound(next, GroupAvailable, s \in shared'[Group])
    BY <1>2, AmountsAssumption DEF Sound
<1> QED BY <1>3, <1>4, SweepProceed

\* What a sweep has seen is no more than what the group has collected.
LEMMA SweepChecked ==
    ASSUME TypeOK, CoverInv, NEW s \in Requesters, CreateCheck(s), req[s].scope = Group
    PROVE  req[s].amount <= GroupAvailable
<1> DEFINE seen == req[s].seen
           out  == SumOver(outstanding, Scopes)
<1>1. req[s] \in Request /\ \A p \in Purses : seen[p] \in Nat /\ collected[p] \in Nat /\ seen[p] <= collected[p]
    BY DEF TypeOK, Request, CoverInv
<1>2. SumOver(seen, Purses) <= SumOver(collected, Purses)
    BY <1>1, SumGrows, FiniteAssumption
<1>3. SumOver(seen, Purses) \in Int /\ SumOver(collected, Purses) \in Int /\ out \in Int
    <2>1. \A x \in Scopes : outstanding[x] \in Int
        BY DEF TypeOK
    <2>2. SumOver(seen, Purses) \in Int /\ SumOver(collected, Purses) \in Int
        BY <1>1, SumIsInteger, FiniteAssumption
    <2> QED BY <2>1, <2>2, SumIsInteger, ScopesAreFinite
<1>4. req[s].amount <= Total(seen) - GroupOutstanding
    BY DEF CreateCheck, SeenAvailable
<1>5. Total(seen) = SumOver(seen, Purses) /\ GroupOutstanding = out
    BY DEF Total, GroupOutstanding, SumOver
<1>6. req[s].amount \in Nat
    BY <1>1 DEF Request
<1>7. GroupAvailable = SumOver(collected, Purses) - out
    BY GroupAvailableNow
<1>8. \A n, a, b, c \in Int : n <= a - c /\ a <= b => n <= b - c
    OBVIOUS
<1> HIDE DEF out, seen
<1> QED BY <1>2, <1>3, <1>4, <1>5, <1>6, <1>7, <1>8

\* Some purse still has money to draw from when a sweep is shared out.
LEMMA SomeoneIsEligible ==
    ASSUME TypeOK, BalanceInv, NEW amount \in Nat, amount > 0, amount <= GroupAvailable
    PROVE  \E p \in Purses : PurseAvailable(p) > 0
<1> SUFFICES ASSUME \A p \in Purses : ~(PurseAvailable(p) > 0) PROVE FALSE
    OBVIOUS
<1> DEFINE avail == [p \in Purses |-> PurseAvailable(p)]
           none  == [p \in Purses |-> 0]
<1>1. GroupAvailable = SumOver(avail, Purses)
    BY AvailableAddsUp DEF BalanceInv
<1>2. \A p \in Purses : PurseAvailable(p) \in Int
    BY DEF TypeOK, PurseAvailable, Scopes
<1>3. \A p \in Purses : avail[p] \in Int /\ none[p] \in Int /\ avail[p] <= none[p]
    BY <1>2
<1>4. SumOver(avail, Purses) <= SumOver(none, Purses) /\ SumOver(avail, Purses) \in Int
    BY <1>3, SumGrows, SumIsInteger, FiniteAssumption
<1>5. SumOver(none, Purses) = 0
    BY SumOfZeros, FiniteAssumption
<1> HIDE DEF avail, none
<1> QED BY <1>1, <1>4, <1>5

LEMMA SweepShared ==
    ASSUME TypeOK, LockInv, BalanceInv, SweepInv, NEW s \in Requesters, CreateShare(s)
    PROVE  SweepInv'
<1> DEFINE amount   == req[s].amount
           eligible == {p \in Purses : PurseAvailable(p) > 0}
<1>1. /\ req[s] \in Request /\ amount \in Nat /\ amount > 0
      /\ req[s].scope = Group /\ amount <= GroupAvailable
    <2>1. req[s] \in Request /\ amount \in Nat /\ req[s].pc = "share"
        BY DEF TypeOK, Request, CreateShare, Asks
    <2>2. req[s].scope = Group
        BY DEF LockInv, CreateShare
    <2> QED BY <2>1, <2>2 DEF SweepInv, Sound
<1>2. eligible # {}
    BY <1>1, SomeoneIsEligible
<1>3. PICK shares \in [Purses -> 0 .. amount] :
          /\ \E last \in eligible : shares = Shares(amount, eligible, last)
          /\ Proceed(s, [req[s] EXCEPT !.pc = "insert", !.shares = shares,
                                       !.todo = {p \in Purses : shares[p] > 0}])
    BY <1>2 DEF CreateShare
<1>4. PICK last \in eligible : shares = Shares(amount, eligible, last)
    BY <1>3
<1>5. collected[last] > 0
    <2>1. /\ last \in Purses /\ last \in Scopes /\ outstanding[last] \in Nat /\ allocated[last] \in Nat
          /\ collected[last] \in Nat /\ PurseAvailable(last) > 0
        BY BalancesAreNat DEF TypeOK, Scopes
    <2> QED BY <2>1 DEF PurseAvailable
<1>6. SumOver(shares, Purses) = amount
    <2> HIDE DEF eligible
    <2>1. eligible \in SUBSET Purses
        BY DEF eligible
    <2> QED BY <1>1, <1>4, <1>5, <2>1, SharesAddUp
<1> DEFINE next == [req[s] EXCEPT !.pc = "insert", !.shares = shares,
                                  !.todo = {p \in Purses : shares[p] > 0}]
<1>7. next.pc = "insert" /\ next.scope = Group /\ next.amount = amount /\ next.shares = shares
    BY <1>1 DEF Request
<1>8. Proceed(s, next) /\ UNCHANGED <<collected, outstanding, shared>>
    BY <1>3 DEF CreateShare, balanceVars, lockVars
<1> HIDE DEF next
<1>9. Sound(next, GroupAvailable, s \in shared'[Group])
    BY <1>1, <1>6, <1>7 DEF Sound
<1> QED BY <1>8, <1>9, SweepProceed

LEMMA SweepMoves ==
    ASSUME TypeOK, LockInv, CoverInv, BalanceInv, SweepInv, NEW s \in Requesters,
           Create(s), ~CreateCommit(s)
    PROVE  SweepInv'
<1>0. /\ req[s] \in Request /\ UNCHANGED <<collected, outstanding>>
      /\ Sound(req[s], GroupAvailable, s \in shared[Group])
    BY CreateFrame DEF TypeOK, SweepInv, balanceVars
<1>1. CASE CreateLock(s) \/ CreateCollect(s)
    <2>1. PICK next : /\ Proceed(s, next) /\ next.pc \in {"collect", "check"}
                      /\ next.amount = req[s].amount
        <3> DEFINE a == [req[s] EXCEPT !.pc = "collect"]
                   b == [req[s] EXCEPT !.pc = "check", !.seen = Restricted(collected, req[s].scope)]
        <3>1. a.pc = "collect" /\ a.amount = req[s].amount /\ b.pc = "check" /\ b.amount = req[s].amount
            BY <1>0 DEF Request
        <3>2. Proceed(s, a) \/ Proceed(s, b)
            BY <1>1 DEF CreateLock, CreateCollect
        <3> HIDE DEF a, b
        <3> QED BY <3>1, <3>2
    <2>2. UNCHANGED shared /\ req[s].pc # "idle"
        BY <1>1 DEF CreateLock, CreateCollect, lockVars, Asks
    <2>3. Sound(next, GroupAvailable, s \in shared'[Group])
        BY <1>0, <2>1, <2>2 DEF Sound
    <2> QED BY <1>0, <2>1, <2>2, <2>3, SweepProceed
<1>2. CASE CreateCheck(s)
    <2> DEFINE a == [req[s] EXCEPT !.pc = "share"]
               b == [req[s] EXCEPT !.pc = "insert", !.todo = {Group}]
    <2>1. /\ a.pc = "share" /\ a.amount = req[s].amount /\ a.scope = req[s].scope
          /\ b.pc = "insert" /\ b.amount = req[s].amount /\ b.scope = req[s].scope
          /\ b.shares = req[s].shares /\ b.todo = {Group}
        BY <1>0 DEF Request
    <2>2. (Proceed(s, a) /\ req[s].scope = Group) \/ (Proceed(s, b) /\ req[s].scope # Group)
        BY <1>2 DEF CreateCheck
    <2>3. UNCHANGED shared /\ req[s].pc = "check"
        BY <1>2 DEF CreateCheck, lockVars, Asks
    <2>4. \A p \in Purses : req[s].shares[p] = 0
        BY <2>3 DEF LockInv
    <2>5. SumOver(req[s].shares, Purses) = 0
        BY <2>4, SumOfZeros, FiniteAssumption
    <2>6. req[s].amount > 0
        BY <1>0, <2>3 DEF Sound
    <2> HIDE DEF a, b
    <2>7. CASE Proceed(s, a) /\ req[s].scope = Group
        <3>1. Sound(a, GroupAvailable, s \in shared'[Group])
            BY <1>2, <2>1, <2>6, <2>7, SweepChecked DEF Sound
        <3> QED BY <1>0, <2>3, <2>7, <3>1, SweepProceed
    <2>8. CASE Proceed(s, b) /\ req[s].scope # Group
        <3>1. Sound(b, GroupAvailable, s \in shared'[Group])
            BY <2>1, <2>5, <2>6, <2>8 DEF Sound
        <3> QED BY <1>0, <2>3, <2>8, <3>1, SweepProceed
    <2> QED BY <2>2, <2>7, <2>8
<1>3. CASE CreateShare(s)
    BY <1>3, SweepShared
<1>4. ASSUME NEW x \in Scopes, InsertLock(s, x) PROVE SweepInv'
    <2> DEFINE next == [req[s] EXCEPT !.todo = @ \ {x}]
    <2>1. /\ next.pc = req[s].pc /\ next.amount = req[s].amount /\ next.scope = req[s].scope
          /\ next.shares = req[s].shares /\ next.todo = req[s].todo \ {x}
        BY <1>0 DEF Request
    <2>2. Proceed(s, next) /\ shared' = [shared EXCEPT ![x] = @ \cup {s}]
        BY <1>4 DEF InsertLock
    <2>3. /\ x = Group => s \in shared'[Group]
          /\ \A t \in Requesters : t \in shared[Group] => t \in shared'[Group]
        BY <2>2, ScopesAreFinite DEF TypeOK
    <2> HIDE DEF next
    <2>4. Sound(next, GroupAvailable, s \in shared'[Group])
        BY <1>0, <2>1, <2>3 DEF Sound
    <2> QED BY <1>0, <2>2, <2>3, <2>4, SweepProceed
<1>5. CASE CreateRefuse(s) \/ DeadlockAbort(s)
    <2>1. Proceed(s, NoRequest) /\ Release(s)
        BY <1>5 DEF CreateRefuse, DeadlockAbort
    <2>2. \A t \in Requesters \ {s} : t \in shared[Group] => t \in shared'[Group]
        BY <2>1, ScopesAreFinite DEF Release
    <2> QED BY <1>0, <2>1, <2>2, NothingIsSound, SweepProceed
<1> QED BY <1>1, <1>2, <1>3, <1>4, <1>5 DEF Create

LEMMA SweepCommit ==
    ASSUME TypeOK, LockInv, SweepInv, NEW s \in Requesters, CreateCommit(s)
    PROVE  SweepInv'
<1>1. req'[s] = NoRequest /\ \A t \in Requesters \ {s} : req'[t] = req[t]
    BY ProceedAt DEF CreateCommit
<1>2. \A t \in Requesters \ {s} : t \in shared[Group] => t \in shared'[Group]
    BY ScopesAreFinite DEF CreateCommit, Release
<1>3. /\ req[s] \in Request /\ req[s].pc = "insert" /\ req[s].todo = {}
      /\ exclusive[req[s].scope] = s
    BY DEF CreateCommit, Asks, TypeOK, LockInv, Holding
<1>4. req[s].scope # Group => s \in shared[Group]
    BY <1>3 DEF SweepInv, Sound
<1>5. ASSUME NEW t \in Requesters \ {s}
      PROVE  ~(req[t].pc \in {"share", "insert"} /\ req[t].scope = Group)
    <2> SUFFICES ASSUME req[t].pc \in {"share", "insert"}, req[t].scope = Group PROVE FALSE
        OBVIOUS
    <2>1. exclusive[Group] = t /\ Group \in Scopes /\ t # Nobody
        BY ScopesAreFinite, NamesAssumption DEF LockInv, Holding
    <2>2. shared[Group] \subseteq {t}
        BY <2>1 DEF LockInv
    <2> QED BY <1>3, <1>4, <2>1, <2>2
<1>6. ASSUME NEW t \in Requesters PROVE Sound(req'[t], GroupAvailable', t \in shared'[Group])
    <2>1. CASE t = s
        BY <1>1, <2>1, NothingIsSound
    <2>2. CASE t # s
        <3>1. Sound(req[t], GroupAvailable, t \in shared[Group])
            BY DEF SweepInv
        <3> QED BY <1>1, <1>2, <1>5, <2>2, <3>1 DEF Sound
    <2> QED BY <2>1, <2>2
<1> QED BY <1>6 DEF SweepInv

LEMMA BalanceCommit ==
    ASSUME TypeOK, TypeOK', LockInv, DeskInv, BalanceInv, SweepInv, NEW s \in Requesters, CreateCommit(s)
    PROVE  BalanceInv'
<1> DEFINE r == req[s]
           i == r.id
<1>1. /\ r \in Request /\ r.pc = "insert" /\ i \in Ids /\ r.amount \in Nat /\ r.scope \in Scopes
      /\ \A p \in Purses : r.shares[p] \in Nat
    BY DEF TypeOK, Request, CreateCommit, Asks
<1>2. payout[i].status = "absent"
    BY <1>1 DEF DeskInv, Asks
<1>3. /\ payout'[i].status = "requested" /\ payout'[i].scope = r.scope /\ payout'[i].amount = r.amount
      /\ \A j \in Ids \ {i} : payout'[j] = payout[j] /\ allocation'[j] = allocation[j]
      /\ allocation'[i] = r.shares
    BY <1>1 DEF CreateCommit, TypeOK
<1>4. SumOver(r.shares, Purses) = IF r.scope = Group THEN r.amount ELSE 0
    BY <1>1 DEF SweepInv, Sound
<1>5. \A n : Counted("requested", n) = n /\ Counted("absent", n) = 0
    BY DEF Counted, OutstandingStatuses
<1>6. /\ outstanding' = [outstanding EXCEPT ![r.scope] = @ + r.amount]
      /\ \A p \in Purses : allocated'[p] = allocated[p] + r.shares[p]
    BY <1>5 DEF CreateCommit
<1>7. \A x \in Scopes : outstanding[x] \in Int /\ outstanding'[x] \in Int
    BY DEF TypeOK
<1>8. \A p \in Purses : allocated[p] \in Int /\ allocated'[p] \in Int
    BY DEF TypeOK
<1>9. /\ outstanding'[r.scope] = outstanding[r.scope] + r.amount
      /\ \A x \in Scopes \ {r.scope} : outstanding'[x] = outstanding[x]
    BY <1>1, <1>6 DEF TypeOK
<1>10. \A x \in Scopes : /\ Taken(x, payout)[i] = 0
                         /\ Taken(x, payout')[i] = IF r.scope = x THEN r.amount ELSE 0
    BY <1>1, <1>2, <1>3, <1>5 DEF Taken
<1>11. \A p \in Purses : /\ Drawn(p, payout, allocation)[i] = 0
                         /\ Drawn(p, payout', allocation')[i] = r.shares[p]
    BY <1>1, <1>2, <1>3, <1>5 DEF Drawn
<1> HIDE DEF r, i
<1>12. ASSUME NEW x \in Scopes PROVE outstanding'[x] = SumOver(Taken(x, payout'), Ids)
    <2>1. SumOver(Taken(x, payout'), Ids)
              = outstanding[x] + Taken(x, payout')[i] - Taken(x, payout)[i]
        BY <1>1, <1>3, OneRowTaken DEF BalanceInv
    <2>2. CASE x = r.scope
        BY <1>1, <1>7, <1>9, <1>10, <2>1, <2>2
    <2>3. CASE x # r.scope
        BY <1>7, <1>9, <1>10, <2>1, <2>3
    <2> QED BY <2>2, <2>3
<1>13. ASSUME NEW p \in Purses PROVE allocated'[p] = SumOver(Drawn(p, payout', allocation'), Ids)
    <2>1. SumOver(Drawn(p, payout', allocation'), Ids)
              = allocated[p] + Drawn(p, payout', allocation')[i] - Drawn(p, payout, allocation)[i]
        BY <1>1, <1>3, OneRowDrawn DEF BalanceInv
    <2> QED BY <1>1, <1>6, <1>8, <1>11, <2>1
<1>14. SumOver(allocated', Purses) = outstanding'[Group]
    <2>1. SumOver(allocated', Purses) = SumOver(allocated, Purses) + SumOver(r.shares, Purses)
        BY <1>1, <1>6, <1>8, SumAdds, FiniteAssumption
    <2>2. Group \in Scopes /\ SumOver(allocated, Purses) = outstanding[Group]
        BY ScopesAreFinite DEF BalanceInv
    <2>3. CASE r.scope = Group
        BY <1>4, <1>9, <2>1, <2>2, <2>3
    <2>4. CASE r.scope # Group
        BY <1>4, <1>7, <1>9, <2>1, <2>2, <2>4
    <2> QED BY <2>3, <2>4
<1>15. \A j \in Ids : payout'[j].status # "absent" =>
           SumOver(allocation'[j], Purses) = IF payout'[j].scope = Group THEN payout'[j].amount ELSE 0
    BY <1>3, <1>4 DEF BalanceInv
<1> QED BY <1>12, <1>13, <1>14, <1>15 DEF BalanceInv

LEMMA BalanceKept ==
    ASSUME BalanceInv, UNCHANGED <<payout, allocation, outstanding, allocated>>
    PROVE  BalanceInv'
BY DEF BalanceInv

\* Both invariants, through every step.
LEMMA BalanceStep ==
    ASSUME Serial, TypeOK, TypeOK', LockInv, DeskInv, CoverInv, BalanceInv, SweepInv, [Next]_vars
    PROVE  BalanceInv' /\ SweepInv'
<1>0. /\ \A p \in Purses : collected[p] <= collected[p]
      /\ \A x \in Scopes : outstanding[x] <= outstanding[x]
    BY DEF TypeOK
<1>1. ASSUME UNCHANGED <<req, shared, payout, balanceVars>> PROVE BalanceInv' /\ SweepInv'
    <2>1. UNCHANGED <<payout, allocation, outstanding, allocated, collected, req, shared>>
        BY <1>1 DEF balanceVars
    <2>2. SweepInv'
        BY <1>0, <2>1, SweepFreed
    <2> QED BY <2>1, <2>2, BalanceKept
<1>2. CASE UNCHANGED vars
    BY <1>1, <1>2 DEF vars, lockVars
<1>3. ASSUME NEW s \in Requesters, (\E i \in Ids : CreateStart(s, i)) \/ Create(s)
      PROVE  BalanceInv' /\ SweepInv'
    <2>1. CASE CreateCommit(s)
        BY <2>1, BalanceCommit, SweepCommit
    <2>2. CASE ~CreateCommit(s)
        <3>1. BalanceInv'
            BY <1>3, <2>2, CreateFrame, BalanceKept DEF balanceVars
        <3> QED BY <1>3, <2>2, <3>1, SweepStart, SweepMoves
    <2> QED BY <2>1, <2>2
<1>4. ASSUME NEW s \in Deciders, Decide(s) PROVE BalanceInv' /\ SweepInv'
    <2>1. CASE Decided(s)
        <3>1. BalanceInv' /\ \A x \in Scopes : outstanding'[x] <= outstanding[x]
            BY <2>1, BalanceDecided
        <3>2. UNCHANGED <<req, shared, collected>>
            BY <2>1, DecidedStatus, DecidedFrees DEF lockVars
        <3> QED BY <1>0, <3>1, <3>2, SweepFreed
    <2>2. CASE ~Decided(s)
        <3>1. UNCHANGED <<req, shared, payout, balanceVars>>
            BY <1>4, <2>2 DEF Decide, Decided, ApproveLoad, RejectLoad, TransferLoad, ConfirmLoad,
                              SendAccepted, SendRefused, SendLost, lockVars
        <3> QED BY <1>1, <3>1
    <2> QED BY <2>1, <2>2
<1>5. CASE Outside
    <2>1. ASSUME NEW p \in Purses, Collect(p) PROVE BalanceInv' /\ SweepInv'
        <3>1. UNCHANGED <<payout, allocation, outstanding, allocated, req, shared>>
            BY <2>1 DEF Collect, lockVars
        <3>2. \A q \in Purses : collected[q] <= collected'[q]
            BY <2>1 DEF Collect, TypeOK
        <3> QED BY <1>0, <3>1, <3>2, BalanceKept, SweepFreed
    <2>2. CASE Crash
        <3>1. UNCHANGED <<payout, allocation, outstanding, allocated>>
            BY <2>2 DEF Crash, balanceVars
        <3>2. \A s \in Requesters : req'[s] = NoRequest
            BY <2>2 DEF Crash
        <3> QED BY <3>1, <3>2, BalanceKept, NothingIsSound DEF SweepInv
    <2>3. CASE ~Crash /\ ~\E p \in Purses : Collect(p)
        <3>1. UNCHANGED <<req, shared, payout, balanceVars>>
            BY <1>5, <2>3 DEF Outside, TransferSkip, ConfirmSkip, TransferEnds, TransferReversed,
               StoreTransferEvent, ReprocessTransferEvent, ToggleCustodian, SaveDirect,
               SwitchToCustodian, lockVars
        <3> QED BY <1>1, <3>1
    <2> QED BY <2>1, <2>2, <2>3
<1> QED BY <1>2, <1>3, <1>4, <1>5 DEF Next

LEMMA BalanceInit == Init => BalanceInv /\ SweepInv
<1> SUFFICES ASSUME Init PROVE BalanceInv /\ SweepInv
    OBVIOUS
<1>1. /\ \A x \in Scopes : outstanding[x] = 0
      /\ \A p \in Purses : allocated[p] = 0
      /\ \A i \in Ids : payout[i].status = "absent" /\ allocation[i] = NoShares
      /\ \A s \in Requesters : req[s] = NoRequest
    BY DEF Init
<1>2. \A n : Counted("absent", n) = 0
    BY DEF Counted, OutstandingStatuses
<1>3. ASSUME NEW x \in Scopes PROVE SumOver(Taken(x, payout), Ids) = 0
    <2>1. \A i \in Ids : Taken(x, payout)[i] = 0
        BY <1>1, <1>2 DEF Taken
    <2> QED BY <2>1, SumOfZeros, FiniteAssumption
<1>4. ASSUME NEW p \in Purses PROVE SumOver(Drawn(p, payout, allocation), Ids) = 0
    <2>1. \A i \in Ids : Drawn(p, payout, allocation)[i] = 0
        BY <1>1, <1>2 DEF Drawn
    <2> QED BY <2>1, SumOfZeros, FiniteAssumption
<1>5. SumOver(allocated, Purses) = 0
    BY <1>1, SumOfZeros, FiniteAssumption
<1>6. BalanceInv
    BY <1>1, <1>3, <1>4, <1>5, ScopesAreFinite DEF BalanceInv
<1> QED BY <1>1, <1>6, NothingIsSound DEF SweepInv

\* Everything the payout theorems in serial order rest on.
MoneyTableInv == TypeOK /\ LockInv /\ DeskInv /\ CoverInv /\ BalanceInv /\ SweepInv

LEMMA MoneyTableHolds ==
    ASSUME Serial
    PROVE  Spec => []MoneyTableInv
<1>1. Init => MoneyTableInv
    BY TypeInit, LockInit, DeskInit, CoverInit, BalanceInit DEF MoneyTableInv
<1>2. MoneyTableInv /\ [Next]_vars => MoneyTableInv'
    BY TypeStep, LockStep, DeskStep, CoverStep, BalanceStep DEF MoneyTableInv
<1> QED BY <1>1, <1>2, PTL DEF Spec

\* With decisions that do not overlap, a sweep that passed its check is covered
\* when it is shared out and at its commit, for any number of concurrent
\* requests: no purse request slips in, though the two lock different rows.
THEOREM SerialSweepStaysCovered ==
    ASSUME Serial
    PROVE  Spec => []SweepStaysCovered
<1>1. MoneyTableInv => SweepStaysCovered
    BY DEF MoneyTableInv, SweepInv, Sound, SweepStaysCovered, Asks
<1> QED BY <1>1, MoneyTableHolds, PTL

\* With decisions that do not overlap, the totals that balances are computed
\* from are the sums over the outstanding rows, and every sweep is attributed to
\* its purses in full: rounding loses nothing (_create_sweep_allocations).
THEOREM SerialBalancesMatchRows ==
    ASSUME Serial
    PROVE  Spec => []BalancesMatchRows
<1>1. ASSUME MoneyTableInv PROVE BalancesMatchRows
    <2>0. TypeOK /\ BalanceInv
        BY <1>1 DEF MoneyTableInv
    <2>1. ASSUME NEW x \in Scopes
          PROVE  outstanding[x] = MapThenSumSet(LAMBDA i : payout[i].amount,
                                                {i \in Ids : Live(i) /\ payout[i].scope = x})
        <3> DEFINE live == {i \in Ids : Live(i) /\ payout[i].scope = x}
                   w    == [i \in live |-> payout[i].amount]
                   all  == [i \in Ids |-> payout[i].amount]
        <3>1. MapThenSumSet(LAMBDA i : payout[i].amount, live) = SumOver(w, live)
            BY ZenonT(60) DEF MapThenSumSet, MapThenFoldSet, SumOver
        <3>2. live = Ids \cap live /\ IsFiniteSet(live)
            BY FiniteAssumption, FS_Subset
        <3>3. SumOver(w, live) = SumOver(all, live)
            BY <3>2, SumSame
        <3>4. \A i \in Ids : /\ all[i] \in Int
                             /\ Taken(x, payout)[i] = IF i \in live THEN all[i] ELSE 0
            BY <2>0, RowsAreTyped DEF Taken, Counted, Live
        <3> HIDE DEF live, w, all
        <3>5. SumOver(Taken(x, payout), Ids) = SumOver(all, Ids \cap live)
            BY <3>4, SumRestricted, FiniteAssumption
        <3>6. outstanding[x] = SumOver(Taken(x, payout), Ids)
            BY <2>0 DEF BalanceInv
        <3>7. outstanding[x] = MapThenSumSet(LAMBDA i : payout[i].amount, live)
            BY <3>1, <3>2, <3>3, <3>5, <3>6, Zenon
        <3> QED BY <3>7 DEF live
    <2>2. ASSUME NEW p \in Purses
          PROVE  allocated[p] = MapThenSumSet(LAMBDA i : allocation[i][p], {i \in Ids : Live(i)})
        <3> DEFINE live == {i \in Ids : Live(i)}
                   w    == [i \in live |-> allocation[i][p]]
                   all  == [i \in Ids |-> allocation[i][p]]
        <3>1. MapThenSumSet(LAMBDA i : allocation[i][p], live) = SumOver(w, live)
            BY ZenonT(60) DEF MapThenSumSet, MapThenFoldSet, SumOver
        <3>2. live = Ids \cap live /\ IsFiniteSet(live)
            BY FiniteAssumption, FS_Subset
        <3>3. SumOver(w, live) = SumOver(all, live)
            BY <3>2, SumSame
        <3>4. \A i \in Ids : /\ all[i] \in Int
                             /\ Drawn(p, payout, allocation)[i] = IF i \in live THEN all[i] ELSE 0
            BY <2>0, RowsAreTyped DEF Drawn, Counted, Live
        <3> HIDE DEF live, w, all
        <3>5. SumOver(Drawn(p, payout, allocation), Ids) = SumOver(all, Ids \cap live)
            BY <3>4, SumRestricted, FiniteAssumption
        <3>6. allocated[p] = SumOver(Drawn(p, payout, allocation), Ids)
            BY <2>0 DEF BalanceInv
        <3>7. allocated[p] = MapThenSumSet(LAMBDA i : allocation[i][p], live)
            BY <3>1, <3>2, <3>3, <3>5, <3>6, Zenon
        <3> QED BY <3>7 DEF live
    <2>3. MapThenSumSet(LAMBDA p : allocated[p], Purses) = outstanding[Group]
        BY <2>0 DEF BalanceInv, SumOver
    <2> QED BY <2>1, <2>2, <2>3 DEF BalancesMatchRows
<1> QED BY <1>1, MoneyTableHolds, PTL
-----------------------------------------------------------------------------
(* No purse is ever overdrawn, whatever the sweeps take.                     *)

\* A commit takes from its purse no more than the check left of it: what the
\* sweeps took is never negative.
LEMMA CommitCovered ==
    ASSUME TypeOK, LockInv, CoverInv, BalanceInv, PurseNeverOverdrawn,
           NEW s \in Requesters, CreateCommit(s)
    PROVE  PurseNeverOverdrawn'
<1>1. UNCHANGED collected
    BY CommitTakes
<1> SUFFICES ASSUME NEW p \in Purses PROVE outstanding'[p] <= collected[p]
    BY <1>1 DEF PurseNeverOverdrawn
<1>2. /\ p \in Scopes /\ p # Group /\ collected[p] \in Nat /\ outstanding[p] \in Nat
      /\ allocated[p] \in Nat /\ req[s].amount \in Nat
    BY NamesAssumption, CommitTakes, BalancesAreNat DEF TypeOK, Scopes, Request
<1>3. CASE p = req[s].scope
    <2>1. Asks(s, "insert")
        BY DEF CreateCommit
    <2>2. req[s].amount <= PurseAvailable(p)
        BY <1>2, <1>3, <2>1 DEF CoverInv, PurseRequestStaysCovered
    <2> QED BY <1>2, <1>3, <2>2, CommitTakes DEF PurseAvailable
<1>4. CASE p # req[s].scope
    BY <1>2, <1>4, CommitTakes DEF PurseNeverOverdrawn
<1> QED BY <1>3, <1>4

\* Every other step leaves or lowers what a purse promised.
LEMMA PurseStep ==
    ASSUME MoneyTableInv, PurseNeverOverdrawn, [Next]_vars
    PROVE  PurseNeverOverdrawn'
<1>0. TypeOK /\ TypeOK' /\ LockInv /\ DeskInv /\ CoverInv /\ BalanceInv
    BY TypeStep DEF MoneyTableInv
<1>1. \A p \in Purses : /\ collected[p] \in Nat /\ collected'[p] \in Nat
                        /\ outstanding[p] \in Int /\ outstanding'[p] \in Int
    BY <1>0 DEF TypeOK, Scopes
<1>2. ASSUME \A p \in Purses : collected'[p] >= collected[p] /\ outstanding'[p] <= outstanding[p]
      PROVE  PurseNeverOverdrawn'
    BY <1>1, <1>2 DEF PurseNeverOverdrawn
<1>3. ASSUME UNCHANGED balanceVars PROVE PurseNeverOverdrawn'
    BY <1>3 DEF PurseNeverOverdrawn, balanceVars
<1>4. CASE UNCHANGED vars
    BY <1>3, <1>4 DEF vars
<1>5. ASSUME NEW s \in Requesters, (\E i \in Ids : CreateStart(s, i)) \/ Create(s)
      PROVE  PurseNeverOverdrawn'
    <2>1. CASE CreateCommit(s)
        BY <1>0, <2>1, CommitCovered
    <2>2. CASE ~CreateCommit(s)
        BY <1>3, <1>5, <2>2, CreateFrame
    <2> QED BY <2>1, <2>2
<1>6. ASSUME NEW s \in Deciders, Decide(s) PROVE PurseNeverOverdrawn'
    <2>1. CASE Decided(s)
        <3>1. UNCHANGED collected /\ \A p \in Purses : outstanding'[p] <= outstanding[p]
            BY <1>0, <2>1, DecidedFrees
        <3> QED BY <1>1, <1>2, <3>1
    <2>2. CASE ~Decided(s)
        BY <1>3, <1>6, <2>2, DecideFrame
    <2> QED BY <2>1, <2>2
<1>7. CASE Outside
    <2>1. /\ UNCHANGED outstanding
          /\ \A p \in Purses : collected'[p] >= collected[p]
        BY <1>0, <1>7, OutsideGrows
    <2> QED BY <1>1, <1>2, <2>1
<1> QED BY <1>4, <1>5, <1>6, <1>7 DEF Next

\* With decisions that do not overlap, a purse never promises more than it has
\* collected, for any number of concurrent requests and whatever sweeps of the
\* group are among them.
THEOREM SerialPurseNeverOverdrawn ==
    ASSUME Serial
    PROVE  Spec => []PurseNeverOverdrawn
<1>1. Init => PurseNeverOverdrawn
    <2> SUFFICES ASSUME Init PROVE PurseNeverOverdrawn
        OBVIOUS
    <2>1. \A p \in Purses : outstanding[p] = 0 /\ collected[p] = 0
        BY DEF Init, Scopes, NoShares
    <2> QED BY <2>1 DEF PurseNeverOverdrawn
<1>2. MoneyTableInv /\ PurseNeverOverdrawn /\ [Next]_vars => PurseNeverOverdrawn'
    BY PurseStep
<1> QED BY <1>1, <1>2, MoneyTableHolds, PTL DEF Spec
=============================================================================
