------------------------------- MODULE Payouts -------------------------------
(***************************************************************************)
(* How a group's custodian money leaves: a group admin requests a payout   *)
(* from one purse, or a sweep of the whole group; a platform admin approves*)
(* or rejects it; a background task asks the provider for the transfer; a  *)
(* webhook reports how the transfer ended.                                 *)
(*                                                                         *)
(* Requests are checked against the balance under a row lock (FOR UPDATE   *)
(* on the purse, or on the group for a sweep), and the rows they insert    *)
(* make PostgreSQL take FOR KEY SHARE locks on the rows their foreign keys *)
(* name: the group of every payout, the purse of every sweep allocation.   *)
(* Approvals, rejections, tasks and webhooks take no lock on the payout.   *)
(*                                                                         *)
(* Requesters are the sessions of create(), Deciders those of all other    *)
(* handlers: with one decider, those run one after the other.              *)
(***************************************************************************)
EXTENDS Integers, FiniteSets, FiniteSetsExt

CONSTANTS
    Purses,        \* the purses of one group
    Group,         \* the scope of a sweep (purse_id IS NULL)
    Requestable,   \* the scopes that payouts are requested for
    Ids,           \* payouts that can still be created (bound)
    Requesters,    \* sessions of create that can be open at the same time
    Deciders,      \* sessions of every other handler
    Nobody,        \* no session holds the lock
    Nothing,       \* no payout, in a session that is idle
    Amounts,       \* amounts that can be requested
    Collectable,   \* bound on what each purse collects
    Accounts,      \* settlement states that are exercised
    Decisions      \* the handlers of Deciders that are exercised

Scopes == Purses \cup {Group}

AllDecisions == {"approve", "reject", "transfer", "webhook"}

ASSUME NamesAssumption ==
    /\ Group \notin Purses
    /\ Requestable \subseteq Scopes
    /\ Nobody \notin Requesters
    /\ Nothing \notin Ids
    /\ Decisions \subseteq AllDecisions

ASSUME AmountsAssumption ==
    /\ Amounts \subseteq Nat \ {0}
    /\ Collectable \in Nat

\* A group has finitely many purses; the bound on payouts is a finite one.
ASSUME FiniteAssumption == IsFiniteSet(Purses) /\ IsFiniteSet(Ids)

ASSUME AccountsAssumption ==
    /\ Accounts \subseteq {"none", "custodian", "direct"}
    /\ Accounts # {}

VARIABLES
    collected,    \* provider-held money of each purse's PAID contributions
    payout,       \* payouts: the committed rows
    allocation,   \* payout_allocations: what a sweep drew from each purse
    outstanding,  \* sum of the outstanding payouts of each scope
    allocated,    \* sum of the outstanding allocations of each purse
    custodian_mode_enabled,  \* platform_settings: the kill switch
    account,      \* settlement_accounts: the group's mode, or no row
    exclusive,    \* which requester holds FOR UPDATE on a purse or the group
    shared,       \* which requesters hold FOR KEY SHARE on it
    req,          \* the requesters' sessions
    sess,         \* the deciders' sessions
    tasks,        \* payouts with a transfer task scheduled in memory
    transfer,     \* (provider) what became of the transfer with its reference
    notice,       \* webhook_events: the outcome reported for a transfer
    noticed       \* reports with a task scheduled in memory

balanceVars  == <<collected, allocation, outstanding, allocated>>
settingsVars == <<custodian_mode_enabled, account>>
lockVars     == <<exclusive, shared>>
outsideVars  == <<transfer, notice>>
taskVars     == <<tasks, noticed>>
vars == <<balanceVars, payout, settingsVars, lockVars, req, sess, taskVars, outsideVars>>

-----------------------------------------------------------------------------
(* Types                                                                   *)

Status == {"requested", "approved", "processing", "completed", "failed", "rejected"}

\* REQUESTED counts too: a request reserves its amount before it is approved.
ApprovedOnly == {"approved", "processing", "completed"} \* mutant: a request reserves nothing

OutstandingStatuses == {"requested", "approved", "processing", "completed"}

\* monnify_transfer_ref: NULL, or this payout's own reference.
Ref == {"null", "own"}

Payout == [status: Status \cup {"absent"}, scope: Scopes, amount: Nat, ref: Ref]

Request ==
    {r \in [pc: {"idle", "lock", "collect", "check", "share", "insert"}, id: Ids \cup {Nothing},
            scope: Scopes, amount: Nat, seen: [Purses -> Nat],
            shares: [Purses -> Nat], todo: SUBSET Scopes] :
        r.pc # "idle" => r.id \in Ids}

NoShares == [p \in Purses |-> 0]

NoRequest == [pc |-> "idle", id |-> Nothing, scope |-> Group, amount |-> 0, seen |-> NoShares,
              shares |-> NoShares, todo |-> {}]

\* A session past "idle" works on one payout.
Session ==
    {d \in [pc: {"idle", "approve", "reject", "send", "initiated", "refused", "confirm"},
            id: Ids \cup {Nothing}, success: BOOLEAN] :
        d.pc # "idle" => d.id \in Ids}

Closed == [pc |-> "idle", id |-> Nothing, success |-> FALSE]

TypeOK ==
    /\ collected \in [Purses -> Nat]
    /\ payout \in [Ids -> Payout]
    /\ allocation \in [Ids -> [Purses -> Nat]]
    /\ outstanding \in [Scopes -> Int]
    /\ allocated \in [Purses -> Int]
    /\ custodian_mode_enabled \in BOOLEAN
    /\ account \in {"none", "custodian", "direct"}
    /\ exclusive \in [Scopes -> Requesters \cup {Nobody}]
    /\ shared \in [Scopes -> SUBSET Requesters]
    /\ req \in [Requesters -> Request]
    /\ sess \in [Deciders -> Session]
    /\ tasks \subseteq Ids
    /\ transfer \in [Ids -> {"none", "sent", "paid", "failed", "reversed"}]
    /\ notice \in [Ids -> {"absent", "success", "failure"}]
    /\ noticed \subseteq Ids

Init ==
    /\ collected = [p \in Purses |-> 0]
    /\ payout = [i \in Ids |-> [status |-> "absent", scope |-> Group, amount |-> 0, ref |-> "null"]]
    /\ allocation = [i \in Ids |-> NoShares]
    /\ outstanding = [x \in Scopes |-> 0]
    /\ allocated = [p \in Purses |-> 0]
    /\ custodian_mode_enabled = TRUE
    /\ account \in Accounts
    /\ exclusive = [x \in Scopes |-> Nobody]
    /\ shared = [x \in Scopes |-> {}]
    /\ req = [s \in Requesters |-> NoRequest]
    /\ sess = [s \in Deciders |-> Closed]
    /\ tasks = {}
    /\ transfer = [i \in Ids |-> "none"]
    /\ notice = [i \in Ids |-> "absent"]
    /\ noticed = {}

-----------------------------------------------------------------------------
(* Balances                                                                *)

\* What a payout of this status and amount takes from its scope's balance.
Counted(status, amount) == IF status \in OutstandingStatuses THEN amount ELSE 0

GroupOutstanding == MapThenSumSet(LAMBDA x : outstanding[x], Scopes)

Total(f) == MapThenSumSet(LAMBDA p : f[p], Purses)

PurseAvailable(p) == collected[p] - outstanding[p] - allocated[p]

GroupAvailable == Total(collected) - GroupOutstanding

Available(x) == IF x = Group THEN GroupAvailable ELSE PurseAvailable(x)

\* A webhook, the job or an admin's accept_partial makes a contribution PAID;
\* a PAID row never changes again (Contributions!ResolvedIsFinal).
Collect(p) ==
    /\ collected[p] < Collectable
    /\ collected' = [collected EXCEPT ![p] = @ + 1]
    /\ UNCHANGED <<payout, allocation, outstanding, allocated, settingsVars, lockVars, req, sess,
                   taskVars, outsideVars>>

-----------------------------------------------------------------------------
(* create: one transaction                                                 *)

Asks(s, pc) == req[s].pc = pc
Proceed(s, next) == req' = [req EXCEPT ![s] = next]

\* A commit, a rollback and a lost connection give all locks back.
Release(s) ==
    /\ exclusive' = [x \in Scopes |-> IF exclusive[x] = s THEN Nobody ELSE exclusive[x]]
    /\ shared' = [x \in Scopes |-> shared[x] \ {s}]

\* The settlement checks, made once, before any lock is taken.
MayRequest == custodian_mode_enabled /\ account # "direct"

CreateStart(s, i) ==
    /\ Asks(s, "idle")
    /\ MayRequest
    /\ payout[i].status = "absent"
    /\ \A t \in Requesters : req[t].id # i
    /\ \E x \in Requestable, amount \in Amounts :
          Proceed(s, [NoRequest EXCEPT !.pc = "lock", !.id = i, !.scope = x, !.amount = amount])
    /\ UNCHANGED <<balanceVars, payout, settingsVars, lockVars, sess, taskVars, outsideVars>>

CreateUnlocked(s) == \* mutant: the row is read without FOR UPDATE
    /\ Asks(s, "lock")
    /\ Proceed(s, [req[s] EXCEPT !.pc = "collect"])
    /\ UNCHANGED <<balanceVars, payout, settingsVars, lockVars, sess, taskVars, outsideVars>>

\* SELECT ... FOR UPDATE waits until nobody else holds the row in any mode.
CreateLock(s) ==
    LET x == req[s].scope IN
    /\ Asks(s, "lock")
    /\ exclusive[x] = Nobody
    /\ shared[x] = {}
    /\ exclusive' = [exclusive EXCEPT ![x] = s]
    /\ Proceed(s, [req[s] EXCEPT !.pc = "collect"])
    /\ UNCHANGED <<balanceVars, payout, settingsVars, shared, sess, taskVars, outsideVars>>

\* What a query on this scope reads.
Restricted(f, x) == [p \in Purses |-> IF x \in {p, Group} THEN f[p] ELSE 0]

\* Each SELECT SUM sees what is committed when it runs: the collected total
\* is read first, the outstanding payouts and allocations after it.
CreateCollect(s) ==
    /\ Asks(s, "collect")
    /\ Proceed(s, [req[s] EXCEPT !.pc = "check", !.seen = Restricted(collected, req[s].scope)])
    /\ UNCHANGED <<balanceVars, payout, settingsVars, lockVars, sess, taskVars, outsideVars>>

SeenAvailable(s) ==
    LET x == req[s].scope IN
    IF x = Group THEN Total(req[s].seen) - GroupOutstanding
                 ELSE req[s].seen[x] - outstanding[x] - allocated[x]

\* The payouts row's foreign key will share-lock the group's row.
CreateCheck(s) ==
    /\ Asks(s, "check")
    /\ req[s].amount <= SeenAvailable(s)
    /\ Proceed(s, IF req[s].scope = Group
                    THEN [req[s] EXCEPT !.pc = "share"]
                    ELSE [req[s] EXCEPT !.pc = "insert", !.todo = {Group}])
    /\ UNCHANGED <<balanceVars, payout, settingsVars, lockVars, sess, taskVars, outsideVars>>

\* More than is available: the transaction rolls back.
CreateRefuse(s) ==
    /\ Asks(s, "check")
    /\ req[s].amount > SeenAvailable(s)
    /\ Proceed(s, NoRequest)
    /\ Release(s)
    /\ UNCHANGED <<balanceVars, payout, settingsVars, sess, taskVars, outsideVars>>

SharesLosingRest(amount, eligible, last) == \* mutant: the rounding remainder is dropped
    LET total == MapThenSumSet(LAMBDA p : collected[p], eligible)
    IN  [p \in Purses |-> IF p \notin eligible THEN 0 ELSE (amount * collected[p]) \div total]

\* Shares in proportion to what the eligible purses have collected, each
\* rounded down; what rounding lost goes to the last purse of the listing.
Shares(amount, eligible, last) ==
    LET total == MapThenSumSet(LAMBDA p : collected[p], eligible)
        floor(p) == (amount * collected[p]) \div total
        rest  == amount - MapThenSumSet(floor, eligible)
    IN  [p \in Purses |-> IF p \notin eligible THEN 0
                          ELSE IF p = last THEN floor(p) + rest ELSE floor(p)]

CreateShare(s) ==
    LET eligible == {p \in Purses : PurseAvailable(p) > 0} IN
    /\ Asks(s, "share")
    /\ IF eligible = {}
         THEN Proceed(s, [req[s] EXCEPT !.pc = "insert"])
         ELSE \E shares \in [Purses -> 0 .. req[s].amount] :
                 /\ \E last \in eligible : shares = Shares(req[s].amount, eligible, last)
                 /\ Proceed(s, [req[s] EXCEPT !.pc = "insert", !.shares = shares,
                                              !.todo = {p \in Purses : shares[p] > 0}])
    /\ UNCHANGED <<balanceVars, payout, settingsVars, lockVars, sess, taskVars, outsideVars>>

\* An inserted row takes FOR KEY SHARE on the row its foreign key names: it
\* waits for another transaction's FOR UPDATE, not for its own.
InsertUnlocked(s, x) == \* mutant: the foreign keys are gone
    /\ Asks(s, "insert")
    /\ x \in req[s].todo
    /\ Proceed(s, [req[s] EXCEPT !.todo = @ \ {x}])
    /\ UNCHANGED <<balanceVars, payout, settingsVars, lockVars, sess, taskVars, outsideVars>>

InsertLock(s, x) ==
    /\ Asks(s, "insert")
    /\ x \in req[s].todo
    /\ exclusive[x] \in {Nobody, s}
    /\ shared' = [shared EXCEPT ![x] = @ \cup {s}]
    /\ Proceed(s, [req[s] EXCEPT !.todo = @ \ {x}])
    /\ UNCHANGED <<balanceVars, payout, settingsVars, exclusive, sess, taskVars, outsideVars>>

CreateCommit(s) ==
    LET r == req[s] IN
    /\ Asks(s, "insert")
    /\ r.todo = {}
    /\ payout' = [payout EXCEPT ![r.id] = [status |-> "requested", scope |-> r.scope,
                                           amount |-> r.amount, ref |-> "null"]]
    /\ allocation' = [allocation EXCEPT ![r.id] = r.shares]
    /\ outstanding' = [outstanding EXCEPT ![r.scope] = @ + Counted("requested", r.amount)]
    /\ allocated' = [p \in Purses |-> allocated[p] + Counted("requested", r.shares[p])]
    /\ Proceed(s, NoRequest)
    /\ Release(s)
    /\ UNCHANGED <<collected, settingsVars, sess, taskVars, outsideVars>>

WaitsFor(s) ==
    IF Asks(s, "lock") THEN {req[s].scope} ELSE IF Asks(s, "insert") THEN req[s].todo ELSE {}

WaitsOn(s, t) == \E x \in WaitsFor(s) : exclusive[x] = t \/ (Asks(s, "lock") /\ t \in shared[x])

\* PostgreSQL breaks a cycle of waiting transactions by aborting one of them.
DeadlockAbort(s) ==
    /\ \E t \in Requesters \ {s} : WaitsOn(s, t) /\ WaitsOn(t, s)
    /\ Proceed(s, NoRequest)
    /\ Release(s)
    /\ UNCHANGED <<balanceVars, payout, settingsVars, sess, taskVars, outsideVars>>

-----------------------------------------------------------------------------
(* approve, reject and the transfer task                                   *)

At(s, pc) == sess[s].pc = pc
Become(s, next) == sess' = [sess EXCEPT ![s] = next]
Close(s) == Become(s, Closed)

Open(s, decision, opened) ==
    /\ decision \in Decisions
    /\ At(s, "idle")
    /\ Become(s, opened)

\* UPDATE payouts SET status = ... WHERE id = ...: whatever the row holds now.
SetStatus(i, status, ref) ==
    LET old == payout[i] IN
    /\ payout' = [payout EXCEPT ![i] = [@ EXCEPT !.status = status, !.ref = ref]]
    /\ outstanding' = [outstanding EXCEPT ![old.scope] =
                          @ - Counted(old.status, old.amount) + Counted(status, old.amount)]
    /\ allocated' = [p \in Purses |-> allocated[p] - Counted(old.status, allocation[i][p])
                                                   + Counted(status, allocation[i][p])]
    /\ UNCHANGED <<collected, allocation>>

\* approve_only: the status and the balance are checked on what is read here.
ApproveLoad(s, i) ==
    /\ payout[i].status = "requested"
    /\ Available(payout[i].scope) >= 0
    /\ Open(s, "approve", [Closed EXCEPT !.pc = "approve", !.id = i])
    /\ UNCHANGED <<balanceVars, payout, settingsVars, lockVars, req, taskVars, outsideVars>>

ApproveCommit(s) ==
    /\ At(s, "approve")
    /\ SetStatus(sess[s].id, "approved", payout[sess[s].id].ref)
    /\ tasks' = tasks \cup {sess[s].id}
    /\ Close(s)
    /\ UNCHANGED <<settingsVars, lockVars, req, noticed, outsideVars>>

RejectableLate == {"requested", "approved"} \* mutant: an approved payout can be rejected

Rejectable == {"requested"}

RejectLoad(s, i) ==
    /\ payout[i].status \in Rejectable
    /\ Open(s, "reject", [Closed EXCEPT !.pc = "reject", !.id = i])
    /\ UNCHANGED <<balanceVars, payout, settingsVars, lockVars, req, taskVars, outsideVars>>

RejectCommit(s) ==
    /\ At(s, "reject")
    /\ SetStatus(sess[s].id, "rejected", payout[sess[s].id].ref)
    /\ Close(s)
    /\ UNCHANGED <<settingsVars, lockVars, req, taskVars, outsideVars>>

\* initiate_transfer_for_payout: only an approved payout, and only to a
\* verified account (an account on file always is).
TransferLoad(s, i) ==
    /\ i \in tasks
    /\ payout[i].status = "approved"
    /\ Open(s, "transfer", [Closed EXCEPT !.pc = IF account = "none" THEN "refused" ELSE "send",
                                          !.id = i])
    /\ tasks' = tasks \ {i}
    /\ UNCHANGED <<balanceVars, payout, settingsVars, lockVars, req, noticed, outsideVars>>

TransferSkip(i) ==
    /\ "transfer" \in Decisions
    /\ i \in tasks
    /\ payout[i].status # "approved"
    /\ tasks' = tasks \ {i}
    /\ UNCHANGED <<balanceVars, payout, settingsVars, lockVars, req, sess, noticed, outsideVars>>

\* The provider takes a reference once.
SendAccepted(s) ==
    LET i == sess[s].id IN
    /\ At(s, "send")
    /\ transfer[i] = "none"
    /\ transfer' = [transfer EXCEPT ![i] = "sent"]
    /\ Become(s, [sess[s] EXCEPT !.pc = "initiated"])
    /\ UNCHANGED <<balanceVars, payout, settingsVars, lockVars, req, taskVars, notice>>

\* An answer of 400 or above, or none, says nothing of what the provider did.
MaybeSent(i) == transfer' \in {transfer, [transfer EXCEPT ![i] = IF @ = "none" THEN "sent" ELSE @]}

\* MonnifyError: the provider refused, for instance a reference it knows, or
\* took the transfer and failed to say so (any status of 400 and above).
SendRefused(s) ==
    /\ At(s, "send")
    /\ MaybeSent(sess[s].id)
    /\ Become(s, [sess[s] EXCEPT !.pc = "refused"])
    /\ UNCHANGED <<balanceVars, payout, settingsVars, lockVars, req, taskVars, notice>>

\* A timeout is not a MonnifyError: the task dies, whatever the provider did.
SendLost(s) ==
    /\ At(s, "send")
    /\ MaybeSent(sess[s].id)
    /\ Close(s)
    /\ UNCHANGED <<balanceVars, payout, settingsVars, lockVars, req, taskVars, notice>>

MarkInitiated(s) ==
    /\ At(s, "initiated")
    /\ SetStatus(sess[s].id, "processing", "own")
    /\ Close(s)
    /\ UNCHANGED <<settingsVars, lockVars, req, taskVars, outsideVars>>

MarkInitiationFailed(s) ==
    /\ At(s, "refused")
    /\ SetStatus(sess[s].id, "failed", payout[sess[s].id].ref)
    /\ Close(s)
    /\ UNCHANGED <<settingsVars, lockVars, req, taskVars, outsideVars>>

-----------------------------------------------------------------------------
(* The provider's transfers and process_transfer_webhook_event             *)

TransferEnds(i) ==
    /\ transfer[i] = "sent"
    /\ \E outcome \in {"paid", "failed"} : transfer' = [transfer EXCEPT ![i] = outcome]
    /\ UNCHANGED <<balanceVars, payout, settingsVars, lockVars, req, sess, taskVars, notice>>

TransferReversed(i) ==
    /\ transfer[i] = "paid"
    /\ transfer' = [transfer EXCEPT ![i] = "reversed"]
    /\ UNCHANGED <<balanceVars, payout, settingsVars, lockVars, req, sess, taskVars, notice>>

\* store_event keeps the first report of a transfer and drops the others.
StoreTransferEvent(i) ==
    /\ "webhook" \in Decisions
    /\ transfer[i] \in {"paid", "failed", "reversed"}
    /\ notice[i] = "absent"
    /\ notice' = [notice EXCEPT ![i] = IF transfer[i] = "paid" THEN "success" ELSE "failure"]
    /\ noticed' = noticed \cup {i}
    /\ UNCHANGED <<balanceVars, payout, settingsVars, lockVars, req, sess, tasks, transfer>>

\* reprocess_webhook_event schedules the task of a stored report again.
ReprocessTransferEvent(i) ==
    /\ notice[i] # "absent"
    /\ noticed' = noticed \cup {i}
    /\ UNCHANGED <<balanceVars, payout, settingsVars, lockVars, req, sess, tasks, outsideVars>>

AnyOutcome(i) == TRUE \* mutant: a failed transfer is confirmed as well

Succeeded(i) == notice[i] = "success"

Matches(i) == payout[i].ref = "own" /\ payout[i].status = "processing"

ConfirmLoad(s, i) ==
    /\ i \in noticed
    /\ Matches(i)
    /\ Open(s, "webhook", [pc |-> "confirm", id |-> i, success |-> Succeeded(i)])
    /\ noticed' = noticed \ {i}
    /\ UNCHANGED <<balanceVars, payout, settingsVars, lockVars, req, tasks, outsideVars>>

\* No payout with this reference, or one that is not processing: skipped.
ConfirmSkip(i) ==
    /\ i \in noticed
    /\ ~Matches(i)
    /\ noticed' = noticed \ {i}
    /\ UNCHANGED <<balanceVars, payout, settingsVars, lockVars, req, sess, tasks, outsideVars>>

ConfirmedAsPaid(success) == \* mutant: not a member of the status enum
    IF success THEN "paid" ELSE "failed"

Confirmed(success) == IF success THEN "completed" ELSE "failed"

\* apply_transfer_confirmation
ConfirmCommit(s) ==
    /\ At(s, "confirm")
    /\ SetStatus(sess[s].id, Confirmed(sess[s].success), payout[sess[s].id].ref)
    /\ Close(s)
    /\ UNCHANGED <<settingsVars, lockVars, req, taskVars, outsideVars>>

-----------------------------------------------------------------------------
(* Settings, and the process                                               *)

ToggleCustodian ==
    /\ "direct" \in Accounts
    /\ custodian_mode_enabled' = ~custodian_mode_enabled
    /\ UNCHANGED <<balanceVars, payout, account, lockVars, req, sess, taskVars, outsideVars>>

\* save_direct, and switch_mode in this direction: a registered account.
SaveDirect ==
    /\ "direct" \in Accounts
    /\ account' = "direct"
    /\ UNCHANGED <<balanceVars, payout, custodian_mode_enabled, lockVars, req, sess, taskVars,
                   outsideVars>>

SwitchToCustodian ==
    /\ account = "direct"
    /\ custodian_mode_enabled
    /\ account' = "custodian"
    /\ UNCHANGED <<balanceVars, payout, custodian_mode_enabled, lockVars, req, sess, taskVars,
                   outsideVars>>

\* A restart rolls every open transaction back and forgets the tasks.
Crash ==
    /\ req' = [s \in Requesters |-> NoRequest]
    /\ exclusive' = [x \in Scopes |-> Nobody]
    /\ shared' = [x \in Scopes |-> {}]
    /\ sess' = [s \in Deciders |-> Closed]
    /\ tasks' = {}
    /\ noticed' = {}
    /\ UNCHANGED <<balanceVars, payout, settingsVars, outsideVars>>

-----------------------------------------------------------------------------
Create(s) ==
    \/ CreateLock(s) \/ CreateCollect(s) \/ CreateCheck(s) \/ CreateRefuse(s) \/ CreateShare(s)
    \/ \E x \in Scopes : InsertLock(s, x)
    \/ CreateCommit(s)
    \/ DeadlockAbort(s)

Decide(s) ==
    \/ \E i \in Ids : ApproveLoad(s, i) \/ RejectLoad(s, i) \/ TransferLoad(s, i) \/ ConfirmLoad(s, i)
    \/ ApproveCommit(s) \/ RejectCommit(s)
    \/ SendAccepted(s) \/ SendRefused(s) \/ SendLost(s)
    \/ MarkInitiated(s) \/ MarkInitiationFailed(s)
    \/ ConfirmCommit(s)

Outside ==
    \/ \E p \in Purses : Collect(p)
    \/ \E i \in Ids : TransferSkip(i) \/ ConfirmSkip(i) \/ TransferEnds(i) \/ TransferReversed(i)
                        \/ StoreTransferEvent(i) \/ ReprocessTransferEvent(i)
    \/ ToggleCustodian \/ SaveDirect \/ SwitchToCustodian
    \/ Crash

Next ==
    \/ \E s \in Requesters : (\E i \in Ids : CreateStart(s, i)) \/ Create(s)
    \/ \E s \in Deciders : Decide(s)
    \/ Outside

Spec == Init /\ [][Next]_vars

-----------------------------------------------------------------------------
(* Safety                                                                  *)

Live(i) == payout[i].status \in OutstandingStatuses

\* The totals the balance is computed from are the sums over the outstanding
\* rows, and a sweep with allocations is attributed to its purses in full
\* (_purse_outstanding_payouts_total, _purse_allocated_from_sweeps_total,
\* _create_sweep_allocations: "the allocations sum to exactly sweep_amount").
BalancesMatchRows ==
    /\ \A x \in Scopes :
          outstanding[x] = MapThenSumSet(LAMBDA i : payout[i].amount,
                                         {i \in Ids : Live(i) /\ payout[i].scope = x})
    /\ \A p \in Purses :
          allocated[p] = MapThenSumSet(LAMBDA i : allocation[i][p], {i \in Ids : Live(i)})
    /\ MapThenSumSet(LAMBDA p : allocated[p], Purses) = outstanding[Group]

\* A purse request that passed its check is still covered when it commits,
\* whatever other requests, sweeps included, commit in between ("two
\* simultaneous requests can never both pass the balance check").
PurseRequestStaysCovered ==
    \A s \in Requesters :
        Asks(s, "insert") /\ req[s].scope # Group => req[s].amount <= PurseAvailable(req[s].scope)

\* The same of a sweep: no purse request slips in between its check and its
\* commit, though the two lock different rows ("race-free").
SweepStaysCovered ==
    \A s \in Requesters :
        (Asks(s, "share") \/ Asks(s, "insert")) /\ req[s].scope = Group
            => req[s].amount <= GroupAvailable

\* A purse's own payouts never promise more than it has collected, whatever is
\* requested and swept meanwhile, as long as decisions do not overlap (create).
PurseNeverOverdrawn == \A p \in Purses : outstanding[p] <= collected[p]

\* A completed payout was paid by the provider: no other outcome of its
\* transfer, and no other payout's, can complete it (apply_transfer_confirmation).
CompletedWasPaid ==
    \A i \in Ids : payout[i].status = "completed" => transfer[i] \in {"paid", "reversed"}

\* The provider answered the request for the transfer with an error: FAILED
\* though no reference was stored (mark_initiation_failed).
InitiationFailed(i) == payout[i].status = "failed" /\ payout[i].ref = "null"

\* Money that is under way or has arrived is taken from the balance, after
\* timeouts and restarts too, and never available a second time; the one
\* exception is a transfer that the provider took and answered with an error.
SentMoneyIsCounted ==
    \A i \in Ids : transfer[i] \in {"sent", "paid"} => Live(i) \/ InitiationFailed(i)

-----------------------------------------------------------------------------
(* What the documentation claims and the code does not keep: the README     *)
(* names the configuration that refutes each.                               *)

\* All payouts of the group together never promise more than it has collected
\* ("requested amount exceeds the available balance"): a sweep charged to the
\* wrong purse leaves another one a balance that is gone.
GroupNeverOverdrawn == GroupAvailable >= 0

\* "the money (never having left) remains available to retry".
FailedMoneyNeverLeft ==
    \A i \in Ids : payout[i].status = "failed" => transfer[i] \notin {"sent", "paid"}
=============================================================================
