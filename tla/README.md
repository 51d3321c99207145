# Kontributa: specifications, model checking and proofs

Kontributa collects contributions from the members of a group into *purses* and pays the money
out. It is a FastAPI application (`src/app`) on PostgreSQL and Redis, with two payment providers
behind HTTP (Monnify, Paystack). This directory holds TLA+ modules for its core, the TLC
configurations that check them on small instances, and theorems that TLAPS proves for every
instance. `PROJECT.json` maps every definition to the lines it models.

    tlc -workers 2 -config PayoutsRace.cfg MCPayouts     # one run
    tlapm PayoutsProofs.tla                              # one proof module

The repository has no design documents: its docs are docstrings, comments and tests, and those are
what a "documented claim" means below.

## 1. Inventory

How everything runs: each HTTP request has one database session (`core/db.py`, autoflush off,
`expire_on_commit=False`), so it works on the copies of rows it loaded; each background task opens
a session of its own with autoflush on. The isolation level is READ COMMITTED. A session closed
without a commit rolls back. Background tasks live in the memory of the server process and are
lost when it restarts. Every `await` lets another handler run; nothing but explicit row locks,
unique constraints and the foreign keys' share locks orders the handlers.

| Component | State | Operations | Interacts with | Correct when |
|---|---|---|---|---|
| Contribution ledger (`contributions/`) | a row per member and purse (status, expected, received, invoice), its events | invoice, expire, credit a confirmation, cash, accept or reopen a flagged row, new amount | webhooks and the job call it; payouts sum its PAID rows; writes an audit event | every payment counted once, on the row it was made for; resolved rows are final; the amounts add up |
| Webhook inbox (`webhooks/`) | one row per provider event, tasks in memory | store, process, mark, reprocess | ledger, payouts | repeated, late, lost and reordered deliveries do no harm |
| Reconciliation job (`jobs/`) | none (rows loaded at its start) | poll the provider for every unpaid row | ledger | what a webhook missed is credited in the end, what it did not miss is not credited again |
| Payouts (`payouts/`) | payouts, sweep allocations | request, approve, reject, transfer task, transfer webhook | balance from the ledger; settlement mode; provider; audit | no more promised than collected; money that left stays counted; completed means paid |
| Audit chain (`audit/`) | hash-linked rows, one head row | record_event, verify_chain | called in the transaction of nearly every change | one chain; one event per change; the verifier accepts what was recorded |
| Settlement accounts (`settlement/`) | one account per group, custodian or direct, with a sub-account at a provider | save, save_direct, switch_mode, migration by an invoice | payouts, invoices, provider | a direct account can be paid; no switch strands money |
| Platform settings (`platform_settings/`) | one row: kill switch, fee, providers | update | invoices, payouts, settlement | some enabled provider is active |
| Purses (`purses/`) | purse (amount, deadline, status) | create, update, close, reopen, add_member | ledger (enrolment, repricing), audit | every member of the cohort is enrolled once |
| Members, invites (`members/`, `invites/`) | members, invite links with a use count | join, redeem, revoke, remove | ledger (enrolment), auth | limits of invites hold; nobody is forgotten; who owes can follow what they owe |
| Groups, organisations, admins | groups, admins, activation codes | onboard, edit cohorts, appoint | members, audit | members' cohorts follow the group's |
| Sessions and tokens (`core/auth.py`, `auth/`) | Redis: refresh-token families, pointers, activity, blacklist | login, refresh, revoke, logout | HTTP edge | a revocation stays; a logout stays; idle families end |
| Accounts (`auth/`) | users; Redis: three stores of single-use codes, cooldowns | register, verify, forgot, reset | members | a mailed code works once, and for its owner |
| Idempotency keys (`core/idempotency.py`) | Redis: reserved or completed keys | reserve, complete, release | purse and payout requests | a key runs once |
| Reminders, rate limits | last reminder of a purse; Redis counters | remind, count | e-mail | one reminder per cooldown |
| Lists, reports, analytics | none: each screen has a query of its own | read | everything above | they agree |
| Providers, realtime push, HTTP edge | none that the rest reads | - | - | I/O |

What is hard to test here, with the line of each in `PROJECT.json` under `hazards`: handlers that
load a row, wait for a provider over HTTP and then write it; jobs and tasks that overlap requests;
webhooks lost, late, twice and after a reprocess; restarts between a commit and the task it
scheduled; a timeout whose request was taken; locks taken in two orders; balances that are kept at
two granularities; a hash chain written in one order and read in another; keys of Redis that expire
one by one; two writers of an account who each write some of its columns; counters read and
incremented in memory; rows that are made by whichever of two handlers comes second.

## 2. Modules

| Module | Contents |
|---|---|
| `Contributions` | the ledger, the webhook inbox for payments, the reconciliation job, the payer and the provider's invoices |
| `Ledger` | the abstract ledger: each payment, entry, expiry, decision and edit is one step on the amounts as they are |
| `Reports` | the lists, summaries, exports, reminders and analytics, as operators over the state of `Contributions` |
| `Payouts` | requests with their locks, sweeps, decisions, the transfer task, the transfer webhook, settlement mode and kill switch as payouts see them |
| `Settlement` | platform settings, the settlement account and its four writers, the route of each invoice's money |
| `ChainedLog` | the abstract audit log: one atomic append to one chain |
| `AuditChain` | record_event and verify_chain in the transactions of their callers |
| `Membership` | invites, joins, creation of purses with idempotency keys and enrolment, cohorts, removal |
| `Access` | which endpoint shows what to whom, as operators over the state of `Membership` |
| `Sessions` | refresh-token families, rotation, revocation, inactivity, logout |
| `Accounts` | registration, verification and reset of passwords with single-use codes |
| `ContributionsProofs`, `PayoutsProofs`, `AuditChainProofs`, `SettlementProofs`, `SessionsProofs`, `AccountsProofs`, `MembershipProofs` | theorems |
| `SumLemmas` | sums over finite sets, for the theorems about money and counts |
| `MC...` | symmetry and constants for TLC (`MCContributions` extends `Reports`, `MCMembership` extends `Access`) |

The modules meet where the code's components do. `Reports` and `Access` extend the component whose
rows they read. The ledger appears in `Payouts` as `collected`, a total that only grows (which
`ContributionsProofs!SerialResolvedIsFinal` justifies for handlers that do not overlap), and in `Settlement` as
invoices whose money goes to the platform or to the group; a payout, many steps in `Payouts`, is one
step there. A row of `Membership` is a contribution of `Contributions` at its start. Every commit is
one transaction of `AuditChain`.

### 2.1 Contributions

Handlers are small processes. A *session* has a program counter, the copies of rows it loaded, and
what it carries across an `await`. One action loads, one action per `await` in between, and one
commits; a commit writes exactly the columns the ORM saw assigned, over whatever is in the row by
then. The number of `Sessions` is the number of handlers that can overlap, so the same module is
the serial system (one session) and the concurrent one.

| Actions | Code |
|---|---|
| `GenerateLoad ... GenerateRecord` | `generate_invoice`: lazy expiry and its commit, the live-invoice shortcut, the provider call, the commit |
| `WebhookMatch`, `WebhookSkip`, `Credit`, `WebhookMark` | `process_collection_webhook_event` and `apply_payment_confirmation` |
| `StoreEvent`, `Reprocess` | `store_event` with its unique index, and the admin's reprocess |
| `ReconcileLoad`, `ReconcileFound`, `ReconcileNotFound`, `ReconcileExpire`, `ReconcileKeep` | `run_reconciliation`: rows loaded once, one query per row |
| `ManualLoad`, `ManualCommit`, `ResolveLoad`, `AcceptPartial`, `RequestTopup` | `mark_manual`, `resolve_flag` |
| `RepriceLoad`, `RepriceCommit`, `ClosePurse`, `ReopenPurse`, `DeadlinePasses` | the purse's edits |
| `ChangeProvider` | a save or a migration of the settlement account: `payment_provider` is what the job asks, `Issuer` what issued an invoice |
| `Pay`, `Lapse`, `Crash` | the payer, time, a restart |

Payers can pay any invoice they were shown, once, with a right or a wrong amount, also after it
lapsed or was replaced. `credited` and `recorded` are history variables of the properties.

`Ledger` is what this comes to when handlers do not overlap: a status and two amounts for each member,
the invoices, and one action for each thing that can happen to them. Nothing in it loads, waits, is lost
or is delivered twice. `Contributions!Books` maps each row to its account. That a resolved account is
final can be read off `Ledger`: no action takes an account from PAID or PAID_MANUAL.

### 2.2 Payouts

A request (`Create...`) is a session with the lock it waits for, the balances it has read so far and
the shares of a sweep; the actions are the lock, one query of the balance at a time, the check, the
inserts with the FOR KEY SHARE locks their foreign keys take, and the commit. Decisions are
sessions like those of Contributions: `approve_only`, `reject`, the transfer task with its three
outcomes (accepted, refused, lost in a timeout), `process_transfer_webhook_event`. The provider's
side is one state per transfer reference. Refused means that the answer had a status of 400 or above
or was not successful; like a timeout it says nothing of whether the transfer was taken
(`MaybeSent`), but the code marks the payout FAILED and frees its balance. `outstanding` and `allocated` are the answers of the
code's SUM queries, kept as totals; `BalancesMatchRows` checks that they are the sums.

Simplifications: `payout_events` rows are left out, as they are written in the same transaction as
the status; `_create_sweep_allocations` reads its purses in one step; only `save_direct` is an
action for saving an account, because `save` always ends in it; collection stops at `Collectable`
per purse. The kill switch is off by default in the code, and `Init` is a platform where it was
turned on (custodian mode available).

### 2.3 AuditChain

A transaction has one of three shapes, by the order in which it takes its locks:

* `head_first`: a request, whose session does not autoflush; `record_event` locks the head, and the
  flush at its end writes the changed row;
* `row_first`: a bulk UPDATE before the event (`update_group`, `delete_group`), or the autoflush of a
  background task's session;
* `commit_first`: `add_member`, which commits its row, refreshes it, records the event in the new
  transaction and ends.

`now` ticks when a transaction begins, because PostgreSQL's `now()`, the default of `created_at`, is
the time at which the transaction started. A hash is the sequence of entities it commits to
(SHA-256 without collisions). Each transaction records one event, as all callers do. The model
takes the tip read under the lock as the committed one; in the code this rests on the session
having no older head object alive.

### 2.4 Settlement and platform settings

`settings` and `account` are one row each; a session holds the copies it loaded and commits the
columns it changed. `Save...` is `save`/`save_direct` with the name check and the provider's
sub-account between load and commit; `Switch...` is `switch_mode` with its balance query; `Update...`
is an edit of one part of the settings (kill switch, providers, active provider), decided on the row
as loaded; `Route`, `Migrate`, `CreateInvoice` are the part of `generate_invoice` that picks the
provider, moves a direct account to it, and asks for the invoice; payment and payout are steps of the
outside. `late` and `unsettled` are histories that name what the properties excuse.

A save goes through at Paystack only. `save_direct` calls `create_sub_account` with a
`business_name` (`settlement/service.py:201-207`), which the Monnify client does not take
(`payments/service.py:246-248`): a save with Monnify verifies the account and ends in a TypeError
(`TakesBusinessName`). `switch_mode` passes no such argument and does reach Monnify. Accounts at
Monnify are therefore those the migration `e91c7a4b8901` found, which gave every existing row that
provider; `Init` has a group without an account or with such a direct one. Rows that were in
custodian mode when `f91c7a4b8902` made every row direct, and so have no sub-account, are not
modelled: `DirectHasSubAccount` is false of them until they are saved again.

### 2.5 Membership and Access

A join is `Resolve`, `JoinCommit`, `Redeem`, then the enrolment (`LookForPurses`, `SkipEnrolled`,
`EnrolNewMember`, `LookForInvited`, `EnrolOne`); the creation of a purse is `Begin` (idempotency key),
`ReadGroup`, `CommitPurse`, `FindMembers`, `EnrolMembers`, `Complete` or `Release`. Each commit, and
each read whose result is used after another's commit, is a step. Unique constraints make a batch
fail as a whole. A cohort edit reads the group (`EditCohort`), selects the members it moves
(`SelectMembers`) and commits (`EditCohortCommit`); edits overlap, and one that submits the cohort it
read writes the members but not the group, since SQLAlchemy sees no change. A join of a new address
registers it in the same commit, and either unique constraint makes it fail. `raced`,
`drifted`, `dropped` and `freed` are histories: they name the invites, members, purses and keys that a
race or a failure of the code's own making touched, so that the properties say what holds for all
others.

`Access` has one operator for each endpoint or guard (`MayOpen`, `MayRead`, `PursesListed`,
`DashboardCounts` ...) and one property that relates them.

### 2.6 Sessions

One step is one Redis command or MULTI. A request carries the token it presented, the family and
pointer it read, and the time it passed the inactivity gate. Tokens in responses may be presented
again by anybody at any time. Time counts ticks, `Second` of them to a second, since keys live whole
seconds and tokens do not. A logout is let in by its access token and revokes the family of whatever
refresh token it presents; without one (`LogoutBare`) it answers the same and does nothing. Expiry is lazy: a key is gone when `now` has reached its time.

### 2.7 Accounts

The three stores of codes hold the user each code was issued to. Peek, delete, consume and issue are
steps of their own where they are separate commands in the code. A code may be drawn again after it
expired or was used; `overtaken` marks a request whose code was issued anew after it had found it in
order. `owed[u]` counts the reset codes mailed to `u` less the passwords set.

### 2.8 Reports

Every list, summary, total, tab, export row, reminder, rate and trend of a purse is an operator over
the rows and events of `Contributions`, with the list of statuses that its query has in the code. All
of them are sums or sets over rows, so one row with all its histories shows every disagreement that
is not between rows; that the sums agree for any number of rows is proved. The trend's buckets do not depend on the state and are checked for every date
within and around the window, in half days. Rounding is left out.

## 3. Runs

| Run | Configuration | Question and result |
|---|---|---|
| `contributions_serial` | 1 row, 2 invoices, prices 1-2, payments and cash of 1, 1 session, all handlers | `BooksBalance`, `CreditedAtMostOnce`, `PaidInFull`, `LiveInvoiceAsksRemainder`, `HistoryIsPath` hold for handlers one after the other, with restarts between any two of their steps; `ImplementsLedger`: together they are the atomic `Ledger`; `ViewsAgree` and `CollectedIsReal`: every screen tells the same story, and money counted as collected online was paid online |
| `contributions_liveness` | same without admin edits, payments of 1 or 2, 2 providers, fairness | `CurrentPaymentIsCredited`: a payment on the current invoice is credited though webhook and task are lost, once the account names the invoice's provider for good |
| `contributions_overlap` | 2 rows, 2 sessions | `InvoiceIsOwn`: overlapping handlers never mix members |
| `payouts_serial` | 2 purses, 2 payouts, 2 requesters, 1 decider, sweeps and purse requests, all decisions, all account states | `PurseRequestStaysCovered`, `SweepStaysCovered`: the two kinds of lock together keep checked requests covered; `BalancesMatchRows`, `PurseNeverOverdrawn`, `SentMoneyIsCounted`, through timeouts, reversals, restarts and mode changes; it excuses a transfer that was taken and answered with an error |
| `payouts_race` | 1 purse and the group, 2 payouts, 2 requesters, 2 deciders | `CompletedWasPaid` though approvals of one payout commit over each other and its transfer task runs twice |
| `audit_chain` | 2 entities, 2 sessions, 3 shapes, 4 transactions | `ChainIsLinear`, `VerifiesUnlessOvertaken`, `ImplementsChainedLog` |
| `settlement` | 2 sessions, 1 invoice, all writers | `DirectIsPayable`, `NothingStranded`: a direct account has a usable sub-account, and the platform keeps nothing of a direct group but what arrived after the check |
| `settlement_double` | violation, 1 session, a group that registers at Paystack (`RegisteredNow`) | `PayableIsHeld`, "Real, Monnify-held money only": what a direct group was paid counts as held after a switch to custodian |
| `membership_join` | 2 joining users, 1 invite for one, 1 purse, 2 cohorts, 2 requests | `UseLimit`, `NobodyIsForgotten`, `CohortsAgree`, each outside of the named races |
| `membership_purses` | 2 purses, 1 key, a purse invite, 2 requests | `OnePursePerKey`, `WhoeverOwesMayFollow` |
| `sessions` | 1 family, 3 tokens, 2 requests, clock to 2, one access token blacklisted at a time (`OneLoggedOut`) | `RevocationHolds`, `LogoutOutlivesToken`, `IdleFamiliesEnd`, each outside of the named windows |
| `accounts` | 2 users, 2 reset codes, 1 of the others, 2 requests | `OneChangePerCode`, `CodesStayWithOwners` |

Type invariants are checked in `contributions_serial`, `payouts_race`, `audit_chain`, `settlement`,
`membership_join`, `sessions` and `accounts`.

Bounds. Two invoices are what a replacement needs (a row with a third behaves as one with a second);
prices of 1 and 2 and payments of 1 give payments that are exact, short (a price of 2), exact on a
top-up, and over (the price was lowered after a part of it was paid, so that invoices ask for one, for
nothing or for less). Two payouts
give one that is decided, sent or completed and a new one next to it; two purses and two requesters
give every pair of scopes, and amounts of 1 and 2 give shares that round. A purse and the group are
enough for two requests to wait for each other, and two deciders for two approvals to overlap. Only the holder of the audit head can hold a
lock it needs and wait, so cycles have two members and two sessions show them; four transactions let
one be overtaken and a chain of three follow. In `settlement`, one invoice is a unit of money that can
be paid early, late, or split, and two sessions give every pair of writers. In `membership_join`, two
users share one use of an invite, two cohorts give an edit there and back; in `membership_purses` a
second purse is what a second use of a key makes. Families in `sessions` share no key, so one is
enough; three tokens give a current one, its successor and one that is older than both. Logouts take any
access token with any refresh token; `OneLoggedOut` stops at the second access token that is
blacklisted, as entries of the blacklist never touch each other. A second reset
code in `accounts` is the one that is drawn while the first is on its way; codes of other stores need
one each, which changes hands. Two providers in the liveness run are the one the account names and
another; safety does not depend on them, so the other contribution runs have one. `MaxTransactions`, `MaxTime`, `MaxEdits`, `MaxOwed` and the finite sets
of tokens, purses, invites and codes only cut the exploration. Deadlock is checked off where they can
stop the system: the audit, sessions, accounts and membership runs.

Fairness. `Contributions`: the scheduler starts the job for ever (`start_scheduler`), the event loop
runs each coroutine on (weak fairness of `Continue`), and the provider answers a query that is
asked again and again, with no restart each time between the answer and the commit (strong fairness
of the job's load, answer and credit). Requests, payments, webhooks, restarts and changes of the
provider are never forced. The other modules have no liveness property: what they promise are
prohibitions, nothing in their code retries, and that requests which wait for each other's locks end
rests on PostgreSQL's deadlock detector and not on this code.

### Divergences between code and documentation

`settlement_double` is kept as a run. Five more have a property in their module and a configuration
that refutes it:

| Property, configuration | The code says | What happens |
|---|---|---|
| `EveryPaymentIsCredited`, `ContributionsOrphan.cfg` | `jobs/service.py:28-29` "covers a webhook that was dropped or delayed" | a payment on a replaced invoice is credited by nobody (`jobs/service.py:86`) |
| `ReceivedIsBacked`, `ContributionsDoubleApply.cfg` | `contributions/service.py:698-700` "safe against double-applying" | two overlapping runs of the job and a top-up add one payment twice (line 701) |
| `FailedMoneyNeverLeft`, `PayoutsFailed.cfg` | `payouts/service.py:403-404` "the money (never having left)" | a transfer that the provider took and answered with an error, or whose second task is refused as a duplicate, is marked failed (lines 497-499) and its balance freed |
| `GroupNeverOverdrawn`, `PayoutsSweep.cfg` | `payouts/service.py:163-164, 264` | a sweep charged by what purses collected, not by what they still have, lets the next purse payout overdraw the group (line 187) |
| `UntamperedChainVerifies`, `AuditVerify.cfg` | `audit/service.py:101, 103-104` | two overlapping requests make `verify_chain` report tampering (line 108) |

More were seen while modelling. In the ledger, those with two sessions share the cause of the second
row above, a status read on a copy and written without a lock:

* the job writes a row that another handler resolved after the job loaded it (`jobs/service.py:61`);
* `mark_manual` on a flagged or topped-up row makes provider money on it PAID_MANUAL, which the
  balance of payouts then leaves out (`contributions/service.py:740`), although the comment on manual
  money says that no electronic funds are behind it;
* two handlers record transitions from the same `from_status` (`contributions/service.py:704`), so the
  events are not a path;
* an edit of the amount that overlaps a payment reaches the resolved row
  (`contributions/service.py:196`);
* an approval that overlaps a rejection approves a rejected payout (`payouts/service.py:307`).

The job asks the provider that the settlement account names now, Paystack by default
(`jobs/service.py:76-83`), not the one that issued the invoice: after a save or a migration to another
provider, a payment whose webhook was lost is not credited until the account names the issuer again.
Any answer of the provider with a status of 400 or above counts as a refusal
(`payments/service.py:136-137`), also one that comes after the transfer was taken.

In the reports: on a closed purse unpaid rows show "closed" but count as pending in
`summary_for_purse`, which says it mirrors the badge; a lapsed row is listed under two filters; the
goal is price times rows although repriced and paid rows keep older prices; "invoice ever generated"
counts the rows that carry one now; an EXPIRED row of an open purse shows as pending and is not
reminded; `remind_purse` does not look at the purse's status.

In membership: the admin's member list and counts include removed members, the platform's exclude
them ("same as any other active-membership view would"); a removed member may open and pay but not
list; contribution and history endpoints go by the role in the token, so an admin who is also a
member cannot read the own contribution in another group; `list_purses` for a member answers with the
group joined last whichever was asked for; removed members are put on new purses; `update_group` says
that cohorts "never drift apart", but a join that read the old cohort makes them, and so does an edit that
submits the cohort it read while another edit replaces it (`group_admins/service.py:273-286`: the
members are moved back, the group is not written); a batch that fails on
a duplicate releases the key after the purse was committed (`purses/service.py:82`), so that a retry
makes a second purse; `add_member` commits its row before it calls `record_event`, and nothing commits
after it, so the event is lost with the session (`purses/service.py:198`), while the docstring of
`record_event` has row and change "land atomically together" (`AuditChain` keeps such transactions,
`commit_first`, because they still take the head's lock).

In sessions and accounts: `config.py:59-62` ends a session "once the gap exceeds" the idle limit, but
the activity record has a lifetime of its own that no refresh renews (`core/auth.py:197`);
`verify_reset_code` ignores what `consume` returns and issues a grant for a code that is gone; a logout
without a refresh token answers `logged_out` and leaves both tokens good (`auth/router.py:213`).

In settlement: `switch_mode`'s "a switch never strands" fails for a late payment of an earlier invoice,
for a payout that comes back, and for `save_direct`, which has no check; turning the kill switch off
leaves groups in custodian mode; two overlapping updates of the settings can disable both providers;
the account's `payment_provider` may name another provider than the one its sub-account is at;
a save with Monnify ends in a TypeError although the router offers that provider
(`settlement/service.py:201-207`, `payments/service.py:246-248`); `initiate_transfer` sends the bank's
name as the account's name.

## 4. Proofs

Every safety invariant and every action property that a passing run checks is also a theorem. All
are proved from the specification and the named assumptions on the constants only, for any
number of rows, sessions, invoices, payouts, members, users, codes, tokens and amounts. The assumptions say that the
constants' sets do not overlap and that what stands for an absent row or invoice is none, that bounds are natural numbers, and that the sets a total ranges
over (rows, invoices, purses, payouts, users) are finite. *Serial* in a theorem's name means that it
assumes at most one session (`Contributions`) or one decider (`Payouts`; requests and sweeps may
still overlap): most of these properties are false without it, as the refuted configurations show.

| Theorem | States | Inductive argument |
|---|---|---|
| `ContributionsProofs!TypeCorrect` | `[]TypeOK` | inductive itself |
| `ContributionsProofs!InvoicesStayOwn` | `[]InvoiceIsOwn`, any overlap | `OwnInv`: also the copies sessions hold, and the invoice in a session's hand, carry only invoices issued for their row |
| `ContributionsProofs!SerialCreditsOnce` | `[]CreditedAtMostOnce` | `SerialInv`: an invoice on an unpaid row is uncredited, an invoice not yet issued too, and an open session's copy equals the row |
| `ContributionsProofs!SerialResolvedIsFinal` | `ResolvedIsFinal` | the same: a session that passed its status check still sees the status |
| `ContributionsProofs!SerialLedgerIsAtomic` | `Spec => ImplementsLedger` | `Together` (types, `OwnInv`, `SerialInv` and, below, `HandInv`) and `EntryInv` (cash and prices are as the admin gave them, and an edit holds every pending row there is): a provider's call is an `Ask`, each commit one entry on the row as it stands, every other step a `Rest` |
| `ContributionsProofs!SerialHistoryIsPath` | `[]HistoryIsPath` | each of the seven moves (below) extends a path by a transition from the status the row has, or leaves both alone |
| `ContributionsProofs!SerialPaidInFull` | `[]PaidInFull` | inductive over the moves: a credit makes a row PAID only when the amounts are equal, and a new amount reaches pending rows only |
| `ContributionsProofs!SerialLiveInvoiceAsksRemainder` | `[]LiveInvoiceAsksRemainder` | `AsksRemainder`: also for lapsed invoices of EXPIRED rows, which can still be paid; every move that changes the remainder drops the invoice or resolves the row |
| `ContributionsProofs!SerialBooksBalance` | `[]BooksBalance` | `Balanced`: a credit raises one summand by what it adds to the row, and no invoice is among two rows' summands |
| `ContributionsProofs!SerialCollectedIsReal` | `[]CollectedIsReal` | `BooksInv`: `Balanced`, and cash only on PAID_MANUAL rows; then the sum is compared row by row, and invoice by invoice |
| `ContributionsProofs!SerialViewsAgree` | `[]ViewsAgree` | `RatesInv`: the history is a path, PAID is entered only as its last step, and PAID and flagged rows keep their invoice; the rest are sums over the same rows, split by status or by day |
| `PayoutsProofs!TypeCorrect` | `[]TypeOK` | inductive itself |
| `PayoutsProofs!CompletedPayoutsWerePaid` | `[]CompletedWasPaid`, any overlap | `PaidInv`: a success notice, and a session about to confirm one, exist only for transfers that were paid |
| `PayoutsProofs!SerialSentMoneyIsCounted` | `[]SentMoneyIsCounted` | `DeskInv` (the payout a session works on has the status it read) and `MoneyInv` (tasks only where nothing was sent; no reference before a transfer was initiated; failure notices only for failed transfers) |
| `PayoutsProofs!SerialPurseRequestStaysCovered` | `[]PurseRequestStaysCovered` | `LockInv` (who is past the lock holds it, and FOR UPDATE excludes the share locks of others, sweeps' allocations included) and `CoverInv` (what was read of the collections is at most what is there now) |
| `PayoutsProofs!SerialBalancesMatchRows` | `[]BalancesMatchRows` | `BalanceInv`: each total is the sum over the rows, a sweep's allocations add up to its amount, a purse payout has none; a decision or commit changes one row and the totals by as much; the rounded shares add up, the rest going to the last purse |
| `PayoutsProofs!SerialSweepStaysCovered` | `[]SweepStaysCovered` | `SweepInv`: a sweep past its check asks no more than the group still has, its shares add up to its amount, and a purse request about to insert holds the group's share lock or has yet to ask for it, so it cannot commit while the sweep is past its own lock |
| `PayoutsProofs!SerialPurseNeverOverdrawn` | `[]PurseNeverOverdrawn`, sweeps included | `MoneyTableInv`, the conjunction of the above: the check of a purse request leaves the purse what sweeps took of it, which as a sum of amounts is not negative |
| `AuditChainProofs!TypeCorrect` | `[]TypeOK` | inductive itself |
| `AuditChainProofs!ChainNeverForks` | `[]ChainIsLinear`, any overlap, aborts and deadlocks | `HeadInv`: a session past the head holds its lock and has read the committed tip |
| `AuditChainProofs!ChainIsImplemented` | `Spec => ImplementsChainedLog` | the same: a commit maps to one `Record`, every other step to a stutter |
| `AuditChainProofs!VerifiesIfInOrder` | `[]VerifiesUnlessOvertaken`, any overlap | `ClockInv`: no two transactions, open or recorded, began at one instant; so sorting by `created_at` moves no row of an ordered log, and in any other log puts a row where its predecessor's hash, one element too long or too short, does not fit |
| `SettlementProofs!TypeCorrect` | `[]TypeOK` | inductive itself |
| `SettlementProofs!DirectAlwaysPayable` | `[]DirectIsPayable`, any overlap | the same with the types: each writer that makes the account direct, or finds it so, writes or keeps a code |
| `SettlementProofs!SwitchStrandsNothing` | `[]NothingStranded`, any overlap | `NoAccountYet` (before there is an account nothing is held or owed) and `SwitchIsCovered` (what is held while a switch is past its check is in `late`) |
| `SessionsProofs!TypeCorrect` | `[]TypeOK` | inductive itself |
| `SessionsProofs!RevokedStaysRevoked` | `[]RevocationHolds`, any overlap | `OpenFounded` and `EndedGone`: an ended family has neither a pointer nor a request about to write one |
| `SessionsProofs!LoggedOutIsRefused` | `[]LogoutOutlivesToken` | `LogoutsGiven` and `OutCovered`: a token logged out with a refresh token has a blacklist entry for all but its last second |
| `SessionsProofs!OnlyTimelyRenewals` | `IdleFamiliesEnd` | `Watched`, `Unseen`, `InTime`: how the activity record and the last sighting of the human relate while a request is past the gate |
| `AccountsProofs!TypeCorrect` | `[]TypeOK` | inductive itself |
| `AccountsProofs!ChangesAreMailed` | `[]OneChangePerCode`, any overlap | `Balance`: the live codes and grants of a user and the requests about to issue a grant or set a password never outnumber `owed`; every step moves, drops or pays for at most one of them |
| `AccountsProofs!CodesAreKept` | `CodesStayWithOwners` | `HeldInv`: the code a request is about to delete is its user's, gone, or was issued anew |
| `MembershipProofs!TypeCorrect` | `[]TypeOK` | `TInv`: a request holds at each step what the step uses |
| `MembershipProofs!InviteHonoured` | `[]UseLimit`, any overlap | `UseInv`: of an invite that no two joins raced for, at most one join is under way, it saw the use count as it is, and who was admitted is that count, plus the one about to redeem |
| `MembershipProofs!OneKeyOnePurse` | `[]OnePursePerKey`, any overlap | `KeyInv`: a key that was never given up has one holder at most, and is free only while nothing was made under it |
| `MembershipProofs!CohortsStayTogether` | `[]CohortsAgree`, any overlap of edits, joins and removals outside of `drifted` | `CohortInv`: an edit under way selected every active member but those named in `drifted` |
| `MembershipProofs!LatecomersEnrolled` | `[]NobodyIsForgotten`, any overlap | `EnrolInv`: for each purse and member that owe each other a row, the row is there, or some request will still look for it or has it in its batch |
| `MembershipProofs!OwnersMayFollow` | `[]WhoeverOwesMayFollow`, any overlap | `RowInv`: rows, and the batches that will become rows, are of members of the purse's group, or of its admins who added themselves |

Why the strengthenings are needed: each property speaks of committed rows, but the next commit
writes what a session read earlier. The invariants say what is still true of the copy; for the
locked paths because the lock is held, for the serial theorems because nothing else ran.

*Moves.* `SerialHistoryIsPath` and the five theorems after it do not look at handlers. `LedgerMoves` shows, once, that
in serial order every step takes each row through one of seven moves (it expires, takes an invoice, takes a
credit, takes cash, is accepted, reopened or repriced), each between a status and an amount that the
row really has, or leaves it alone. `SerialInv` and `HandInv` are what this needs: a session's copy is
the row, what it is about to credit is what was paid on its invoice and was not credited yet, and the
invoice it is about to record asks for what is missing on the row.

*Sums.* The totals of the code are SQL sums; the modules write them with `MapThenSumSet`, a fold by a
recursive function. The provers cannot instantiate an induction theorem's operator parameter, so
`SumLemmas` derives induction over the size of a set from the well-foundedness of the naturals
(`WFMin`, about a set of counterexamples in place of a predicate), shows with it that the folding function exists and
is unique, and from that what the proofs cite: a sum with one element more, one summand changed, two
functions added or compared, a restriction, a renaming, a partition.

Model-checked only: the liveness property `CurrentPaymentIsCredited`, since fairness and ENABLED are
out of the prover's reach. The refuted
properties have runs or configurations, and no theorem. What the theorems do not say: without
*Serial*, `CreditedAtMostOnce`, `ResolvedIsFinal`, `HistoryIsPath` and the ledger's other properties of
amounts are not claimed, because copies that overlap break them (section 3), and `SentMoneyIsCounted`
and the balances of payouts neither.

## 5. Not modelled, and the plan

Left out for good, because nothing else reads their state back: provider protocols (signing, parsing,
token caches), e-mail, realtime push, cookies and CSRF, the layout of exports. The rejected-payment
and settlement webhooks only write logs.

Left out so far:

* reminders' cooldown (`notifications/router.py`): one critical section under a row lock in one
  handler, with nothing else that writes the timestamp;
* rate limits: a counter and its window are set by two Redis calls, so a restart between them leaves a
  counter without an expiry; no decision but the refusal of a request reads it;
* appointing, inviting and removing admins, organisations, deletion of a group: `Membership` fixes who
  administers what;
* payout requests under an idempotency key: the balance check limits their effect, and `Membership`
  has the store around the one endpoint without such a check;
* analytics across groups (activity, retention, health).

What comes next: an abstract account of a group's money that the serial `Payouts` implements;
appointing and removing admins.
