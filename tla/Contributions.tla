---------------------------- MODULE Contributions ----------------------------
(***************************************************************************)
(* The life of a contribution: one row per member (or admin) and purse,    *)
(* moved between its statuses by six handlers that share no lock on it:    *)
(*                                                                         *)
(*   generate   the member asks for an invoice  (generate_invoice)         *)
(*   webhook    the provider reports a payment  (process_collection_...)   *)
(*   reconcile  the scheduled job polls the provider (run_reconciliation)  *)
(*   manual     an admin records cash           (mark_manual)              *)
(*   resolve    an admin settles a flagged row  (resolve_flag)             *)
(*   reprice    an admin edits the purse amount (update_amount_for_pending)*)
(*                                                                         *)
(* Every handler runs in a database session of its own: it loads rows into *)
(* the session's identity map, decides on the loaded copy, possibly waits  *)
(* for an HTTP answer, and commits the columns it assigned.  A session is  *)
(* therefore a little process with a program counter, and the number of    *)
(* Sessions is the number of handlers that can overlap: one session is the *)
(* system whose handlers run one after the other.                          *)
(***************************************************************************)
EXTENDS Integers, Sequences, FiniteSets, FiniteSetsExt

CONSTANTS
    Contribs,      \* contribution rows of one purse
    Sessions,      \* database sessions that can be open at the same time
    Invoices,      \* invoice references the providers can still issue (bound)
    NoInvoice,     \* invoice_id IS NULL
    NotLoaded,     \* in place of a row a session has not read
    Prices,        \* amounts the purse can be set to
    Payable,       \* amounts a payer can transfer against an invoice
    Cash,          \* amounts an admin can record by hand
    Providers,     \* payment providers
    Issuer,        \* the provider that issues each reference
    Handlers       \* the entry points that are exercised

AllHandlers == {"generate", "webhook", "reconcile", "manual", "resolve", "reprice"}

ASSUME AmountsAssumption ==
    /\ Prices \subseteq Nat \ {0} /\ Prices # {}
    /\ Payable \subseteq Nat \ {0}
    /\ Cash \subseteq Nat \ {0}

ASSUME NamesAssumption ==
    /\ NoInvoice \notin Invoices
    /\ Handlers \subseteq AllHandlers

\* An invoice exists at one provider.
ASSUME ProvidersAssumption == Issuer \in [Invoices -> Providers]

\* A purse has finitely many rows; the bound on invoices is a finite one.
ASSUME FiniteAssumption == IsFiniteSet(Contribs) /\ IsFiniteSet(Invoices)

VARIABLES
    row,        \* contributions: the committed rows
    events,     \* contribution_events: the status transitions of each row
    purse,      \* the purse's state, as generate_invoice and update see it
    inbox,      \* webhook_events: one row per payment notification
    tasks,      \* background tasks scheduled in the process's memory
    sess,       \* the open database sessions
    bill,       \* (provider) the invoices issued and what was paid on them
    shown,      \* invoices a response has shown to the payer
    lapsed,     \* invoices whose validity window is over
    payment_provider,  \* what the group's settlement account names now
    credited,   \* (history) times each invoice's payment was credited
    recorded    \* (history) cash recorded on each row

dbVars      == <<row, events, purse, inbox>>
outsideVars == <<bill, shown, lapsed, payment_provider>>
historyVars == <<credited, recorded>>
vars == <<dbVars, tasks, sess, outsideVars, historyVars>>

-----------------------------------------------------------------------------
(* Types                                                                   *)

Status == {"PENDING", "PAID", "EXPIRED", "FLAGGED_FOR_REVIEW", "PAID_MANUAL"}

\* apply_payment_confirmation, generate_invoice and the job act on these only.
Unpaid == {"PENDING", "EXPIRED"}

Row == [status: Status, amount_expected: Nat, amount_received: Nat,
        invoice_id: Invoices \cup {NoInvoice}]

\* A row that was not read is not taken for one.
ASSUME LoadAssumption == NotLoaded \notin Row

\* "overdue" is an open purse whose deadline has passed.
PurseState == {"open", "overdue", "closed"}

PC == {"idle", "credit", "mark", "query", "lapse", "expire", "refresh",
       "call", "record", "manual", "accept_partial", "request_topup", "reprice"}

\* A session that is about to record an invoice holds one.
Session ==
    {d \in [pc: PC, loaded: [Contribs -> Row \cup {NotLoaded}], open: BOOLEAN,
            invoice: Invoices \cup {NoInvoice}, amount: Nat,
            actor: {"webhook", "reconciliation_job", "member", "admin"}] :
        d.pc = "record" => d.invoice \in Invoices}

\* A session that is closed, or not yet opened, holds nothing.
Closed == [pc |-> "idle", loaded |-> [c \in Contribs |-> NotLoaded], open |-> FALSE,
           invoice |-> NoInvoice, amount |-> 0, actor |-> "member"]

\* What the provider knows of an invoice; owner is {} until it is issued.
Bill == [owner: SUBSET Contribs, due: Int, paid: Nat]

TypeOK ==
    /\ row \in [Contribs -> Row]
    /\ events \in [Contribs -> Seq(Status \X Status)]
    /\ purse \in PurseState
    /\ inbox \in [Invoices -> {"absent", "stored", "processed"}]
    /\ tasks \subseteq Invoices
    /\ sess \in [Sessions -> Session]
    /\ bill \in [Invoices -> Bill]
    /\ shown \subseteq Invoices
    /\ lapsed \subseteq Invoices
    /\ payment_provider \in Providers
    /\ credited \in [Invoices -> Nat]
    /\ recorded \in [Contribs -> Nat]

Init ==
    /\ \E price \in Prices :
          row = [c \in Contribs |->
                   [status |-> "PENDING", amount_expected |-> price,
                    amount_received |-> 0, invoice_id |-> NoInvoice]]
    /\ events = [c \in Contribs |-> <<>>]
    /\ purse = "open"
    /\ inbox = [i \in Invoices |-> "absent"]
    /\ tasks = {}
    /\ sess = [s \in Sessions |-> Closed]
    /\ bill = [i \in Invoices |-> [owner |-> {}, due |-> 0, paid |-> 0]]
    /\ shown = {}
    /\ lapsed = {}
    /\ payment_provider \in Providers
    /\ credited = [i \in Invoices |-> 0]
    /\ recorded = [c \in Contribs |-> 0]

-----------------------------------------------------------------------------
(* Sessions.  Open starts a handler on the rows it has read; Goto and Close *)
(* move it on; a commit writes the columns that changed since they were     *)
(* loaded and leaves the other columns of the row alone.                    *)

Load(S) == [c \in Contribs |-> IF c \in S THEN row[c] ELSE NotLoaded]

Loaded(s) == {c \in Contribs : sess[s].loaded[c] # NotLoaded}

At(s, pc) == sess[s].pc = pc
Become(s, next) == sess' = [sess EXCEPT ![s] = next]
Goto(s, pc) == Become(s, [sess[s] EXCEPT !.pc = pc])
Close(s) == Become(s, Closed)

Open(s, handler, opened) ==
    /\ handler \in Handlers
    /\ At(s, "idle")
    /\ Become(s, opened)

\* _write_event: the transition is recorded in the transaction that makes it.
EventFromPending(c, from, to) == \* mutant: the from-status is assumed
    events' = [events EXCEPT ![c] = Append(@, <<"PENDING", to>>)]

WriteEvent(c, from, to) ==
    events' = [events EXCEPT ![c] = Append(@, <<from, to>>)]

\* Assigning None to invoice_id is written only if the loaded value was not None.
KeepsInvoice(loaded, c) == row[c].invoice_id \* mutant: the old invoice stays current

Cleared(loaded, c) == IF loaded.invoice_id # NoInvoice THEN NoInvoice ELSE row[c].invoice_id

-----------------------------------------------------------------------------
(* generate_invoice                                                        *)

GenerateLoad(s, c) ==
    /\ Open(s, "generate", [Closed EXCEPT !.pc = "expire", !.loaded = Load({c}),
                                          !.open = (purse = "open")])
    /\ UNCHANGED <<dbVars, tasks, outsideVars, historyVars>>

\* expire_if_needed on the loaded copy.
HasLapsed(r) == r.status = "PENDING" /\ r.invoice_id \in lapsed

ExpireRow(s, c) ==
    /\ HasLapsed(sess[s].loaded[c])
    /\ row' = [row EXCEPT ![c].status = "EXPIRED"]
    /\ WriteEvent(c, "PENDING", "EXPIRED")
    /\ UNCHANGED <<purse, inbox, tasks, outsideVars, historyVars>>

GenerateExpire(s, c) ==
    /\ At(s, "expire")
    /\ ExpireRow(s, c)
    /\ Goto(s, "refresh")

GenerateNotLapsed(s, c) ==
    /\ At(s, "expire")
    /\ ~HasLapsed(sess[s].loaded[c])
    /\ Goto(s, "call")
    /\ UNCHANGED <<dbVars, tasks, outsideVars, historyVars>>

\* The refresh after a commit re-reads the row, whoever wrote it last.
GenerateRefresh(s, c) ==
    /\ At(s, "refresh")
    /\ Become(s, [sess[s] EXCEPT !.pc = "call", !.loaded = Load({c})])
    /\ UNCHANGED <<dbVars, tasks, outsideVars, historyVars>>

HasLiveInvoice(r) ==
    r.status = "PENDING" /\ r.invoice_id # NoInvoice /\ r.invoice_id \notin lapsed

MayInvoice(s, r) ==
    /\ sess[s].open
    /\ ~HasLiveInvoice(r)
    /\ r.status \in Unpaid

OutstandingFull(r) == r.amount_expected \* mutant: a top-up asks the whole price

Outstanding(r) == r.amount_expected - r.amount_received

\* A reference is the row's id and a random suffix: never used before.
AnyReference(i) == bill[i].paid = 0 \* mutant: a reference can be issued again

FreshReference(i) == bill[i].owner = {}

\* A provider issues an invoice for what is still outstanding: the one of the
\* group's direct account or the platform's active one, whichever that is today.
GenerateCall(s, c) ==
    LET r == sess[s].loaded[c] IN
    /\ At(s, "call")
    /\ MayInvoice(s, r)
    /\ \E i \in Invoices :
          /\ FreshReference(i)
          /\ bill' = [bill EXCEPT ![i] = [owner |-> {c}, due |-> Outstanding(r), paid |-> 0]]
          /\ Become(s, [sess[s] EXCEPT !.pc = "record", !.invoice = i])
    /\ UNCHANGED <<dbVars, tasks, shown, lapsed, payment_provider, historyVars>>

\* Closed purse, live invoice, resolved row, or an error from the provider.
GenerateStop(s, c) ==
    /\ At(s, "call")
    /\ Close(s)
    /\ UNCHANGED <<dbVars, tasks, outsideVars, historyVars>>

GenerateRecord(s, c) ==
    LET from == sess[s].loaded[c].status IN
    /\ At(s, "record")
    /\ IF from = "EXPIRED"
         THEN /\ row' = [row EXCEPT ![c] = [@ EXCEPT !.invoice_id = sess[s].invoice, !.status = "PENDING"]]
              /\ WriteEvent(c, from, "PENDING")
         ELSE /\ row' = [row EXCEPT ![c].invoice_id = sess[s].invoice]
              /\ UNCHANGED events
    /\ shown' = shown \cup {sess[s].invoice}
    /\ Close(s)
    /\ UNCHANGED <<purse, inbox, tasks, bill, lapsed, payment_provider, historyVars>>

-----------------------------------------------------------------------------
(* apply_payment_confirmation, shared by the webhook and the job           *)

PaidWhenCovered(total, expected) == \* mutant: an overpayment passes as payment
    IF total >= expected THEN "PAID" ELSE "FLAGGED_FOR_REVIEW"

FlaggedByShortName(total, expected) == \* mutant: not a member of the status enum
    IF total = expected THEN "PAID" ELSE "FLAGGED"

Verdict(total, expected) ==
    IF total = expected THEN "PAID" ELSE "FLAGGED_FOR_REVIEW"

Credit(s, c) ==
    LET r     == sess[s].loaded[c]
        total == r.amount_received + sess[s].amount
        to    == Verdict(total, r.amount_expected)
    IN
    /\ At(s, "credit")
    /\ row' = [row EXCEPT ![c] = [@ EXCEPT !.status = to, !.amount_received = total]]
    /\ WriteEvent(c, r.status, to)
    /\ credited' = [credited EXCEPT ![sess[s].invoice] = @ + 1]
    /\ IF sess[s].actor = "webhook" THEN Goto(s, "mark") ELSE Close(s)
    /\ UNCHANGED <<purse, inbox, tasks, outsideVars, recorded>>

(* process_collection_webhook_event                                        *)

\* store_event: the unique provider_event_id lets one delivery through, and
\* only that one schedules the background task.
StoreEvent(i) ==
    /\ "webhook" \in Handlers
    /\ bill[i].paid > 0
    /\ inbox[i] = "absent"
    /\ inbox' = [inbox EXCEPT ![i] = "stored"]
    /\ tasks' = tasks \cup {i}
    /\ UNCHANGED <<row, events, purse, sess, outsideVars, historyVars>>

Matching(i) == {c \in Contribs : row[c].invoice_id = i}

\* The contribution whose current invoice this is, still unpaid when loaded.
WebhookMatch(s, i) ==
    /\ i \in tasks
    /\ \E c \in Matching(i) :
          /\ row[c].status \in Unpaid
          /\ Open(s, "webhook", [Closed EXCEPT !.pc = "credit", !.loaded = Load({c}),
                                               !.invoice = i, !.amount = bill[i].paid,
                                               !.actor = "webhook"])
    /\ tasks' = tasks \ {i}
    /\ UNCHANGED <<dbVars, outsideVars, historyVars>>

\* No row has this invoice, or its row is resolved: marked processed, skipped.
WebhookSkip(s, i) ==
    /\ i \in tasks
    /\ \A c \in Matching(i) : row[c].status \notin Unpaid
    /\ Open(s, "webhook", [Closed EXCEPT !.pc = "mark", !.invoice = i, !.actor = "webhook"])
    /\ tasks' = tasks \ {i}
    /\ UNCHANGED <<dbVars, outsideVars, historyVars>>

\* mark_processed commits on its own, after the credit.
WebhookMark(s) ==
    /\ At(s, "mark")
    /\ inbox' = [inbox EXCEPT ![sess[s].invoice] = "processed"]
    /\ Close(s)
    /\ UNCHANGED <<row, events, purse, tasks, outsideVars, historyVars>>

\* reprocess_webhook_event: the platform admin schedules the task again.
Reprocess(i) ==
    /\ inbox[i] # "absent"
    /\ inbox' = [inbox EXCEPT ![i] = "stored"]
    /\ tasks' = tasks \cup {i}
    /\ UNCHANGED <<row, events, purse, sess, outsideVars, historyVars>>

-----------------------------------------------------------------------------
(* run_reconciliation: the rows are loaded once, before the first query    *)

PendingOnly == {"PENDING"} \* mutant: a lapsed row is not polled

Polled == {"PENDING", "EXPIRED"}

ReconcileLoad(s, c) ==
    /\ row[c].status \in Polled
    /\ row[c].invoice_id # NoInvoice
    /\ Open(s, "reconcile", [Closed EXCEPT !.pc = "query", !.loaded = Load({c}),
                                           !.actor = "reconciliation_job"])
    /\ UNCHANGED <<dbVars, tasks, outsideVars, historyVars>>

\* The provider that the account names now answers PAID for the invoice the
\* loaded copy carries: only the one that issued it can.
ReconcileFound(s, c) ==
    LET i == sess[s].loaded[c].invoice_id IN
    /\ At(s, "query")
    /\ i \in Invoices
    /\ payment_provider = Issuer[i]
    /\ bill[i].paid > 0
    /\ Become(s, [sess[s] EXCEPT !.pc = "credit", !.invoice = i, !.amount = bill[i].paid])
    /\ UNCHANGED <<dbVars, tasks, outsideVars, historyVars>>

\* Not paid yet, unknown at the provider asked, or the query failed: the row is
\* left to expire_if_needed.
ReconcileNotFound(s, c) ==
    /\ At(s, "query")
    /\ Goto(s, "lapse")
    /\ UNCHANGED <<dbVars, tasks, outsideVars, historyVars>>

ReconcileExpire(s, c) ==
    /\ At(s, "lapse")
    /\ ExpireRow(s, c)
    /\ Close(s)

ReconcileKeep(s, c) ==
    /\ At(s, "lapse")
    /\ ~HasLapsed(sess[s].loaded[c])
    /\ Close(s)
    /\ UNCHANGED <<dbVars, tasks, outsideVars, historyVars>>

-----------------------------------------------------------------------------
(* mark_manual and resolve_flag                                            *)

Resolved == {"PAID", "PAID_MANUAL"}

ManualLoad(s, c) ==
    /\ row[c].status \notin Resolved
    /\ \E cash \in Cash :
          Open(s, "manual", [Closed EXCEPT !.pc = "manual", !.loaded = Load({c}),
                                           !.amount = cash, !.actor = "admin"])
    /\ UNCHANGED <<dbVars, tasks, outsideVars, historyVars>>

CashReplaces(received, cash) == cash \* mutant: an earlier top-up is forgotten

WithCash(received, cash) == received + cash

ManualCommit(s, c) ==
    LET r == sess[s].loaded[c] IN
    /\ At(s, "manual")
    /\ row' = [row EXCEPT ![c] =
                  [@ EXCEPT !.amount_received = WithCash(r.amount_received, sess[s].amount),
                            !.status = "PAID_MANUAL"]]
    /\ WriteEvent(c, r.status, "PAID_MANUAL")
    /\ recorded' = [recorded EXCEPT ![c] = @ + sess[s].amount]
    /\ Close(s)
    /\ UNCHANGED <<purse, inbox, tasks, outsideVars, credited>>

\* The "refund" resolution always fails and changes nothing.
ResolveLoad(s, c) ==
    /\ row[c].status = "FLAGGED_FOR_REVIEW"
    /\ \E resolution \in {"accept_partial", "request_topup"} :
          Open(s, "resolve", [Closed EXCEPT !.pc = resolution, !.loaded = Load({c}),
                                            !.actor = "admin"])
    /\ UNCHANGED <<dbVars, tasks, outsideVars, historyVars>>

AcceptPartial(s, c) ==
    /\ At(s, "accept_partial")
    /\ row' = [row EXCEPT ![c].status = "PAID"]
    /\ WriteEvent(c, "FLAGGED_FOR_REVIEW", "PAID")
    /\ Close(s)
    /\ UNCHANGED <<purse, inbox, tasks, outsideVars, historyVars>>

RequestTopup(s, c) ==
    /\ At(s, "request_topup")
    /\ row' = [row EXCEPT ![c] =
                  [@ EXCEPT !.status = "PENDING", !.invoice_id = Cleared(sess[s].loaded[c], c)]]
    /\ WriteEvent(c, "FLAGGED_FOR_REVIEW", "PENDING")
    /\ Close(s)
    /\ UNCHANGED <<purse, inbox, tasks, outsideVars, historyVars>>

-----------------------------------------------------------------------------
(* update_amount_for_pending, called by PurseService.update                *)

RepriceLoad(s) ==
    /\ purse # "closed"
    /\ \E price \in Prices :
          Open(s, "reprice",
               [Closed EXCEPT !.pc = "reprice", !.amount = price, !.actor = "admin",
                              !.loaded = Load({c \in Contribs : row[c].status = "PENDING"})])
    /\ UNCHANGED <<dbVars, tasks, outsideVars, historyVars>>

Repriced(s, c) ==
    LET r     == sess[s].loaded[c]
        price == sess[s].amount
    IN  IF r.amount_expected # price \/ r.invoice_id # NoInvoice
          THEN [row[c] EXCEPT !.amount_expected = IF r.amount_expected # price THEN price ELSE @,
                              !.invoice_id = Cleared(r, c)]
          ELSE row[c]

RepriceCommit(s) ==
    /\ At(s, "reprice")
    /\ row' = [c \in Contribs |-> IF c \in Loaded(s) THEN Repriced(s, c) ELSE row[c]]
    /\ Close(s)
    /\ UNCHANGED <<events, purse, inbox, tasks, outsideVars, historyVars>>

-----------------------------------------------------------------------------
(* The purse, the payer, the provider's clock, and the process             *)

ClosePurse ==
    /\ purse' = "closed"
    /\ UNCHANGED <<row, events, inbox, tasks, sess, outsideVars, historyVars>>

\* reopen, or an edit that moves the deadline into the future.
ReopenPurse ==
    /\ purse # "open"
    /\ purse' = "open"
    /\ UNCHANGED <<row, events, inbox, tasks, sess, outsideVars, historyVars>>

DeadlinePasses ==
    /\ purse = "open"
    /\ purse' = "overdue"
    /\ UNCHANGED <<row, events, inbox, tasks, sess, outsideVars, historyVars>>

\* The payer can pay any invoice ever shown, once, also one that has lapsed
\* or that the row no longer carries.
Pay(i) ==
    /\ i \in shown
    /\ bill[i].paid = 0
    /\ \E amount \in Payable : bill' = [bill EXCEPT ![i].paid = amount]
    /\ UNCHANGED <<dbVars, tasks, sess, shown, lapsed, payment_provider, historyVars>>

Lapse(i) ==
    /\ i \in shown \ lapsed
    /\ lapsed' = lapsed \cup {i}
    /\ UNCHANGED <<dbVars, tasks, sess, bill, shown, payment_provider, historyVars>>

\* The group saves its account with another provider, or generate_invoice
\* migrates it off a disabled one; invoices already issued stay where they are.
ChangeProvider ==
    /\ payment_provider' \in Providers \ {payment_provider}
    /\ UNCHANGED <<dbVars, tasks, sess, bill, shown, lapsed, historyVars>>

\* A restart drops the open sessions (their transactions roll back) and the
\* background tasks; the database and the provider keep what they have.
Crash ==
    /\ sess' = [s \in Sessions |-> Closed]
    /\ tasks' = {}
    /\ UNCHANGED <<dbVars, outsideVars, historyVars>>

-----------------------------------------------------------------------------
Generate(s, c) ==
    GenerateExpire(s, c) \/ GenerateNotLapsed(s, c) \/ GenerateRefresh(s, c)
      \/ GenerateCall(s, c) \/ GenerateStop(s, c) \/ GenerateRecord(s, c)

Reconcile(s, c) ==
    ReconcileFound(s, c) \/ ReconcileNotFound(s, c) \/ ReconcileExpire(s, c) \/ ReconcileKeep(s, c)

Begin(s, c) ==
    GenerateLoad(s, c) \/ ReconcileLoad(s, c) \/ ManualLoad(s, c) \/ ResolveLoad(s, c)

Continue(s, c) ==
    Generate(s, c) \/ Reconcile(s, c) \/ Credit(s, c)
      \/ ManualCommit(s, c) \/ AcceptPartial(s, c) \/ RequestTopup(s, c)

Next ==
    \/ \E s \in Sessions :
          \/ \E c \in Contribs : Begin(s, c)
          \/ \E c \in Loaded(s) : Continue(s, c)
          \/ \E i \in Invoices : WebhookMatch(s, i) \/ WebhookSkip(s, i)
          \/ WebhookMark(s)
          \/ RepriceLoad(s)
          \/ RepriceCommit(s)
    \/ \E i \in Invoices : StoreEvent(i) \/ Reprocess(i) \/ Pay(i) \/ Lapse(i)
    \/ ClosePurse \/ ReopenPurse \/ DeadlinePasses \/ ChangeProvider
    \/ Crash

Spec == Init /\ [][Next]_vars

\* The scheduler starts the job every 20 minutes for ever, the event loop runs
\* every coroutine on, and the provider answers a query again and again.
ReconcileFairness ==
    \A s \in Sessions : \A c \in Contribs :
        /\ SF_vars(ReconcileLoad(s, c))
        /\ SF_vars(c \in Loaded(s) /\ ReconcileFound(s, c))
        /\ SF_vars(c \in Loaded(s) /\ Credit(s, c))
        /\ WF_vars(c \in Loaded(s) /\ Continue(s, c))
        /\ WF_vars(WebhookMark(s))
        /\ WF_vars(RepriceCommit(s))

FairSpec == Spec /\ ReconcileFairness

-----------------------------------------------------------------------------
(* Safety                                                                  *)

Credits(c) ==
    MapThenSumSet(LAMBDA i : credited[i] * bill[i].paid, {i \in Invoices : bill[i].owner = {c}})

\* What a row says was received is what was credited to it from the provider
\* plus the cash recorded on it: nothing is lost and nothing is minted
\* (apply_payment_confirmation, mark_manual).
BooksBalance == \A c \in Contribs : row[c].amount_received = Credits(c) + recorded[c]

\* A payment is credited at most once, whatever the deliveries, the reprocess
\* requests, the job's runs and the restarts ("safe against double-applying").
CreditedAtMostOnce == \A i \in Invoices : credited[i] <= 1

\* An invoice found on a row was issued for that row, so a confirmation never
\* credits one member with another member's payment (the invoice_id match).
InvoiceIsOwn ==
    /\ \A c \in Contribs : row[c].invoice_id # NoInvoice => bill[row[c].invoice_id].owner = {c}
    /\ \A s \in Sessions : At(s, "credit") =>
          \A c \in Loaded(s) : bill[sess[s].invoice].owner = {c}

\* A row that is PAID without an admin having accepted a mismatch was paid in
\* full (apply_payment_confirmation, and edits that reach pending rows only).
PaidInFull ==
    \A c \in Contribs :
        /\ row[c].status = "PAID"
        /\ \A k \in 1 .. Len(events[c]) : events[c][k] # <<"FLAGGED_FOR_REVIEW", "PAID">>
        => row[c].amount_received = row[c].amount_expected

\* The invoice a member can pay now asks for exactly what is still missing:
\* edits and top-ups withdraw the old invoice ("only invoice the remainder").
LiveInvoiceAsksRemainder ==
    \A c \in Contribs :
        HasLiveInvoice(row[c]) => bill[row[c].invoice_id].due = Outstanding(row[c])

\* The recorded history is a path: each transition starts where the previous
\* one ended and the last one ends at the row's status (_write_event).
HistoryIsPath ==
    \A c \in Contribs :
        LET h == events[c] IN
        /\ \A k \in 1 .. Len(h) : h[k][1] = IF k = 1 THEN "PENDING" ELSE h[k - 1][2]
        /\ row[c].status = IF h = <<>> THEN "PENDING" ELSE h[Len(h)][2]

\* A PAID or PAID_MANUAL row is never changed again by any handler.
ResolvedIsFinal ==
    [][\A c \in Contribs : row[c].status \in {"PAID", "PAID_MANUAL"} => row'[c] = row[c]]_vars

-----------------------------------------------------------------------------
(* Refinement                                                              *)

Books == INSTANCE Ledger WITH
    status   <- [c \in Contribs |-> row[c].status],
    expected <- [c \in Contribs |-> row[c].amount_expected],
    received <- [c \in Contribs |-> row[c].amount_received]

\* Handlers that do not overlap are an atomic ledger: each of them takes effect
\* in one step, once, on the accounts as they are then, whatever notifications,
\* polls, retries and restarts led to it (apply_payment_confirmation and the
\* admin's entries, decisions and edits).
ImplementsLedger == Books!Spec

-----------------------------------------------------------------------------
(* Liveness                                                                *)

\* A payment on the invoice a row carries is credited even if its webhook is
\* lost or its background task dies with the process: the job picks it up,
\* unless an admin settles the row or withdraws the invoice meanwhile.  The job
\* asks the provider of the account, so an invoice of another one has to wait
\* until the account names its issuer again, and for good.
CurrentPaymentIsCredited ==
    \A c \in Contribs, i \in Invoices :
        <>[](payment_provider = Issuer[i]) =>
        ((row[c].invoice_id = i /\ bill[i].paid > 0 /\ row[c].status \in Unpaid)
            ~> (credited[i] > 0 \/ row[c].invoice_id # i \/ row[c].status = "PAID_MANUAL"))

-----------------------------------------------------------------------------
(* What the documentation claims and the code does not keep: the README     *)
(* names the configuration that refutes each.                               *)

\* "safe against double-applying": a row never shows more than was paid for it.
ReceivedIsBacked ==
    \A c \in Contribs :
        row[c].amount_received <=
            recorded[c] + MapThenSumSet(LAMBDA i : bill[i].paid, {i \in Invoices : bill[i].owner = {c}})

\* "covers a webhook that was dropped or delayed": every payment is credited,
\* or a human has looked at the row since.
EveryPaymentIsCredited ==
    \A i \in Invoices :
        bill[i].paid > 0 ~>
            (credited[i] > 0 \/ \E c \in bill[i].owner : row[c].status \notin Unpaid)
=============================================================================
