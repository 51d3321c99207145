------------------------- MODULE ContributionsProofs -------------------------
(* Theorems about Contributions, for every choice of rows, sessions,         *)
(* invoices and amounts.                                                     *)
EXTENDS Reports, SumLemmas, TLAPS

-----------------------------------------------------------------------------
(* Sessions and rows keep their shape under the few ways they are written.   *)

LEMMA LoadIsTyped ==
    ASSUME row \in [Contribs -> Row], NEW S
    PROVE  Load(S) \in [Contribs -> Row \cup {NotLoaded}]
BY DEF Load

LEMMA ClosedIsTyped == Closed \in Session
BY DEF Closed, Session, PC

LEMMA BecomeIsTyped ==
    ASSUME sess \in [Sessions -> Session], NEW s \in Sessions,
           NEW next \in Session, Become(s, next)
    PROVE  sess' \in [Sessions -> Session]
BY DEF Become

LEMMA CloseIsTyped ==
    ASSUME sess \in [Sessions -> Session], NEW s \in Sessions, Close(s)
    PROVE  sess' \in [Sessions -> Session]
BY ClosedIsTyped DEF Close, Become

LEMMA GotoIsTyped ==
    ASSUME sess \in [Sessions -> Session], NEW s \in Sessions,
           NEW pc \in PC \ {"record"}, Goto(s, pc)
    PROVE  sess' \in [Sessions -> Session]
<1>1. [sess[s] EXCEPT !.pc = pc] \in Session
    BY DEF Session
<1> QED BY <1>1, BecomeIsTyped DEF Goto

LEMMA OpenIsTyped ==
    ASSUME sess \in [Sessions -> Session], NEW s \in Sessions,
           NEW handler, NEW opened \in Session, Open(s, handler, opened)
    PROVE  sess' \in [Sessions -> Session]
BY BecomeIsTyped DEF Open

\* A history grows by one transition between statuses.
LEMMA EventIsTyped ==
    ASSUME events \in [Contribs -> Seq(Status \X Status)], NEW c \in Contribs,
           NEW from \in Status, NEW to \in Status, WriteEvent(c, from, to)
    PROVE  events' \in [Contribs -> Seq(Status \X Status)]
BY DEF WriteEvent

\* A loaded row is a row.
LEMMA LoadedIsRow ==
    ASSUME sess \in [Sessions -> Session], NEW s \in Sessions, NEW c \in Loaded(s)
    PROVE  c \in Contribs /\ sess[s].loaded[c] \in Row
BY DEF Loaded, Session

LEMMA ClearedIsTyped ==
    ASSUME row \in [Contribs -> Row], NEW c \in Contribs, NEW r
    PROVE  Cleared(r, c) \in Invoices \cup {NoInvoice}
BY DEF Cleared, Row

LEMMA ExpireIsTyped ==
    ASSUME TypeOK, NEW s \in Sessions, NEW c \in Contribs, ExpireRow(s, c),
           sess' \in [Sessions -> Session]
    PROVE  TypeOK'
<1>1. row' \in [Contribs -> Row]
    BY DEF TypeOK, ExpireRow, Row, Status
<1>2. events' \in [Contribs -> Seq(Status \X Status)]
    BY EventIsTyped DEF TypeOK, ExpireRow, Status
<1> QED BY <1>1, <1>2 DEF TypeOK, ExpireRow, outsideVars, historyVars

-----------------------------------------------------------------------------
(* Type correctness, one step per action.                                    *)

LEMMA TypeBegin ==
    ASSUME TypeOK, NEW s \in Sessions, NEW c \in Contribs, Begin(s, c)
    PROVE  TypeOK'
<1> USE DEF TypeOK, dbVars, outsideVars, historyVars
<1>0. Load({c}) \in [Contribs -> Row \cup {NotLoaded}]
    BY LoadIsTyped
<1>1. CASE GenerateLoad(s, c)
    <2>1. [Closed EXCEPT !.pc = "expire", !.loaded = Load({c}), !.open = (purse = "open")] \in Session
        BY <1>0, ClosedIsTyped DEF Session, PC
    <2> QED BY <1>1, <2>1, OpenIsTyped DEF GenerateLoad
<1>2. CASE ReconcileLoad(s, c)
    <2>1. [Closed EXCEPT !.pc = "query", !.loaded = Load({c}), !.actor = "reconciliation_job"] \in Session
        BY <1>0, ClosedIsTyped DEF Session, PC
    <2> QED BY <1>2, <2>1, OpenIsTyped DEF ReconcileLoad
<1>3. CASE ManualLoad(s, c)
    <2>1. PICK cash \in Cash :
              Open(s, "manual", [Closed EXCEPT !.pc = "manual", !.loaded = Load({c}),
                                               !.amount = cash, !.actor = "admin"])
        BY <1>3 DEF ManualLoad
    <2>2. cash \in Nat
        BY AmountsAssumption
    <2>3. [Closed EXCEPT !.pc = "manual", !.loaded = Load({c}),
                         !.amount = cash, !.actor = "admin"] \in Session
        BY <1>0, <2>2, ClosedIsTyped DEF Session, PC
    <2>4. sess' \in [Sessions -> Session]
        BY <2>1, <2>3, OpenIsTyped
    <2> QED BY <1>3, <2>4 DEF ManualLoad
<1>4. CASE ResolveLoad(s, c)
    <2>1. PICK resolution \in {"accept_partial", "request_topup"} :
              Open(s, "resolve", [Closed EXCEPT !.pc = resolution, !.loaded = Load({c}),
                                                !.actor = "admin"])
        BY <1>4 DEF ResolveLoad
    <2>2. [Closed EXCEPT !.pc = resolution, !.loaded = Load({c}), !.actor = "admin"] \in Session
        BY <1>0, ClosedIsTyped DEF Session, PC
    <2>3. sess' \in [Sessions -> Session]
        BY <2>1, <2>2, OpenIsTyped
    <2> QED BY <1>4, <2>3 DEF ResolveLoad
<1> QED BY <1>1, <1>2, <1>3, <1>4 DEF Begin

LEMMA TypeGenerate ==
    ASSUME TypeOK, NEW s \in Sessions, NEW c \in Loaded(s), Generate(s, c)
    PROVE  TypeOK'
<1> DEFINE r == sess[s].loaded[c]
<1>0. c \in Contribs /\ r \in Row /\ sess[s] \in Session
    BY LoadedIsRow DEF TypeOK
<1>1. CASE GenerateExpire(s, c)
    <2>1. sess' \in [Sessions -> Session]
        BY <1>1, GotoIsTyped DEF GenerateExpire, TypeOK, PC
    <2> QED BY <1>0, <1>1, <2>1, ExpireIsTyped DEF GenerateExpire
<1>2. CASE GenerateNotLapsed(s, c)
    <2>1. sess' \in [Sessions -> Session]
        BY <1>2, GotoIsTyped DEF GenerateNotLapsed, TypeOK, PC
    <2> QED BY <1>2, <2>1 DEF GenerateNotLapsed, TypeOK, dbVars, outsideVars, historyVars
<1>3. CASE GenerateRefresh(s, c)
    <2>1. Load({c}) \in [Contribs -> Row \cup {NotLoaded}]
        BY LoadIsTyped DEF TypeOK
    <2>2. [sess[s] EXCEPT !.pc = "call", !.loaded = Load({c})] \in Session
        BY <1>0, <2>1 DEF Session, PC
    <2>3. sess' \in [Sessions -> Session]
        BY <1>3, <2>2, BecomeIsTyped DEF GenerateRefresh, TypeOK
    <2> QED BY <1>3, <2>3 DEF GenerateRefresh, TypeOK, dbVars, outsideVars, historyVars
<1>4. CASE GenerateCall(s, c)
    <2>1. PICK i \in Invoices :
              /\ bill' = [bill EXCEPT ![i] = [owner |-> {c}, due |-> Outstanding(r), paid |-> 0]]
              /\ Become(s, [sess[s] EXCEPT !.pc = "record", !.invoice = i])
        BY <1>4 DEF GenerateCall
    <2>2. Outstanding(r) \in Int
        BY <1>0 DEF Outstanding, Row
    <2>3. bill' \in [Invoices -> Bill]
        BY <1>0, <2>1, <2>2 DEF TypeOK, Bill
    <2>4. [sess[s] EXCEPT !.pc = "record", !.invoice = i] \in Session
        BY <1>0 DEF Session, PC
    <2>5. sess' \in [Sessions -> Session]
        BY <2>1, <2>4, BecomeIsTyped DEF TypeOK
    <2> QED BY <1>4, <2>3, <2>5 DEF GenerateCall, TypeOK, dbVars, historyVars
<1>5. CASE GenerateStop(s, c)
    BY <1>5, CloseIsTyped DEF GenerateStop, TypeOK, dbVars, outsideVars, historyVars
<1>6. CASE GenerateRecord(s, c)
    <2>1. sess[s].invoice \in Invoices
        BY <1>6 DEF GenerateRecord, At, TypeOK, Session
    <2>2. row' \in [Contribs -> Row]
        <3>1. row[c] \in Row
            BY <1>0 DEF TypeOK
        <3>2. [row[c] EXCEPT !.invoice_id = sess[s].invoice] \in Row
            BY <2>1, <3>1 DEF Row
        <3>3. [row[c] EXCEPT !.invoice_id = sess[s].invoice, !.status = "PENDING"] \in Row
            BY <2>1, <3>1 DEF Row, Status
        <3> QED BY <1>6, <3>2, <3>3 DEF GenerateRecord, TypeOK
    <2>3. events' \in [Contribs -> Seq(Status \X Status)]
        BY <1>0, <1>6, EventIsTyped DEF GenerateRecord, TypeOK, Status, Row
    <2>4. sess' \in [Sessions -> Session]
        BY <1>6, CloseIsTyped DEF GenerateRecord, TypeOK
    <2> QED BY <1>6, <2>1, <2>2, <2>3, <2>4 DEF GenerateRecord, TypeOK, historyVars
<1> QED BY <1>1, <1>2, <1>3, <1>4, <1>5, <1>6 DEF Generate


LEMMA TypeReconcile ==
    ASSUME TypeOK, NEW s \in Sessions, NEW c \in Loaded(s), Reconcile(s, c)
    PROVE  TypeOK'
<1> DEFINE i == sess[s].loaded[c].invoice_id
<1>0. c \in Contribs /\ sess[s].loaded[c] \in Row /\ sess[s] \in Session
    BY LoadedIsRow DEF TypeOK
<1>1. CASE ReconcileFound(s, c)
    <2>1. i \in Invoices
        BY <1>1 DEF ReconcileFound
    <2>2. bill[i].paid \in Nat
        BY <2>1 DEF TypeOK, Bill
    <2>3. [sess[s] EXCEPT !.pc = "credit", !.invoice = i, !.amount = bill[i].paid] \in Session
        BY <1>0, <2>1, <2>2 DEF Session, PC
    <2>4. sess' \in [Sessions -> Session]
        BY <1>1, <2>3, BecomeIsTyped DEF ReconcileFound, TypeOK
    <2> QED BY <1>1, <2>4 DEF ReconcileFound, TypeOK, dbVars, outsideVars, historyVars
<1>2. CASE ReconcileNotFound(s, c)
    <2>1. sess' \in [Sessions -> Session]
        BY <1>2, GotoIsTyped DEF ReconcileNotFound, TypeOK, PC
    <2> QED BY <1>2, <2>1 DEF ReconcileNotFound, TypeOK, dbVars, outsideVars, historyVars
<1>3. CASE ReconcileExpire(s, c)
    <2>1. sess' \in [Sessions -> Session]
        BY <1>3, CloseIsTyped DEF ReconcileExpire, TypeOK
    <2> QED BY <1>0, <1>3, <2>1, ExpireIsTyped DEF ReconcileExpire
<1>4. CASE ReconcileKeep(s, c)
    BY <1>4, CloseIsTyped DEF ReconcileKeep, TypeOK, dbVars, outsideVars, historyVars
<1> QED BY <1>1, <1>2, <1>3, <1>4 DEF Reconcile

LEMMA TypeSettle ==
    ASSUME TypeOK, NEW s \in Sessions, NEW c \in Loaded(s),
           Credit(s, c) \/ ManualCommit(s, c) \/ AcceptPartial(s, c) \/ RequestTopup(s, c)
    PROVE  TypeOK'
<1> DEFINE r == sess[s].loaded[c]
<1>0. c \in Contribs /\ r \in Row /\ sess[s] \in Session /\ row[c] \in Row
    BY LoadedIsRow DEF TypeOK
<1>a. sess[s].amount \in Nat /\ r.amount_received \in Nat /\ r.status \in Status
    BY <1>0 DEF Session, Row
<1>1. CASE Credit(s, c)
    <2> DEFINE total == r.amount_received + sess[s].amount
               to    == Verdict(total, r.amount_expected)
    <2>1. total \in Nat /\ to \in Status
        BY <1>a DEF Verdict, Status
    <2>2. row' = [row EXCEPT ![c] = [@ EXCEPT !.status = to, !.amount_received = total]]
        BY <1>1 DEF Credit
    <2>3. [row[c] EXCEPT !.status = to, !.amount_received = total] \in Row
        BY <1>0, <2>1 DEF Row
    <2>4. row' \in [Contribs -> Row]
        BY <2>2, <2>3 DEF TypeOK
    <2>5. WriteEvent(c, r.status, to)
        BY <1>1 DEF Credit
    <2>6. events' \in [Contribs -> Seq(Status \X Status)]
        BY <1>0, <1>a, <2>1, <2>5, EventIsTyped DEF TypeOK
    <2>7. sess' \in [Sessions -> Session]
        BY <1>1, CloseIsTyped, GotoIsTyped DEF Credit, TypeOK, PC
    <2>8. credited' \in [Invoices -> Nat]
        <3>1. credited' = [credited EXCEPT ![sess[s].invoice] = credited[sess[s].invoice] + 1]
            BY <1>1 DEF Credit
        <3>2. credited \in [Invoices -> Nat]
            BY DEF TypeOK
        <3>3. CASE sess[s].invoice \in Invoices
            BY <3>1, <3>2, <3>3
        <3>4. CASE sess[s].invoice \notin Invoices
            BY <3>1, <3>2, <3>4
        <3> QED BY <3>3, <3>4
    <2> HIDE DEF total, to
    <2> QED BY <1>1, <2>4, <2>6, <2>7, <2>8 DEF Credit, TypeOK, outsideVars
<1>2. CASE ManualCommit(s, c)
    <2> DEFINE total == WithCash(r.amount_received, sess[s].amount)
    <2>1. total \in Nat
        BY <1>a DEF WithCash
    <2>2. row' = [row EXCEPT ![c] = [@ EXCEPT !.amount_received = total, !.status = "PAID_MANUAL"]]
        BY <1>2 DEF ManualCommit
    <2>3. [row[c] EXCEPT !.amount_received = total, !.status = "PAID_MANUAL"] \in Row
        BY <1>0, <2>1 DEF Row, Status
    <2>4. row' \in [Contribs -> Row]
        BY <2>2, <2>3 DEF TypeOK
    <2>5. WriteEvent(c, r.status, "PAID_MANUAL")
        BY <1>2 DEF ManualCommit
    <2>6. events' \in [Contribs -> Seq(Status \X Status)]
        BY <1>0, <1>a, <2>5, EventIsTyped DEF TypeOK, Status
    <2>7. sess' \in [Sessions -> Session]
        BY <1>2, CloseIsTyped DEF ManualCommit, TypeOK
    <2>8. recorded' \in [Contribs -> Nat]
        BY <1>0, <1>a, <1>2 DEF ManualCommit, TypeOK
    <2> QED BY <1>2, <2>4, <2>6, <2>7, <2>8 DEF ManualCommit, TypeOK, outsideVars
<1>3. CASE AcceptPartial(s, c)
    <2>1. [row[c] EXCEPT !.status = "PAID"] \in Row
        BY <1>0 DEF Row, Status
    <2>2. row' \in [Contribs -> Row]
        BY <1>3, <2>1 DEF AcceptPartial, TypeOK
    <2>3. events' \in [Contribs -> Seq(Status \X Status)]
        BY <1>0, <1>3, EventIsTyped DEF AcceptPartial, TypeOK, Status
    <2>4. sess' \in [Sessions -> Session]
        BY <1>3, CloseIsTyped DEF AcceptPartial, TypeOK
    <2> QED BY <1>3, <2>2, <2>3, <2>4 DEF AcceptPartial, TypeOK, outsideVars, historyVars
<1>4. CASE RequestTopup(s, c)
    <2> DEFINE i == Cleared(r, c)
    <2>1. i \in Invoices \cup {NoInvoice}
        BY <1>0, ClearedIsTyped DEF TypeOK
    <2>2. row' = [row EXCEPT ![c] = [@ EXCEPT !.status = "PENDING", !.invoice_id = i]]
        BY <1>4 DEF RequestTopup
    <2>3. [row[c] EXCEPT !.status = "PENDING", !.invoice_id = i] \in Row
        BY <1>0, <2>1 DEF Row, Status
    <2>4. row' \in [Contribs -> Row]
        BY <2>2, <2>3 DEF TypeOK
    <2>5. events' \in [Contribs -> Seq(Status \X Status)]
        BY <1>0, <1>4, EventIsTyped DEF RequestTopup, TypeOK, Status
    <2>6. sess' \in [Sessions -> Session]
        BY <1>4, CloseIsTyped DEF RequestTopup, TypeOK
    <2> QED BY <1>4, <2>4, <2>5, <2>6 DEF RequestTopup, TypeOK, outsideVars, historyVars
<1> QED BY <1>1, <1>2, <1>3, <1>4

LEMMA TypeWebhook ==
    ASSUME TypeOK, NEW i \in Invoices,
           \/ StoreEvent(i) \/ Reprocess(i) \/ Pay(i) \/ Lapse(i)
           \/ \E s \in Sessions : WebhookMatch(s, i) \/ WebhookSkip(s, i)
    PROVE  TypeOK'
<1> USE DEF TypeOK, dbVars, outsideVars, historyVars
<1>1. CASE StoreEvent(i)
    BY <1>1 DEF StoreEvent
<1>2. CASE Reprocess(i)
    BY <1>2 DEF Reprocess
<1>3. CASE Pay(i)
    <2>1. PICK amount \in Payable : bill' = [bill EXCEPT ![i].paid = amount]
        BY <1>3 DEF Pay
    <2>2. amount \in Nat
        BY AmountsAssumption
    <2>3. bill' \in [Invoices -> Bill]
        BY <2>1, <2>2 DEF Bill
    <2> QED BY <1>3, <2>3 DEF Pay
<1>4. CASE Lapse(i)
    BY <1>4 DEF Lapse
<1>5. ASSUME NEW s \in Sessions, WebhookMatch(s, i) PROVE TypeOK'
    <2>1. PICK c \in Matching(i) :
              Open(s, "webhook", [Closed EXCEPT !.pc = "credit", !.loaded = Load({c}),
                                                !.invoice = i, !.amount = bill[i].paid,
                                                !.actor = "webhook"])
        BY <1>5 DEF WebhookMatch
    <2>2. Load({c}) \in [Contribs -> Row \cup {NotLoaded}] /\ bill[i].paid \in Nat
        BY LoadIsTyped DEF Bill
    <2>3. [Closed EXCEPT !.pc = "credit", !.loaded = Load({c}), !.invoice = i,
                         !.amount = bill[i].paid, !.actor = "webhook"] \in Session
        BY <2>2, ClosedIsTyped DEF Session, PC
    <2>4. sess' \in [Sessions -> Session]
        BY <2>1, <2>3, OpenIsTyped
    <2> QED BY <1>5, <2>4 DEF WebhookMatch
<1>6. ASSUME NEW s \in Sessions, WebhookSkip(s, i) PROVE TypeOK'
    <2>1. [Closed EXCEPT !.pc = "mark", !.invoice = i, !.actor = "webhook"] \in Session
        BY ClosedIsTyped DEF Session, PC
    <2>2. sess' \in [Sessions -> Session]
        BY <1>6, <2>1, OpenIsTyped DEF WebhookSkip
    <2> QED BY <1>6, <2>2 DEF WebhookSkip
<1> QED BY <1>1, <1>2, <1>3, <1>4, <1>5, <1>6

LEMMA TypeReprice ==
    ASSUME TypeOK, NEW s \in Sessions, RepriceLoad(s) \/ RepriceCommit(s)
    PROVE  TypeOK'
<1>1. CASE RepriceLoad(s)
    <2> DEFINE pending == {c \in Contribs : row[c].status = "PENDING"}
    <2>1. PICK price \in Prices :
              Open(s, "reprice", [Closed EXCEPT !.pc = "reprice", !.amount = price,
                                                !.actor = "admin", !.loaded = Load(pending)])
        BY <1>1 DEF RepriceLoad
    <2>2. Load(pending) \in [Contribs -> Row \cup {NotLoaded}] /\ price \in Nat
        BY LoadIsTyped, AmountsAssumption DEF TypeOK
    <2>3. [Closed EXCEPT !.pc = "reprice", !.amount = price, !.actor = "admin",
                         !.loaded = Load(pending)] \in Session
        BY <2>2, ClosedIsTyped DEF Session, PC
    <2>4. sess' \in [Sessions -> Session]
        BY <2>1, <2>3, OpenIsTyped DEF TypeOK
    <2> QED BY <1>1, <2>4 DEF RepriceLoad, TypeOK, dbVars, outsideVars, historyVars
<1>2. CASE RepriceCommit(s)
    <2>1. \A c \in Loaded(s) : Repriced(s, c) \in Row
        <3> TAKE c \in Loaded(s)
        <3> DEFINE r == sess[s].loaded[c]
        <3>1. c \in Contribs /\ row[c] \in Row /\ sess[s].amount \in Nat
            BY LoadedIsRow DEF TypeOK, Session
        <3>2. Cleared(r, c) \in Invoices \cup {NoInvoice}
            BY <3>1, ClearedIsTyped DEF TypeOK
        <3> HIDE DEF r
        <3>3. \A price \in Nat, i \in Invoices \cup {NoInvoice} :
                 [row[c] EXCEPT !.amount_expected = price, !.invoice_id = i] \in Row
            BY <3>1 DEF Row
        <3>4. row[c].amount_expected \in Nat
            BY <3>1 DEF Row
        <3> QED BY <3>1, <3>2, <3>3, <3>4 DEF Repriced, r
    <2>2. row' \in [Contribs -> Row]
        BY <1>2, <2>1 DEF RepriceCommit, TypeOK
    <2>3. sess' \in [Sessions -> Session]
        BY <1>2, CloseIsTyped DEF RepriceCommit, TypeOK
    <2> QED BY <1>2, <2>2, <2>3 DEF RepriceCommit, TypeOK, outsideVars, historyVars
<1> QED BY <1>1, <1>2

LEMMA TypeRest ==
    ASSUME TypeOK,
           \/ ClosePurse \/ ReopenPurse \/ DeadlinePasses \/ ChangeProvider \/ Crash
           \/ \E s \in Sessions : WebhookMark(s)
    PROVE  TypeOK'
<1> USE DEF TypeOK, dbVars, outsideVars, historyVars
<1>1. CASE ClosePurse
    BY <1>1 DEF ClosePurse, PurseState
<1>2. CASE ReopenPurse
    BY <1>2 DEF ReopenPurse, PurseState
<1>3. CASE DeadlinePasses
    BY <1>3 DEF DeadlinePasses, PurseState
<1>6. CASE ChangeProvider
    BY <1>6 DEF ChangeProvider
<1>4. CASE Crash
    BY <1>4, ClosedIsTyped DEF Crash
<1>5. ASSUME NEW s \in Sessions, WebhookMark(s) PROVE TypeOK'
    BY <1>5, CloseIsTyped DEF WebhookMark
<1> QED BY <1>1, <1>2, <1>3, <1>4, <1>5, <1>6

LEMMA TypeStep == TypeOK /\ [Next]_vars => TypeOK'
<1> SUFFICES ASSUME TypeOK, [Next]_vars PROVE TypeOK'
    OBVIOUS
<1>1. CASE Next
    BY <1>1, TypeBegin, TypeGenerate, TypeReconcile, TypeSettle, TypeWebhook,
       TypeReprice, TypeRest DEF Next, Continue
<1>2. CASE UNCHANGED vars
    BY <1>2 DEF vars, dbVars, outsideVars, historyVars, TypeOK
<1> QED BY <1>1, <1>2

LEMMA TypeInit == Init => TypeOK
<1> SUFFICES ASSUME Init PROVE TypeOK
    OBVIOUS
<1>1. row \in [Contribs -> Row]
    <2>1. PICK price \in Prices :
              row = [c \in Contribs |-> [status |-> "PENDING", amount_expected |-> price,
                                        amount_received |-> 0, invoice_id |-> NoInvoice]]
        BY DEF Init
    <2> QED BY <2>1, AmountsAssumption DEF Row, Status
<1>2. bill \in [Invoices -> Bill]
    BY DEF Init, Bill
<1>3. events \in [Contribs -> Seq(Status \X Status)]
    BY DEF Init
<1> QED BY <1>1, <1>2, <1>3, ClosedIsTyped DEF Init, TypeOK, PurseState

\* Whatever overlaps with whatever, every table, session and invoice keeps its
\* type; in particular no status outside the enum is ever written.
THEOREM TypeCorrect == Spec => []TypeOK
<1> QED BY TypeInit, TypeStep, PTL DEF Spec

-----------------------------------------------------------------------------
(* Ownership: the invoice on a row, on any copy of it a session holds, and   *)
(* in the hands of a session that credits or records it, is the row's own.   *)
(* The copies matter: the job credits the invoice its stale copy carries.    *)

Owned(i, c) == i # NoInvoice => bill[i].owner = {c}

\* Only an edit of the purse amount loads several rows.
HoldsOneRow(d) ==
    \A b, c \in Contribs : d.loaded[b] # NotLoaded /\ d.loaded[c] # NotLoaded => b = c

OwnedSession(d) ==
  /\ d.pc # "reprice" => HoldsOneRow(d)
  /\ \A c \in Contribs : d.loaded[c] # NotLoaded =>
        /\ Owned(d.loaded[c].invoice_id, c)
        /\ d.pc \in {"credit", "record"} => d.invoice \in Invoices /\ bill[d.invoice].owner = {c}

OwnInv ==
    /\ \A c \in Contribs : Owned(row[c].invoice_id, c)
    /\ \A s \in Sessions : OwnedSession(sess[s])

LEMMA OwnedFrame ==
    ASSUME bill' = bill,
           \A c \in Contribs : Owned(row'[c].invoice_id, c),
           \A s \in Sessions : OwnedSession(sess'[s])
    PROVE  OwnInv'
BY DEF OwnInv, OwnedSession, HoldsOneRow, Owned

LEMMA OwnedBecome ==
    ASSUME TypeOK, OwnInv, NEW s \in Sessions, NEW next, OwnedSession(next), Become(s, next)
    PROVE  \A t \in Sessions : OwnedSession(sess'[t])
<1> SUFFICES ASSUME NEW t \in Sessions PROVE OwnedSession(sess'[t])
    OBVIOUS
<1>1. sess'[t] = IF t = s THEN next ELSE sess[t]
    BY DEF Become, TypeOK
<1> QED BY <1>1 DEF OwnInv

LEMMA OwnedClose ==
    ASSUME TypeOK, OwnInv, NEW s \in Sessions, Close(s)
    PROVE  \A t \in Sessions : OwnedSession(sess'[t])
<1>1. OwnedSession(Closed)
    BY DEF OwnedSession, HoldsOneRow, Closed
<1> QED BY <1>1, OwnedBecome DEF Close

LEMMA OwnedGoto ==
    ASSUME TypeOK, OwnInv, NEW s \in Sessions, ~At(s, "reprice"),
           NEW pc, pc \notin {"credit", "record"}, Goto(s, pc)
    PROVE  \A t \in Sessions : OwnedSession(sess'[t])
<1>1. OwnedSession([sess[s] EXCEPT !.pc = pc])
    BY DEF At, OwnedSession, HoldsOneRow, OwnInv, TypeOK, Session
<1> QED BY <1>1, OwnedBecome DEF Goto

\* Writing one row with the invoice it has, or none, keeps rows owned.
LEMMA OwnedRowWrite ==
    ASSUME TypeOK, OwnInv, NEW c \in Contribs, NEW new, row' = [row EXCEPT ![c] = new],
           Owned(new.invoice_id, c)
    PROVE  \A d \in Contribs : Owned(row'[d].invoice_id, d)
<1> SUFFICES ASSUME NEW d \in Contribs PROVE Owned(row'[d].invoice_id, d)
    OBVIOUS
<1>1. row'[d] = IF d = c THEN new ELSE row[d]
    BY DEF TypeOK
<1> QED BY <1>1 DEF OwnInv

\* A session that has just read a row, and neither credits nor records.
LEMMA OwnedOpened ==
    ASSUME OwnInv, NEW c, NEW d, d.loaded = Load({c}), d.pc \notin {"credit", "record"}
    PROVE  OwnedSession(d)
BY DEF OwnedSession, HoldsOneRow, Load, OwnInv

LEMMA OwnBegin ==
    ASSUME TypeOK, OwnInv, NEW s \in Sessions, NEW c \in Contribs, Begin(s, c)
    PROVE  OwnInv'
<1>1. row' = row /\ bill' = bill
    BY DEF Begin, GenerateLoad, ReconcileLoad, ManualLoad, ResolveLoad, dbVars, outsideVars
<1>2. \A t \in Sessions : OwnedSession(sess'[t])
    <2>1. CASE GenerateLoad(s, c)
        <3> DEFINE d == [Closed EXCEPT !.pc = "expire", !.loaded = Load({c}), !.open = (purse = "open")]
        <3>1. d.loaded = Load({c}) /\ d.pc = "expire"
            BY DEF Closed
        <3>2. Become(s, d)
            BY <2>1 DEF GenerateLoad, Open
        <3> HIDE DEF d
        <3> QED BY <3>1, <3>2, OwnedOpened, OwnedBecome
    <2>2. CASE ReconcileLoad(s, c)
        <3> DEFINE d == [Closed EXCEPT !.pc = "query", !.loaded = Load({c}),
                                       !.actor = "reconciliation_job"]
        <3>1. d.loaded = Load({c}) /\ d.pc = "query"
            BY DEF Closed
        <3>2. Become(s, d)
            BY <2>2 DEF ReconcileLoad, Open
        <3> HIDE DEF d
        <3> QED BY <3>1, <3>2, OwnedOpened, OwnedBecome
    <2>3. CASE ManualLoad(s, c)
        <3>1. PICK cash \in Cash :
                  Become(s, [Closed EXCEPT !.pc = "manual", !.loaded = Load({c}),
                                           !.amount = cash, !.actor = "admin"])
            BY <2>3 DEF ManualLoad, Open
        <3> DEFINE d == [Closed EXCEPT !.pc = "manual", !.loaded = Load({c}),
                                       !.amount = cash, !.actor = "admin"]
        <3>2. d.loaded = Load({c}) /\ d.pc = "manual"
            BY DEF Closed
        <3>3. Become(s, d)
            BY <3>1
        <3> HIDE DEF d
        <3> QED BY <3>2, <3>3, OwnedOpened, OwnedBecome
    <2>4. CASE ResolveLoad(s, c)
        <3>1. PICK resolution \in {"accept_partial", "request_topup"} :
                  Become(s, [Closed EXCEPT !.pc = resolution, !.loaded = Load({c}),
                                           !.actor = "admin"])
            BY <2>4 DEF ResolveLoad, Open
        <3> DEFINE d == [Closed EXCEPT !.pc = resolution, !.loaded = Load({c}), !.actor = "admin"]
        <3>2. d.loaded = Load({c}) /\ d.pc = resolution
            BY DEF Closed
        <3>3. Become(s, d)
            BY <3>1
        <3> HIDE DEF d
        <3> QED BY <3>2, <3>3, OwnedOpened, OwnedBecome
    <2> QED BY <2>1, <2>2, <2>3, <2>4 DEF Begin
<1>3. \A d \in Contribs : Owned(row'[d].invoice_id, d)
    BY <1>1 DEF OwnInv
<1> QED BY <1>1, <1>2, <1>3, OwnedFrame

\* Issuing an invoice uses a fresh reference: it disturbs no owner.
LEMMA OwnGenerateCall ==
    ASSUME TypeOK, OwnInv, NEW s \in Sessions, NEW c \in Loaded(s), GenerateCall(s, c)
    PROVE  OwnInv'
<1> DEFINE r == sess[s].loaded[c]
<1>0. c \in Contribs /\ sess[s] \in Session
    BY LoadedIsRow DEF TypeOK
<1>1. PICK i \in Invoices :
          /\ FreshReference(i)
          /\ bill' = [bill EXCEPT ![i] = [owner |-> {c}, due |-> Outstanding(r), paid |-> 0]]
          /\ Become(s, [sess[s] EXCEPT !.pc = "record", !.invoice = i])
    BY DEF GenerateCall
<1>2. \A j \in Invoices : bill'[j].owner = IF j = i THEN {c} ELSE bill[j].owner
    BY <1>1 DEF TypeOK, Bill
<1>3. \A j \in Invoices, d \in Contribs : bill[j].owner = {d} => bill'[j].owner = {d}
    BY <1>1, <1>2 DEF FreshReference
<1>4. row' = row
    BY DEF GenerateCall, dbVars
<1>5. \A d \in Contribs : Owned(row[d].invoice_id, d)'
    BY <1>3, <1>4 DEF OwnInv, Owned, TypeOK, Row
<1>6. ASSUME NEW t \in Sessions, t # s PROVE OwnedSession(sess[t])'
    <2>1. sess'[t] = sess[t] /\ sess[t] \in Session
        BY <1>1, <1>6 DEF Become, TypeOK
    <2>2. \A d \in Contribs : sess[t].loaded[d] # NotLoaded =>
             sess[t].loaded[d].invoice_id \in Invoices \cup {NoInvoice}
        BY <2>1 DEF Session, Row
    <2>3. OwnedSession(sess[t])
        BY DEF OwnInv
    <2>4. \A d \in Contribs : sess[t].loaded[d] # NotLoaded =>
             Owned(sess[t].loaded[d].invoice_id, d)'
        BY <1>3, <2>1, <2>2, <2>3 DEF OwnedSession, Owned
    <2>5. \A d \in Contribs : sess[t].loaded[d] # NotLoaded /\ sess[t].pc \in {"credit", "record"} =>
             sess[t].invoice \in Invoices /\ bill'[sess[t].invoice].owner = {d}
        BY <1>3, <2>3 DEF OwnedSession
    <2> QED BY <2>1, <2>3, <2>4, <2>5 DEF OwnedSession, HoldsOneRow
<1>7. OwnedSession(sess[s])'
    <2>1. /\ sess'[s].loaded = sess[s].loaded /\ sess'[s].invoice = i
          /\ sess'[s].pc = "record"
        BY <1>0, <1>1 DEF Become, TypeOK, Session
    <2>2. \A d \in Contribs : sess[s].loaded[d] # NotLoaded => d = c
        BY DEF GenerateCall, At, OwnInv, OwnedSession, HoldsOneRow, Loaded
    <2>3. HoldsOneRow(sess[s])'
        BY <2>1, <2>2 DEF HoldsOneRow
    <2>4. r.invoice_id \in Invoices \cup {NoInvoice} /\ Owned(r.invoice_id, c)
        BY LoadedIsRow DEF OwnInv, OwnedSession, Loaded, TypeOK, Row
    <2>5. Owned(r.invoice_id, c)'
        BY <1>0, <1>3, <2>1, <2>4 DEF Owned
    <2>6. bill'[i].owner = {c}
        BY <1>2
    <2> QED BY <2>1, <2>2, <2>3, <2>5, <2>6 DEF OwnedSession
<1> QED BY <1>5, <1>6, <1>7 DEF OwnInv

\* The rows a step leaves alone stay owned.
LEMMA OwnedRowsKept ==
    ASSUME OwnInv, row' = row
    PROVE  \A d \in Contribs : Owned(row'[d].invoice_id, d)
BY DEF OwnInv

LEMMA OwnedExpire ==
    ASSUME TypeOK, OwnInv, NEW s \in Sessions, NEW c \in Contribs, ExpireRow(s, c)
    PROVE  bill' = bill /\ \A d \in Contribs : Owned(row'[d].invoice_id, d)
<1> DEFINE new == [row[c] EXCEPT !.status = "EXPIRED"]
<1>1. row' = [row EXCEPT ![c] = new] /\ bill' = bill
    BY DEF ExpireRow, outsideVars
<1>2. new.invoice_id = row[c].invoice_id
    BY DEF TypeOK, Row
<1>3. Owned(new.invoice_id, c)
    BY <1>2 DEF OwnInv
<1> HIDE DEF new
<1> QED BY <1>1, <1>3, OwnedRowWrite

LEMMA OwnGenerate ==
    ASSUME TypeOK, OwnInv, NEW s \in Sessions, NEW c \in Loaded(s), Generate(s, c)
    PROVE  OwnInv'
<1>0. c \in Contribs /\ sess[s] \in Session /\ row[c] \in Row
    BY LoadedIsRow DEF TypeOK
<1>1. CASE GenerateExpire(s, c)
    <2>1. \A t \in Sessions : OwnedSession(sess'[t])
        BY <1>1, OwnedGoto DEF GenerateExpire, At
    <2> QED BY <1>0, <1>1, <2>1, OwnedExpire, OwnedFrame DEF GenerateExpire
<1>2. CASE GenerateNotLapsed(s, c)
    <2>1. \A t \in Sessions : OwnedSession(sess'[t])
        BY <1>2, OwnedGoto DEF GenerateNotLapsed, At
    <2> QED BY <1>2, <2>1, OwnedRowsKept, OwnedFrame DEF GenerateNotLapsed, dbVars, outsideVars
<1>3. CASE GenerateRefresh(s, c)
    <2> DEFINE d == [sess[s] EXCEPT !.pc = "call", !.loaded = Load({c})]
    <2>1. d.loaded = Load({c}) /\ d.pc = "call"
        BY <1>0 DEF Session
    <2>2. Become(s, d) /\ row' = row /\ bill' = bill
        BY <1>3 DEF GenerateRefresh, dbVars, outsideVars
    <2> HIDE DEF d
    <2> QED BY <2>1, <2>2, OwnedOpened, OwnedBecome, OwnedRowsKept, OwnedFrame
<1>4. CASE GenerateCall(s, c)
    BY <1>4, OwnGenerateCall
<1>5. CASE GenerateStop(s, c)
    BY <1>5, OwnedClose, OwnedRowsKept, OwnedFrame DEF GenerateStop, dbVars, outsideVars
<1>6. CASE GenerateRecord(s, c)
    <2>1. bill' = bill /\ Close(s)
        BY <1>6 DEF GenerateRecord
    <2>2. PICK new : row' = [row EXCEPT ![c] = new] /\ new.invoice_id = sess[s].invoice
        <3>1. row' = [row EXCEPT ![c] = [row[c] EXCEPT !.invoice_id = sess[s].invoice, !.status = "PENDING"]]
              \/ row' = [row EXCEPT ![c] = [row[c] EXCEPT !.invoice_id = sess[s].invoice]]
            BY <1>6 DEF GenerateRecord
        <3>2. [row[c] EXCEPT !.invoice_id = sess[s].invoice, !.status = "PENDING"].invoice_id = sess[s].invoice
              /\ [row[c] EXCEPT !.invoice_id = sess[s].invoice].invoice_id = sess[s].invoice
            BY <1>0 DEF Row
        <3> QED BY <3>1, <3>2
    <2>3. Owned(new.invoice_id, c)
        BY <1>0, <1>6, <2>2 DEF GenerateRecord, At, OwnInv, OwnedSession, Owned, Loaded
    <2> QED BY <1>0, <2>1, <2>2, <2>3, OwnedRowWrite, OwnedClose, OwnedFrame
<1> QED BY <1>1, <1>2, <1>3, <1>4, <1>5, <1>6 DEF Generate

LEMMA OwnReconcile ==
    ASSUME TypeOK, OwnInv, NEW s \in Sessions, NEW c \in Loaded(s), Reconcile(s, c)
    PROVE  OwnInv'
<1>0. c \in Contribs /\ sess[s].loaded[c] \in Row /\ sess[s] \in Session
    BY LoadedIsRow DEF TypeOK
<1>1. CASE ReconcileFound(s, c)
    <2> DEFINE i == sess[s].loaded[c].invoice_id
               d == [sess[s] EXCEPT !.pc = "credit", !.invoice = i, !.amount = bill[i].paid]
    <2>1. d.loaded = sess[s].loaded /\ d.pc = "credit" /\ d.invoice = i
        BY <1>0 DEF Session
    <2>2. Become(s, d) /\ row' = row /\ bill' = bill
        BY <1>1 DEF ReconcileFound, dbVars, outsideVars
    <2>3. i \in Invoices /\ bill[i].owner = {c}
        BY <1>0, <1>1, NamesAssumption DEF ReconcileFound, OwnInv, OwnedSession, Owned, Loaded
    <2>4. OwnedSession(sess[s]) /\ HoldsOneRow(sess[s])
        BY <1>1 DEF ReconcileFound, At, OwnInv, OwnedSession
    <2> HIDE DEF d
    <2>5. OwnedSession(d)
        <3> HIDE DEF i
        <3> QED BY <2>1, <2>3, <2>4 DEF OwnedSession, HoldsOneRow, Loaded
    <2> QED BY <2>2, <2>5, OwnedBecome, OwnedRowsKept, OwnedFrame
<1>2. CASE ReconcileNotFound(s, c)
    <2>1. \A t \in Sessions : OwnedSession(sess'[t])
        BY <1>2, OwnedGoto DEF ReconcileNotFound, At
    <2> QED BY <1>2, <2>1, OwnedRowsKept, OwnedFrame DEF ReconcileNotFound, dbVars, outsideVars
<1>3. CASE ReconcileExpire(s, c)
    BY <1>0, <1>3, OwnedExpire, OwnedClose, OwnedFrame DEF ReconcileExpire
<1>4. CASE ReconcileKeep(s, c)
    BY <1>4, OwnedClose, OwnedRowsKept, OwnedFrame DEF ReconcileKeep, dbVars, outsideVars
<1> QED BY <1>1, <1>2, <1>3, <1>4 DEF Reconcile

LEMMA OwnSettle ==
    ASSUME TypeOK, OwnInv, NEW s \in Sessions, NEW c \in Loaded(s),
           Credit(s, c) \/ ManualCommit(s, c) \/ AcceptPartial(s, c) \/ RequestTopup(s, c)
    PROVE  OwnInv'
<1>0. c \in Contribs /\ row[c] \in Row /\ Owned(row[c].invoice_id, c)
    BY LoadedIsRow DEF TypeOK, OwnInv
<1>1. bill' = bill
    BY DEF Credit, ManualCommit, AcceptPartial, RequestTopup, outsideVars
<1>2. \A t \in Sessions : OwnedSession(sess'[t])
    BY OwnedClose, OwnedGoto DEF Credit, ManualCommit, AcceptPartial, RequestTopup, At
<1>3. PICK new : row' = [row EXCEPT ![c] = new] /\ new.invoice_id \in {row[c].invoice_id, NoInvoice}
    <2>1. CASE Credit(s, c)
        <3>1. PICK total, to : row' = [row EXCEPT ![c] = [row[c] EXCEPT !.status = to, !.amount_received = total]]
            BY <2>1 DEF Credit
        <3>2. [row[c] EXCEPT !.status = to, !.amount_received = total].invoice_id = row[c].invoice_id
            BY <1>0 DEF Row
        <3> QED BY <3>1, <3>2
    <2>2. CASE ManualCommit(s, c)
        <3>1. PICK total : row' = [row EXCEPT ![c] = [row[c] EXCEPT !.amount_received = total,
                                                                   !.status = "PAID_MANUAL"]]
            BY <2>2 DEF ManualCommit
        <3>2. [row[c] EXCEPT !.amount_received = total, !.status = "PAID_MANUAL"].invoice_id = row[c].invoice_id
            BY <1>0 DEF Row
        <3> QED BY <3>1, <3>2
    <2>3. CASE AcceptPartial(s, c)
        <3>1. [row[c] EXCEPT !.status = "PAID"].invoice_id = row[c].invoice_id
            BY <1>0 DEF Row
        <3> QED BY <2>3, <3>1 DEF AcceptPartial
    <2>4. CASE RequestTopup(s, c)
        <3> DEFINE i == Cleared(sess[s].loaded[c], c)
        <3>1. row' = [row EXCEPT ![c] = [row[c] EXCEPT !.status = "PENDING", !.invoice_id = i]]
            BY <2>4 DEF RequestTopup
        <3>2. [row[c] EXCEPT !.status = "PENDING", !.invoice_id = i].invoice_id = i
            BY <1>0 DEF Row
        <3>3. i \in {row[c].invoice_id, NoInvoice}
            BY DEF Cleared
        <3> QED BY <3>1, <3>2, <3>3
    <2> QED BY <2>1, <2>2, <2>3, <2>4
<1>4. Owned(new.invoice_id, c)
    BY <1>0, <1>3 DEF Owned
<1> QED BY <1>0, <1>1, <1>2, <1>3, <1>4, OwnedRowWrite, OwnedFrame

LEMMA OwnWebhook ==
    ASSUME TypeOK, OwnInv, NEW s \in Sessions, NEW i \in Invoices,
           WebhookMatch(s, i) \/ WebhookSkip(s, i)
    PROVE  OwnInv'
<1>1. row' = row /\ bill' = bill
    BY DEF WebhookMatch, WebhookSkip, dbVars, outsideVars
<1>2. CASE WebhookMatch(s, i)
    <2>1. PICK c \in Matching(i) :
              Become(s, [Closed EXCEPT !.pc = "credit", !.loaded = Load({c}), !.invoice = i,
                                       !.amount = bill[i].paid, !.actor = "webhook"])
        BY <1>2 DEF WebhookMatch, Open
    <2> DEFINE d == [Closed EXCEPT !.pc = "credit", !.loaded = Load({c}), !.invoice = i,
                                   !.amount = bill[i].paid, !.actor = "webhook"]
    <2>2. d.loaded = Load({c}) /\ d.pc = "credit" /\ d.invoice = i
        BY DEF Closed
    <2>3. Become(s, d)
        BY <2>1
    <2>4. bill[i].owner = {c}
        BY <2>1, NamesAssumption DEF Matching, OwnInv, Owned
    <2> HIDE DEF d
    <2>5. OwnedSession(d)
        BY <2>2, <2>4 DEF OwnedSession, HoldsOneRow, Load, OwnInv
    <2> QED BY <1>1, <2>3, <2>5, OwnedBecome, OwnedRowsKept, OwnedFrame
<1>3. CASE WebhookSkip(s, i)
    <2> DEFINE d == [Closed EXCEPT !.pc = "mark", !.invoice = i, !.actor = "webhook"]
    <2>1. OwnedSession(d)
        BY DEF OwnedSession, HoldsOneRow, Closed
    <2>2. Become(s, d)
        BY <1>3 DEF WebhookSkip, Open
    <2> HIDE DEF d
    <2> QED BY <1>1, <2>1, <2>2, OwnedBecome, OwnedRowsKept, OwnedFrame
<1> QED BY <1>2, <1>3

\* A payment changes what was paid on an invoice, never whose invoice it is.
LEMMA OwnPay ==
    ASSUME TypeOK, OwnInv, NEW i \in Invoices, Pay(i)
    PROVE  OwnInv'
<1>1. row' = row /\ sess' = sess
    BY DEF Pay, dbVars
<1>2. \A j \in Invoices : bill'[j].owner = bill[j].owner
    BY DEF Pay, TypeOK, Bill
<1>3. \A c \in Contribs : Owned(row[c].invoice_id, c)'
    BY <1>1, <1>2 DEF OwnInv, Owned, TypeOK, Row
<1>4. ASSUME NEW s \in Sessions PROVE OwnedSession(sess[s])'
    <2>1. OwnedSession(sess[s])
        BY DEF OwnInv
    <2>2. \A c \in Contribs : sess[s].loaded[c] # NotLoaded =>
             Owned(sess[s].loaded[c].invoice_id, c)'
        <3>1. sess[s] \in Session
            BY DEF TypeOK
        <3>2. \A c \in Contribs : sess[s].loaded[c] # NotLoaded =>
                 sess[s].loaded[c].invoice_id \in Invoices \cup {NoInvoice}
            BY <3>1 DEF Session, Row
        <3> QED BY <1>1, <1>2, <2>1, <3>2 DEF OwnedSession, Owned
    <2> QED BY <1>1, <1>2, <2>1, <2>2 DEF OwnedSession, HoldsOneRow
<1> QED BY <1>3, <1>4 DEF OwnInv

LEMMA OwnReprice ==
    ASSUME TypeOK, OwnInv, NEW s \in Sessions, RepriceLoad(s) \/ RepriceCommit(s)
    PROVE  OwnInv'
<1>1. CASE RepriceLoad(s)
    <2> DEFINE pending == {c \in Contribs : row[c].status = "PENDING"}
    <2>1. PICK price \in Prices :
              Become(s, [Closed EXCEPT !.pc = "reprice", !.amount = price, !.actor = "admin",
                                       !.loaded = Load(pending)])
        BY <1>1 DEF RepriceLoad, Open
    <2> DEFINE d == [Closed EXCEPT !.pc = "reprice", !.amount = price, !.actor = "admin",
                                   !.loaded = Load(pending)]
    <2>2. d.loaded = Load(pending) /\ d.pc = "reprice"
        BY DEF Closed
    <2>3. Become(s, d) /\ row' = row /\ bill' = bill
        BY <1>1, <2>1 DEF RepriceLoad, dbVars, outsideVars
    <2> HIDE DEF d
    <2>4. OwnedSession(d)
        <3> HIDE DEF pending
        <3> QED BY <2>2 DEF OwnedSession, Load, OwnInv
    <2> QED BY <2>3, <2>4, OwnedBecome, OwnedRowsKept, OwnedFrame
<1>2. CASE RepriceCommit(s)
    <2>1. bill' = bill /\ Close(s)
        BY <1>2 DEF RepriceCommit, outsideVars
    <2>2. ASSUME NEW c \in Contribs PROVE Owned(row'[c].invoice_id, c)
        <3>1. row[c] \in Row /\ Owned(row[c].invoice_id, c)
            BY DEF TypeOK, OwnInv
        <3>2. row'[c] = IF c \in Loaded(s) THEN Repriced(s, c) ELSE row[c]
            BY <1>2 DEF RepriceCommit
        <3>3. \A price, i : [row[c] EXCEPT !.amount_expected = price, !.invoice_id = i].invoice_id = i
            BY <3>1 DEF Row
        <3>4. row'[c].invoice_id \in {row[c].invoice_id, NoInvoice}
            BY <3>2, <3>3 DEF Repriced, Cleared
        <3> QED BY <3>1, <3>4 DEF Owned
    <2> QED BY <2>1, <2>2, OwnedClose, OwnedFrame
<1> QED BY <1>1, <1>2

LEMMA OwnRest ==
    ASSUME TypeOK, OwnInv,
           \/ ClosePurse \/ ReopenPurse \/ DeadlinePasses \/ ChangeProvider \/ Crash
           \/ \E i \in Invoices : StoreEvent(i) \/ Reprocess(i) \/ Lapse(i)
           \/ \E s \in Sessions : WebhookMark(s)
    PROVE  OwnInv'
<1>1. row' = row /\ bill' = bill
    BY DEF ClosePurse, ReopenPurse, DeadlinePasses, ChangeProvider, Crash, StoreEvent, Reprocess, Lapse,
           WebhookMark, dbVars, outsideVars
<1>2. CASE Crash
    <2>1. OwnedSession(Closed)
        BY DEF OwnedSession, HoldsOneRow, Closed
    <2> QED BY <1>1, <1>2, <2>1, OwnedRowsKept, OwnedFrame DEF Crash
<1>3. ASSUME NEW s \in Sessions, WebhookMark(s) PROVE OwnInv'
    BY <1>1, <1>3, OwnedClose, OwnedRowsKept, OwnedFrame DEF WebhookMark
<1>4. CASE sess' = sess
    BY <1>1, <1>4, OwnedRowsKept, OwnedFrame DEF OwnInv
<1> QED BY <1>2, <1>3, <1>4 DEF ClosePurse, ReopenPurse, DeadlinePasses, ChangeProvider, StoreEvent, Reprocess, Lapse

LEMMA OwnStep == TypeOK /\ OwnInv /\ [Next]_vars => OwnInv'
<1> SUFFICES ASSUME TypeOK, OwnInv, [Next]_vars PROVE OwnInv'
    OBVIOUS
<1>1. CASE Next
    BY <1>1, OwnBegin, OwnGenerate, OwnReconcile, OwnSettle, OwnWebhook, OwnPay,
       OwnReprice, OwnRest DEF Next, Continue
<1>2. CASE UNCHANGED vars
    BY <1>2, OwnedRowsKept, OwnedFrame DEF vars, dbVars, outsideVars, OwnInv
<1> QED BY <1>1, <1>2

LEMMA OwnInit == Init => OwnInv
<1> SUFFICES ASSUME Init PROVE OwnInv
    OBVIOUS
<1>1. \A c \in Contribs : row[c].invoice_id = NoInvoice
    BY DEF Init
<1>2. \A s \in Sessions : OwnedSession(sess[s])
    BY DEF Init, Closed, OwnedSession, HoldsOneRow
<1> QED BY <1>1, <1>2 DEF OwnInv, Owned

\* However the handlers overlap, restart and act on stale copies, the invoice a
\* row carries, and the invoice a handler is about to credit, was issued for that row:
\* one member's payment never settles another member's contribution.
THEOREM InvoicesStayOwn == Spec => []InvoiceIsOwn
<1>1. TypeOK /\ OwnInv => InvoiceIsOwn
    BY DEF OwnInv, Owned, OwnedSession, InvoiceIsOwn, At, Loaded, TypeOK
<1>2. Spec => []OwnInv
    BY OwnInit, OwnStep, TypeCorrect, PTL DEF Spec
<1> QED BY <1>1, <1>2, TypeCorrect, PTL

-----------------------------------------------------------------------------
(* Serial handlers.  With one session at a time, the copies a handler decides *)
(* on are the committed rows until it writes them itself, so what it read     *)
(* still holds when it commits; and an invoice that can be credited through   *)
(* its row never has been.  Neither is true once two sessions overlap, as the *)
(* configuration ContributionsDoubleApply.cfg shows.                         *)

Serial == \A s, t \in Sessions : s = t

FreshSession(d, rows, times) ==
    \A c \in Contribs : d.loaded[c] # NotLoaded =>
        LET r == d.loaded[c] IN
        /\ d.pc \notin {"refresh", "mark"} => r = rows[c]
        /\ d.pc = "query" => r.status \in Unpaid
        /\ d.pc = "credit" => r.status \in Unpaid /\ r.invoice_id = d.invoice
        /\ d.pc = "record" => r.status \in Unpaid /\ times[d.invoice] = 0
        /\ d.pc = "manual" => r.status \notin Resolved
        /\ d.pc \in {"accept_partial", "request_topup"} => r.status = "FLAGGED_FOR_REVIEW"
        /\ d.pc = "reprice" => r.status = "PENDING"

UncreditedWhileUnpaid ==
    \A c \in Contribs :
        row[c].invoice_id # NoInvoice /\ row[c].status \in Unpaid => credited[row[c].invoice_id] = 0

UncreditedUntilIssued == \A i \in Invoices : bill[i].owner = {} => credited[i] = 0

LedgerInv == UncreditedWhileUnpaid /\ UncreditedUntilIssued /\ CreditedAtMostOnce

SessionsFresh == \A s \in Sessions : FreshSession(sess[s], row, credited)

SerialInv == LedgerInv /\ SessionsFresh

\* What ResolvedIsFinal asks of a step.
ResolvedKept == \A c \in Contribs : row[c].status \in {"PAID", "PAID_MANUAL"} => row'[c] = row[c]

LEMMA FreshBecome ==
    ASSUME Serial, TypeOK, NEW s \in Sessions, NEW d, Become(s, d),
           FreshSession(d, row', credited')
    PROVE  SessionsFresh'
<1> SUFFICES ASSUME NEW t \in Sessions PROVE FreshSession(sess'[t], row', credited')
    BY DEF SessionsFresh
<1>1. sess'[t] = d
    BY DEF Serial, Become, TypeOK
<1> QED BY <1>1

LEMMA FreshClose ==
    ASSUME Serial, TypeOK, NEW s \in Sessions, Close(s)
    PROVE  SessionsFresh'
<1>1. FreshSession(Closed, row', credited')
    BY DEF FreshSession, Closed
<1> QED BY <1>1, FreshBecome DEF Close

\* A write that credits nothing and keeps or drops each row's invoice keeps the
\* ledger, as long as it does not turn a resolved row with an invoice back.
LEMMA LedgerKept ==
    ASSUME LedgerInv, bill' = bill, credited' = credited,
           \A c \in Contribs : row'[c].invoice_id # NoInvoice /\ row'[c].status \in Unpaid =>
               row'[c].invoice_id = row[c].invoice_id /\ row[c].status \in Unpaid
    PROVE  LedgerInv'
BY DEF LedgerInv, UncreditedWhileUnpaid, UncreditedUntilIssued, CreditedAtMostOnce

LEMMA SerialUnchangedRows ==
    ASSUME SerialInv, row' = row, bill' = bill, credited' = credited
    PROVE  LedgerInv' /\ ResolvedKept
BY LedgerKept DEF SerialInv, ResolvedKept

LEMMA SerialExpire ==
    ASSUME TypeOK, SerialInv, NEW s \in Sessions, NEW c \in Loaded(s),
           sess[s].pc \in {"expire", "lapse"}, ExpireRow(s, c)
    PROVE  LedgerInv' /\ ResolvedKept
<1>1. c \in Contribs /\ row[c] \in Row
    BY LoadedIsRow DEF TypeOK
<1>2. sess[s].loaded[c] = row[c]
    BY <1>1 DEF SerialInv, SessionsFresh, FreshSession, Loaded
<1>3. row[c].status = "PENDING"
    BY <1>2 DEF ExpireRow, HasLapsed
<1>4. row' = [row EXCEPT ![c].status = "EXPIRED"] /\ bill' = bill /\ credited' = credited
    BY DEF ExpireRow, outsideVars, historyVars
<1>5. \A d \in Contribs : /\ row'[d].invoice_id = row[d].invoice_id
                          /\ d # c => row'[d] = row[d]
    BY <1>1, <1>4 DEF TypeOK, Row
<1>6. LedgerInv'
    BY <1>3, <1>4, <1>5, LedgerKept DEF SerialInv, Unpaid
<1>7. ResolvedKept
    BY <1>3, <1>5 DEF ResolvedKept
<1> QED BY <1>6, <1>7

\* A session that has just read row c holds that row as committed and no other.
LEMMA FreshLoaded ==
    ASSUME NEW c, NEW d, d.loaded = Load({c}), row' = row,
           d.pc \in {"expire", "call", "query", "manual", "accept_partial", "request_topup"},
           d.pc = "query" => row[c].status \in Unpaid,
           d.pc = "manual" => row[c].status \notin Resolved,
           d.pc \in {"accept_partial", "request_topup"} => row[c].status = "FLAGGED_FOR_REVIEW"
    PROVE  FreshSession(d, row', credited')
<1>1. \A b \in Contribs : d.loaded[b] # NotLoaded => b = c /\ d.loaded[b] = row'[b]
    BY DEF Load
<1>2. \A b \in Contribs : d.loaded[b] # NotLoaded => d.loaded[b] = row[c]
    BY <1>1
<1> QED BY <1>1, <1>2 DEF FreshSession

LEMMA SerialBegin ==
    ASSUME Serial, TypeOK, SerialInv, NEW s \in Sessions, NEW c \in Contribs, Begin(s, c)
    PROVE  SerialInv' /\ ResolvedKept
<1>1. row' = row /\ bill' = bill /\ credited' = credited
    BY DEF Begin, GenerateLoad, ReconcileLoad, ManualLoad, ResolveLoad, dbVars, outsideVars, historyVars
<1>2. SessionsFresh'
    <2>1. CASE GenerateLoad(s, c)
        <3> DEFINE d == [Closed EXCEPT !.pc = "expire", !.loaded = Load({c}), !.open = (purse = "open")]
        <3>1. d.loaded = Load({c}) /\ d.pc = "expire"
            BY DEF Closed
        <3>2. Become(s, d)
            BY <2>1 DEF GenerateLoad, Open
        <3> HIDE DEF d
        <3>3. FreshSession(d, row', credited')
            BY <1>1, <3>1, <3>2, FreshLoaded
        <3> QED BY <3>2, <3>3, FreshBecome
    <2>2. CASE ReconcileLoad(s, c)
        <3> DEFINE d == [Closed EXCEPT !.pc = "query", !.loaded = Load({c}),
                                       !.actor = "reconciliation_job"]
        <3>1. d.loaded = Load({c}) /\ d.pc = "query"
            BY DEF Closed
        <3>2. Become(s, d) /\ row[c].status \in Unpaid
            BY <2>2 DEF ReconcileLoad, Open, Polled, Unpaid
        <3> HIDE DEF d
        <3>3. FreshSession(d, row', credited')
            BY <1>1, <3>1, <3>2, FreshLoaded
        <3> QED BY <3>2, <3>3, FreshBecome
    <2>3. CASE ManualLoad(s, c)
        <3>1. PICK cash \in Cash :
                  Become(s, [Closed EXCEPT !.pc = "manual", !.loaded = Load({c}),
                                           !.amount = cash, !.actor = "admin"])
            BY <2>3 DEF ManualLoad, Open
        <3> DEFINE d == [Closed EXCEPT !.pc = "manual", !.loaded = Load({c}),
                                       !.amount = cash, !.actor = "admin"]
        <3>2. d.loaded = Load({c}) /\ d.pc = "manual"
            BY DEF Closed
        <3>3. Become(s, d) /\ row[c].status \notin Resolved
            BY <2>3, <3>1 DEF ManualLoad
        <3> HIDE DEF d
        <3>4. FreshSession(d, row', credited')
            BY <1>1, <3>2, <3>3, FreshLoaded
        <3> QED BY <3>3, <3>4, FreshBecome
    <2>4. CASE ResolveLoad(s, c)
        <3>1. PICK resolution \in {"accept_partial", "request_topup"} :
                  Become(s, [Closed EXCEPT !.pc = resolution, !.loaded = Load({c}),
                                           !.actor = "admin"])
            BY <2>4 DEF ResolveLoad, Open
        <3> DEFINE d == [Closed EXCEPT !.pc = resolution, !.loaded = Load({c}), !.actor = "admin"]
        <3>2. d.loaded = Load({c}) /\ d.pc = resolution
            BY DEF Closed
        <3>3. Become(s, d) /\ row[c].status = "FLAGGED_FOR_REVIEW"
            BY <2>4, <3>1 DEF ResolveLoad
        <3> HIDE DEF d
        <3>4. FreshSession(d, row', credited')
            BY <1>1, <3>2, <3>3, FreshLoaded
        <3> QED BY <3>3, <3>4, FreshBecome
    <2> QED BY <2>1, <2>2, <2>3, <2>4 DEF Begin
<1> QED BY <1>1, <1>2, SerialUnchangedRows DEF SerialInv

LEMMA SerialGenerate ==
    ASSUME Serial, TypeOK, OwnInv, SerialInv, NEW s \in Sessions, NEW c \in Loaded(s), Generate(s, c)
    PROVE  SerialInv' /\ ResolvedKept
<1> DEFINE r == sess[s].loaded[c]
<1>0. c \in Contribs /\ sess[s] \in Session /\ row[c] \in Row /\ r # NotLoaded
    BY LoadedIsRow DEF TypeOK, Loaded
<1>a. FreshSession(sess[s], row, credited) /\ OwnedSession(sess[s])
    BY DEF SerialInv, SessionsFresh, OwnInv
<1>1. CASE GenerateExpire(s, c)
    <2> DEFINE d == [sess[s] EXCEPT !.pc = "refresh"]
    <2>1. d.pc = "refresh"
        BY <1>0 DEF Session
    <2>2. Become(s, d)
        BY <1>1 DEF GenerateExpire, Goto
    <2> HIDE DEF d
    <2>3. SessionsFresh'
        <3>1. FreshSession(d, row', credited')
            BY <2>1 DEF FreshSession
        <3> QED BY <2>2, <3>1, FreshBecome
    <2>4. LedgerInv' /\ ResolvedKept
        BY <1>1, SerialExpire DEF GenerateExpire, At
    <2> QED BY <2>3, <2>4 DEF SerialInv
<1>2. CASE GenerateNotLapsed(s, c)
    <2> DEFINE d == [sess[s] EXCEPT !.pc = "call"]
    <2>1. d.pc = "call" /\ d.loaded = sess[s].loaded
        BY <1>0 DEF Session
    <2>2. Become(s, d) /\ row' = row /\ bill' = bill /\ credited' = credited /\ At(s, "expire")
        BY <1>2 DEF GenerateNotLapsed, Goto, dbVars, outsideVars, historyVars
    <2> HIDE DEF d
    <2>3. SessionsFresh'
        <3>1. FreshSession(d, row', credited')
            BY <1>a, <2>1, <2>2 DEF FreshSession, At
        <3> QED BY <2>2, <3>1, FreshBecome
    <2> QED BY <2>2, <2>3, SerialUnchangedRows DEF SerialInv
<1>3. CASE GenerateRefresh(s, c)
    <2> DEFINE d == [sess[s] EXCEPT !.pc = "call", !.loaded = Load({c})]
    <2>1. d.pc = "call" /\ d.loaded = Load({c})
        BY <1>0 DEF Session
    <2>2. Become(s, d) /\ row' = row /\ bill' = bill /\ credited' = credited
        BY <1>3 DEF GenerateRefresh, dbVars, outsideVars, historyVars
    <2> HIDE DEF d
    <2>3. SessionsFresh'
        <3>1. FreshSession(d, row', credited')
            BY <2>1, <2>2, FreshLoaded
        <3> QED BY <2>2, <3>1, FreshBecome
    <2> QED BY <2>2, <2>3, SerialUnchangedRows DEF SerialInv
<1>4. CASE GenerateCall(s, c)
    <2>1. PICK i \in Invoices :
              /\ FreshReference(i)
              /\ bill' = [bill EXCEPT ![i] = [owner |-> {c}, due |-> Outstanding(r), paid |-> 0]]
              /\ Become(s, [sess[s] EXCEPT !.pc = "record", !.invoice = i])
        BY <1>4 DEF GenerateCall
    <2>2. At(s, "call") /\ row' = row /\ credited' = credited /\ r.status \in Unpaid
        BY <1>4 DEF GenerateCall, MayInvoice, dbVars, historyVars
    <2>3. credited[i] = 0
        BY <2>1 DEF FreshReference, SerialInv, LedgerInv, UncreditedUntilIssued
    <2>4. LedgerInv'
        <3>1. \A j \in Invoices : bill'[j].owner = {} => bill[j].owner = {}
            BY <2>1 DEF TypeOK, Bill
        <3> QED BY <2>2, <3>1 DEF SerialInv, LedgerInv, UncreditedUntilIssued,
                                  UncreditedWhileUnpaid, CreditedAtMostOnce
    <2> DEFINE d == [sess[s] EXCEPT !.pc = "record", !.invoice = i]
    <2>5. d.pc = "record" /\ d.loaded = sess[s].loaded /\ d.invoice = i
        BY <1>0 DEF Session
    <2>6. Become(s, d)
        BY <2>1
    <2> HIDE DEF d
    <2>7. \A b \in Contribs : sess[s].loaded[b] # NotLoaded => b = c /\ sess[s].loaded[b] = row[b]
        BY <1>0, <1>a, <2>2 DEF OwnedSession, HoldsOneRow, FreshSession, At
    <2>8. SessionsFresh'
        <3>1. FreshSession(d, row', credited')
            BY <2>2, <2>3, <2>5, <2>7 DEF FreshSession
        <3> QED BY <2>6, <3>1, FreshBecome
    <2>9. ResolvedKept
        BY <2>2 DEF ResolvedKept
    <2> QED BY <2>4, <2>8, <2>9 DEF SerialInv
<1>5. CASE GenerateStop(s, c)
    <2>1. row' = row /\ bill' = bill /\ credited' = credited /\ Close(s)
        BY <1>5 DEF GenerateStop, dbVars, outsideVars, historyVars
    <2> QED BY <2>1, FreshClose, SerialUnchangedRows DEF SerialInv
<1>6. CASE GenerateRecord(s, c)
    <2>1. bill' = bill /\ credited' = credited /\ Close(s) /\ At(s, "record")
        BY <1>6 DEF GenerateRecord, historyVars
    <2>2. r = row[c] /\ r.status \in Unpaid /\ credited[sess[s].invoice] = 0
        <3>1. sess[s].pc = "record" /\ sess[s].pc \notin {"refresh", "mark"}
            BY <2>1 DEF At
        <3> QED BY <1>0, <1>a, <3>1 DEF FreshSession
    <2>3. row'[c].invoice_id = sess[s].invoice
        <3>1. row'[c] = [row[c] EXCEPT !.invoice_id = sess[s].invoice, !.status = "PENDING"]
              \/ row'[c] = [row[c] EXCEPT !.invoice_id = sess[s].invoice]
            BY <1>0, <1>6 DEF GenerateRecord, TypeOK
        <3> QED BY <1>0, <3>1 DEF Row
    <2>4. \A d \in Contribs : d # c => row'[d] = row[d]
        BY <1>0, <1>6 DEF GenerateRecord, TypeOK
    <2>5. LedgerInv'
        <3>1. UncreditedWhileUnpaid'
            BY <2>1, <2>2, <2>3, <2>4 DEF SerialInv, LedgerInv, UncreditedWhileUnpaid
        <3> QED BY <2>1, <3>1 DEF SerialInv, LedgerInv, UncreditedUntilIssued, CreditedAtMostOnce
    <2>6. ResolvedKept
        BY <2>2, <2>4 DEF ResolvedKept, Unpaid
    <2> QED BY <2>1, <2>5, <2>6, FreshClose DEF SerialInv
<1> QED BY <1>1, <1>2, <1>3, <1>4, <1>5, <1>6 DEF Generate

LEMMA SerialReconcile ==
    ASSUME Serial, TypeOK, OwnInv, SerialInv, NEW s \in Sessions, NEW c \in Loaded(s), Reconcile(s, c)
    PROVE  SerialInv' /\ ResolvedKept
<1> DEFINE r == sess[s].loaded[c]
<1>0. c \in Contribs /\ sess[s] \in Session /\ r # NotLoaded
    BY LoadedIsRow DEF TypeOK, Loaded
<1>a. FreshSession(sess[s], row, credited) /\ OwnedSession(sess[s])
    BY DEF SerialInv, SessionsFresh, OwnInv
<1>1. CASE ReconcileFound(s, c)
    <2> DEFINE i == r.invoice_id
               d == [sess[s] EXCEPT !.pc = "credit", !.invoice = i, !.amount = bill[i].paid]
    <2>1. d.pc = "credit" /\ d.loaded = sess[s].loaded /\ d.invoice = i
        BY <1>0 DEF Session
    <2>2. Become(s, d) /\ row' = row /\ bill' = bill /\ credited' = credited /\ sess[s].pc = "query"
        BY <1>1 DEF ReconcileFound, At, dbVars, outsideVars, historyVars
    <2>3. \A b \in Contribs : sess[s].loaded[b] # NotLoaded =>
             b = c /\ sess[s].loaded[b] = row[b] /\ sess[s].loaded[b].status \in Unpaid
        BY <1>0, <1>a, <2>2 DEF OwnedSession, HoldsOneRow, FreshSession
    <2> HIDE DEF d
    <2>4. FreshSession(d, row', credited')
        BY <2>1, <2>2, <2>3 DEF FreshSession
    <2>5. SessionsFresh'
        BY <2>2, <2>4, FreshBecome
    <2> QED BY <2>2, <2>5, SerialUnchangedRows DEF SerialInv
<1>2. CASE ReconcileNotFound(s, c)
    <2> DEFINE d == [sess[s] EXCEPT !.pc = "lapse"]
    <2>1. d.pc = "lapse" /\ d.loaded = sess[s].loaded
        BY <1>0 DEF Session
    <2>2. Become(s, d) /\ row' = row /\ bill' = bill /\ credited' = credited /\ sess[s].pc = "query"
        BY <1>2 DEF ReconcileNotFound, Goto, At, dbVars, outsideVars, historyVars
    <2> HIDE DEF d
    <2>3. FreshSession(d, row', credited')
        BY <1>a, <2>1, <2>2 DEF FreshSession
    <2>4. SessionsFresh'
        BY <2>2, <2>3, FreshBecome
    <2> QED BY <2>2, <2>4, SerialUnchangedRows DEF SerialInv
<1>3. CASE ReconcileExpire(s, c)
    BY <1>3, SerialExpire, FreshClose DEF ReconcileExpire, At, SerialInv
<1>4. CASE ReconcileKeep(s, c)
    <2>1. row' = row /\ bill' = bill /\ credited' = credited /\ Close(s)
        BY <1>4 DEF ReconcileKeep, dbVars, outsideVars, historyVars
    <2> QED BY <2>1, FreshClose, SerialUnchangedRows DEF SerialInv
<1> QED BY <1>1, <1>2, <1>3, <1>4 DEF Reconcile

\* The one step that credits: the invoice is the row's, unpaid and uncredited.
LEMMA SerialCredit ==
    ASSUME Serial, TypeOK, OwnInv, SerialInv, NEW s \in Sessions, NEW c \in Loaded(s), Credit(s, c)
    PROVE  SerialInv' /\ ResolvedKept
<1> DEFINE r == sess[s].loaded[c]
           i == sess[s].invoice
<1>0. c \in Contribs /\ sess[s] \in Session /\ row[c] \in Row /\ r # NotLoaded
    BY LoadedIsRow DEF TypeOK, Loaded
<1>1. FreshSession(sess[s], row, credited) /\ OwnedSession(sess[s]) /\ sess[s].pc = "credit"
    BY DEF SerialInv, SessionsFresh, OwnInv, Credit, At
<1>2. r = row[c] /\ r.status \in Unpaid /\ r.invoice_id = i
    BY <1>0, <1>1 DEF FreshSession
<1>3. i \in Invoices /\ bill[i].owner = {c}
    BY <1>0, <1>1 DEF OwnedSession
<1>4. credited[i] = 0
    BY <1>0, <1>2, <1>3, NamesAssumption DEF SerialInv, LedgerInv, UncreditedWhileUnpaid
<1>5. bill' = bill /\ credited' = [credited EXCEPT ![i] = credited[i] + 1]
    BY DEF Credit, outsideVars
<1>6. \A d \in Contribs : d # c => row'[d] = row[d]
    BY <1>0 DEF Credit, TypeOK
<1>7. row'[c].status \notin Unpaid
    <2>1. PICK total, to : /\ row' = [row EXCEPT ![c] = [row[c] EXCEPT !.status = to, !.amount_received = total]]
                           /\ to \in {"PAID", "FLAGGED_FOR_REVIEW"}
        BY DEF Credit, Verdict
    <2>2. row'[c] = [row[c] EXCEPT !.status = to, !.amount_received = total]
        BY <1>0, <2>1 DEF TypeOK
    <2>3. row'[c].status = to
        BY <1>0, <2>2 DEF Row
    <2> QED BY <2>1, <2>3 DEF Unpaid
<1>8. \A j \in Invoices : credited'[j] = IF j = i THEN 1 ELSE credited[j]
    BY <1>3, <1>4, <1>5 DEF TypeOK
<1>9. LedgerInv'
    <2>1. UncreditedWhileUnpaid'
        <3> SUFFICES ASSUME NEW d \in Contribs, row'[d].invoice_id # NoInvoice, row'[d].status \in Unpaid
                     PROVE  credited'[row'[d].invoice_id] = 0
            BY DEF UncreditedWhileUnpaid
        <3>1. d # c /\ row'[d] = row[d]
            BY <1>6, <1>7
        <3>2. bill[row[d].invoice_id].owner = {d} /\ row[d].invoice_id \in Invoices
            BY <3>1 DEF OwnInv, Owned, TypeOK, Row
        <3>3. row[d].invoice_id # i
            BY <1>3, <3>1, <3>2
        <3> QED BY <1>8, <3>1, <3>2, <3>3 DEF SerialInv, LedgerInv, UncreditedWhileUnpaid
    <2>2. UncreditedUntilIssued'
        BY <1>3, <1>5, <1>8 DEF SerialInv, LedgerInv, UncreditedUntilIssued
    <2>3. CreditedAtMostOnce'
        BY <1>8 DEF SerialInv, LedgerInv, CreditedAtMostOnce
    <2> QED BY <2>1, <2>2, <2>3 DEF LedgerInv
<1>10. SessionsFresh'
    <2>1. CASE Close(s)
        BY <2>1, FreshClose
    <2>2. CASE Goto(s, "mark")
        <3> DEFINE d == [sess[s] EXCEPT !.pc = "mark"]
        <3>1. d.pc = "mark"
            BY <1>0 DEF Session
        <3>2. Become(s, d)
            BY <2>2 DEF Goto
        <3> HIDE DEF d
        <3>3. FreshSession(d, row', credited')
            BY <3>1 DEF FreshSession
        <3> QED BY <3>2, <3>3, FreshBecome
    <2> QED BY <2>1, <2>2 DEF Credit
<1>11. ResolvedKept
    BY <1>2, <1>6 DEF ResolvedKept, Unpaid
<1> QED BY <1>9, <1>10, <1>11 DEF SerialInv

LEMMA SerialAdmin ==
    ASSUME Serial, TypeOK, SerialInv, NEW s \in Sessions, NEW c \in Loaded(s),
           ManualCommit(s, c) \/ AcceptPartial(s, c) \/ RequestTopup(s, c)
    PROVE  SerialInv' /\ ResolvedKept
<1> DEFINE r == sess[s].loaded[c]
<1>0. c \in Contribs /\ row[c] \in Row /\ r # NotLoaded
    BY LoadedIsRow DEF TypeOK, Loaded
<1>1. FreshSession(sess[s], row, credited)
    BY DEF SerialInv, SessionsFresh
<1>2. bill' = bill /\ credited' = credited /\ Close(s)
    BY DEF ManualCommit, AcceptPartial, RequestTopup, outsideVars, historyVars
<1>3. PICK new :
          /\ row' = [row EXCEPT ![c] = new]
          /\ r = row[c] /\ row[c].status \notin Resolved
          /\ new.status \notin Unpaid \/ new.invoice_id = NoInvoice
    <2>1. CASE ManualCommit(s, c)
        <3>1. r = row[c] /\ r.status \notin Resolved
            BY <1>0, <1>1, <2>1 DEF ManualCommit, At, FreshSession
        <3>2. PICK total : row' = [row EXCEPT ![c] = [row[c] EXCEPT !.amount_received = total,
                                                                   !.status = "PAID_MANUAL"]]
            BY <2>1 DEF ManualCommit
        <3>3. [row[c] EXCEPT !.amount_received = total, !.status = "PAID_MANUAL"].status \notin Unpaid
            BY <1>0 DEF Row, Unpaid
        <3> QED BY <3>1, <3>2, <3>3
    <2>2. CASE AcceptPartial(s, c)
        <3>1. r = row[c] /\ r.status = "FLAGGED_FOR_REVIEW"
            BY <1>0, <1>1, <2>2 DEF AcceptPartial, At, FreshSession
        <3>2. row' = [row EXCEPT ![c] = [row[c] EXCEPT !.status = "PAID"]]
            BY <2>2 DEF AcceptPartial
        <3>3. [row[c] EXCEPT !.status = "PAID"].status \notin Unpaid
            BY <1>0 DEF Row, Unpaid
        <3> QED BY <3>1, <3>2, <3>3 DEF Resolved
    <2>3. CASE RequestTopup(s, c)
        <3> DEFINE i == Cleared(r, c)
        <3>1. r = row[c] /\ r.status = "FLAGGED_FOR_REVIEW"
            BY <1>0, <1>1, <2>3 DEF RequestTopup, At, FreshSession
        <3>2. row' = [row EXCEPT ![c] = [row[c] EXCEPT !.status = "PENDING", !.invoice_id = i]]
            BY <2>3 DEF RequestTopup
        <3>3. i = NoInvoice
            BY <3>1 DEF Cleared
        <3>4. [row[c] EXCEPT !.status = "PENDING", !.invoice_id = i].invoice_id = i
            BY <1>0 DEF Row
        <3> QED BY <3>1, <3>2, <3>3, <3>4 DEF Resolved
    <2> QED BY <2>1, <2>2, <2>3
<1>4. row'[c] = new /\ \A d \in Contribs : d # c => row'[d] = row[d]
    BY <1>0, <1>3 DEF TypeOK
<1>5. LedgerInv'
    BY <1>2, <1>3, <1>4, LedgerKept DEF SerialInv
<1>6. ResolvedKept
    BY <1>3, <1>4 DEF ResolvedKept, Resolved
<1> QED BY <1>2, <1>5, <1>6, FreshClose DEF SerialInv

LEMMA SerialWebhook ==
    ASSUME Serial, TypeOK, SerialInv, NEW s \in Sessions, NEW i \in Invoices,
           WebhookMatch(s, i) \/ WebhookSkip(s, i)
    PROVE  SerialInv' /\ ResolvedKept
<1>1. row' = row /\ bill' = bill /\ credited' = credited
    BY DEF WebhookMatch, WebhookSkip, dbVars, outsideVars, historyVars
<1>2. SessionsFresh'
    <2>1. CASE WebhookMatch(s, i)
        <3>1. PICK c \in Matching(i) :
                  /\ row[c].status \in Unpaid
                  /\ Become(s, [Closed EXCEPT !.pc = "credit", !.loaded = Load({c}), !.invoice = i,
                                              !.amount = bill[i].paid, !.actor = "webhook"])
            BY <2>1 DEF WebhookMatch, Open
        <3> DEFINE d == [Closed EXCEPT !.pc = "credit", !.loaded = Load({c}), !.invoice = i,
                                       !.amount = bill[i].paid, !.actor = "webhook"]
        <3>2. d.loaded = Load({c}) /\ d.pc = "credit" /\ d.invoice = i
            BY DEF Closed
        <3>3. Become(s, d)
            BY <3>1
        <3> HIDE DEF d
        <3>4. \A b \in Contribs : d.loaded[b] # NotLoaded =>
                 d.loaded[b] = row'[b] /\ row'[b].status \in Unpaid /\ row'[b].invoice_id = i
            BY <1>1, <3>1, <3>2 DEF Load, Matching
        <3>5. FreshSession(d, row', credited')
            BY <3>2, <3>4 DEF FreshSession
        <3> QED BY <3>3, <3>5, FreshBecome
    <2>2. CASE WebhookSkip(s, i)
        <3> DEFINE d == [Closed EXCEPT !.pc = "mark", !.invoice = i, !.actor = "webhook"]
        <3>1. FreshSession(d, row', credited')
            BY DEF FreshSession, Closed
        <3>2. Become(s, d)
            BY <2>2 DEF WebhookSkip, Open
        <3> HIDE DEF d
        <3> QED BY <3>1, <3>2, FreshBecome
    <2> QED BY <2>1, <2>2
<1> QED BY <1>1, <1>2, SerialUnchangedRows DEF SerialInv

LEMMA SerialReprice ==
    ASSUME Serial, TypeOK, SerialInv, NEW s \in Sessions, RepriceLoad(s) \/ RepriceCommit(s)
    PROVE  SerialInv' /\ ResolvedKept
<1>1. CASE RepriceLoad(s)
    <2> DEFINE pending == {c \in Contribs : row[c].status = "PENDING"}
    <2>1. PICK price \in Prices :
              Become(s, [Closed EXCEPT !.pc = "reprice", !.amount = price, !.actor = "admin",
                                       !.loaded = Load(pending)])
        BY <1>1 DEF RepriceLoad, Open
    <2> DEFINE d == [Closed EXCEPT !.pc = "reprice", !.amount = price, !.actor = "admin",
                                   !.loaded = Load(pending)]
    <2>2. d.loaded = Load(pending) /\ d.pc = "reprice"
        BY DEF Closed
    <2>3. Become(s, d) /\ row' = row /\ bill' = bill /\ credited' = credited
        BY <1>1, <2>1 DEF RepriceLoad, dbVars, outsideVars, historyVars
    <2> HIDE DEF d
    <2>4. \A b \in Contribs : d.loaded[b] # NotLoaded => d.loaded[b] = row'[b] /\ row'[b].status = "PENDING"
        BY <2>2, <2>3 DEF Load
    <2>5. FreshSession(d, row', credited')
        BY <2>2, <2>4 DEF FreshSession
    <2>6. SessionsFresh'
        BY <2>3, <2>5, FreshBecome
    <2> QED BY <2>3, <2>6, SerialUnchangedRows DEF SerialInv
<1>2. CASE RepriceCommit(s)
    <2>1. bill' = bill /\ credited' = credited /\ Close(s) /\ sess[s].pc = "reprice"
        BY <1>2 DEF RepriceCommit, At, outsideVars, historyVars
    <2>2. \A c \in Loaded(s) : row[c].status = "PENDING" /\ sess[s].loaded[c] = row[c]
        BY <2>1 DEF SerialInv, SessionsFresh, FreshSession, Loaded
    <2>3. \A c \in Contribs : row'[c] = IF c \in Loaded(s) THEN Repriced(s, c) ELSE row[c]
        BY <1>2 DEF RepriceCommit
    <2>4. \A c \in Loaded(s) : Repriced(s, c).invoice_id = NoInvoice
        <3> SUFFICES ASSUME NEW c \in Loaded(s) PROVE Repriced(s, c).invoice_id = NoInvoice
            OBVIOUS
        <3>1. row[c] \in Row /\ sess[s].loaded[c] = row[c]
            BY <2>2, LoadedIsRow DEF TypeOK
        <3>2. \A price, i : [row[c] EXCEPT !.amount_expected = price, !.invoice_id = i].invoice_id = i
            BY <3>1 DEF Row
        <3> QED BY <3>1, <3>2 DEF Repriced, Cleared
    <2>5. LedgerInv'
        BY <2>1, <2>3, <2>4, LedgerKept DEF SerialInv
    <2>6. ResolvedKept
        BY <2>2, <2>3 DEF ResolvedKept
    <2> QED BY <2>1, <2>5, <2>6, FreshClose DEF SerialInv
<1> QED BY <1>1, <1>2

LEMMA SerialRest ==
    ASSUME Serial, TypeOK, SerialInv,
           \/ ClosePurse \/ ReopenPurse \/ DeadlinePasses \/ ChangeProvider \/ Crash
           \/ \E i \in Invoices : StoreEvent(i) \/ Reprocess(i) \/ Pay(i) \/ Lapse(i)
           \/ \E s \in Sessions : WebhookMark(s)
    PROVE  SerialInv' /\ ResolvedKept
<1>1. row' = row /\ credited' = credited
    BY DEF ClosePurse, ReopenPurse, DeadlinePasses, ChangeProvider, Crash, StoreEvent, Reprocess, Pay, Lapse,
           WebhookMark, dbVars, outsideVars, historyVars
<1>2. ResolvedKept
    BY <1>1 DEF ResolvedKept
<1>3. LedgerInv'
    <2>1. \A i \in Invoices : bill'[i].owner = bill[i].owner
        <3>1. ASSUME NEW j \in Invoices, Pay(j) PROVE \A i \in Invoices : bill'[i].owner = bill[i].owner
            BY <3>1 DEF Pay, TypeOK, Bill
        <3>2. CASE bill' = bill
            BY <3>2
        <3> QED BY <3>1, <3>2 DEF ClosePurse, ReopenPurse, DeadlinePasses, ChangeProvider, Crash, StoreEvent,
                                  Reprocess, Lapse, WebhookMark, outsideVars
    <2> QED BY <1>1, <2>1 DEF SerialInv, LedgerInv, UncreditedWhileUnpaid, UncreditedUntilIssued,
                              CreditedAtMostOnce
<1>4. SessionsFresh'
    <2>1. CASE Crash
        <3>1. FreshSession(Closed, row', credited')
            BY DEF FreshSession, Closed
        <3> QED BY <2>1, <3>1 DEF Crash, SessionsFresh
    <2>2. ASSUME NEW s \in Sessions, WebhookMark(s) PROVE SessionsFresh'
        BY <2>2, FreshClose DEF WebhookMark
    <2>3. CASE sess' = sess
        BY <1>1, <2>3 DEF SessionsFresh, SerialInv
    <2> QED BY <2>1, <2>2, <2>3 DEF ClosePurse, ReopenPurse, DeadlinePasses, ChangeProvider, StoreEvent,
                                    Reprocess, Pay, Lapse
<1> QED BY <1>2, <1>3, <1>4 DEF SerialInv

LEMMA SerialStep ==
    ASSUME Serial
    PROVE  TypeOK /\ OwnInv /\ SerialInv /\ [Next]_vars => SerialInv' /\ ResolvedKept
<1> SUFFICES ASSUME TypeOK, OwnInv, SerialInv, [Next]_vars PROVE SerialInv' /\ ResolvedKept
    OBVIOUS
<1>1. CASE Next
    BY <1>1, SerialBegin, SerialGenerate, SerialReconcile, SerialCredit, SerialAdmin,
       SerialWebhook, SerialReprice, SerialRest DEF Next, Continue
<1>2. CASE UNCHANGED vars
    BY <1>2, SerialUnchangedRows DEF vars, dbVars, outsideVars, historyVars, SerialInv, SessionsFresh
<1> QED BY <1>1, <1>2

LEMMA SerialInit == Init => SerialInv
<1> SUFFICES ASSUME Init PROVE SerialInv
    OBVIOUS
<1>1. SessionsFresh
    BY DEF Init, Closed, SessionsFresh, FreshSession
<1>2. LedgerInv
    BY DEF Init, LedgerInv, UncreditedWhileUnpaid, UncreditedUntilIssued, CreditedAtMostOnce
<1> QED BY <1>1, <1>2 DEF SerialInv

\* When handlers do not overlap, no payment is credited twice, however often its
\* webhook is delivered or reprocessed, the job runs, or the process restarts.
THEOREM SerialCreditsOnce ==
    ASSUME Serial
    PROVE  Spec => []CreditedAtMostOnce
<1>1. Init => TypeOK /\ OwnInv /\ SerialInv
    BY TypeInit, OwnInit, SerialInit
<1>2. TypeOK /\ OwnInv /\ SerialInv /\ [Next]_vars => (TypeOK /\ OwnInv /\ SerialInv)'
    BY TypeStep, OwnStep, SerialStep
<1>3. TypeOK /\ OwnInv /\ SerialInv => CreditedAtMostOnce
    BY DEF SerialInv, LedgerInv
<1> QED BY <1>1, <1>2, <1>3, PTL DEF Spec

\* When handlers do not overlap, a row that is PAID or PAID_MANUAL never changes
\* again: no late webhook, poll, expiry, edit or admin action undoes it.
THEOREM SerialResolvedIsFinal ==
    ASSUME Serial
    PROVE  Spec => ResolvedIsFinal
<1>1. Init => TypeOK /\ OwnInv /\ SerialInv
    BY TypeInit, OwnInit, SerialInit
<1>2. TypeOK /\ OwnInv /\ SerialInv /\ [Next]_vars => (TypeOK /\ OwnInv /\ SerialInv)'
    BY TypeStep, OwnStep, SerialStep
<1>3. TypeOK /\ OwnInv /\ SerialInv /\ [Next]_vars => [ResolvedKept]_vars
    BY SerialStep
<1>4. ResolvedIsFinal <=> [][ResolvedKept]_vars
    BY PTL DEF ResolvedIsFinal, ResolvedKept
<1> QED BY <1>1, <1>2, <1>3, <1>4, PTL DEF Spec

-----------------------------------------------------------------------------
(* What a session carries across an await: the amount it is about to credit  *)
(* is what was paid on its invoice, and the invoice it is about to record    *)
(* asks for what its copy of the row has outstanding.  This holds for any    *)
(* overlap, because an invoice is issued once and paid once.                 *)

Carries(d, bills) ==
    /\ \A c \in Contribs : d.loaded[c] # NotLoaded =>
          /\ d.pc = "credit" => d.amount = bills[d.invoice].paid /\ d.amount > 0
          /\ d.pc = "record" => bills[d.invoice].due = Outstanding(d.loaded[c])
    /\ d.pc = "mark" /\ d.invoice \in Invoices => bills[d.invoice].paid > 0

CreditedWasPaid == \A i \in Invoices : credited[i] > 0 => bill[i].paid > 0

ReportedWasPaid == \A i \in Invoices : i \in tasks \/ inbox[i] # "absent" => bill[i].paid > 0

ShownWasIssued == \A i \in Invoices : bill[i].owner = {} => i \notin shown /\ bill[i].paid = 0

PaperInv == CreditedWasPaid /\ ReportedWasPaid /\ ShownWasIssued

HandInv == PaperInv /\ \A s \in Sessions : Carries(sess[s], bill)

\* What is known of an issued invoice stays; a payment on it is made once.
BillGrows ==
    \A i \in Invoices :
        /\ bill[i].owner # {} => bill'[i].owner = bill[i].owner /\ bill'[i].due = bill[i].due
        /\ bill[i].paid > 0 => bill'[i].paid = bill[i].paid

LEMMA HandKept ==
    ASSUME TypeOK, OwnInv, HandInv, BillGrows,
           NEW t \in Sessions, sess'[t] = sess[t] \/ sess'[t].pc \notin {"credit", "record", "mark"}
    PROVE  Carries(sess'[t], bill')
<1>1. CASE sess'[t].pc \notin {"credit", "record", "mark"}
    BY <1>1 DEF Carries
<1>2. CASE sess'[t] = sess[t]
    <2> DEFINE d == sess[t]
    <2>1. Carries(d, bill) /\ OwnedSession(d)
        BY DEF HandInv, OwnInv
    <2> HIDE DEF d
    <2>0. d.pc = "mark" /\ d.invoice \in Invoices => bill'[d.invoice].paid > 0
        BY <2>1 DEF Carries, BillGrows
    <2> SUFFICES ASSUME NEW c \in Contribs, d.loaded[c] # NotLoaded
                 PROVE  /\ d.pc = "credit" => d.amount = bill'[d.invoice].paid /\ d.amount > 0
                        /\ d.pc = "record" => bill'[d.invoice].due = Outstanding(d.loaded[c])
        BY <1>2, <2>0 DEF Carries, d
    <2>2. /\ d.pc = "credit" => d.amount = bill[d.invoice].paid /\ d.amount > 0
          /\ d.pc = "record" => bill[d.invoice].due = Outstanding(d.loaded[c])
        BY <2>1 DEF Carries
    <2>3. d.pc \in {"credit", "record"} => d.invoice \in Invoices /\ bill[d.invoice].owner = {c}
        BY <2>1 DEF OwnedSession
    <2>4. d.pc = "credit" => bill[d.invoice].paid > 0
        BY <2>2
    <2> QED BY <2>2, <2>3, <2>4 DEF BillGrows
<1> QED BY <1>1, <1>2

LEMMA HandBecome ==
    ASSUME TypeOK, OwnInv, HandInv, BillGrows, NEW s \in Sessions, NEW d, Become(s, d),
           Carries(d, bill')
    PROVE  \A t \in Sessions : Carries(sess'[t], bill')
<1>1. \A t \in Sessions : sess'[t] = IF t = s THEN d ELSE sess[t]
    BY DEF Become, TypeOK
<1> QED BY <1>1, HandKept

LEMMA HandClose ==
    ASSUME TypeOK, OwnInv, HandInv, BillGrows, NEW s \in Sessions, Close(s)
    PROVE  \A t \in Sessions : Carries(sess'[t], bill')
<1>1. Carries(Closed, bill')
    BY DEF Carries, Closed
<1> QED BY <1>1, HandBecome DEF Close

LEMMA HandGoto ==
    ASSUME TypeOK, OwnInv, HandInv, BillGrows, NEW s \in Sessions,
           NEW pc, pc \notin {"credit", "record", "mark"}, Goto(s, pc)
    PROVE  \A t \in Sessions : Carries(sess'[t], bill')
<1> DEFINE d == [sess[s] EXCEPT !.pc = pc]
<1>1. d.pc = pc
    BY DEF TypeOK, Session
<1> HIDE DEF d
<1>2. Carries(d, bill')
    BY <1>1 DEF Carries
<1>3. Become(s, d)
    BY DEF Goto, d
<1> QED BY <1>2, <1>3, HandBecome

\* Nothing but a call to the provider and a payment touches the bills.
LEMMA BillSame ==
    ASSUME bill' = bill
    PROVE  BillGrows
BY DEF BillGrows

LEMMA HandSame ==
    ASSUME TypeOK, OwnInv, HandInv, bill' = bill, credited' = credited, shown' = shown,
           tasks' \subseteq tasks, \A i \in Invoices : inbox[i] = "absent" => inbox'[i] = "absent",
           \A t \in Sessions : Carries(sess'[t], bill')
    PROVE  HandInv'
BY DEF HandInv, PaperInv, CreditedWasPaid, ReportedWasPaid, ShownWasIssued

LEMMA HandBegin ==
    ASSUME TypeOK, OwnInv, HandInv, NEW s \in Sessions,
           \/ \E c \in Contribs : Begin(s, c)
           \/ RepriceLoad(s)
    PROVE  HandInv'
<1>1. /\ bill' = bill /\ credited' = credited /\ shown' = shown
      /\ tasks' \subseteq tasks /\ inbox' = inbox
    BY DEF Begin, GenerateLoad, ReconcileLoad, ManualLoad, ResolveLoad, RepriceLoad,
           dbVars, outsideVars, historyVars
<1>2. \E d : Become(s, d) /\ d.pc \notin {"credit", "record", "mark"}
    <2>1. ASSUME NEW c \in Contribs, GenerateLoad(s, c)
          PROVE  \E d : Become(s, d) /\ d.pc \notin {"credit", "record", "mark"}
        <3> DEFINE d == [Closed EXCEPT !.pc = "expire", !.loaded = Load({c}), !.open = (purse = "open")]
        <3>1. Become(s, d) /\ d.pc = "expire"
            BY <2>1 DEF GenerateLoad, Open, Closed
        <3> QED BY <3>1
    <2>2. ASSUME NEW c \in Contribs, ReconcileLoad(s, c)
          PROVE  \E d : Become(s, d) /\ d.pc \notin {"credit", "record", "mark"}
        <3> DEFINE d == [Closed EXCEPT !.pc = "query", !.loaded = Load({c}),
                                       !.actor = "reconciliation_job"]
        <3>1. Become(s, d) /\ d.pc = "query"
            BY <2>2 DEF ReconcileLoad, Open, Closed
        <3> QED BY <3>1
    <2>3. ASSUME NEW c \in Contribs, ManualLoad(s, c)
          PROVE  \E d : Become(s, d) /\ d.pc \notin {"credit", "record", "mark"}
        <3>1. PICK cash \in Cash :
                  Become(s, [Closed EXCEPT !.pc = "manual", !.loaded = Load({c}),
                                           !.amount = cash, !.actor = "admin"])
            BY <2>3 DEF ManualLoad, Open
        <3>2. [Closed EXCEPT !.pc = "manual", !.loaded = Load({c}),
                             !.amount = cash, !.actor = "admin"].pc = "manual"
            BY DEF Closed
        <3> QED BY <3>1, <3>2
    <2>4. ASSUME NEW c \in Contribs, ResolveLoad(s, c)
          PROVE  \E d : Become(s, d) /\ d.pc \notin {"credit", "record", "mark"}
        <3>1. PICK resolution \in {"accept_partial", "request_topup"} :
                  Become(s, [Closed EXCEPT !.pc = resolution, !.loaded = Load({c}),
                                           !.actor = "admin"])
            BY <2>4 DEF ResolveLoad, Open
        <3>2. [Closed EXCEPT !.pc = resolution, !.loaded = Load({c}), !.actor = "admin"].pc = resolution
            BY DEF Closed
        <3> QED BY <3>1, <3>2
    <2>5. CASE RepriceLoad(s)
        <3> DEFINE pending == Load({c \in Contribs : row[c].status = "PENDING"})
        <3>1. PICK price \in Prices :
                  Become(s, [Closed EXCEPT !.pc = "reprice", !.amount = price, !.actor = "admin",
                                           !.loaded = pending])
            BY <2>5 DEF RepriceLoad, Open
        <3> HIDE DEF pending
        <3>2. [Closed EXCEPT !.pc = "reprice", !.amount = price, !.actor = "admin",
                             !.loaded = pending].pc = "reprice"
            BY DEF Closed
        <3> QED BY <3>1, <3>2
    <2> QED BY <2>1, <2>2, <2>3, <2>4, <2>5 DEF Begin
<1>3. PICK d : Become(s, d) /\ d.pc \notin {"credit", "record", "mark"}
    BY <1>2
<1>4. Carries(d, bill')
    BY <1>3 DEF Carries
<1> QED BY <1>1, <1>3, <1>4, BillSame, HandBecome, HandSame

\* The webhook and the job take the amount from the provider's answer.
LEMMA HandFound ==
    ASSUME TypeOK, OwnInv, HandInv, NEW s \in Sessions,
           \/ \E i \in Invoices : WebhookMatch(s, i) \/ WebhookSkip(s, i)
           \/ \E c \in Loaded(s) : ReconcileFound(s, c)
    PROVE  HandInv'
<1>1. /\ bill' = bill /\ credited' = credited /\ shown' = shown
      /\ tasks' \subseteq tasks /\ inbox' = inbox
    BY DEF WebhookMatch, WebhookSkip, ReconcileFound, dbVars, outsideVars, historyVars
<1>2. CASE \E i \in Invoices : WebhookMatch(s, i)
    <2>1. PICK i \in Invoices : WebhookMatch(s, i)
        BY <1>2
    <2>2. PICK c \in Matching(i) :
              Become(s, [Closed EXCEPT !.pc = "credit", !.loaded = Load({c}), !.invoice = i,
                                       !.amount = bill[i].paid, !.actor = "webhook"])
        BY <2>1 DEF WebhookMatch, Open
    <2> DEFINE d == [Closed EXCEPT !.pc = "credit", !.loaded = Load({c}), !.invoice = i,
                                   !.amount = bill[i].paid, !.actor = "webhook"]
    <2>3. d.pc = "credit" /\ d.invoice = i /\ d.amount = bill[i].paid
        BY DEF Closed
    <2>4. Become(s, d)
        BY <2>2
    <2>5. bill[i].paid > 0
        BY <2>1 DEF WebhookMatch, HandInv, PaperInv, ReportedWasPaid
    <2> HIDE DEF d
    <2>6. Carries(d, bill')
        BY <1>1, <2>3, <2>5 DEF Carries
    <2> QED BY <1>1, <2>4, <2>6, BillSame, HandBecome, HandSame
<1>3. CASE \E c \in Loaded(s) : ReconcileFound(s, c)
    <2>1. PICK c \in Loaded(s) : ReconcileFound(s, c)
        BY <1>3
    <2> DEFINE i == sess[s].loaded[c].invoice_id
               d == [sess[s] EXCEPT !.pc = "credit", !.invoice = i, !.amount = bill[i].paid]
    <2>2. Become(s, d) /\ bill[i].paid > 0
        BY <2>1 DEF ReconcileFound
    <2>3. d.pc = "credit" /\ d.invoice = i /\ d.amount = bill[i].paid
        BY DEF TypeOK, Session
    <2> HIDE DEF d, i
    <2>4. Carries(d, bill')
        BY <1>1, <2>2, <2>3 DEF Carries
    <2> QED BY <1>1, <2>2, <2>4, BillSame, HandBecome, HandSame
<1>4. CASE \E i \in Invoices : WebhookSkip(s, i)
    <2>1. PICK i \in Invoices : WebhookSkip(s, i)
        BY <1>4
    <2> DEFINE d == [Closed EXCEPT !.pc = "mark", !.invoice = i, !.actor = "webhook"]
    <2>2. d.pc = "mark" /\ d.invoice = i
        BY DEF Closed
    <2>3. Become(s, d)
        BY <2>1 DEF WebhookSkip, Open
    <2>4. bill[i].paid > 0
        BY <2>1 DEF WebhookSkip, HandInv, PaperInv, ReportedWasPaid
    <2> HIDE DEF d
    <2>5. Carries(d, bill')
        BY <1>1, <2>2, <2>4 DEF Carries
    <2> QED BY <1>1, <2>3, <2>5, BillSame, HandBecome, HandSame
<1> QED BY <1>2, <1>3, <1>4

\* An invoice is issued once, for what is outstanding.
LEMMA HandCall ==
    ASSUME TypeOK, OwnInv, HandInv, NEW s \in Sessions, NEW c \in Loaded(s), GenerateCall(s, c)
    PROVE  BillGrows /\ HandInv'
<1> DEFINE r == sess[s].loaded[c]
<1>0. c \in Contribs /\ r # NotLoaded /\ sess[s] \in Session /\ sess[s].pc = "call"
    BY DEF Loaded, TypeOK, GenerateCall, At
<1>1. PICK i \in Invoices :
          /\ FreshReference(i)
          /\ bill' = [bill EXCEPT ![i] = [owner |-> {c}, due |-> Outstanding(r), paid |-> 0]]
          /\ Become(s, [sess[s] EXCEPT !.pc = "record", !.invoice = i])
    BY DEF GenerateCall
<1>2. bill[i].owner = {} /\ bill[i].paid = 0 /\ i \notin shown
    BY <1>1 DEF FreshReference, HandInv, PaperInv, ShownWasIssued
<1>3. /\ bill'[i] = [owner |-> {c}, due |-> Outstanding(r), paid |-> 0]
      /\ \A j \in Invoices : j # i => bill'[j] = bill[j]
    BY <1>1 DEF TypeOK
<1>4. BillGrows
    BY <1>2, <1>3 DEF BillGrows
<1>5. UNCHANGED <<inbox, tasks, shown, credited>>
    BY DEF GenerateCall, dbVars, historyVars
<1>6. PaperInv'
    <2>1. \A j \in Invoices : bill[j].paid > 0 => bill'[j].paid > 0
        BY <1>2, <1>3
    <2>2. \A j \in Invoices : bill'[j].owner = {} => bill[j].owner = {} /\ bill'[j].paid = bill[j].paid
        BY <1>2, <1>3
    <2> QED BY <1>5, <2>1, <2>2 DEF HandInv, PaperInv, CreditedWasPaid, ReportedWasPaid, ShownWasIssued
<1> DEFINE d == [sess[s] EXCEPT !.pc = "record", !.invoice = i]
<1>7. d.pc = "record" /\ d.loaded = sess[s].loaded /\ d.invoice = i
    BY <1>0 DEF Session
<1>8. Become(s, d)
    BY <1>1
<1> HIDE DEF d
<1>9. Carries(d, bill')
    <2>1. \A b \in Contribs : d.loaded[b] # NotLoaded => b = c
        BY <1>0, <1>7 DEF OwnInv, OwnedSession, HoldsOneRow
    <2>2. bill'[i].due = Outstanding(r)
        BY <1>3
    <2> QED BY <1>7, <2>1, <2>2 DEF Carries
<1> QED BY <1>4, <1>6, <1>8, <1>9, HandBecome DEF HandInv

\* An invoice is paid once, and only after a member has seen it.
LEMMA HandPay ==
    ASSUME TypeOK, OwnInv, HandInv, NEW i \in Invoices, Pay(i)
    PROVE  BillGrows /\ HandInv'
<1>1. PICK amount \in Payable : bill' = [bill EXCEPT ![i].paid = amount]
    BY DEF Pay
<1>2. amount \in Nat /\ amount > 0
    BY AmountsAssumption
<1>3. /\ bill'[i].owner = bill[i].owner /\ bill'[i].due = bill[i].due /\ bill'[i].paid = amount
      /\ \A j \in Invoices : j # i => bill'[j] = bill[j]
    BY <1>1 DEF TypeOK, Bill
<1>4. i \in shown /\ bill[i].paid = 0
    BY DEF Pay
<1>5. BillGrows
    BY <1>3, <1>4 DEF BillGrows
<1>6. UNCHANGED <<inbox, tasks, shown, credited, sess>>
    BY DEF Pay, dbVars, historyVars
<1>7. PaperInv'
    <2>1. \A j \in Invoices : bill[j].paid > 0 => bill'[j].paid > 0
        BY <1>3, <1>4
    <2>2. \A j \in Invoices : bill'[j].owner = {} => j # i /\ bill[j].owner = {} /\ bill'[j].paid = bill[j].paid
        BY <1>3, <1>4 DEF HandInv, PaperInv, ShownWasIssued
    <2> QED BY <1>6, <2>1, <2>2 DEF HandInv, PaperInv, CreditedWasPaid, ReportedWasPaid, ShownWasIssued
<1> QED BY <1>5, <1>6, <1>7, HandKept DEF HandInv

LEMMA HandCommit ==
    ASSUME TypeOK, OwnInv, HandInv, NEW s \in Sessions, NEW c \in Loaded(s),
           \/ GenerateExpire(s, c) \/ GenerateNotLapsed(s, c) \/ GenerateRefresh(s, c)
           \/ GenerateStop(s, c) \/ ReconcileNotFound(s, c) \/ ReconcileExpire(s, c)
           \/ ReconcileKeep(s, c) \/ ManualCommit(s, c) \/ AcceptPartial(s, c) \/ RequestTopup(s, c)
    PROVE  HandInv'
<1>1. UNCHANGED <<bill, credited, shown, tasks, inbox>>
    BY DEF GenerateExpire, GenerateNotLapsed, GenerateRefresh, GenerateStop, ReconcileNotFound,
           ReconcileExpire, ReconcileKeep, ManualCommit, AcceptPartial, RequestTopup, ExpireRow,
           dbVars, outsideVars, historyVars
<1>2. CASE GenerateRefresh(s, c)
    <2> DEFINE d == [sess[s] EXCEPT !.pc = "call", !.loaded = Load({c})]
    <2>1. d.pc = "call"
        BY DEF TypeOK, Session
    <2>2. Become(s, d)
        BY <1>2 DEF GenerateRefresh
    <2> HIDE DEF d
    <2>3. Carries(d, bill')
        BY <2>1 DEF Carries
    <2> QED BY <1>1, <2>2, <2>3, BillSame, HandBecome, HandSame
<1>3. CASE Close(s)
    BY <1>1, <1>3, BillSame, HandClose, HandSame
<1>4. CASE Goto(s, "refresh") \/ Goto(s, "call") \/ Goto(s, "lapse")
    BY <1>1, <1>4, BillSame, HandGoto, HandSame
<1> QED BY <1>2, <1>3, <1>4 DEF GenerateExpire, GenerateNotLapsed, GenerateStop, ReconcileNotFound,
           ReconcileExpire, ReconcileKeep, ManualCommit, AcceptPartial, RequestTopup

\* The invoice becomes visible to its member; a credit was backed by a payment.
LEMMA HandRecordOrCredit ==
    ASSUME TypeOK, OwnInv, HandInv, NEW s \in Sessions, NEW c \in Loaded(s),
           GenerateRecord(s, c) \/ Credit(s, c)
    PROVE  HandInv'
<1> DEFINE i == sess[s].invoice
<1>0. c \in Contribs /\ sess[s].loaded[c] # NotLoaded /\ sess[s].pc \in {"record", "credit"}
    BY DEF Loaded, GenerateRecord, Credit, At
<1>1. i \in Invoices /\ bill[i].owner = {c}
    BY <1>0 DEF OwnInv, OwnedSession
<1>2. UNCHANGED <<bill, tasks, inbox>> /\ BillGrows
    BY BillSame DEF GenerateRecord, Credit, outsideVars
<1>3. \A t \in Sessions : Carries(sess'[t], bill')
    <2>1. CASE Close(s)
        BY <1>2, <2>1, HandClose
    <2>2. CASE Credit(s, c) /\ Goto(s, "mark")
        <3> DEFINE d == [sess[s] EXCEPT !.pc = "mark"]
        <3>1. d.pc = "mark" /\ d.invoice = i
            BY DEF TypeOK, Session
        <3>2. Become(s, d) /\ sess[s].pc = "credit"
            BY <2>2 DEF Goto, Credit, At
        <3> HIDE DEF d
        <3>3. bill[i].paid > 0
            BY <1>0, <3>2 DEF HandInv, Carries
        <3>4. Carries(d, bill')
            BY <1>2, <3>1, <3>3 DEF Carries
        <3> QED BY <1>2, <3>2, <3>4, HandBecome
    <2> QED BY <2>1, <2>2 DEF GenerateRecord, Credit
<1>4. ReportedWasPaid'
    BY <1>2 DEF HandInv, PaperInv, ReportedWasPaid
<1>5. CASE GenerateRecord(s, c)
    <2>1. shown' = shown \cup {i} /\ credited' = credited
        BY <1>5 DEF GenerateRecord, historyVars
    <2>2. CreditedWasPaid' /\ ShownWasIssued'
        BY <1>1, <1>2, <2>1 DEF HandInv, PaperInv, CreditedWasPaid, ShownWasIssued
    <2> QED BY <1>3, <1>4, <2>2 DEF HandInv, PaperInv
<1>6. CASE Credit(s, c)
    <2>1. credited' = [credited EXCEPT ![i] = @ + 1] /\ shown' = shown /\ sess[s].pc = "credit"
        BY <1>6 DEF Credit, outsideVars, At
    <2>2. bill[i].paid > 0
        BY <1>0, <2>1 DEF HandInv, Carries
    <2>3. \A j \in Invoices : j # i => credited'[j] = credited[j]
        BY <2>1 DEF TypeOK
    <2>4. CreditedWasPaid' /\ ShownWasIssued'
        BY <1>2, <2>1, <2>2, <2>3 DEF HandInv, PaperInv, CreditedWasPaid, ShownWasIssued
    <2> QED BY <1>3, <1>4, <2>4 DEF HandInv, PaperInv
<1> QED BY <1>5, <1>6

LEMMA HandRest ==
    ASSUME TypeOK, OwnInv, HandInv,
           \/ ClosePurse \/ ReopenPurse \/ DeadlinePasses \/ ChangeProvider \/ Crash
           \/ \E i \in Invoices : StoreEvent(i) \/ Reprocess(i) \/ Lapse(i)
           \/ \E s \in Sessions : WebhookMark(s) \/ RepriceCommit(s)
           \/ UNCHANGED vars
    PROVE  HandInv'
<1>1. bill' = bill /\ credited' = credited /\ shown' = shown /\ BillGrows
    BY BillSame DEF ClosePurse, ReopenPurse, DeadlinePasses, ChangeProvider, Crash, StoreEvent, Reprocess, Lapse,
       WebhookMark, RepriceCommit, vars, dbVars, outsideVars, historyVars
<1>2. \A t \in Sessions : Carries(sess'[t], bill')
    <2>1. CASE Crash
        <3>1. Carries(Closed, bill')
            BY DEF Carries, Closed
        <3> QED BY <2>1, <3>1 DEF Crash
    <2>2. ASSUME NEW s \in Sessions, Close(s) PROVE \A t \in Sessions : Carries(sess'[t], bill')
        BY <1>1, <2>2, HandClose
    <2>3. CASE sess' = sess
        BY <1>1, <2>3, HandKept
    <2> QED BY <2>1, <2>2, <2>3 DEF ClosePurse, ReopenPurse, DeadlinePasses, ChangeProvider, StoreEvent, Reprocess,
               Lapse, WebhookMark, RepriceCommit, vars
<1>3. ReportedWasPaid'
    <2>1. ASSUME NEW i \in Invoices, StoreEvent(i) \/ Reprocess(i) PROVE ReportedWasPaid'
        <3>1. bill[i].paid > 0
            BY <2>1 DEF StoreEvent, Reprocess, HandInv, PaperInv, ReportedWasPaid
        <3>2. tasks' = tasks \cup {i} /\ \A j \in Invoices : j # i => inbox'[j] = inbox[j]
            BY <2>1 DEF StoreEvent, Reprocess, TypeOK
        <3> QED BY <1>1, <3>1, <3>2 DEF HandInv, PaperInv, ReportedWasPaid
    <2>2. ASSUME NEW s \in Sessions, WebhookMark(s) PROVE ReportedWasPaid'
        <3>1. tasks' = tasks /\ \A j \in Invoices : j # sess[s].invoice => inbox'[j] = inbox[j]
            BY <2>2 DEF WebhookMark, TypeOK
        <3>2. sess[s].invoice \in Invoices => bill[sess[s].invoice].paid > 0
            BY <2>2 DEF WebhookMark, At, HandInv, Carries
        <3> QED BY <1>1, <3>1, <3>2 DEF HandInv, PaperInv, ReportedWasPaid
    <2>3. CASE tasks' \subseteq tasks /\ inbox' = inbox
        BY <1>1, <2>3 DEF HandInv, PaperInv, ReportedWasPaid
    <2> QED BY <2>1, <2>2, <2>3 DEF ClosePurse, ReopenPurse, DeadlinePasses, ChangeProvider, Crash, Lapse,
               RepriceCommit, vars, dbVars
<1> QED BY <1>1, <1>2, <1>3 DEF HandInv, PaperInv, CreditedWasPaid, ShownWasIssued

LEMMA HandStep == TypeOK /\ OwnInv /\ HandInv /\ [Next]_vars => HandInv'
<1> SUFFICES ASSUME TypeOK, OwnInv, HandInv, [Next]_vars PROVE HandInv'
    OBVIOUS
<1>1. ASSUME NEW s \in Sessions, NEW c \in Loaded(s), Continue(s, c) PROVE HandInv'
    BY <1>1, HandFound, HandCall, HandCommit, HandRecordOrCredit DEF Continue, Generate, Reconcile
<1>2. CASE Next
    BY <1>1, <1>2, HandBegin, HandFound, HandPay, HandRest DEF Next
<1>3. CASE UNCHANGED vars
    BY <1>3, HandRest
<1> QED BY <1>2, <1>3

LEMMA HandInit == Init => HandInv
<1> SUFFICES ASSUME Init PROVE HandInv
    OBVIOUS
<1>1. PaperInv
    BY DEF Init, PaperInv, CreditedWasPaid, ReportedWasPaid, ShownWasIssued
<1>2. \A s \in Sessions : Carries(sess[s], bill)
    BY DEF Init, Closed, Carries
<1> QED BY <1>1, <1>2 DEF HandInv

-----------------------------------------------------------------------------
(* What one step does to one row when handlers do not overlap: nothing, or   *)
(* one of seven moves.  The properties of the ledger follow from the moves.  *)

Quiet(c) == row'[c] = row[c] /\ events'[c] = events[c] /\ recorded'[c] = recorded[c]

Logged(c, to) == row'[c].status = to /\ events'[c] = Append(events[c], <<row[c].status, to>>)

SameInvoice(c) == row'[c].invoice_id = row[c].invoice_id

SameReceived(c) == row'[c].amount_received = row[c].amount_received /\ recorded'[c] = recorded[c]

SameExpected(c) == row'[c].amount_expected = row[c].amount_expected

Expires(c) ==
    /\ row[c].status = "PENDING" /\ Logged(c, "EXPIRED")
    /\ SameInvoice(c) /\ SameReceived(c) /\ SameExpected(c) /\ credited' = credited

\* The new invoice is the row's own and asks for what is outstanding.
TakesInvoice(c) ==
    /\ \/ row[c].status = "EXPIRED" /\ Logged(c, "PENDING")
       \/ row[c].status = "PENDING" /\ row'[c].status = "PENDING" /\ events'[c] = events[c]
    /\ SameReceived(c) /\ SameExpected(c) /\ credited' = credited
    /\ row'[c].invoice_id \in Invoices
    /\ bill[row'[c].invoice_id].owner = {c}
    /\ bill[row'[c].invoice_id].due = Outstanding(row[c])

\* The payment on the row's invoice, not credited before, is added.
TakesCredit(c) ==
    LET i == row[c].invoice_id IN
    /\ row[c].status \in Unpaid /\ i \in Invoices
    /\ credited[i] = 0 /\ credited' = [credited EXCEPT ![i] = 1] /\ bill' = bill
    /\ row'[c].amount_received = row[c].amount_received + bill[i].paid
    /\ Logged(c, Verdict(row'[c].amount_received, row[c].amount_expected))
    /\ SameInvoice(c) /\ SameExpected(c) /\ recorded'[c] = recorded[c]

TakesCash(c) ==
    /\ row[c].status \notin Resolved /\ Logged(c, "PAID_MANUAL")
    /\ \E cash \in Nat : /\ row'[c].amount_received = row[c].amount_received + cash
                         /\ recorded'[c] = recorded[c] + cash
    /\ SameInvoice(c) /\ SameExpected(c) /\ credited' = credited

IsAccepted(c) ==
    /\ row[c].status = "FLAGGED_FOR_REVIEW" /\ Logged(c, "PAID")
    /\ SameInvoice(c) /\ SameReceived(c) /\ SameExpected(c) /\ credited' = credited

IsReopened(c) ==
    /\ row[c].status = "FLAGGED_FOR_REVIEW" /\ Logged(c, "PENDING")
    /\ row'[c].invoice_id = NoInvoice
    /\ SameReceived(c) /\ SameExpected(c) /\ credited' = credited

IsRepriced(c) ==
    /\ row[c].status = "PENDING" /\ row'[c].status = "PENDING" /\ events'[c] = events[c]
    /\ row'[c].invoice_id = NoInvoice
    /\ SameReceived(c) /\ credited' = credited

Move(c) ==
    \/ Expires(c) \/ TakesInvoice(c) \/ TakesCredit(c) \/ TakesCash(c)
    \/ IsAccepted(c) \/ IsReopened(c) \/ IsRepriced(c)

LedgerStep ==
    /\ \A c \in Contribs : Quiet(c) \/ Move(c)
    /\ credited' = credited \/ \E c \in Contribs : TakesCredit(c)
    /\ BillGrows

\* What a session past its load knows of the row it holds, in serial order.
LEMMA FreshCopy ==
    ASSUME TypeOK, SerialInv, NEW s \in Sessions, NEW c \in Loaded(s),
           sess[s].pc \notin {"refresh", "mark"}
    PROVE  /\ c \in Contribs /\ row[c] \in Row /\ sess[s] \in Session
           /\ sess[s].loaded[c] = row[c]
           /\ sess[s].pc \in {"credit", "record"} => row[c].status \in Unpaid
           /\ sess[s].pc = "credit" => row[c].invoice_id = sess[s].invoice
           /\ sess[s].pc = "manual" => row[c].status \notin Resolved
           /\ sess[s].pc \in {"accept_partial", "request_topup"} => row[c].status = "FLAGGED_FOR_REVIEW"
           /\ sess[s].pc = "reprice" => row[c].status = "PENDING"
<1>1. c \in Contribs /\ sess[s].loaded[c] # NotLoaded /\ sess[s] \in Session /\ row[c] \in Row
    BY DEF Loaded, TypeOK
<1>2. FreshSession(sess[s], row, credited)
    BY DEF SerialInv, SessionsFresh
<1> QED BY <1>1, <1>2 DEF FreshSession

\* A commit to one row leaves the others as they are.
LEMMA OneRow ==
    ASSUME TypeOK, NEW c \in Contribs, NEW new, row' = [row EXCEPT ![c] = new],
           NEW h, events' = [events EXCEPT ![c] = h], NEW n, recorded' = [recorded EXCEPT ![c] = n],
           row'[c] = new /\ events'[c] = h /\ recorded'[c] = n => Move(c),
           bill' = bill, credited' = credited \/ TakesCredit(c)
    PROVE  LedgerStep
<1>1. row'[c] = new /\ events'[c] = h /\ recorded'[c] = n
    BY DEF TypeOK
<1>2. \A d \in Contribs : d # c => Quiet(d)
    BY DEF Quiet, TypeOK
<1> QED BY <1>1, <1>2, BillSame DEF LedgerStep

LEMMA OneRowLogged ==
    ASSUME TypeOK, NEW c \in Contribs, NEW new, row' = [row EXCEPT ![c] = new],
           NEW h, events' = [events EXCEPT ![c] = h], recorded' = recorded,
           row'[c] = new /\ events'[c] = h /\ recorded'[c] = recorded[c] => Move(c),
           bill' = bill, credited' = credited \/ TakesCredit(c)
    PROVE  LedgerStep
<1>1. row'[c] = new /\ events'[c] = h /\ recorded'[c] = recorded[c]
    BY DEF TypeOK
<1>2. \A d \in Contribs : d # c => Quiet(d)
    BY DEF Quiet, TypeOK
<1> QED BY <1>1, <1>2, BillSame DEF LedgerStep

LEMMA OneRowOnly ==
    ASSUME TypeOK, NEW c \in Contribs, NEW new, row' = [row EXCEPT ![c] = new],
           events' = events, recorded' = recorded,
           row'[c] = new /\ events'[c] = events[c] /\ recorded'[c] = recorded[c] => Move(c),
           bill' = bill, credited' = credited
    PROVE  LedgerStep
<1>1. row'[c] = new /\ events'[c] = events[c] /\ recorded'[c] = recorded[c]
    BY DEF TypeOK
<1>2. \A d \in Contribs : d # c => Quiet(d)
    BY DEF Quiet, TypeOK
<1> QED BY <1>1, <1>2, BillSame DEF LedgerStep

LEMMA MoveExpire ==
    ASSUME TypeOK, SerialInv, NEW s \in Sessions, NEW c \in Loaded(s),
           sess[s].pc \in {"expire", "lapse"}, ExpireRow(s, c)
    PROVE  LedgerStep
<1> DEFINE new == [row[c] EXCEPT !.status = "EXPIRED"]
<1>1. c \in Contribs /\ row[c] \in Row /\ sess[s].loaded[c] = row[c]
    BY FreshCopy
<1>2. row[c].status = "PENDING"
    BY <1>1 DEF ExpireRow, HasLapsed
<1>3. /\ new.status = "EXPIRED" /\ new.invoice_id = row[c].invoice_id
      /\ new.amount_received = row[c].amount_received /\ new.amount_expected = row[c].amount_expected
    BY <1>1 DEF Row
<1>4. /\ row' = [row EXCEPT ![c] = new] /\ bill' = bill /\ credited' = credited /\ recorded' = recorded
      /\ events' = [events EXCEPT ![c] = Append(events[c], <<"PENDING", "EXPIRED">>)]
    BY DEF ExpireRow, WriteEvent, outsideVars, historyVars
<1> HIDE DEF new
<1>5. row'[c] = new /\ events'[c] = Append(events[c], <<"PENDING", "EXPIRED">>)
      /\ recorded'[c] = recorded[c] => Expires(c)
    BY <1>2, <1>3, <1>4 DEF Expires, Logged, SameInvoice, SameReceived, SameExpected
<1> QED BY <1>1, <1>4, <1>5, OneRowLogged DEF Move

LEMMA MoveRecord ==
    ASSUME TypeOK, OwnInv, SerialInv, HandInv, NEW s \in Sessions, NEW c \in Loaded(s),
           GenerateRecord(s, c)
    PROVE  LedgerStep
<1> DEFINE i == sess[s].invoice
<1>0. sess[s].pc = "record" /\ sess[s].loaded[c] # NotLoaded
    BY DEF GenerateRecord, At, Loaded
<1>1. c \in Contribs /\ row[c] \in Row /\ sess[s].loaded[c] = row[c] /\ row[c].status \in Unpaid
    BY <1>0, FreshCopy
<1>2. i \in Invoices /\ bill[i].owner = {c} /\ bill[i].due = Outstanding(row[c])
    BY <1>0, <1>1 DEF OwnInv, OwnedSession, HandInv, Carries
<1>3. bill' = bill /\ credited' = credited /\ recorded' = recorded
    BY DEF GenerateRecord, historyVars
<1>4. CASE row[c].status = "EXPIRED"
    <2> DEFINE new == [row[c] EXCEPT !.invoice_id = i, !.status = "PENDING"]
    <2>1. /\ new.status = "PENDING" /\ new.invoice_id = i
          /\ new.amount_received = row[c].amount_received /\ new.amount_expected = row[c].amount_expected
        BY <1>1 DEF Row
    <2>2. /\ row' = [row EXCEPT ![c] = new]
          /\ events' = [events EXCEPT ![c] = Append(events[c], <<"EXPIRED", "PENDING">>)]
        BY <1>1, <1>4 DEF GenerateRecord, WriteEvent
    <2> HIDE DEF new
    <2>3. row'[c] = new /\ events'[c] = Append(events[c], <<"EXPIRED", "PENDING">>)
          /\ recorded'[c] = recorded[c] => TakesInvoice(c)
        <3> SUFFICES ASSUME row'[c] = new, events'[c] = Append(events[c], <<"EXPIRED", "PENDING">>),
                            recorded'[c] = recorded[c]
                     PROVE  TakesInvoice(c)
            OBVIOUS
        <3>1. Logged(c, "PENDING") /\ SameReceived(c) /\ SameExpected(c)
            BY <1>4, <2>1 DEF Logged, SameReceived, SameExpected
        <3>2. row'[c].invoice_id = i
            BY <2>1
        <3> QED BY <1>2, <1>3, <1>4, <3>1, <3>2 DEF TakesInvoice
    <2> QED BY <1>1, <1>3, <2>2, <2>3, OneRowLogged DEF Move
<1>5. CASE row[c].status = "PENDING"
    <2> DEFINE new == [row[c] EXCEPT !.invoice_id = i]
    <2>1. /\ new.status = row[c].status /\ new.invoice_id = i
          /\ new.amount_received = row[c].amount_received /\ new.amount_expected = row[c].amount_expected
        BY <1>1 DEF Row
    <2>2. row' = [row EXCEPT ![c] = new] /\ events' = events
        BY <1>1, <1>5 DEF GenerateRecord
    <2> HIDE DEF new
    <2>3. row'[c] = new /\ events'[c] = events[c] /\ recorded'[c] = recorded[c] => TakesInvoice(c)
        BY <1>2, <1>3, <1>5, <2>1 DEF TakesInvoice, SameReceived, SameExpected
    <2> QED BY <1>1, <1>3, <2>2, <2>3, OneRowOnly DEF Move
<1> QED BY <1>1, <1>4, <1>5 DEF Unpaid

LEMMA MoveCredit ==
    ASSUME TypeOK, OwnInv, SerialInv, HandInv, NEW s \in Sessions, NEW c \in Loaded(s), Credit(s, c)
    PROVE  LedgerStep
<1> DEFINE i     == sess[s].invoice
           total == row[c].amount_received + bill[i].paid
           to    == Verdict(total, row[c].amount_expected)
           new   == [row[c] EXCEPT !.status = to, !.amount_received = total]
<1>0. sess[s].pc = "credit" /\ sess[s].loaded[c] # NotLoaded
    BY DEF Credit, At, Loaded
<1>1. /\ c \in Contribs /\ row[c] \in Row /\ sess[s].loaded[c] = row[c] /\ row[c].status \in Unpaid
      /\ row[c].invoice_id = i
    BY <1>0, FreshCopy
<1>2. i \in Invoices /\ sess[s].amount = bill[i].paid
    BY <1>0, <1>1 DEF OwnInv, OwnedSession, HandInv, Carries
<1>3. credited[i] = 0
    BY <1>1, <1>2, NamesAssumption DEF SerialInv, LedgerInv, UncreditedWhileUnpaid
<1>4. /\ new.status = to /\ new.invoice_id = i
      /\ new.amount_received = total /\ new.amount_expected = row[c].amount_expected
    BY <1>1 DEF Row
<1>5. /\ row' = [row EXCEPT ![c] = new] /\ bill' = bill /\ recorded' = recorded
      /\ events' = [events EXCEPT ![c] = Append(events[c], <<row[c].status, to>>)]
    BY <1>1, <1>2 DEF Credit, WriteEvent, outsideVars
<1>6. credited' = [credited EXCEPT ![i] = 1]
    BY <1>3 DEF Credit
<1> HIDE DEF new
<1>7. row'[c] = new /\ events'[c] = Append(events[c], <<row[c].status, to>>)
      /\ recorded'[c] = recorded[c] => TakesCredit(c)
    BY <1>1, <1>2, <1>3, <1>4, <1>5, <1>6 DEF TakesCredit, Logged, SameInvoice, SameExpected
<1>8. row'[c] = new /\ events'[c] = Append(events[c], <<row[c].status, to>>) /\ recorded'[c] = recorded[c]
    BY <1>1, <1>5 DEF TypeOK
<1> QED BY <1>1, <1>5, <1>7, <1>8, OneRowLogged DEF Move

LEMMA MoveManual ==
    ASSUME TypeOK, SerialInv, NEW s \in Sessions, NEW c \in Loaded(s), ManualCommit(s, c)
    PROVE  LedgerStep
<1> DEFINE cash  == sess[s].amount
           total == row[c].amount_received + cash
           new   == [row[c] EXCEPT !.amount_received = total, !.status = "PAID_MANUAL"]
<1>0. sess[s].pc = "manual"
    BY DEF ManualCommit, At
<1>1. /\ c \in Contribs /\ row[c] \in Row /\ sess[s].loaded[c] = row[c] /\ row[c].status \notin Resolved
      /\ cash \in Nat
    BY <1>0, FreshCopy DEF Session
<1>2. /\ new.status = "PAID_MANUAL" /\ new.invoice_id = row[c].invoice_id
      /\ new.amount_received = total /\ new.amount_expected = row[c].amount_expected
    BY <1>1 DEF Row
<1>3. /\ row' = [row EXCEPT ![c] = new] /\ bill' = bill /\ credited' = credited
      /\ recorded' = [recorded EXCEPT ![c] = recorded[c] + cash]
      /\ events' = [events EXCEPT ![c] = Append(events[c], <<row[c].status, "PAID_MANUAL">>)]
    BY <1>1 DEF ManualCommit, WithCash, WriteEvent, outsideVars
<1> HIDE DEF new
<1>4. row'[c] = new /\ events'[c] = Append(events[c], <<row[c].status, "PAID_MANUAL">>)
      /\ recorded'[c] = recorded[c] + cash => TakesCash(c)
    BY <1>1, <1>2, <1>3 DEF TakesCash, Logged, SameInvoice, SameExpected
<1> QED BY <1>1, <1>3, <1>4, OneRow DEF Move

LEMMA MoveResolve ==
    ASSUME TypeOK, SerialInv, NEW s \in Sessions, NEW c \in Loaded(s),
           AcceptPartial(s, c) \/ RequestTopup(s, c)
    PROVE  LedgerStep
<1>0. sess[s].pc \in {"accept_partial", "request_topup"}
    BY DEF AcceptPartial, RequestTopup, At
<1>1. /\ c \in Contribs /\ row[c] \in Row /\ sess[s].loaded[c] = row[c]
      /\ row[c].status = "FLAGGED_FOR_REVIEW"
    BY <1>0, FreshCopy
<1>2. bill' = bill /\ credited' = credited /\ recorded' = recorded
    BY DEF AcceptPartial, RequestTopup, outsideVars, historyVars
<1>3. CASE AcceptPartial(s, c)
    <2> DEFINE new == [row[c] EXCEPT !.status = "PAID"]
    <2>1. /\ new.status = "PAID" /\ new.invoice_id = row[c].invoice_id
          /\ new.amount_received = row[c].amount_received /\ new.amount_expected = row[c].amount_expected
        BY <1>1 DEF Row
    <2>2. /\ row' = [row EXCEPT ![c] = new]
          /\ events' = [events EXCEPT ![c] = Append(events[c], <<"FLAGGED_FOR_REVIEW", "PAID">>)]
        BY <1>3 DEF AcceptPartial, WriteEvent
    <2> HIDE DEF new
    <2>3. row'[c] = new /\ events'[c] = Append(events[c], <<"FLAGGED_FOR_REVIEW", "PAID">>)
          /\ recorded'[c] = recorded[c] => IsAccepted(c)
        BY <1>1, <1>2, <2>1 DEF IsAccepted, Logged, SameInvoice, SameReceived, SameExpected
    <2> QED BY <1>1, <1>2, <2>2, <2>3, OneRowLogged DEF Move
<1>4. CASE RequestTopup(s, c)
    <2> DEFINE new == [row[c] EXCEPT !.status = "PENDING", !.invoice_id = NoInvoice]
    <2>1. /\ new.status = "PENDING" /\ new.invoice_id = NoInvoice
          /\ new.amount_received = row[c].amount_received /\ new.amount_expected = row[c].amount_expected
        BY <1>1 DEF Row
    <2>2. Cleared(row[c], c) = NoInvoice
        BY DEF Cleared
    <2>3. /\ row' = [row EXCEPT ![c] = new]
          /\ events' = [events EXCEPT ![c] = Append(events[c], <<"FLAGGED_FOR_REVIEW", "PENDING">>)]
        BY <1>1, <1>4, <2>2 DEF RequestTopup, WriteEvent
    <2> HIDE DEF new
    <2>4. row'[c] = new /\ events'[c] = Append(events[c], <<"FLAGGED_FOR_REVIEW", "PENDING">>)
          /\ recorded'[c] = recorded[c] => IsReopened(c)
        BY <1>1, <1>2, <2>1 DEF IsReopened, Logged, SameReceived, SameExpected
    <2> QED BY <1>1, <1>2, <2>3, <2>4, OneRowLogged DEF Move
<1> QED BY <1>3, <1>4

LEMMA MoveReprice ==
    ASSUME TypeOK, SerialInv, NEW s \in Sessions, RepriceCommit(s)
    PROVE  LedgerStep
<1>1. bill' = bill /\ credited' = credited /\ recorded' = recorded /\ events' = events /\ sess[s].pc = "reprice"
    BY DEF RepriceCommit, At, outsideVars, historyVars
<1>2. ASSUME NEW c \in Contribs PROVE Quiet(c) \/ IsRepriced(c)
    <2>1. CASE c \notin Loaded(s)
        BY <1>1, <2>1 DEF RepriceCommit, Quiet
    <2>2. CASE c \in Loaded(s)
        <3>1. row[c] \in Row /\ sess[s].loaded[c] = row[c] /\ row[c].status = "PENDING"
            BY <1>1, <2>2, FreshCopy
        <3>2. row'[c] = Repriced(s, c)
            BY <2>2 DEF RepriceCommit
        <3>3. CASE row'[c] = row[c]
            BY <1>1, <3>3 DEF Quiet
        <3>4. CASE row'[c] # row[c]
            <4>1. PICK price, i : row'[c] = [row[c] EXCEPT !.amount_expected = price, !.invoice_id = i]
                                  /\ i = NoInvoice
                BY <3>1, <3>2, <3>4 DEF Repriced, Cleared
            <4>2. /\ row'[c].status = row[c].status /\ row'[c].invoice_id = NoInvoice
                  /\ row'[c].amount_received = row[c].amount_received
                BY <3>1, <4>1 DEF Row
            <4> QED BY <1>1, <3>1, <4>2 DEF IsRepriced, SameReceived
        <3> QED BY <3>3, <3>4
    <2> QED BY <2>1, <2>2
<1> QED BY <1>1, <1>2, BillSame DEF LedgerStep, Move

\* Every other step leaves the rows and what was credited alone.
LEMMA MoveNone ==
    ASSUME UNCHANGED <<row, events, recorded, credited>>, BillGrows
    PROVE  LedgerStep
BY DEF LedgerStep, Quiet

LEMMA LedgerMoves ==
    ASSUME TypeOK, OwnInv, SerialInv, HandInv, [Next]_vars
    PROVE  LedgerStep
<1>1. ASSUME NEW s \in Sessions, NEW c \in Loaded(s), Continue(s, c) PROVE LedgerStep
    <2>1. CASE GenerateCall(s, c)
        <3>1. UNCHANGED <<row, events, recorded, credited>>
            BY <2>1 DEF GenerateCall, dbVars, historyVars
        <3> QED BY <2>1, <3>1, HandCall, MoveNone
    <2>2. CASE GenerateExpire(s, c) \/ ReconcileExpire(s, c)
        BY <2>2, MoveExpire DEF GenerateExpire, ReconcileExpire, At
    <2>3. CASE UNCHANGED <<row, events, recorded, credited, bill>>
        BY <2>3, BillSame, MoveNone
    <2>4. CASE GenerateNotLapsed(s, c) \/ GenerateRefresh(s, c) \/ GenerateStop(s, c)
               \/ ReconcileFound(s, c) \/ ReconcileNotFound(s, c) \/ ReconcileKeep(s, c)
        BY <2>3, <2>4 DEF GenerateNotLapsed, GenerateRefresh, GenerateStop, ReconcileFound,
                          ReconcileNotFound, ReconcileKeep, dbVars, outsideVars, historyVars
    <2> QED BY <1>1, <2>1, <2>2, <2>4, MoveRecord, MoveCredit, MoveManual, MoveResolve
            DEF Continue, Generate, Reconcile
<1>2. ASSUME UNCHANGED <<row, events, recorded, credited, bill>> PROVE LedgerStep
    BY <1>2, BillSame, MoveNone
<1>3. ASSUME NEW s \in Sessions, NEW c \in Contribs, Begin(s, c) PROVE LedgerStep
    BY <1>2, <1>3 DEF Begin, GenerateLoad, ReconcileLoad, ManualLoad, ResolveLoad,
                      dbVars, outsideVars, historyVars
<1>4. ASSUME NEW i \in Invoices, Pay(i) PROVE LedgerStep
    <2>1. UNCHANGED <<row, events, recorded, credited>>
        BY <1>4 DEF Pay, dbVars, historyVars
    <2> QED BY <1>4, <2>1, HandPay, MoveNone
<1>5. ASSUME \/ \E i \in Invoices : StoreEvent(i) \/ Reprocess(i) \/ Lapse(i)
             \/ \E s \in Sessions, i \in Invoices : WebhookMatch(s, i) \/ WebhookSkip(s, i)
             \/ \E s \in Sessions : WebhookMark(s) \/ RepriceLoad(s)
             \/ ClosePurse \/ ReopenPurse \/ DeadlinePasses \/ ChangeProvider \/ Crash \/ UNCHANGED vars
      PROVE  LedgerStep
    BY <1>2, <1>5 DEF StoreEvent, Reprocess, Lapse, WebhookMatch, WebhookSkip, WebhookMark,
       RepriceLoad, ClosePurse, ReopenPurse, DeadlinePasses, ChangeProvider, Crash, vars, dbVars, outsideVars, historyVars
<1> QED BY <1>1, <1>3, <1>4, <1>5, MoveReprice DEF Next

-----------------------------------------------------------------------------
(* What follows from the moves, for the rows' history and their amounts.     *)

Together == TypeOK /\ OwnInv /\ SerialInv /\ HandInv

LEMMA TogetherInit == Init => Together
BY TypeInit, OwnInit, SerialInit, HandInit DEF Together

LEMMA TogetherStep ==
    ASSUME Serial, Together, [Next]_vars
    PROVE  Together' /\ LedgerStep
BY TypeStep, OwnStep, SerialStep, HandStep, LedgerMoves DEF Together

\* A move logs the status it ends in, or keeps the status and the history.
LEMMA MoveLogs ==
    ASSUME Together, NEW c \in Contribs, Quiet(c) \/ Move(c)
    PROVE  \/ row'[c].status = row[c].status /\ events'[c] = events[c]
           \/ \E to \in Status : Logged(c, to)
<1>1. \A total, expected : Verdict(total, expected) \in Status
    BY DEF Verdict, Status
<1>2. CASE TakesCredit(c)
    BY <1>1, <1>2 DEF TakesCredit
<1>3. CASE Quiet(c) \/ IsRepriced(c)
    BY <1>3 DEF Quiet, IsRepriced
<1>4. CASE Expires(c) \/ TakesCash(c) \/ IsAccepted(c) \/ IsReopened(c)
    BY <1>4 DEF Expires, TakesCash, IsAccepted, IsReopened, Status
<1>5. CASE TakesInvoice(c)
    BY <1>5 DEF TakesInvoice, Status
<1> QED BY <1>2, <1>3, <1>4, <1>5 DEF Move

History == Seq(Status \X Status)

LEMMA EventAppended ==
    ASSUME NEW h \in History, NEW from \in Status, NEW to \in Status
    PROVE  LET g == Append(h, <<from, to>>) IN
           /\ Len(h) \in Nat /\ Len(g) = Len(h) + 1 /\ g # <<>> /\ g[Len(g)] = <<from, to>>
           /\ \A k \in 1 .. Len(h) : g[k] = h[k]
BY SMTT(60) DEF History

LEMMA EmptyHistory ==
    ASSUME NEW h \in History
    PROVE  h = <<>> <=> Len(h) = 0
BY DEF History

\* What HistoryIsPath says of one row.
Path(h, status) ==
    /\ \A k \in 1 .. Len(h) : h[k][1] = IF k = 1 THEN "PENDING" ELSE h[k - 1][2]
    /\ status = IF h = <<>> THEN "PENDING" ELSE h[Len(h)][2]

LEMMA PathExtends ==
    ASSUME NEW h \in History, NEW from \in Status, NEW to \in Status, Path(h, from)
    PROVE  Path(Append(h, <<from, to>>), to)
<1> DEFINE g == Append(h, <<from, to>>)
<1>1. /\ Len(h) \in Nat /\ Len(g) = Len(h) + 1 /\ g # <<>> /\ g[Len(g)] = <<from, to>>
      /\ \A k \in 1 .. Len(h) : g[k] = h[k]
    BY EventAppended
<1> HIDE DEF g
<1>2. ASSUME NEW k \in 1 .. Len(g) PROVE g[k][1] = IF k = 1 THEN "PENDING" ELSE g[k - 1][2]
    <2>1. CASE k \in 1 .. Len(h)
        <3>1. k # 1 => k - 1 \in 1 .. Len(h)
            BY <1>1, <2>1
        <3> QED BY <1>1, <2>1, <3>1 DEF Path
    <2>2. CASE k = Len(g)
        <3>1. g[k][1] = from
            BY <1>1, <2>2
        <3>2. CASE Len(h) = 0
            BY <1>1, <2>2, <3>1, <3>2, EmptyHistory DEF Path
        <3>3. CASE Len(h) # 0
            <4>1. k # 1 /\ k - 1 = Len(h) /\ Len(h) \in 1 .. Len(h)
                BY <1>1, <2>2, <3>3
            <4>2. from = h[Len(h)][2]
                BY <3>3, EmptyHistory DEF Path
            <4> QED BY <1>1, <3>1, <4>1, <4>2
        <3> QED BY <3>2, <3>3
    <2> QED BY <1>1, <2>1, <2>2
<1>3. to = IF g = <<>> THEN "PENDING" ELSE g[Len(g)][2]
    BY <1>1
<1>4. Path(g, to)
    BY <1>2, <1>3 DEF Path
<1> QED BY <1>4 DEF g

\* In serial order the recorded history of every row is a path that ends at
\* the row's status: no handler logs a status it did not find (_write_event).
THEOREM SerialHistoryIsPath ==
    ASSUME Serial
    PROVE  Spec => []HistoryIsPath
<1> DEFINE Paths == \A c \in Contribs : Path(events[c], row[c].status)
<1>1. Init => Together /\ Paths
    <2>1. Init => Paths
        BY DEF Init, Path
    <2> QED BY <2>1, TogetherInit
<1>2. ASSUME Together, Paths, [Next]_vars PROVE Together' /\ Paths'
    <2>1. Together' /\ LedgerStep
        BY <1>2, TogetherStep
    <2>2. ASSUME NEW c \in Contribs PROVE Path(events'[c], row'[c].status)
        <3>1. events[c] \in History /\ row[c].status \in Status
            <4>1. row[c] \in Row
                BY <1>2 DEF Together, TypeOK
            <4> QED BY <1>2, <4>1 DEF Together, TypeOK, History, Row
        <3>2. CASE row'[c].status = row[c].status /\ events'[c] = events[c]
            BY <1>2, <3>2
        <3>3. ASSUME NEW to \in Status, Logged(c, to) PROVE Path(events'[c], row'[c].status)
            BY <1>2, <3>1, <3>3, PathExtends DEF Logged
        <3> QED BY <1>2, <2>1, <3>2, <3>3, MoveLogs DEF LedgerStep
    <2> QED BY <2>1, <2>2
<1>3. Paths => HistoryIsPath
    BY DEF Path, HistoryIsPath
<1> QED BY <1>1, <1>2, <1>3, PTL DEF Spec

-----------------------------------------------------------------------------
\* What PaidInFull says of one row.
Accepted(h) == \E k \in 1 .. Len(h) : h[k] = <<"FLAGGED_FOR_REVIEW", "PAID">>

InFull(r, h) == r.status = "PAID" /\ ~Accepted(h) => r.amount_received = r.amount_expected

LEMMA InFullKept ==
    ASSUME Together, NEW c \in Contribs, InFull(row[c], events[c]), Quiet(c) \/ Move(c)
    PROVE  InFull(row'[c], events'[c])
<1>1. CASE Quiet(c)
    BY <1>1 DEF Quiet
<1>2. CASE Expires(c) \/ TakesInvoice(c) \/ TakesCash(c) \/ IsReopened(c) \/ IsRepriced(c)
    <2>1. row'[c].status # "PAID"
        BY <1>2 DEF Expires, TakesInvoice, TakesCash, IsReopened, IsRepriced, Logged
    <2> QED BY <2>1 DEF InFull
<1>3. CASE TakesCredit(c)
    BY <1>3 DEF InFull, TakesCredit, Logged, Verdict, SameExpected
<1>4. CASE IsAccepted(c)
    <2>1. events[c] \in History /\ row[c].status \in Status
        <3>1. row[c] \in Row
            BY DEF Together, TypeOK
        <3> QED BY <3>1 DEF Together, TypeOK, History, Row
    <2>2. events'[c] = Append(events[c], <<"FLAGGED_FOR_REVIEW", "PAID">>)
        BY <1>4 DEF IsAccepted, Logged
    <2>3. /\ Len(events[c]) \in Nat /\ Len(events'[c]) = Len(events[c]) + 1
          /\ events'[c][Len(events'[c])] = <<"FLAGGED_FOR_REVIEW", "PAID">>
        BY <1>4, <2>1, <2>2, EventAppended DEF Status
    <2>4. Len(events'[c]) \in 1 .. Len(events'[c])
        BY <2>3
    <2> QED BY <2>3, <2>4 DEF InFull, Accepted
<1> QED BY <1>1, <1>2, <1>3, <1>4 DEF Move

\* In serial order a row that is PAID, and not because an admin accepted a
\* mismatch, was paid exactly what the purse asks of it
\* (apply_payment_confirmation, update_amount_for_pending).
THEOREM SerialPaidInFull ==
    ASSUME Serial
    PROVE  Spec => []PaidInFull
<1> DEFINE Full == \A c \in Contribs : InFull(row[c], events[c])
<1>1. Init => Together /\ Full
    <2>1. Init => Full
        BY DEF Init, InFull
    <2> QED BY <2>1, TogetherInit
<1>2. ASSUME Together, Full, [Next]_vars PROVE Together' /\ Full'
    BY <1>2, TogetherStep, InFullKept DEF LedgerStep
<1>3. Full => PaidInFull
    BY DEF InFull, Accepted, PaidInFull
<1> QED BY <1>1, <1>2, <1>3, PTL DEF Spec

-----------------------------------------------------------------------------
\* What LiveInvoiceAsksRemainder says of one row, whether or not the invoice
\* has lapsed: an EXPIRED row still carries an invoice that can be paid.
AsksRemainder(r, bills) ==
    r.status \in Unpaid /\ r.invoice_id # NoInvoice => bills[r.invoice_id].due = Outstanding(r)

LEMMA AsksRemainderKept ==
    ASSUME Together, NEW c \in Contribs, AsksRemainder(row[c], bill), BillGrows, Quiet(c) \/ Move(c)
    PROVE  AsksRemainder(row'[c], bill')
<1>0. row[c] \in Row /\ Owned(row[c].invoice_id, c)
    BY DEF Together, TypeOK, OwnInv
<1>1. row[c].invoice_id # NoInvoice =>
         row[c].invoice_id \in Invoices /\ bill'[row[c].invoice_id].due = bill[row[c].invoice_id].due
    BY <1>0 DEF Row, Owned, BillGrows
<1>2. CASE Quiet(c)
    BY <1>1, <1>2 DEF Quiet, AsksRemainder
<1>3. CASE Expires(c)
    BY <1>1, <1>3 DEF Expires, SameInvoice, SameReceived, SameExpected, AsksRemainder, Outstanding, Unpaid
<1>4. CASE TakesInvoice(c)
    <2> DEFINE i == row'[c].invoice_id
    <2>1. i \in Invoices /\ bill[i].owner = {c} /\ bill[i].due = Outstanding(row[c])
        BY <1>4 DEF TakesInvoice
    <2>2. bill'[i].due = bill[i].due
        BY <2>1 DEF BillGrows
    <2>3. Outstanding(row'[c]) = Outstanding(row[c])
        BY <1>4 DEF TakesInvoice, SameReceived, SameExpected, Outstanding
    <2> QED BY <2>1, <2>2, <2>3 DEF AsksRemainder
<1>5. CASE TakesCredit(c) \/ TakesCash(c) \/ IsAccepted(c)
    <2>1. row'[c].status \notin Unpaid
        BY <1>5 DEF TakesCredit, TakesCash, IsAccepted, Logged, Verdict, Unpaid
    <2> QED BY <2>1 DEF AsksRemainder
<1>6. CASE IsReopened(c) \/ IsRepriced(c)
    BY <1>6 DEF IsReopened, IsRepriced, AsksRemainder
<1> QED BY <1>2, <1>3, <1>4, <1>5, <1>6 DEF Move

\* In serial order the invoice a member can pay asks for exactly what is still
\* missing, after every edit of the amount and every top-up (generate_invoice,
\* update_amount_for_pending, resolve_flag).
THEOREM SerialLiveInvoiceAsksRemainder ==
    ASSUME Serial
    PROVE  Spec => []LiveInvoiceAsksRemainder
<1> DEFINE Asks == \A c \in Contribs : AsksRemainder(row[c], bill)
<1>1. Init => Together /\ Asks
    <2>1. Init => Asks
        BY DEF Init, AsksRemainder
    <2> QED BY <2>1, TogetherInit
<1>2. ASSUME Together, Asks, [Next]_vars PROVE Together' /\ Asks'
    BY <1>2, TogetherStep, AsksRemainderKept DEF LedgerStep
<1>3. Asks => LiveInvoiceAsksRemainder
    BY DEF AsksRemainder, LiveInvoiceAsksRemainder, HasLiveInvoice, Unpaid
<1> QED BY <1>1, <1>2, <1>3, PTL DEF Spec

-----------------------------------------------------------------------------
(* The books.  What was credited to a row is a sum over all invoices, where  *)
(* only the row's own count; a step changes one summand, or none.            *)

Share(c, bills, times) ==
    [i \in Invoices |-> IF bills[i].owner = {c} THEN times[i] * bills[i].paid ELSE 0]

LEMMA SharesAreNumbers ==
    ASSUME Together, NEW c \in Contribs
    PROVE  /\ \A i \in Invoices : Share(c, bill, credited)[i] \in Nat
           /\ SumOver(Share(c, bill, credited), Invoices) \in Int
<1>1. ASSUME NEW i \in Invoices PROVE Share(c, bill, credited)[i] \in Nat
    <2>1. bill[i].paid \in Nat /\ credited[i] \in Nat
        BY DEF Together, TypeOK, Bill
    <2>2. credited[i] * bill[i].paid \in Nat
        BY <2>1
    <2> QED BY <2>2 DEF Share
<1> QED BY <1>1, SumIsInteger, FiniteAssumption

LEMMA CreditsAreShares ==
    ASSUME Together, NEW c \in Contribs
    PROVE  Credits(c) = SumOver(Share(c, bill, credited), Invoices)
<1> DEFINE own == {i \in Invoices : bill[i].owner = {c}}
           w   == [i \in own |-> credited[i] * bill[i].paid]
           all == [i \in Invoices |-> credited[i] * bill[i].paid]
<1>1. Credits(c) = SumOver(w, own)
    BY ZenonT(60) DEF Credits, MapThenSumSet, MapThenFoldSet, SumOver
<1>2. own = Invoices \cap own /\ IsFiniteSet(own)
    BY FiniteAssumption, FS_Subset
<1>3. SumOver(w, own) = SumOver(all, own)
    BY <1>2, SumSame
<1>4. \A i \in Invoices : all[i] \in Int
    <2> TAKE i \in Invoices
    <2>1. bill[i].paid \in Nat /\ credited[i] \in Nat
        BY DEF Together, TypeOK, Bill
    <2> QED BY <2>1
<1>5. \A i \in Invoices : Share(c, bill, credited)[i] = IF i \in own THEN all[i] ELSE 0
    BY DEF Share
<1> HIDE DEF own, w, all
<1>6. SumOver(Share(c, bill, credited), Invoices) = SumOver(all, Invoices \cap own)
    BY <1>4, <1>5, SumRestricted, FiniteAssumption
<1> QED BY <1>1, <1>2, <1>3, <1>6, Zenon

\* A payment that was not credited before this step counts for nobody; one that
\* was counts for the same row as before.
LEMMA ShareKept ==
    ASSUME Together, Together', LedgerStep, NEW c \in Contribs, NEW i \in Invoices,
           credited'[i] = credited[i]
    PROVE  Share(c, bill', credited')[i] = Share(c, bill, credited)[i]
<1>1. /\ bill[i].paid \in Nat /\ credited[i] \in Nat /\ bill'[i].paid \in Nat
      /\ bill[i].owner = {} => credited[i] = 0
      /\ credited[i] > 0 => bill[i].paid > 0
    BY DEF Together, TypeOK, Bill, SerialInv, LedgerInv, UncreditedUntilIssued,
           HandInv, PaperInv, CreditedWasPaid
<1>2. CASE credited[i] = 0
    BY <1>1, <1>2 DEF Share
<1>3. CASE credited[i] # 0
    <2>1. bill'[i].owner = bill[i].owner /\ bill'[i].paid = bill[i].paid
        BY <1>1, <1>3 DEF LedgerStep, BillGrows
    <2> QED BY <2>1 DEF Share
<1> QED BY <1>2, <1>3

LEMMA SharesKept ==
    ASSUME Together, Together', LedgerStep, NEW c \in Contribs, ~TakesCredit(c)
    PROVE  SumOver(Share(c, bill', credited'), Invoices) = SumOver(Share(c, bill, credited), Invoices)
<1>1. CASE credited' = credited
    BY <1>1, ShareKept, SumSame, FiniteAssumption
<1>2. ASSUME NEW d \in Contribs, TakesCredit(d)
      PROVE  \A i \in Invoices : Share(c, bill', credited')[i] = Share(c, bill, credited)[i]
    <2> TAKE i \in Invoices
    <2>1. CASE credited'[i] = credited[i]
        BY <2>1, ShareKept
    <2>2. CASE credited'[i] # credited[i]
        <3>1. i = row[d].invoice_id /\ credited[i] = 0 /\ bill' = bill
            BY <1>2, <2>2 DEF TakesCredit, Together, TypeOK
        <3>2. bill[i].owner = {d} /\ c # d
            BY <1>2, <3>1, NamesAssumption DEF Together, OwnInv, Owned
        <3> QED BY <3>1, <3>2 DEF Share
    <2> QED BY <2>1, <2>2
<1> QED BY <1>1, <1>2, SumSame, FiniteAssumption DEF LedgerStep

LEMMA SharesGrow ==
    ASSUME Together, Together', LedgerStep, NEW c \in Contribs, TakesCredit(c)
    PROVE  /\ SumOver(Share(c, bill', credited'), Invoices)
                 = SumOver(Share(c, bill, credited), Invoices) + bill[row[c].invoice_id].paid
           /\ bill[row[c].invoice_id].paid \in Nat
<1> DEFINE j   == row[c].invoice_id
           old == Share(c, bill, credited)
           new == Share(c, bill', credited')
<1>1. j \in Invoices /\ credited[j] = 0 /\ credited'[j] = 1 /\ bill' = bill
    BY DEF TakesCredit, Together, TypeOK
<1>2. bill[j].owner = {c} /\ bill[j].paid \in Nat
    BY <1>1, NamesAssumption DEF Together, OwnInv, Owned, TypeOK, Bill
<1>3. old[j] = 0 /\ new[j] = bill[j].paid
    BY <1>1, <1>2 DEF Share
<1>4. \A i \in Invoices \ {j} : new[i] = old[i]
    <2> TAKE i \in Invoices \ {j}
    <2>1. credited'[i] = credited[i]
        BY DEF TakesCredit, Together, TypeOK
    <2> QED BY <2>1, ShareKept
<1>5. \A i \in Invoices : old[i] \in Nat
    BY SharesAreNumbers
<1>6. \A i \in Invoices : old[i] \in Int /\ new[i] \in Int
    BY <1>2, <1>3, <1>4, <1>5
<1> HIDE DEF j, old, new
<1>7. SumOver(new, Invoices) = SumOver(old, Invoices) + new[j] - old[j]
    BY <1>1, <1>4, <1>6, SumChanged, FiniteAssumption
<1>8. SumOver(old, Invoices) \in Int
    BY <1>6, SumIsInteger, FiniteAssumption
<1>9. SumOver(new, Invoices) = SumOver(old, Invoices) + bill[j].paid
    BY <1>2, <1>3, <1>7, <1>8
<1> QED BY <1>2, <1>9 DEF j, old, new

Balanced(c, rows, bills, times, cash) ==
    rows[c].amount_received = SumOver(Share(c, bills, times), Invoices) + cash[c]

LEMMA BalanceKept ==
    ASSUME Together, Together', LedgerStep, NEW c \in Contribs, Balanced(c, row, bill, credited, recorded)
    PROVE  Balanced(c, row', bill', credited', recorded')
<1> DEFINE old == SumOver(Share(c, bill, credited), Invoices)
           new == SumOver(Share(c, bill', credited'), Invoices)
<1>1. row[c].amount_received = old + recorded[c] /\ old \in Int /\ recorded[c] \in Nat
    BY SharesAreNumbers DEF Balanced, Together, TypeOK
<1>2. ~TakesCredit(c) => new = old
    BY SharesKept
<1>3. TakesCredit(c) => new = old + bill[row[c].invoice_id].paid /\ bill[row[c].invoice_id].paid \in Nat
    BY SharesGrow
<1> HIDE DEF old, new
<1>4. CASE TakesCredit(c)
    <2>1. /\ row'[c].amount_received = row[c].amount_received + bill[row[c].invoice_id].paid
          /\ recorded'[c] = recorded[c]
        BY <1>4 DEF TakesCredit
    <2>2. row'[c].amount_received = new + recorded'[c]
        BY <1>1, <1>3, <1>4, <2>1
    <2> QED BY <2>2 DEF Balanced, new
<1>5. CASE TakesCash(c) /\ ~TakesCredit(c)
    <2>1. PICK cash \in Nat : /\ row'[c].amount_received = row[c].amount_received + cash
                              /\ recorded'[c] = recorded[c] + cash
        BY <1>5 DEF TakesCash
    <2>2. row'[c].amount_received = new + recorded'[c]
        BY <1>1, <1>2, <1>5, <2>1
    <2> QED BY <2>2 DEF Balanced, new
<1>6. CASE ~TakesCredit(c) /\ ~TakesCash(c)
    <2>1. row'[c].amount_received = row[c].amount_received /\ recorded'[c] = recorded[c]
        BY <1>6 DEF LedgerStep, Quiet, Move, Expires, TakesInvoice, IsAccepted, IsReopened,
                    IsRepriced, SameReceived
    <2>2. row'[c].amount_received = new + recorded'[c]
        BY <1>1, <1>2, <1>6, <2>1
    <2> QED BY <2>2 DEF Balanced, new
<1> QED BY <1>4, <1>5, <1>6

-----------------------------------------------------------------------------
(* What the reports call collected.                                          *)

CashInv == \A c \in Contribs : recorded[c] # 0 => row[c].status = "PAID_MANUAL"

LEMMA CashKept ==
    ASSUME Together, CashInv, LedgerStep
    PROVE  CashInv'
<1> SUFFICES ASSUME NEW c \in Contribs, recorded'[c] # 0 PROVE row'[c].status = "PAID_MANUAL"
    BY DEF CashInv
<1>1. CASE TakesCash(c)
    BY <1>1 DEF TakesCash, Logged
<1>2. CASE ~TakesCash(c)
    <2>1. recorded'[c] = recorded[c]
        BY <1>2 DEF LedgerStep, Quiet, Move, Expires, TakesInvoice, TakesCredit, IsAccepted,
                    IsReopened, IsRepriced, SameReceived
    <2>2. row[c].status = "PAID_MANUAL"
        BY <2>1 DEF CashInv
    <2>3. Quiet(c)
        BY <1>2, <2>2 DEF LedgerStep, Move, Expires, TakesInvoice, TakesCredit, IsAccepted,
                    IsReopened, IsRepriced, Unpaid
    <2> QED BY <2>2, <2>3 DEF Quiet
<1> QED BY <1>1, <1>2

\* The invariant behind the books, cash included.
BooksInv ==
    /\ Together
    /\ \A c \in Contribs : Balanced(c, row, bill, credited, recorded)
    /\ CashInv

LEMMA BooksInit == Init => BooksInv
<1> SUFFICES ASSUME Init PROVE BooksInv
    OBVIOUS
<1>1. ASSUME NEW c \in Contribs PROVE Balanced(c, row, bill, credited, recorded)
    <2>1. \A i \in Invoices : Share(c, bill, credited)[i] = 0
        BY DEF Init, Share
    <2>2. SumOver(Share(c, bill, credited), Invoices) = 0
        BY <2>1, SumOfZeros, FiniteAssumption
    <2> QED BY <2>2 DEF Init, Balanced
<1>2. CashInv
    BY DEF Init, CashInv
<1> QED BY <1>1, <1>2, TogetherInit DEF BooksInv

LEMMA BooksStep ==
    ASSUME Serial, BooksInv, [Next]_vars
    PROVE  BooksInv'
<1>1. Together' /\ LedgerStep
    BY TogetherStep DEF BooksInv
<1>2. \A c \in Contribs : Balanced(c, row', bill', credited', recorded')
    BY <1>1, BalanceKept DEF BooksInv
<1>3. CashInv'
    BY <1>1, CashKept DEF BooksInv
<1> QED BY <1>1, <1>2, <1>3 DEF BooksInv, Balanced

LEMMA BooksOfRow ==
    ASSUME BooksInv, NEW c \in Contribs
    PROVE  /\ row[c].amount_received = Credits(c) + recorded[c] /\ recorded[c] \in Nat
           /\ Credits(c) = SumOver(Share(c, bill, credited), Invoices) /\ Credits(c) \in Nat
           /\ row[c].status = "PAID" => row[c].amount_received = Credits(c)
<1>1. Together
    BY DEF BooksInv
<1>2. Credits(c) = SumOver(Share(c, bill, credited), Invoices)
    BY <1>1, CreditsAreShares
<1>3. Credits(c) \in Nat
    BY <1>1, <1>2, SharesAreNumbers, SumOfNaturals, FiniteAssumption
<1>4. row[c].amount_received = Credits(c) + recorded[c] /\ recorded[c] \in Nat
    BY <1>1, <1>2 DEF BooksInv, Balanced, Together, TypeOK
<1>5. row[c].status = "PAID" => recorded[c] = 0
    BY DEF BooksInv, CashInv
<1> QED BY <1>2, <1>3, <1>4, <1>5

\* In serial order what a row says was received is what was credited to it from
\* the provider plus the cash recorded on it: nothing is lost, nothing is minted
\* (apply_payment_confirmation, mark_manual).
THEOREM SerialBooksBalance ==
    ASSUME Serial
    PROVE  Spec => []BooksBalance
<1>1. BooksInv => BooksBalance
    BY BooksOfRow DEF BooksBalance
<1>2. BooksInv /\ [Next]_vars => BooksInv'
    BY BooksStep
<1> QED BY <1>1, <1>2, BooksInit, PTL DEF Spec

\* The rows of S share the payments between them: an invoice counts for the row
\* it was issued for, and for no other.
Shared(S) ==
    [i \in Invoices |-> IF \E c \in S : bill[i].owner = {c} THEN credited[i] * bill[i].paid ELSE 0]

LEMMA SharedSum ==
    ASSUME Together, NEW S \in SUBSET Contribs,
           NEW w, \A c \in S : w[c] = SumOver(Share(c, bill, credited), Invoices)
    PROVE  SumOver(w, S) = SumOver(Shared(S), Invoices)
<1> DEFINE F == {s \in SUBSET S : SumOver(w, s) = SumOver(Shared(s), Invoices)}
<1>0. IsFiniteSet(S) /\ \A s \in SUBSET S : IsFiniteSet(s)
    BY FiniteAssumption, FS_Subset
<1>a. \A c \in S : w[c] \in Int
    BY SharesAreNumbers
<1>b. \A i \in Invoices : credited[i] * bill[i].paid \in Int
    <2> TAKE i \in Invoices
    <2>1. bill[i].paid \in Nat /\ credited[i] \in Nat
        BY DEF Together, TypeOK, Bill
    <2> QED BY <2>1
<1>1. {} \in F
    <2>1. \A i \in Invoices : Shared({})[i] = 0
        BY DEF Shared
    <2>2. SumOver(Shared({}), Invoices) = 0
        BY <2>1, SumOfZeros, FiniteAssumption
    <2> QED BY <2>2, SumOfNone
<1>2. ASSUME NEW s \in SUBSET S, NEW x \in S \ s, s \in F PROVE s \cup {x} \in F
    <2>1. SumOver(w, s \cup {x}) = SumOver(w, s) + w[x]
        BY <1>0, <1>a, SumWith
    <2>2. ASSUME NEW i \in Invoices
          PROVE  /\ Shared(s)[i] \in Int /\ Share(x, bill, credited)[i] \in Int
                 /\ Shared(s \cup {x})[i] = Shared(s)[i] + Share(x, bill, credited)[i]
        <3> DEFINE n == credited[i] * bill[i].paid
        <3>1. n \in Int
            BY <1>b
        <3>2. /\ Shared(s)[i] = IF \E c \in s : bill[i].owner = {c} THEN n ELSE 0
              /\ Share(x, bill, credited)[i] = IF bill[i].owner = {x} THEN n ELSE 0
              /\ Shared(s \cup {x})[i] = IF \E c \in s \cup {x} : bill[i].owner = {c} THEN n ELSE 0
            BY DEF Shared, Share
        <3> HIDE DEF n
        <3>3. bill[i].owner = {x} => ~\E c \in s : bill[i].owner = {c}
            OBVIOUS
        <3>4. (\E c \in s \cup {x} : bill[i].owner = {c}) <=>
                 (\E c \in s : bill[i].owner = {c}) \/ bill[i].owner = {x}
            OBVIOUS
        <3> QED BY <3>1, <3>2, <3>3, <3>4
    <2>3. SumOver(Shared(s \cup {x}), Invoices)
            = SumOver(Shared(s), Invoices) + SumOver(Share(x, bill, credited), Invoices)
        BY <2>2, SumAdds, FiniteAssumption
    <2>4. SumOver(w, s) = SumOver(Shared(s), Invoices) /\ w[x] = SumOver(Share(x, bill, credited), Invoices)
        BY <1>2
    <2>5. SumOver(w, s \cup {x}) = SumOver(Shared(s \cup {x}), Invoices)
        BY <2>1, <2>3, <2>4, Zenon
    <2> QED BY <2>5
<1> HIDE DEF F
<1>3. S \in F
    BY <1>0, <1>1, <1>2, OneByOne
<1> QED BY <1>3 DEF F

\* In serial order what counts as collected through the platform, and may be
\* paid out, is money a provider confirmed: no cash is in it, and it is never
\* more than what was paid on the invoices (summary_for_purse, _collected_total).
THEOREM SerialCollectedIsReal ==
    ASSUME Serial
    PROVE  Spec => []CollectedIsReal
<1>1. ASSUME BooksInv PROVE CollectedIsReal
    <2> DEFINE S      == Having({"PAID"})
               got    == [c \in S |-> row[c].amount_received]
               earned == [c \in S |-> Credits(c)]
               paid   == [i \in Invoices |-> bill[i].paid]
    <2>0. S \subseteq Contribs /\ IsFiniteSet(S)
        BY FiniteAssumption, FS_Subset DEF Having
    <2>1. Received(S) = SumOver(got, S)
        BY ZenonT(60) DEF Received, MapThenSumSet, MapThenFoldSet, SumOver
    <2>2. MapThenSumSet(Credits, S) = SumOver(earned, S)
        BY ZenonT(60) DEF MapThenSumSet, MapThenFoldSet, SumOver
    <2>3. MapThenSumSet(LAMBDA i : bill[i].paid, Invoices) = SumOver(paid, Invoices)
        BY ZenonT(60) DEF MapThenSumSet, MapThenFoldSet, SumOver
    <2>4. \A c \in S : got[c] = earned[c] /\ earned[c] = SumOver(Share(c, bill, credited), Invoices)
        BY <1>1, BooksOfRow DEF Having
    <2> HIDE DEF S, got, earned, paid
    <2>5. SumOver(got, S) = SumOver(earned, S)
        BY <2>0, <2>4, SumSame
    <2>6. SumOver(earned, S) = SumOver(Shared(S), Invoices)
        BY <1>1, <2>0, <2>4, SharedSum DEF BooksInv
    <2>7. SumOver(Shared(S), Invoices) <= SumOver(paid, Invoices)
        <3>1. ASSUME NEW i \in Invoices
              PROVE  Shared(S)[i] \in Int /\ paid[i] \in Int /\ Shared(S)[i] <= paid[i]
            <4>1. bill[i].paid \in Nat /\ credited[i] \in {0, 1}
                BY <1>1 DEF BooksInv, Together, TypeOK, Bill, SerialInv, LedgerInv, CreditedAtMostOnce
            <4>2. credited[i] * bill[i].paid \in {0, bill[i].paid}
                BY <4>1
            <4> QED BY <4>1, <4>2 DEF Shared, paid
        <3> QED BY <3>1, SumGrows, FiniteAssumption
    <2>8. PayableCollected = SumOver(got, S) /\ Summary.collected_via_kontributa = SumOver(got, S)
        BY <2>1 DEF PayableCollected, Summary, S
    <2>9. /\ Summary.collected_via_kontributa = MapThenSumSet(Credits, S)
          /\ PayableCollected <= MapThenSumSet(LAMBDA i : bill[i].paid, Invoices)
        BY <2>2, <2>3, <2>5, <2>6, <2>7, <2>8
    <2> QED BY <2>9 DEF S, CollectedIsReal
<1>2. BooksInv /\ [Next]_vars => BooksInv'
    BY BooksStep
<1> QED BY <1>1, <1>2, BooksInit, PTL DEF Spec

-----------------------------------------------------------------------------
(* The views of a purse: counts, tabs and totals hold of any typed state.    *)

LEMMA StatusOfRow ==
    ASSUME TypeOK, NEW c \in Contribs
    PROVE  row[c].status \in {"PENDING", "PAID", "EXPIRED", "FLAGGED_FOR_REVIEW", "PAID_MANUAL"}
<1>1. row[c] \in Row
    BY DEF TypeOK
<1> QED BY <1>1 DEF Row, Status

LEMMA NobodyCounts == Cardinality({}) = 0
BY FS_EmptySet

LEMMA DisjointCount ==
    ASSUME NEW S, NEW T, IsFiniteSet(S), IsFiniteSet(T), S \cap T = {}
    PROVE  Cardinality(S \cup T) = Cardinality(S) + Cardinality(T)
<1>1. Cardinality(S \cup T) = Cardinality(S) + Cardinality(T) - Cardinality(S \cap T)
    BY FS_Union
<1>2. Cardinality(S) \in Nat /\ Cardinality(T) \in Nat /\ Cardinality(S \cap T) = 0
    BY FS_CardinalityType, NobodyCounts
<1> QED BY <1>1, <1>2

\* Two groups of rows with no status in common are counted one by one.
LEMMA CountOfBoth ==
    ASSUME NEW A, NEW B, A \cap B = {}
    PROVE  /\ Having(A \cup B) = Having(A) \cup Having(B)
           /\ IsFiniteSet(Having(A))
           /\ Cardinality(Having(A)) \in Nat
           /\ Cardinality(Having(A \cup B)) = Cardinality(Having(A)) + Cardinality(Having(B))
<1>1. Having(A) \cap Having(B) = {} /\ Having(A \cup B) = Having(A) \cup Having(B)
    BY DEF Having
<1>2. Having(A) \in SUBSET Contribs /\ Having(B) \in SUBSET Contribs
    BY DEF Having
<1>3. /\ IsFiniteSet(Having(A)) /\ IsFiniteSet(Having(B))
      /\ Cardinality(Having(A)) \in Nat /\ Cardinality(Having(B)) \in Nat
    BY <1>2, FiniteAssumption, FS_Subset, FS_CardinalityType
<1> HIDE DEF Having
<1>4. Cardinality(Having(A) \cup Having(B)) = Cardinality(Having(A)) + Cardinality(Having(B))
    BY <1>1, <1>3, DisjointCount
<1> QED BY <1>1, <1>3, <1>4

LEMMA CountsAddUp ==
    ASSUME TypeOK
    PROVE  Cardinality(Contribs) = Cardinality(Having(Resolved)) + Cardinality(Having({"PENDING"}))
              + Cardinality(Having({"EXPIRED"})) + Cardinality(Having({"FLAGGED_FOR_REVIEW"}))
<1> DEFINE P == {"PENDING"}
           E == {"EXPIRED"}
           G == {"FLAGGED_FOR_REVIEW"}
<1>1. Having(Resolved \cup (P \cup (E \cup G))) = Contribs
    BY StatusOfRow DEF Having, Resolved
<1>2. Resolved \cap (P \cup (E \cup G)) = {} /\ P \cap (E \cup G) = {} /\ E \cap G = {}
    BY DEF Resolved
<1> HIDE DEF P, E, G
<1>3. Cardinality(Contribs) = Cardinality(Having(Resolved)) + Cardinality(Having(P \cup (E \cup G)))
    BY <1>1, <1>2, CountOfBoth
<1>4. Cardinality(Having(P \cup (E \cup G))) = Cardinality(Having(P)) + Cardinality(Having(E \cup G))
    BY <1>2, CountOfBoth
<1>5. Cardinality(Having(E \cup G)) = Cardinality(Having(E)) + Cardinality(Having(G))
    BY <1>2, CountOfBoth
<1>6. \A A : Cardinality(Having(A)) \in Nat
    <2> TAKE A
    <2>1. A \cap {} = {}
        OBVIOUS
    <2> QED BY <2>1, CountOfBoth
<1>7. \A a, b, c, d \in Nat : a + (b + (c + d)) = a + b + c + d
    OBVIOUS
<1> QED BY <1>3, <1>4, <1>5, <1>6, <1>7 DEF P, E, G

LEMMA SummaryAgrees ==
    ASSUME TypeOK
    PROVE  SummaryMatchesBadges
<1> DEFINE pending == IF IsOpen THEN "PENDING" ELSE "closed"
<1>1. Displayed("PAID") \cup Displayed("PAID_MANUAL") = Having(Resolved)
    BY StatusOfRow DEF Displayed, DisplayStatus, Having, Resolved
<1>2. Displayed(pending) = Having(IF IsOpen THEN Unpaid ELSE {"PENDING"})
    BY StatusOfRow DEF Displayed, DisplayStatus, Having, Unpaid
<1>3. Displayed("EXPIRED") = IF IsOpen THEN {} ELSE Having({"EXPIRED"})
    BY StatusOfRow DEF Displayed, DisplayStatus, Having
<1>4. Cardinality({}) = 0
    BY NobodyCounts
<1>5. Cardinality(Having(Unpaid)) = Cardinality(Having({"PENDING"})) + Cardinality(Having({"EXPIRED"}))
    <2>1. {"PENDING"} \cap {"EXPIRED"} = {} /\ {"PENDING"} \cup {"EXPIRED"} = Unpaid
        BY DEF Unpaid
    <2> QED BY <2>1, CountOfBoth
<1>6. \A A : Cardinality(Having(A)) \in Nat
    <2> TAKE A
    <2>1. A \cap {} = {}
        OBVIOUS
    <2> QED BY <2>1, CountOfBoth
<1> DEFINE n(A) == Cardinality(Having(A))
<1>7. Summary.paid_count + Summary.pending_count + Summary.expired_count + Summary.flagged_count
         = Cardinality(Contribs)
    <2>1. /\ Summary.paid_count = n(Resolved)
          /\ Summary.pending_count = n(IF IsOpen THEN Unpaid ELSE {"PENDING"})
          /\ Summary.expired_count = IF IsOpen THEN 0 ELSE n({"EXPIRED"})
          /\ Summary.flagged_count = n({"FLAGGED_FOR_REVIEW"})
        BY DEF Summary
    <2>2. /\ n(Resolved) \in Nat /\ n({"PENDING"}) \in Nat /\ n({"EXPIRED"}) \in Nat
          /\ n({"FLAGGED_FOR_REVIEW"}) \in Nat
        BY <1>6
    <2>3. /\ n(Unpaid) = n({"PENDING"}) + n({"EXPIRED"})
          /\ Cardinality(Contribs) = n(Resolved) + n({"PENDING"}) + n({"EXPIRED"}) + n({"FLAGGED_FOR_REVIEW"})
        BY <1>5, CountsAddUp
    <2> HIDE DEF n
    <2>4. Summary.pending_count + Summary.expired_count = n({"PENDING"}) + n({"EXPIRED"})
        BY <2>1, <2>2, <2>3
    <2>5. Summary.pending_count \in Nat /\ Summary.expired_count \in Nat
        BY <2>1, <2>2, <2>3
    <2> QED BY <2>1, <2>2, <2>3, <2>4, <2>5
<1>8. /\ Summary.paid_count = Cardinality(Displayed("PAID") \cup Displayed("PAID_MANUAL"))
      /\ Summary.pending_count = Cardinality(Displayed(pending))
      /\ Summary.expired_count = Cardinality(Displayed("EXPIRED"))
      /\ Summary.flagged_count = Cardinality(FlaggedBacklog)
    BY <1>1, <1>2, <1>3, <1>4 DEF Summary, FlaggedBacklog
<1> QED BY <1>7, <1>8 DEF SummaryMatchesBadges

LEMMA TabsAgree ==
    ASSUME TypeOK
    PROVE  TabsMatchBadges
<1> SUFFICES ASSUME IsOpen PROVE TabsMatchBadges
    BY DEF TabsMatchBadges
<1>1. ListForPurse("PENDING") = Having(Unpaid)
    BY DEF ListForPurse
<1>2. Displayed("PENDING") = Having(Unpaid)
    BY StatusOfRow DEF Displayed, DisplayStatus, Having, Unpaid
<1>3. ASSUME NEW status \in Status, status # "PENDING"
      PROVE  Displayed(status) \subseteq ListForPurse(status)
    BY <1>3, StatusOfRow DEF Displayed, DisplayStatus, Having, ListForPurse
<1>4. Reminded \subseteq Having(Unpaid)
    BY DEF Reminded, Having, Unpaid
<1> QED BY <1>1, <1>2, <1>3, <1>4 DEF TabsMatchBadges

LEMMA ReceivedIsSum ==
    ASSUME TypeOK, NEW S \in SUBSET Contribs
    PROVE  /\ IsFiniteSet(S)
           /\ \A c \in S : row[c].amount_received \in Int
           /\ Received(S) = SumOver([c \in Contribs |-> row[c].amount_received], S)
           /\ Received(S) \in Int
<1> DEFINE w == [c \in S |-> row[c].amount_received]
           all == [c \in Contribs |-> row[c].amount_received]
<1>1. IsFiniteSet(S)
    BY FiniteAssumption, FS_Subset
<1>2. \A c \in S : row[c].amount_received \in Int
    <2> TAKE c \in S
    <2>1. row[c] \in Row
        BY DEF TypeOK
    <2> QED BY <2>1 DEF Row
<1>3. Received(S) = SumOver(w, S)
    BY ZenonT(60) DEF Received, MapThenSumSet, MapThenFoldSet, SumOver
<1>4. \A c \in S : w[c] = all[c] /\ all[c] \in Int
    BY <1>2
<1> HIDE DEF w, all
<1>5. SumOver(w, S) = SumOver(all, S) /\ SumOver(all, S) \in Int
    BY <1>1, <1>4, SumSame, SumIsInteger
<1> QED BY <1>1, <1>2, <1>3, <1>5 DEF all

\* What was collected online and in cash is what was collected.
LEMMA CollectedIsBoth ==
    ASSUME TypeOK
    PROVE  Received(Having(Resolved)) = Received(Having({"PAID"})) + Received(Having({"PAID_MANUAL"}))
<1> DEFINE S == Having({"PAID"})
           T == Having({"PAID_MANUAL"})
           all == [c \in Contribs |-> row[c].amount_received]
<1>1. Having(Resolved) = S \cup T /\ S \cap T = {}
    BY DEF Having, Resolved
<1>2. S \in SUBSET Contribs /\ T \in SUBSET Contribs /\ S \cup T \in SUBSET Contribs
    BY DEF Having
<1> HIDE DEF S, T
<1>3. \A c \in S \cup T : all[c] \in Int
    BY <1>2, ReceivedIsSum
<1>4. /\ Received(S \cup T) = SumOver(all, S \cup T)
      /\ Received(S) = SumOver(all, S) /\ Received(T) = SumOver(all, T)
      /\ IsFiniteSet(S) /\ IsFiniteSet(T)
    BY <1>2, ReceivedIsSum
<1> HIDE DEF all
<1>5. SumOver(all, S \cup T) = SumOver(all, S) + SumOver(all, T)
    BY <1>1, <1>3, <1>4, SumOfBoth
<1>6. Received(Having(Resolved)) = Received(S) + Received(T)
    BY <1>1, <1>4, <1>5
<1> QED BY <1>6 DEF S, T

\* The report has a line for each row, so its paid lines add up to the total.
LEMMA ReportAddsUp ==
    ASSUME TypeOK
    PROVE  MapThenSumSet(LAMBDA r : r.received, {r \in ReportRows : r.status \in Resolved})
              = Received(Having(Resolved))
<1> DEFINE S == Having(Resolved)
           line(c) == [member |-> c, status |-> DisplayStatus(c), received |-> row[c].amount_received]
           f == [c \in Contribs |-> line(c)]
           paid == {r \in ReportRows : r.status \in Resolved}
           all == [c \in Contribs |-> row[c].amount_received]
           v == [r \in paid |-> r.received]
<1>1. \A c \in Contribs : DisplayStatus(c) \in Resolved <=> row[c].status \in Resolved
    BY StatusOfRow DEF DisplayStatus, Resolved
<1>2. paid = {f[c] : c \in S}
    <2>1. ReportRows = {line(c) : c \in Contribs}
        BY Zenon DEF ReportRows
    <2>2. \A c \in Contribs : f[c] = line(c) /\ line(c).status = DisplayStatus(c)
        OBVIOUS
    <2>3. \A c : c \in S <=> c \in Contribs /\ row[c].status \in Resolved
        BY DEF Having
    <2> HIDE DEF line, f, S
    <2> QED BY <1>1, <2>1, <2>2, <2>3
<1>3. \A c \in Contribs : f[c].member = c /\ f[c].received = row[c].amount_received
    OBVIOUS
<1>4. S \in SUBSET Contribs
    BY DEF Having
<1>5. \A c \in S : all[c] \in Int
    BY <1>4, ReceivedIsSum
<1>6. \A c \in S : v[f[c]] = all[c]
    <2> TAKE c \in S
    <2>1. f[c] \in paid
        BY <1>2
    <2> HIDE DEF f, paid
    <2> QED BY <1>3, <1>4, <2>1
<1>7. MapThenSumSet(LAMBDA r : r.received, paid) = SumOver(v, paid)
    BY ZenonT(60) DEF MapThenSumSet, MapThenFoldSet, SumOver
<1>8. IsFiniteSet(S) /\ Received(S) = SumOver(all, S)
    BY <1>4, ReceivedIsSum
<1>9. \A c, d \in S : f[c] = f[d] => c = d
    BY <1>3, <1>4
<1> HIDE DEF S, f, paid, all, v
<1>10. SumOver(v, {f[c] : c \in S}) = SumOver(all, S)
    BY <1>5, <1>6, <1>8, <1>9, SumRenamed
<1>11. MapThenSumSet(LAMBDA r : r.received, paid) = Received(S)
    BY <1>2, <1>7, <1>8, <1>10, Zenon
<1> QED BY <1>11 DEF S, paid

LEMMA TotalsAgree ==
    ASSUME TypeOK
    PROVE  TotalsMatch
<1>1. Summary.total_collected = CollectedTotals
    BY CollectedIsBoth DEF Summary, CollectedTotals
<1>2. IsOpen => DashboardCollected = CollectedTotals
    BY DEF DashboardCollected, CollectedTotals
<1>3. MapThenSumSet(LAMBDA r : r.received, {r \in ReportRows : r.status \in Resolved}) = CollectedTotals
    BY ReportAddsUp DEF CollectedTotals
<1>4. PayableCollected = Summary.collected_via_kontributa
    BY DEF PayableCollected, Summary
<1>5. CountsForPurses.paid = Summary.paid_count
    BY DEF CountsForPurses, Summary
<1> QED BY <1>1, <1>2, <1>3, <1>4, <1>5, Zenon DEF TotalsMatch

-----------------------------------------------------------------------------
(* The rates of the analytics rest on how rows got where they are.           *)

EntersPaidLast(h, status) ==
    \A k \in 1 .. Len(h) : h[k][2] = "PAID" => status = "PAID" /\ k = Len(h)

KeepsItsInvoice(r) == r.status \in {"PAID", "FLAGGED_FOR_REVIEW"} => r.invoice_id \in Invoices

RatesInv ==
    /\ Together
    /\ \A c \in Contribs :
          /\ Path(events[c], row[c].status)
          /\ EntersPaidLast(events[c], row[c].status)
          /\ KeepsItsInvoice(row[c])

\* No transition leaves PAID, so one into it is the last of its row's history.
LEMMA PaidLastExtends ==
    ASSUME NEW h \in History, NEW from \in Status, NEW to \in Status, from # "PAID",
           EntersPaidLast(h, from)
    PROVE  EntersPaidLast(Append(h, <<from, to>>), to)
<1> DEFINE g == Append(h, <<from, to>>)
<1>1. /\ Len(h) \in Nat /\ Len(g) = Len(h) + 1 /\ g[Len(g)] = <<from, to>>
      /\ \A k \in 1 .. Len(h) : g[k] = h[k]
    BY EventAppended
<1> HIDE DEF g
<1>2. \A k \in 1 .. Len(h) : g[k][2] # "PAID"
    BY <1>1 DEF EntersPaidLast
<1>3. g[Len(g)][2] = to
    BY <1>1
<1>4. ASSUME NEW k \in 1 .. Len(g), g[k][2] = "PAID" PROVE to = "PAID" /\ k = Len(g)
    <2>1. k = Len(g)
        BY <1>1, <1>2, <1>4
    <2> QED BY <1>3, <1>4, <2>1
<1>5. EntersPaidLast(g, to)
    BY <1>4 DEF EntersPaidLast
<1> QED BY <1>5 DEF g

LEMMA MovesFromUnresolved ==
    ASSUME NEW c \in Contribs, Move(c)
    PROVE  row[c].status # "PAID"
BY DEF Move, Expires, TakesInvoice, TakesCredit, TakesCash, IsAccepted, IsReopened, IsRepriced,
       Unpaid, Resolved

\* A row becomes PAID or flagged on the invoice it carries, and keeps it there.
LEMMA InvoiceKeptWhenPaid ==
    ASSUME NEW c \in Contribs, Quiet(c) \/ Move(c), KeepsItsInvoice(row[c])
    PROVE  KeepsItsInvoice(row'[c])
<1>1. CASE Quiet(c)
    BY <1>1 DEF Quiet
<1>2. CASE TakesCredit(c)
    BY <1>2 DEF TakesCredit, SameInvoice, KeepsItsInvoice
<1>3. CASE IsAccepted(c)
    BY <1>3 DEF IsAccepted, SameInvoice, KeepsItsInvoice
<1>4. CASE Expires(c) \/ TakesInvoice(c) \/ TakesCash(c) \/ IsReopened(c) \/ IsRepriced(c)
    <2>1. row'[c].status \in {"EXPIRED", "PENDING", "PAID_MANUAL"}
        BY <1>4 DEF Expires, TakesInvoice, TakesCash, IsReopened, IsRepriced, Logged
    <2> QED BY <2>1 DEF KeepsItsInvoice
<1> QED BY <1>1, <1>2, <1>3, <1>4 DEF Move

LEMMA RatesInit == Init => RatesInv
<1>1. ASSUME Init, NEW c \in Contribs
      PROVE  /\ Path(events[c], row[c].status)
             /\ EntersPaidLast(events[c], row[c].status)
             /\ KeepsItsInvoice(row[c])
    <2>1. events[c] = <<>> /\ row[c].status = "PENDING"
        BY <1>1 DEF Init
    <2> QED BY <2>1 DEF Path, EntersPaidLast, KeepsItsInvoice
<1> QED BY <1>1, TogetherInit DEF RatesInv

LEMMA RatesStep ==
    ASSUME Serial, RatesInv, [Next]_vars
    PROVE  RatesInv'
<1>1. Together /\ Together' /\ LedgerStep
    BY TogetherStep DEF RatesInv
<1>2. ASSUME NEW c \in Contribs
      PROVE  /\ Path(events'[c], row'[c].status)
             /\ EntersPaidLast(events'[c], row'[c].status)
             /\ KeepsItsInvoice(row'[c])
    <2>0. Quiet(c) \/ Move(c)
        BY <1>1 DEF LedgerStep
    <2>1. events[c] \in History /\ row[c].status \in Status
        <3>1. row[c] \in Row
            BY <1>1 DEF Together, TypeOK
        <3> QED BY <1>1, <3>1 DEF Together, TypeOK, History, Row
    <2>2. KeepsItsInvoice(row'[c])
        BY <2>0, InvoiceKeptWhenPaid DEF RatesInv
    <2>3. CASE row'[c].status = row[c].status /\ events'[c] = events[c]
        BY <2>2, <2>3 DEF RatesInv
    <2>4. ASSUME NEW to \in Status, Logged(c, to), Move(c)
          PROVE  Path(events'[c], row'[c].status) /\ EntersPaidLast(events'[c], row'[c].status)
        <3>1. row[c].status # "PAID"
            BY <2>4, MovesFromUnresolved
        <3>2. events'[c] = Append(events[c], <<row[c].status, to>>) /\ row'[c].status = to
            BY <2>4 DEF Logged
        <3> QED BY <2>1, <3>1, <3>2, PathExtends, PaidLastExtends DEF RatesInv
    <2>5. CASE Quiet(c)
        BY <2>3, <2>5 DEF Quiet
    <2> QED BY <1>1, <2>0, <2>2, <2>3, <2>4, <2>5, MoveLogs
<1> QED BY <1>1, <1>2 DEF RatesInv

LEMMA RatesAgree ==
    ASSUME RatesInv
    PROVE  RatesAreWhole
<1>0. TypeOK
    BY DEF RatesInv, Together
<1>1. Conversion.paid = Cardinality(Having({"PAID"}))
    <2>1. Having({"PAID"}) \cap Invoiced = Having({"PAID"})
        BY NamesAssumption DEF Having, Invoiced, RatesInv, KeepsItsInvoice
    <2> QED BY <2>1 DEF Conversion
<1>2. ASSUME NEW c \in Contribs PROVE Len(events[c]) \in Nat /\ (events[c] = <<>> <=> Len(events[c]) = 0)
    <2>1. events[c] \in History
        BY <1>0 DEF TypeOK, History
    <2> QED BY <2>1, EmptyHistory DEF History
<1>3. ASSUME NEW c \in Contribs, row[c].status # "PENDING"
      PROVE  Len(events[c]) \in 1 .. Len(events[c]) /\ events[c][Len(events[c])][2] = row[c].status
    <2>1. events[c] # <<>>
        BY <1>3 DEF RatesInv, Path
    <2>2. Len(events[c]) # 0
        BY <1>2, <2>1
    <2>3. row[c].status = events[c][Len(events[c])][2]
        BY <2>1 DEF RatesInv, Path
    <2> QED BY <1>2, <2>2, <2>3
<1>4. ASSUME NEW c \in Having({"PAID"}) PROVE TransitionsToPaid(c) = 1
    <2>1. c \in Contribs /\ row[c].status = "PAID"
        BY DEF Having
    <2>2. {k \in 1 .. Len(events[c]) : events[c][k][2] = "PAID"} = {Len(events[c])}
        BY <1>3, <2>1 DEF RatesInv, EntersPaidLast
    <2> QED BY <2>2, FS_Singleton DEF TransitionsToPaid, TransitionsTo
<1>5. ASSUME NEW c \in FlaggedBacklog PROVE NewFlags(c) >= 1
    <2> DEFINE flags == {k \in 1 .. Len(events[c]) : events[c][k][2] = "FLAGGED_FOR_REVIEW"}
    <2>1. c \in Contribs /\ row[c].status = "FLAGGED_FOR_REVIEW"
        BY DEF FlaggedBacklog, Having
    <2>2. Len(events[c]) \in flags
        BY <1>3, <2>1
    <2>3. flags \in SUBSET (1 .. Len(events[c])) /\ IsFiniteSet(1 .. Len(events[c]))
        BY <1>2, <2>1, FS_Interval
    <2>4. NewFlags(c) = Cardinality(flags)
        BY DEF NewFlags, TransitionsTo
    <2> HIDE DEF flags
    <2>5. IsFiniteSet(flags)
        BY <2>3, FS_Subset
    <2>6. Cardinality(flags) \in Nat /\ Cardinality(flags) # 0
        BY <2>2, <2>5, FS_EmptySet, FS_CardinalityType
    <2> QED BY <2>4, <2>6
<1>6. ASSUME NEW current \in {"monnify", "paystack"}
      PROVE  LET split == ProviderSplit(current)
                 monnify == split["monnify"]
                 paystack == split["paystack"]
             IN  /\ monnify.volume + paystack.volume = CollectedTotals
                 /\ [paid     |-> monnify.paid + paystack.paid,
                     invoiced |-> monnify.invoiced + paystack.invoiced] = Conversion
    <2> DEFINE of(rows) == [volume   |-> Received(rows \cap Having(Resolved)),
                            paid     |-> Cardinality(rows \cap Invoiced \cap Having({"PAID"})),
                            invoiced |-> Cardinality(rows \cap Invoiced)]
               split == ProviderSplit(current)
    <2>1. \A provider \in {"monnify", "paystack"} :
              split[provider] = of(IF provider = current THEN Contribs ELSE {})
        BY DEF ProviderSplit
    <2>2. /\ Contribs \cap Having(Resolved) = Having(Resolved)
          /\ Contribs \cap Invoiced \cap Having({"PAID"}) = Having({"PAID"}) \cap Invoiced
          /\ Contribs \cap Invoiced = Invoiced
        BY DEF Having, Invoiced
    <2>3. of(Contribs) = [volume |-> CollectedTotals, paid |-> Conversion.paid, invoiced |-> Conversion.invoiced]
        BY <2>2 DEF Conversion, CollectedTotals
    <2>4. of({}) = [volume |-> 0, paid |-> 0, invoiced |-> 0]
        <3>1. {} \cap Having(Resolved) = {} /\ {} \cap Invoiced \cap Having({"PAID"}) = {} /\ {} \cap Invoiced = {}
            OBVIOUS
        <3>2. Received({}) = 0
            <4>1. {} \in SUBSET Contribs
                OBVIOUS
            <4> QED BY <1>0, <4>1, ReceivedIsSum, SumOfNone
        <3> QED BY <3>1, <3>2, NobodyCounts
    <2>5. CollectedTotals \in Int /\ Conversion.paid \in Int /\ Conversion.invoiced \in Int
        <3>1. Having(Resolved) \in SUBSET Contribs /\ Invoiced \in SUBSET Contribs
              /\ Having({"PAID"}) \cap Invoiced \in SUBSET Contribs
            BY DEF Having, Invoiced
        <3>2. CollectedTotals \in Int
            BY <1>0, <3>1, ReceivedIsSum DEF CollectedTotals
        <3>3. Cardinality(Invoiced) \in Nat /\ Cardinality(Having({"PAID"}) \cap Invoiced) \in Nat
            BY <3>1, FiniteAssumption, FS_Subset, FS_CardinalityType
        <3> QED BY <3>2, <3>3 DEF Conversion
    <2>6. Conversion = [paid |-> Conversion.paid, invoiced |-> Conversion.invoiced]
        BY DEF Conversion
    <2>7. \/ split["monnify"] = of(Contribs) /\ split["paystack"] = of({})
          \/ split["monnify"] = of({}) /\ split["paystack"] = of(Contribs)
        BY <1>6, <2>1
    <2> HIDE DEF of, split
    <2>8. /\ split["monnify"].volume + split["paystack"].volume = CollectedTotals
          /\ split["monnify"].paid + split["paystack"].paid = Conversion.paid
          /\ split["monnify"].invoiced + split["paystack"].invoiced = Conversion.invoiced
        BY <2>3, <2>4, <2>5, <2>7
    <2> QED BY <2>6, <2>8 DEF split
<1> QED BY <1>1, <1>4, <1>5, <1>6, Zenon DEF RatesAreWhole

-----------------------------------------------------------------------------
(* The bars of a trend.                                                      *)

Starts(days) == {t \in 0 .. Now(days) - 1 : t % (BucketDays(days) * Day) = 0}

BucketAt(days, t) ==
    [from |-> t,
     to   |-> IF t + BucketDays(days) * Day >= Now(days) THEN Now(days) + 1 ELSE t + BucketDays(days) * Day]

LEMMA BucketsAre ==
    ASSUME NEW days
    PROVE  Buckets(days) = {BucketAt(days, t) : t \in Starts(days)}
BY Zenon DEF Buckets, BucketAt, Starts

\* The three windows that the dashboard offers.
LEMMA Windows ==
    ASSUME NEW days \in Periods
    PROVE  \/ Now(days) = 14 /\ BucketDays(days) * Day = 2
           \/ Now(days) = 60 /\ BucketDays(days) * Day = 14
           \/ Now(days) = 180 /\ BucketDays(days) * Day = 14
BY DEF Periods, Now, Day, BucketDays

LEMMA RoundedDown ==
    ASSUME NEW n \in Nat, NEW w \in {2, 14}
    PROVE  /\ n - (n % w) \in Nat /\ n - (n % w) <= n /\ n < n - (n % w) + w
           /\ (n - (n % w)) % w = 0
<1>1. CASE w = 2
    <2>1. n % 2 \in 0 .. 1 /\ n - (n % 2) \in Nat /\ (n - (n % 2)) % 2 = 0
        <3>1. n % 2 \in 0 .. 1
            OBVIOUS
        <3>2. n - (n % 2) \in Nat
            OBVIOUS
        <3>3. (n - (n % 2)) % 2 = 0
            OBVIOUS
        <3> QED BY <3>1, <3>2, <3>3
    <2>2. ASSUME NEW r \in 0 .. 1 PROVE n - r <= n /\ n < n - r + 2
        OBVIOUS
    <2>3. n - (n % 2) <= n /\ n < n - (n % 2) + 2
        BY <2>1, <2>2
    <2> QED BY <1>1, <2>1, <2>3
<1>2. CASE w = 14
    <2>1. n % 14 \in 0 .. 13 /\ n - (n % 14) \in Nat /\ (n - (n % 14)) % 14 = 0
        <3>1. n % 14 \in 0 .. 13
            OBVIOUS
        <3>2. n - (n % 14) \in Nat
            OBVIOUS
        <3>3. (n - (n % 14)) % 14 = 0
            OBVIOUS
        <3> QED BY <3>1, <3>2, <3>3
    <2>2. ASSUME NEW r \in 0 .. 13 PROVE n - r <= n /\ n < n - r + 14
        OBVIOUS
    <2>3. n - (n % 14) <= n /\ n < n - (n % 14) + 14
        BY <2>1, <2>2
    <2> QED BY <1>2, <2>1, <2>3
<1> QED BY <1>1, <1>2

LEMMA NextMultiple ==
    ASSUME NEW n \in Nat, NEW m \in Nat, NEW w \in {2, 14}, m % w = 0, n % w = 0, m < n
    PROVE  m + w <= n
<1>1. CASE w = 2
    BY <1>1
<1>2. CASE w = 14
    BY <1>2
<1> QED BY <1>1, <1>2

\* Every instant of the window is in one bucket ...
LEMMA SomeBucket ==
    ASSUME NEW days \in Periods, NEW at \in 0 .. Now(days)
    PROVE  \E b \in Buckets(days) : b.from <= at /\ at < b.to
<1> DEFINE w == BucketDays(days) * Day
           n == Now(days)
           p == IF at = n THEN n - 1 ELSE at
           t == p - (p % w)
<1>1. n \in {14, 60, 180} /\ w \in {2, 14}
    BY Windows
<1> HIDE DEF n, w
<1>2. at \in Nat /\ at <= n /\ p \in Nat /\ p < n
    BY <1>1 DEF n
<1>2a. p <= at /\ (at # n => p = at) /\ (at = n => p = n - 1)
    BY <1>1, <1>2
<1> HIDE DEF p
<1>3. t \in Nat /\ t <= p /\ p < t + w /\ t % w = 0
    <2>1. p - (p % w) \in Nat /\ p - (p % w) <= p /\ p < p - (p % w) + w /\ (p - (p % w)) % w = 0
        BY <1>1, <1>2, RoundedDown
    <2> QED BY <2>1
<1> HIDE DEF t
<1>4. t \in Starts(days)
    BY <1>1, <1>2, <1>3 DEF Starts, n, w
<1>5. BucketAt(days, t) \in Buckets(days)
    BY <1>4, BucketsAre
<1>6. BucketAt(days, t).from = t /\ BucketAt(days, t).to = IF t + w >= n THEN n + 1 ELSE t + w
    BY DEF BucketAt, n, w
<1>7. t <= at /\ at < IF t + w >= n THEN n + 1 ELSE t + w
    BY <1>1, <1>2, <1>2a, <1>3
<1> QED BY <1>5, <1>6, <1>7

\* ... and in no other.
LEMMA OneBucket ==
    ASSUME NEW days \in Periods, NEW at \in 0 .. Now(days),
           NEW a \in Buckets(days), a.from <= at, at < a.to,
           NEW b \in Buckets(days), b.from <= at, at < b.to
    PROVE  a = b
<1> DEFINE w == BucketDays(days) * Day
           n == Now(days)
<1>1. n \in {14, 60, 180} /\ w \in {2, 14}
    BY Windows
<1>2. PICK t \in Starts(days) : a = BucketAt(days, t)
    BY BucketsAre
<1>3. PICK u \in Starts(days) : b = BucketAt(days, u)
    BY BucketsAre
<1>4. /\ t \in Nat /\ t < n /\ t % w = 0
      /\ u \in Nat /\ u < n /\ u % w = 0
    BY <1>1 DEF Starts
<1>5. \A s : BucketAt(days, s).from = s /\ BucketAt(days, s).to = IF s + w >= n THEN n + 1 ELSE s + w
    BY DEF BucketAt
<1>6. at \in Nat
    BY <1>1
<1> HIDE DEF n, w
<1>7. ASSUME NEW r \in {t, u}, NEW s \in {t, u}, r < s,
             s <= at, at < IF r + w >= n THEN n + 1 ELSE r + w
      PROVE  FALSE
    <2>0. r \in Nat /\ s \in Nat /\ r % w = 0 /\ s % w = 0 /\ s < n
        BY <1>4
    <2>1. r + w <= s
        BY <1>1, <1>7, <2>0, NextMultiple
    <2> QED BY <1>1, <1>6, <1>7, <2>0, <2>1
<1>8. t = u
    BY <1>2, <1>3, <1>4, <1>5, <1>7
<1> QED BY <1>2, <1>3, <1>8

\* Whatever rows there are and whenever they are dated, the bars of their trend
\* add up to the window's total.
LEMMA TrendIsWhole ==
    ASSUME NEW days \in Periods, NEW dated, IsFiniteSet(dated),
           \A d \in dated : d.at \in Int /\ d.amount \in Int
    PROVE  MapThenSumSet(LAMBDA b : Trend(days, dated)[b], Buckets(days)) = WindowTotal(days, dated)
<1> DEFINE W == InWindow(days, dated)
           B == Buckets(days)
           w == [d \in W |-> d.amount]
           in(d, b) == b.from <= d.at /\ d.at < b.to
           part == [d \in W |-> CHOOSE b \in B : in(d, b)]
           v == Trend(days, dated)
           bar(b) == {d \in W : in(d, b)}
           wb(b) == [d \in bar(b) |-> d.amount]
<1>1. IsFiniteSet(W) /\ W \subseteq dated
    BY FS_Subset DEF InWindow
<1>2. \A d \in W : d.at \in 0 .. Now(days) /\ w[d] = d.amount /\ w[d] \in Int
    BY Windows DEF InWindow
<1>3. IsFiniteSet(B)
    <2> DEFINE f == [t \in Starts(days) |-> BucketAt(days, t)]
    <2>1. IsFiniteSet(Starts(days))
        <3>1. Starts(days) \in SUBSET (0 .. Now(days) - 1) /\ Now(days) - 1 \in Int
            BY Windows DEF Starts
        <3>2. IsFiniteSet(0 .. Now(days) - 1)
            BY <3>1, FS_Interval
        <3> QED BY <3>1, <3>2, FS_Subset
    <2>2. B = {f[t] : t \in Starts(days)}
        BY BucketsAre
    <2> HIDE DEF f, B
    <2> QED BY <2>1, <2>2, FiniteImage
<1>4. \A d \in W : part[d] \in B /\ in(d, part[d]) /\ \A b \in B : in(d, b) => b = part[d]
    <2> TAKE d \in W
    <2>1. \E b \in B : in(d, b)
        BY <1>2, SomeBucket
    <2>2. part[d] \in B /\ in(d, part[d])
        BY <2>1
    <2> HIDE DEF part
    <2>3. ASSUME NEW b \in B, in(d, b) PROVE b = part[d]
        BY <1>2, <2>2, <2>3, OneBucket
    <2> QED BY <2>2, <2>3
<1>5. part \in [W -> B]
    BY <1>4
<1>6. \A b \in B : bar(b) = {d \in W : part[d] = b}
    BY <1>4
<1>7. \A b \in B : v[b] = SumOver(wb(b), bar(b))
    <2> TAKE b \in B
    <2>1. v[b] = MapThenSumSet(LAMBDA d : d.amount, bar(b))
        BY DEF Trend
    <2>2. MapThenSumSet(LAMBDA d : d.amount, bar(b)) = SumOver(wb(b), bar(b))
        BY ZenonT(60) DEF MapThenSumSet, MapThenFoldSet, SumOver
    <2> QED BY <2>1, <2>2
<1>8. \A b \in B : SumOver(wb(b), bar(b)) = SumOver(w, bar(b))
    <2> TAKE b \in B
    <2>1. bar(b) \in SUBSET W /\ \A d \in bar(b) : wb(b)[d] = w[d]
        OBVIOUS
    <2> HIDE DEF bar, wb, w
    <2>2. IsFiniteSet(bar(b))
        BY <1>1, <2>1, FS_Subset
    <2> QED BY <2>1, <2>2, SumSame
<1>9. WindowTotal(days, dated) = SumOver(w, W)
    BY ZenonT(60) DEF WindowTotal, MapThenSumSet, MapThenFoldSet, SumOver
<1>10. MapThenSumSet(LAMBDA b : Trend(days, dated)[b], Buckets(days)) = SumOver(v, B)
    BY Zenon DEF SumOver
<1> HIDE DEF W, B, w, part, v, bar, wb
<1>11. \A b \in B : v[b] = SumOver(w, PartOf(W, part, b))
    BY <1>6, <1>7, <1>8 DEF PartOf
<1>12. SumOver(v, B) = SumOver(w, W)
    BY <1>1, <1>2, <1>3, <1>5, <1>11, SumByParts
<1> QED BY <1>9, <1>10, <1>12, Zenon

LEMMA TrendsAgree == TrendAddsUp
<1> SUFFICES ASSUME NEW days \in Periods, NEW t \in 0 - Day .. Now(days)
             PROVE  LET dated == {[at |-> t, amount |-> 2], [at |-> Now(days), amount |-> 3]}
                        trend == Trend(days, dated)
                    IN  MapThenSumSet(LAMBDA b : trend[b], Buckets(days)) = WindowTotal(days, dated)
    BY Zenon DEF TrendAddsUp
<1> DEFINE dated == {[at |-> t, amount |-> 2], [at |-> Now(days), amount |-> 3]}
<1>1. IsFiniteSet(dated)
    <2>1. IsFiniteSet({[at |-> t, amount |-> 2]})
        BY FS_Singleton
    <2>2. IsFiniteSet({[at |-> t, amount |-> 2]} \cup {[at |-> Now(days), amount |-> 3]})
        BY <2>1, FS_AddElement
    <2>3. dated = {[at |-> t, amount |-> 2]} \cup {[at |-> Now(days), amount |-> 3]}
        OBVIOUS
    <2> QED BY <2>2, <2>3, Zenon
<1>2. \A d \in dated : d.at \in Int /\ d.amount \in Int
    BY Windows DEF Day
<1> HIDE DEF dated
<1>3. MapThenSumSet(LAMBDA b : Trend(days, dated)[b], Buckets(days)) = WindowTotal(days, dated)
    BY <1>1, <1>2, TrendIsWhole
<1> QED BY <1>3, Zenon DEF dated

\* In serial order all views of a purse tell the same story, whatever path its
\* rows took: badges, tabs, summary, totals, report, backlog, rates and trends
\* (the queries of contributions, analytics and notifications).
THEOREM SerialViewsAgree ==
    ASSUME Serial
    PROVE  Spec => []ViewsAgree
<1>1. RatesInv => ViewsAgree
    BY SummaryAgrees, TabsAgree, TotalsAgree, RatesAgree, TrendsAgree
       DEF RatesInv, Together, ViewsAgree
<1>2. RatesInv /\ [Next]_vars => RatesInv'
    BY RatesStep
<1> QED BY <1>1, <1>2, RatesInit, PTL DEF Spec

-----------------------------------------------------------------------------
(* The ledger is atomic.  Most steps of the handlers only read, wait or give *)
(* up, and leave the books alone; each of the others is one entry, made on    *)
(* the amounts as they are, because what the handler read still holds.        *)

\* What an admin's handler has taken from the request and from the purse.
Entry(d, rows) ==
    /\ d.pc = "manual" => d.amount \in Cash
    /\ d.pc = "reprice" =>
          d.amount \in Prices /\ \A c \in Contribs : rows[c].status = "PENDING" => d.loaded[c] # NotLoaded

EntryInv == \A s \in Sessions : Entry(sess[s], row)

LEMMA EntryBecome ==
    ASSUME Serial, TypeOK, NEW s \in Sessions, NEW d, Become(s, d), Entry(d, row')
    PROVE  EntryInv'
<1> SUFFICES ASSUME NEW t \in Sessions PROVE Entry(sess'[t], row')
    BY DEF EntryInv
<1>1. sess'[t] = d
    BY DEF Serial, Become, TypeOK
<1> QED BY <1>1

LEMMA EntryClose ==
    ASSUME Serial, TypeOK, NEW s \in Sessions, Close(s)
    PROVE  EntryInv'
<1>1. Entry(Closed, row')
    BY DEF Entry, Closed
<1> QED BY <1>1, EntryBecome DEF Close

LEMMA EntryGoto ==
    ASSUME Serial, TypeOK, NEW s \in Sessions, NEW pc, pc \notin {"manual", "reprice"}, Goto(s, pc)
    PROVE  EntryInv'
<1> DEFINE d == [sess[s] EXCEPT !.pc = pc]
<1>1. d.pc = pc
    BY DEF TypeOK, Session
<1> HIDE DEF d
<1>2. Entry(d, row')
    BY <1>1 DEF Entry
<1>3. Become(s, d)
    BY DEF Goto, d
<1> QED BY <1>2, <1>3, EntryBecome

LEMMA EntryContinue ==
    ASSUME Serial, TypeOK, NEW s \in Sessions, NEW c \in Loaded(s), Continue(s, c)
    PROVE  EntryInv'
<1>1. sess[s] \in Session
    BY DEF TypeOK
<1>2. ASSUME NEW pc \in {"refresh", "call", "lapse", "mark"}, Goto(s, pc) PROVE EntryInv'
    BY <1>2, EntryGoto
<1>3. CASE GenerateRefresh(s, c)
    <2> DEFINE d == [sess[s] EXCEPT !.pc = "call", !.loaded = Load({c})]
    <2>1. d.pc = "call" /\ Become(s, d)
        BY <1>1, <1>3 DEF Session, GenerateRefresh
    <2> HIDE DEF d
    <2> QED BY <2>1, EntryBecome DEF Entry
<1>4. CASE GenerateCall(s, c)
    <2>1. PICK i \in Invoices : Become(s, [sess[s] EXCEPT !.pc = "record", !.invoice = i])
        BY <1>4 DEF GenerateCall
    <2> DEFINE d == [sess[s] EXCEPT !.pc = "record", !.invoice = i]
    <2>2. d.pc = "record" /\ Become(s, d)
        BY <1>1, <2>1 DEF Session
    <2> HIDE DEF d
    <2> QED BY <2>2, EntryBecome DEF Entry
<1>5. CASE ReconcileFound(s, c)
    <2>1. PICK i, n : Become(s, [sess[s] EXCEPT !.pc = "credit", !.invoice = i, !.amount = n])
        BY <1>5 DEF ReconcileFound
    <2> DEFINE d == [sess[s] EXCEPT !.pc = "credit", !.invoice = i, !.amount = n]
    <2>2. d.pc = "credit" /\ Become(s, d)
        BY <1>1, <2>1 DEF Session
    <2> HIDE DEF d
    <2> QED BY <2>2, EntryBecome DEF Entry
<1>6. CASE GenerateExpire(s, c) \/ GenerateNotLapsed(s, c) \/ ReconcileNotFound(s, c)
    BY <1>2, <1>6 DEF GenerateExpire, GenerateNotLapsed, ReconcileNotFound
<1>7. CASE Credit(s, c)
    BY <1>2, <1>7, EntryClose DEF Credit
<1>8. CASE \/ GenerateStop(s, c) \/ GenerateRecord(s, c) \/ ReconcileExpire(s, c) \/ ReconcileKeep(s, c)
           \/ ManualCommit(s, c) \/ AcceptPartial(s, c) \/ RequestTopup(s, c)
    BY <1>8, EntryClose DEF GenerateStop, GenerateRecord, ReconcileExpire, ReconcileKeep,
       ManualCommit, AcceptPartial, RequestTopup
<1> QED BY <1>3, <1>4, <1>5, <1>6, <1>7, <1>8 DEF Continue, Generate, Reconcile

\* Cash is entered as the request says; a new price reaches the rows that are
\* pending when the handler reads them, and those are all there are.
LEMMA EntryBegin ==
    ASSUME Serial, TypeOK, NEW s \in Sessions, NEW c \in Contribs, Begin(s, c)
    PROVE  EntryInv'
<1>1. CASE GenerateLoad(s, c)
    <2>1. PICK open : Become(s, [Closed EXCEPT !.pc = "expire", !.loaded = Load({c}), !.open = open])
        BY <1>1 DEF GenerateLoad, Open
    <2>2. Entry([Closed EXCEPT !.pc = "expire", !.loaded = Load({c}), !.open = open], row')
        BY DEF Entry, Closed
    <2> QED BY <2>1, <2>2, EntryBecome
<1>2. CASE ReconcileLoad(s, c)
    <2> DEFINE d == [Closed EXCEPT !.pc = "query", !.loaded = Load({c}), !.actor = "reconciliation_job"]
    <2>1. Become(s, d)
        BY <1>2 DEF ReconcileLoad, Open
    <2>2. Entry(d, row')
        BY DEF Entry, Closed
    <2> QED BY <2>1, <2>2, EntryBecome
<1>3. CASE ManualLoad(s, c)
    <2>1. PICK cash \in Cash :
              Become(s, [Closed EXCEPT !.pc = "manual", !.loaded = Load({c}),
                                       !.amount = cash, !.actor = "admin"])
        BY <1>3 DEF ManualLoad, Open
    <2>2. Entry([Closed EXCEPT !.pc = "manual", !.loaded = Load({c}),
                               !.amount = cash, !.actor = "admin"], row')
        BY DEF Entry, Closed
    <2> QED BY <2>1, <2>2, EntryBecome
<1>4. CASE ResolveLoad(s, c)
    <2>1. PICK resolution \in {"accept_partial", "request_topup"} :
              Become(s, [Closed EXCEPT !.pc = resolution, !.loaded = Load({c}), !.actor = "admin"])
        BY <1>4 DEF ResolveLoad, Open
    <2>2. Entry([Closed EXCEPT !.pc = resolution, !.loaded = Load({c}), !.actor = "admin"], row')
        BY DEF Entry, Closed
    <2> QED BY <2>1, <2>2, EntryBecome
<1> QED BY <1>1, <1>2, <1>3, <1>4 DEF Begin

LEMMA EntryWebhook ==
    ASSUME Serial, TypeOK, NEW s \in Sessions,
           \E i \in Invoices : WebhookMatch(s, i) \/ WebhookSkip(s, i)
    PROVE  EntryInv'
<1>1. PICK i \in Invoices : WebhookMatch(s, i) \/ WebhookSkip(s, i)
    OBVIOUS
<1>2. CASE WebhookMatch(s, i)
    <2>1. PICK c \in Matching(i) :
              Become(s, [Closed EXCEPT !.pc = "credit", !.loaded = Load({c}), !.invoice = i,
                                       !.amount = bill[i].paid, !.actor = "webhook"])
        BY <1>2 DEF WebhookMatch, Open
    <2>2. Entry([Closed EXCEPT !.pc = "credit", !.loaded = Load({c}), !.invoice = i,
                               !.amount = bill[i].paid, !.actor = "webhook"], row')
        BY DEF Entry, Closed
    <2> QED BY <2>1, <2>2, EntryBecome
<1>3. CASE WebhookSkip(s, i)
    <2>1. Become(s, [Closed EXCEPT !.pc = "mark", !.invoice = i, !.actor = "webhook"])
        BY <1>3 DEF WebhookSkip, Open
    <2>2. Entry([Closed EXCEPT !.pc = "mark", !.invoice = i, !.actor = "webhook"], row')
        BY DEF Entry, Closed
    <2> QED BY <2>1, <2>2, EntryBecome
<1> QED BY <1>1, <1>2, <1>3

LEMMA EntryReprice ==
    ASSUME Serial, TypeOK, NEW s \in Sessions, RepriceLoad(s)
    PROVE  EntryInv'
<1> DEFINE pending == {c \in Contribs : row[c].status = "PENDING"}
<1>1. PICK price \in Prices :
          Become(s, [Closed EXCEPT !.pc = "reprice", !.amount = price, !.actor = "admin",
                                   !.loaded = Load(pending)])
    BY DEF RepriceLoad, Open
<1> DEFINE d == [Closed EXCEPT !.pc = "reprice", !.amount = price, !.actor = "admin",
                               !.loaded = Load(pending)]
<1>2. d.pc = "reprice" /\ d.amount = price /\ d.loaded = Load(pending)
    BY DEF Closed
<1>3. ASSUME NEW c \in Contribs, row'[c].status = "PENDING" PROVE Load(pending)[c] # NotLoaded
    <2>1. row' = row
        BY DEF RepriceLoad, dbVars
    <2>2. Load(pending)[c] = row[c] /\ row[c] \in Row
        BY <1>3, <2>1 DEF Load, TypeOK
    <2> QED BY <2>2, LoadAssumption
<1> HIDE DEF d
<1>4. Entry(d, row')
    BY <1>2, <1>3 DEF Entry
<1> QED BY <1>1, <1>4, EntryBecome DEF d

LEMMA EntryStep == Serial /\ TypeOK /\ EntryInv /\ [Next]_vars => EntryInv'
<1> SUFFICES ASSUME Serial, TypeOK, EntryInv, [Next]_vars PROVE EntryInv'
    OBVIOUS
<1>1. CASE UNCHANGED <<row, sess>>
    <2>1. row' = row /\ sess' = sess
        BY <1>1
    <2> QED BY <2>1 DEF EntryInv
<1>2. ASSUME NEW s \in Sessions, WebhookMark(s) \/ RepriceCommit(s) PROVE EntryInv'
    BY <1>2, EntryClose DEF WebhookMark, RepriceCommit
<1>3. CASE Crash
    <2>1. Entry(Closed, row')
        BY DEF Entry, Closed
    <2> QED BY <1>3, <2>1 DEF Crash, EntryInv
<1>4. CASE \/ \E i \in Invoices : StoreEvent(i) \/ Reprocess(i) \/ Pay(i) \/ Lapse(i)
           \/ ClosePurse \/ ReopenPurse \/ DeadlinePasses \/ ChangeProvider \/ UNCHANGED vars
    BY <1>1, <1>4 DEF StoreEvent, Reprocess, Pay, Lapse, ClosePurse, ReopenPurse, DeadlinePasses, ChangeProvider,
       vars, dbVars
<1> QED BY <1>2, <1>3, <1>4, EntryBegin, EntryContinue, EntryWebhook, EntryReprice DEF Next

LEMMA EntryInit == Init => EntryInv
BY DEF Init, EntryInv, Entry, Closed

\* The books when one row was written and the others were not.
LEMMA OneAccount ==
    ASSUME TypeOK, NEW c \in Contribs, NEW new, row' = [row EXCEPT ![c] = new]
    PROVE  /\ [d \in Contribs |-> row'[d].status]
                  = [[d \in Contribs |-> row[d].status] EXCEPT ![c] = new.status]
           /\ [d \in Contribs |-> row'[d].amount_expected]
                  = [[d \in Contribs |-> row[d].amount_expected] EXCEPT ![c] = new.amount_expected]
           /\ [d \in Contribs |-> row'[d].amount_received]
                  = [[d \in Contribs |-> row[d].amount_received] EXCEPT ![c] = new.amount_received]
<1>1. \A d \in Contribs : row'[d] = IF d = c THEN new ELSE row[d]
    BY DEF TypeOK
<1>2. \A d \in Contribs : row'[d].status = IF d = c THEN new.status ELSE row[d].status
    BY <1>1
<1>3. \A d \in Contribs : row'[d].amount_expected = IF d = c THEN new.amount_expected
                                                               ELSE row[d].amount_expected
    BY <1>1
<1>4. \A d \in Contribs : row'[d].amount_received = IF d = c THEN new.amount_received
                                                               ELSE row[d].amount_received
    BY <1>1
<1> QED BY <1>2, <1>3, <1>4, Zenon

\* A row that turns to another status, for the same amounts.
LEMMA TurnInBooks ==
    ASSUME TypeOK, NEW c \in Contribs, NEW new, row' = [row EXCEPT ![c] = new],
           <<row[c].status, new.status>> \in Books!Turns,
           new.amount_expected = row[c].amount_expected,
           new.amount_received = row[c].amount_received,
           bill' = bill, credited' = credited
    PROVE  Books!Turn(c)
<1>1. new.status \in {"PENDING", "EXPIRED", "PAID"}
    BY DEF Books!Turns
<1>2. [d \in Contribs |-> row'[d].status]
          = [[d \in Contribs |-> row[d].status] EXCEPT ![c] = new.status]
    BY OneAccount
<1>3. /\ [d \in Contribs |-> row'[d].amount_expected] = [d \in Contribs |-> row[d].amount_expected]
      /\ [d \in Contribs |-> row'[d].amount_received] = [d \in Contribs |-> row[d].amount_received]
    BY OneAccount
<1>4. [d \in Contribs |-> row[d].status][c] = row[c].status
    OBVIOUS
<1> QED BY <1>1, <1>2, <1>3, <1>4 DEF Books!Turn

\* Money that arrives at a row, on top of what it had.
LEMMA EnterInBooks ==
    ASSUME TypeOK, NEW c \in Contribs, NEW new, row' = [row EXCEPT ![c] = new],
           NEW amount, new.amount_received = row[c].amount_received + amount,
           NEW to, new.status = to, new.amount_expected = row[c].amount_expected, bill' = bill
    PROVE  Books!Enter(c, amount, to)
<1>1. [d \in Contribs |-> row'[d].status] = [[d \in Contribs |-> row[d].status] EXCEPT ![c] = to]
    BY OneAccount
<1>2. [d \in Contribs |-> row'[d].amount_received]
          = [[d \in Contribs |-> row[d].amount_received] EXCEPT ![c] = new.amount_received]
    BY OneAccount
<1>3. [d \in Contribs |-> row'[d].amount_expected] = [d \in Contribs |-> row[d].amount_expected]
    BY OneAccount
<1>4. [d \in Contribs |-> row[d].amount_received][c] = row[c].amount_received
    OBVIOUS
<1> QED BY <1>1, <1>2, <1>3, <1>4 DEF Books!Enter

LEMMA ExpireInBooks ==
    ASSUME TypeOK, SerialInv, NEW s \in Sessions, NEW c \in Loaded(s),
           sess[s].pc \in {"expire", "lapse"}, ExpireRow(s, c)
    PROVE  Books!Next
<1> DEFINE new == [row[c] EXCEPT !.status = "EXPIRED"]
<1>1. c \in Contribs /\ row[c] \in Row /\ sess[s].loaded[c] = row[c]
    BY FreshCopy
<1>2. row[c].status = "PENDING"
    BY <1>1 DEF ExpireRow, HasLapsed
<1>3. /\ new.status = "EXPIRED" /\ new.amount_received = row[c].amount_received
      /\ new.amount_expected = row[c].amount_expected
    BY <1>1 DEF Row
<1>4. row' = [row EXCEPT ![c] = new] /\ bill' = bill /\ credited' = credited
    BY DEF ExpireRow, outsideVars, historyVars
<1>5. <<row[c].status, new.status>> \in Books!Turns
    BY <1>2, <1>3 DEF Books!Turns
<1> HIDE DEF new
<1>6. Books!Turn(c)
    BY <1>1, <1>3, <1>4, <1>5, TurnInBooks
<1> QED BY <1>1, <1>6 DEF Books!Next

LEMMA RestInBooks ==
    ASSUME UNCHANGED <<row, bill, credited>>
    PROVE  Books!Next
<1>1. row' = row /\ bill' = bill /\ credited' = credited
    OBVIOUS
<1>2. Books!Rest
    BY <1>1 DEF Books!Rest, Books!accounts
<1> QED BY <1>2 DEF Books!Next

\* The invoice is for what is missing on the row now, not on an older copy.
LEMMA AskInBooks ==
    ASSUME TypeOK, SerialInv, NEW s \in Sessions, NEW c \in Loaded(s), GenerateCall(s, c)
    PROVE  Books!Next
<1>0. sess[s].pc = "call"
    BY DEF GenerateCall, At
<1>1. c \in Contribs /\ sess[s].loaded[c] = row[c]
    BY <1>0, FreshCopy
<1>2. PICK i \in Invoices :
          /\ bill[i].owner = {}
          /\ bill' = [bill EXCEPT ![i] = [owner |-> {c}, due |-> Outstanding(row[c]), paid |-> 0]]
    BY <1>1 DEF GenerateCall, FreshReference
<1>3. row' = row /\ credited' = credited
    BY DEF GenerateCall, dbVars, historyVars
<1>4. Outstanding(row[c]) = [d \in Contribs |-> row[d].amount_expected][c]
                                - [d \in Contribs |-> row[d].amount_received][c]
    BY <1>1 DEF Outstanding
<1>5. Books!Ask(c, i)
    BY <1>2, <1>3, <1>4 DEF Books!Ask, Books!accounts
<1> QED BY <1>1, <1>5 DEF Books!Next

LEMMA PayInBooks ==
    ASSUME TypeOK, HandInv, NEW i \in Invoices, Pay(i)
    PROVE  Books!Next
<1>1. row' = row /\ credited' = credited
    BY DEF Pay, dbVars, historyVars
<1>2. bill[i].owner # {}
    BY DEF Pay, HandInv, PaperInv, ShownWasIssued
<1>3. Books!Pay(i)
    BY <1>1, <1>2 DEF Pay, Books!Pay, Books!accounts
<1> QED BY <1>3 DEF Books!Next

\* The payment credited is the one made on the invoice of the row as it stands,
\* and was not credited before.
LEMMA ReceiveInBooks ==
    ASSUME TypeOK, OwnInv, SerialInv, HandInv, NEW s \in Sessions, NEW c \in Loaded(s), Credit(s, c)
    PROVE  Books!Next
<1> DEFINE i == sess[s].invoice
<1>10. PICK paid, to : /\ paid = bill[i].paid
                       /\ to = IF row[c].amount_received + paid = row[c].amount_expected
                                 THEN "PAID" ELSE "FLAGGED_FOR_REVIEW"
    OBVIOUS
<1> DEFINE new == [row[c] EXCEPT !.status = to, !.amount_received = row[c].amount_received + paid]
<1>0. sess[s].pc = "credit" /\ sess[s].loaded[c] # NotLoaded
    BY DEF Credit, At, Loaded
<1>1. /\ c \in Contribs /\ row[c] \in Row /\ sess[s].loaded[c] = row[c] /\ row[c].status \in Unpaid
      /\ row[c].invoice_id = i
    BY <1>0, FreshCopy
<1>2. i \in Invoices /\ bill[i].owner = {c} /\ sess[s].amount = bill[i].paid /\ bill[i].paid > 0
    BY <1>0, <1>1 DEF OwnInv, OwnedSession, HandInv, Carries
<1>3. credited[i] = 0
    BY <1>1, <1>2, NamesAssumption DEF SerialInv, LedgerInv, UncreditedWhileUnpaid
<1>4. /\ new.status = to /\ new.amount_received = row[c].amount_received + paid
      /\ new.amount_expected = row[c].amount_expected
    BY <1>1 DEF Row
<1>5. row' = [row EXCEPT ![c] = new] /\ bill' = bill /\ credited' = [credited EXCEPT ![i] = 1]
    BY <1>1, <1>10, <1>2, <1>3 DEF Credit, Verdict, outsideVars
<1> HIDE DEF new
<1>6. /\ [d \in Contribs |-> row[d].status][c] \in {"PENDING", "EXPIRED"}
      /\ [d \in Contribs |-> row[d].amount_received][c] = row[c].amount_received
      /\ [d \in Contribs |-> row[d].amount_expected][c] = row[c].amount_expected
    BY <1>1 DEF Unpaid
<1>7. Books!Enter(c, paid, to)
    BY <1>1, <1>4, <1>5, EnterInBooks
<1>8. to = IF [d \in Contribs |-> row[d].amount_received][c] + bill[i].paid
                  = [d \in Contribs |-> row[d].amount_expected][c]
             THEN "PAID" ELSE "FLAGGED_FOR_REVIEW"
    BY <1>10, <1>6
<1>9. Books!Receive(c, i)
    BY <1>10, <1>2, <1>3, <1>5, <1>6, <1>7, <1>8 DEF Books!Receive, Books!Enter
<1> QED BY <1>1, <1>2, <1>9 DEF Books!Next

LEMMA CashInBooks ==
    ASSUME TypeOK, SerialInv, EntryInv, NEW s \in Sessions, NEW c \in Loaded(s), ManualCommit(s, c)
    PROVE  Books!Next
<1> DEFINE cash  == sess[s].amount
           total == row[c].amount_received + cash
           new   == [row[c] EXCEPT !.amount_received = total, !.status = "PAID_MANUAL"]
<1>0. sess[s].pc = "manual"
    BY DEF ManualCommit, At
<1>1. /\ c \in Contribs /\ row[c] \in Row /\ sess[s].loaded[c] = row[c] /\ row[c].status \notin Resolved
    BY <1>0, FreshCopy
<1>2. cash \in Cash
    BY <1>0 DEF EntryInv, Entry
<1>3. /\ new.status = "PAID_MANUAL" /\ new.amount_received = total
      /\ new.amount_expected = row[c].amount_expected
    BY <1>1 DEF Row
<1>4. row' = [row EXCEPT ![c] = new] /\ bill' = bill /\ credited' = credited
    BY <1>1 DEF ManualCommit, WithCash, outsideVars
<1> HIDE DEF new
<1>5. [d \in Contribs |-> row[d].status][c] \notin {"PAID", "PAID_MANUAL"}
    BY <1>1 DEF Resolved
<1>6. Books!Enter(c, cash, "PAID_MANUAL")
    BY <1>1, <1>3, <1>4, EnterInBooks
<1>7. Books!ReceiveCash(c)
    BY <1>2, <1>4, <1>5, <1>6 DEF Books!ReceiveCash
<1> QED BY <1>1, <1>7 DEF Books!Next

LEMMA ResolveInBooks ==
    ASSUME TypeOK, SerialInv, NEW s \in Sessions, NEW c \in Loaded(s),
           AcceptPartial(s, c) \/ RequestTopup(s, c)
    PROVE  Books!Next
<1>0. sess[s].pc \in {"accept_partial", "request_topup"}
    BY DEF AcceptPartial, RequestTopup, At
<1>1. c \in Contribs /\ row[c] \in Row /\ row[c].status = "FLAGGED_FOR_REVIEW"
    BY <1>0, FreshCopy
<1>2. bill' = bill /\ credited' = credited
    BY DEF AcceptPartial, RequestTopup, outsideVars, historyVars
<1>3. PICK new : /\ row' = [row EXCEPT ![c] = new] /\ new.status \in {"PAID", "PENDING"}
                 /\ new.amount_received = row[c].amount_received
                 /\ new.amount_expected = row[c].amount_expected
    <2>1. CASE AcceptPartial(s, c)
        <3> DEFINE new == [row[c] EXCEPT !.status = "PAID"]
        <3>1. /\ new.status = "PAID" /\ new.amount_received = row[c].amount_received
              /\ new.amount_expected = row[c].amount_expected
            BY <1>1 DEF Row
        <3>2. row' = [row EXCEPT ![c] = new]
            BY <2>1 DEF AcceptPartial
        <3> QED BY <3>1, <3>2
    <2>2. CASE RequestTopup(s, c)
        <3> DEFINE new == [row[c] EXCEPT !.status = "PENDING", !.invoice_id = Cleared(sess[s].loaded[c], c)]
        <3>1. /\ new.status = "PENDING" /\ new.amount_received = row[c].amount_received
              /\ new.amount_expected = row[c].amount_expected
            BY <1>1 DEF Row
        <3>2. row' = [row EXCEPT ![c] = new]
            BY <2>2 DEF RequestTopup
        <3> QED BY <3>1, <3>2
    <2> QED BY <2>1, <2>2
<1>4. <<row[c].status, new.status>> \in Books!Turns
    BY <1>1, <1>3 DEF Books!Turns
<1>5. Books!Turn(c)
    BY <1>1, <1>2, <1>3, <1>4, TurnInBooks
<1> QED BY <1>1, <1>5 DEF Books!Next

\* An invoice put on an expired row makes it pending again; on a pending row it
\* changes no amount.
LEMMA RecordInBooks ==
    ASSUME TypeOK, SerialInv, NEW s \in Sessions, NEW c \in Loaded(s), GenerateRecord(s, c)
    PROVE  Books!Next \/ UNCHANGED <<Books!accounts, bill, credited>>
<1> DEFINE i == sess[s].invoice
<1>0. sess[s].pc = "record"
    BY DEF GenerateRecord, At
<1>1. c \in Contribs /\ row[c] \in Row /\ sess[s].loaded[c] = row[c] /\ row[c].status \in Unpaid
    BY <1>0, FreshCopy
<1>2. bill' = bill /\ credited' = credited
    BY DEF GenerateRecord, historyVars
<1>3. CASE row[c].status = "EXPIRED"
    <2> DEFINE new == [row[c] EXCEPT !.invoice_id = i, !.status = "PENDING"]
    <2>1. /\ new.status = "PENDING" /\ new.amount_received = row[c].amount_received
          /\ new.amount_expected = row[c].amount_expected
        BY <1>1 DEF Row
    <2>2. row' = [row EXCEPT ![c] = new]
        BY <1>1, <1>3 DEF GenerateRecord
    <2> HIDE DEF new
    <2>3. <<row[c].status, new.status>> \in Books!Turns
        BY <1>3, <2>1 DEF Books!Turns
    <2>4. Books!Turn(c)
        BY <1>1, <1>2, <2>1, <2>2, <2>3, TurnInBooks
    <2> QED BY <1>1, <2>4 DEF Books!Next
<1>4. CASE row[c].status = "PENDING"
    <2> DEFINE new == [row[c] EXCEPT !.invoice_id = i]
    <2>1. /\ new.status = row[c].status /\ new.amount_received = row[c].amount_received
          /\ new.amount_expected = row[c].amount_expected
        BY <1>1 DEF Row
    <2>2. row' = [row EXCEPT ![c] = new]
        BY <1>1, <1>4 DEF GenerateRecord
    <2> HIDE DEF new
    <2>3. \A d \in Contribs : /\ row'[d].status = row[d].status
                              /\ row'[d].amount_expected = row[d].amount_expected
                              /\ row'[d].amount_received = row[d].amount_received
        BY <1>1, <2>1, <2>2 DEF TypeOK
    <2> QED BY <1>2, <2>3 DEF Books!accounts
<1> QED BY <1>1, <1>3, <1>4 DEF Unpaid

\* The handler holds every pending row and no other, so the new price reaches
\* all of them and no row that was paid, expired or flagged.
LEMMA RepriceInBooks ==
    ASSUME TypeOK, SerialInv, EntryInv, NEW s \in Sessions, RepriceCommit(s)
    PROVE  Books!Next
<1>0. sess[s].pc = "reprice" /\ bill' = bill /\ credited' = credited
    BY DEF RepriceCommit, At, outsideVars, historyVars
<1>1. PICK price \in Prices :
          /\ price = sess[s].amount
          /\ \A c \in Contribs : row[c].status = "PENDING" => c \in Loaded(s)
    BY <1>0 DEF EntryInv, Entry, Loaded
<1>2. ASSUME NEW c \in Contribs
      PROVE  /\ row'[c].status = row[c].status /\ row'[c].amount_received = row[c].amount_received
             /\ row'[c].amount_expected = IF row[c].status = "PENDING" THEN price
                                                                       ELSE row[c].amount_expected
    <2>1. CASE c \in Loaded(s)
        <3>1. row[c] \in Row /\ sess[s].loaded[c] = row[c] /\ row[c].status = "PENDING"
            BY <1>0, <2>1, FreshCopy
        <3>2. row'[c] = Repriced(s, c)
            BY <2>1 DEF RepriceCommit
        <3>3. /\ Repriced(s, c).status = row[c].status
              /\ Repriced(s, c).amount_received = row[c].amount_received
              /\ Repriced(s, c).amount_expected = price
            BY <1>1, <3>1 DEF Repriced, Row
        <3> QED BY <3>1, <3>2, <3>3
    <2>2. CASE c \notin Loaded(s)
        <3>1. row'[c] = row[c] /\ row[c].status # "PENDING"
            BY <1>1, <2>2 DEF RepriceCommit
        <3> QED BY <3>1
    <2> QED BY <2>1, <2>2
<1>3. /\ [c \in Contribs |-> row'[c].status] = [c \in Contribs |-> row[c].status]
      /\ [c \in Contribs |-> row'[c].amount_received] = [c \in Contribs |-> row[c].amount_received]
    BY <1>2
<1>4. [c \in Contribs |-> row'[c].amount_expected]
          = [c \in Contribs |-> IF [d \in Contribs |-> row[d].status][c] = "PENDING" THEN price
                                  ELSE [d \in Contribs |-> row[d].amount_expected][c]]
    BY <1>2
<1>5. Books!Reprice(price)
    BY <1>0, <1>3, <1>4 DEF Books!Reprice
<1> QED BY <1>5 DEF Books!Next

LEMMA StepInBooks ==
    ASSUME Together, EntryInv, [Next]_vars
    PROVE  [Books!Next]_<<Books!accounts, bill, credited>>
<1> USE DEF Together
<1>1. ASSUME NEW s \in Sessions, NEW c \in Loaded(s), Continue(s, c)
      PROVE  Books!Next \/ UNCHANGED <<Books!accounts, bill, credited>>
    <2>1. CASE GenerateExpire(s, c) \/ ReconcileExpire(s, c)
        BY <2>1, ExpireInBooks DEF GenerateExpire, ReconcileExpire, At
    <2>2. CASE GenerateNotLapsed(s, c) \/ GenerateRefresh(s, c) \/ GenerateStop(s, c)
               \/ ReconcileFound(s, c) \/ ReconcileNotFound(s, c) \/ ReconcileKeep(s, c)
        BY <2>2, RestInBooks DEF GenerateNotLapsed, GenerateRefresh, GenerateStop, ReconcileFound,
           ReconcileNotFound, ReconcileKeep, dbVars, outsideVars, historyVars
    <2> QED BY <1>1, <2>1, <2>2, AskInBooks, RecordInBooks, ReceiveInBooks, CashInBooks, ResolveInBooks
            DEF Continue, Generate, Reconcile
<1>2. ASSUME NEW s \in Sessions, NEW c \in Contribs, Begin(s, c) PROVE Books!Next
    BY <1>2, RestInBooks DEF Begin, GenerateLoad, ReconcileLoad, ManualLoad, ResolveLoad,
       dbVars, outsideVars, historyVars
<1>3. ASSUME \/ \E i \in Invoices : StoreEvent(i) \/ Reprocess(i) \/ Lapse(i)
             \/ \E s \in Sessions, i \in Invoices : WebhookMatch(s, i) \/ WebhookSkip(s, i)
             \/ \E s \in Sessions : WebhookMark(s) \/ RepriceLoad(s)
             \/ ClosePurse \/ ReopenPurse \/ DeadlinePasses \/ ChangeProvider \/ Crash \/ UNCHANGED vars
      PROVE  Books!Next
    BY <1>3, RestInBooks DEF StoreEvent, Reprocess, Lapse, WebhookMatch, WebhookSkip, WebhookMark,
       RepriceLoad, ClosePurse, ReopenPurse, DeadlinePasses, ChangeProvider, Crash, vars, dbVars, outsideVars, historyVars
<1> QED BY <1>1, <1>2, <1>3, PayInBooks, RepriceInBooks DEF Next

LEMMA StartInBooks == Init => Books!Init
<1> SUFFICES ASSUME Init PROVE Books!Init
    OBVIOUS
<1>1. PICK price \in Prices :
          row = [c \in Contribs |-> [status |-> "PENDING", amount_expected |-> price,
                                     amount_received |-> 0, invoice_id |-> NoInvoice]]
    BY DEF Init
<1>2. /\ [c \in Contribs |-> row[c].status] = [c \in Contribs |-> "PENDING"]
      /\ [c \in Contribs |-> row[c].amount_expected] = [c \in Contribs |-> price]
      /\ [c \in Contribs |-> row[c].amount_received] = [c \in Contribs |-> 0]
    BY <1>1
<1> QED BY <1>2 DEF Init, Books!Init

\* Handlers that do not overlap are an atomic ledger of the payments, entries,
\* expiries, decisions and edits, for any number of rows and invoices and through
\* any number of restarts, lost notifications and repeated deliveries.
THEOREM SerialLedgerIsAtomic ==
    ASSUME Serial
    PROVE  Spec => ImplementsLedger
<1>1. Together /\ EntryInv /\ [Next]_vars => [Books!Next]_<<Books!accounts, bill, credited>>
    BY StepInBooks
<1>2. Together /\ EntryInv /\ [Next]_vars => (Together /\ EntryInv)'
    <2> SUFFICES ASSUME Together, EntryInv, [Next]_vars PROVE Together' /\ EntryInv'
        OBVIOUS
    <2>1. Together'
        BY TogetherStep
    <2>2. EntryInv'
        BY EntryStep DEF Together
    <2> QED BY <2>1, <2>2
<1>3. Spec => [](Together /\ EntryInv)
    BY <1>2, TogetherInit, EntryInit, PTL DEF Spec
<1> QED BY <1>1, <1>3, StartInBooks, PTL DEF Spec, ImplementsLedger, Books!Spec, Books!accounts
=============================================================================
