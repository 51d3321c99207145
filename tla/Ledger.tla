------------------------------- MODULE Ledger -------------------------------
(***************************************************************************)
(* What the ledger promises: each payment, cash entry, expiry, decision    *)
(* and edit is one step on the amounts as they are, and every payment     *)
(* counts once, in full, for the member who was asked for it.  No handler  *)
(* holds a copy here, waits for an answer, is lost or is called twice.     *)
(***************************************************************************)
EXTENDS Integers

CONSTANTS
    Contribs,  \* one contribution of each member
    Invoices,  \* invoice references
    Prices,    \* what a contribution can cost
    Payable,   \* what can be paid on an invoice
    Cash       \* what can be paid in cash

VARIABLES
    status,    \* of each contribution
    expected,  \* the amount asked for
    received,  \* the amount that came
    bill,      \* each invoice: whose it is ({} before it is issued), asked, paid
    credited   \* how often it was received

accounts == <<status, expected, received>>

Init ==
    /\ status = [c \in Contribs |-> "PENDING"]
    /\ \E price \in Prices : expected = [c \in Contribs |-> price]
    /\ received = [c \in Contribs |-> 0]
    /\ bill = [i \in Invoices |-> [owner |-> {}, due |-> 0, paid |-> 0]]
    /\ credited = [i \in Invoices |-> 0]

\* The provider issues an invoice for what is missing.
Ask(c, i) ==
    /\ bill[i].owner = {}
    /\ bill' = [bill EXCEPT ![i] = [owner |-> {c}, due |-> expected[c] - received[c], paid |-> 0]]
    /\ UNCHANGED <<accounts, credited>>

\* Its owner pays it, once, and not always what it asks for.
Pay(i) ==
    /\ bill[i].owner # {} /\ bill[i].paid = 0
    /\ \E amount \in Payable : bill' = [bill EXCEPT ![i].paid = amount]
    /\ UNCHANGED <<accounts, credited>>

\* Money arrives at a contribution and gives it a new status.
Enter(c, amount, to) ==
    /\ received' = [received EXCEPT ![c] = @ + amount]
    /\ status' = [status EXCEPT ![c] = to]
    /\ UNCHANGED <<expected, bill>>

\* A short or excessive payment waits for a decision.
Receive(c, i) ==
    /\ bill[i].owner = {c} /\ bill[i].paid > 0 /\ credited[i] = 0
    /\ status[c] \in {"PENDING", "EXPIRED"}
    /\ credited' = [credited EXCEPT ![i] = 1]
    /\ Enter(c, bill[i].paid,
             IF received[c] + bill[i].paid = expected[c] THEN "PAID" ELSE "FLAGGED_FOR_REVIEW")

ReceiveCash(c) ==
    /\ status[c] \notin {"PAID", "PAID_MANUAL"}
    /\ \E amount \in Cash : Enter(c, amount, "PAID_MANUAL")
    /\ UNCHANGED credited

\* Expiry, a new invoice after it, and the two decisions on a flagged one.
Turns == {<<"PENDING", "EXPIRED">>, <<"EXPIRED", "PENDING">>,
          <<"FLAGGED_FOR_REVIEW", "PAID">>, <<"FLAGGED_FOR_REVIEW", "PENDING">>}

Turn(c) ==
    /\ \E to \in {"PENDING", "EXPIRED", "PAID"} :
          <<status[c], to>> \in Turns /\ status' = [status EXCEPT ![c] = to]
    /\ UNCHANGED <<expected, received, bill, credited>>

\* A new price is that of all pending contributions, and of no other.
Reprice(price) ==
    /\ expected' = [c \in Contribs |-> IF status[c] = "PENDING" THEN price ELSE expected[c]]
    /\ UNCHANGED <<status, received, bill, credited>>

\* Where the ledger rests while a handler reads, waits or gives up.  It is first
\* in Next, because most steps of the handlers are of this kind.
Rest == UNCHANGED <<accounts, bill, credited>>

Next ==
    \/ Rest
    \/ \E c \in Contribs, i \in Invoices : Ask(c, i) \/ Receive(c, i)
    \/ \E i \in Invoices : Pay(i)
    \/ \E c \in Contribs : ReceiveCash(c) \/ Turn(c)
    \/ \E price \in Prices : Reprice(price)

Spec == Init /\ [][Next]_<<accounts, bill, credited>>
=============================================================================
