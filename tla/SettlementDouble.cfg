\* One handler at a time, and a group that registers its account itself, at
\* Paystack: the kill switch, the account and one invoice, in order.
SPECIFICATION Spec
CONSTANTS
    Sessions = {s1}
    Invoices = {i1}
    Handlers = {"update", "save", "switch", "invoice"}
CONSTRAINT RegisteredNow
INVARIANTS
    PayableIsHeld
