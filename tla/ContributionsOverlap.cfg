\* Two overlapping handlers on two members' rows.
SPECIFICATION Spec
CONSTANTS
    Contribs = {c1, c2}
    Sessions = {s1, s2}
    Invoices = {i1, i2}
    NoInvoice = NoInvoice
    NotLoaded = NotLoaded
    Prices = {2}
    Payable = {2}
    Cash = {1}
    Providers = {paystack}
    Issuer <- EveryIssuer
    Handlers = {"generate", "reconcile"}
INVARIANTS
    InvoiceIsOwn
SYMMETRY OverlapSymmetry
