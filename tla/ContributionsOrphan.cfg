\* The payer pays the first invoice after it was replaced by a second one.
SPECIFICATION FairSpec
CONSTANTS
    Contribs = {c1}
    Sessions = {s1}
    Invoices = {i1, i2}
    NoInvoice = NoInvoice
    NotLoaded = NotLoaded
    Prices = {2}
    Payable = {2}
    Cash = {1}
    Providers = {monnify, paystack}
    Issuer <- EveryIssuer
    Handlers = {"generate", "webhook", "reconcile"}
PROPERTIES
    EveryPaymentIsCredited
