\* One session: the handlers run one after the other, in any order, with
\* restarts, lost, late and repeated notifications, and payments that are
\* short, exact or over.
SPECIFICATION Spec
CONSTANTS
    Contribs = {c1}
    Sessions = {s1}
    Invoices = {i1, i2}
    NoInvoice = NoInvoice
    NotLoaded = NotLoaded
    Prices = {1, 2}
    Payable = {1}
    Cash = {1}
    Providers = {paystack}
    Issuer <- EveryIssuer
    Handlers = {"generate", "webhook", "reconcile", "manual", "resolve", "reprice"}
INVARIANTS
    TypeOK
    BooksBalance
    CreditedAtMostOnce
    PaidInFull
    LiveInvoiceAsksRemainder
    HistoryIsPath
    CollectedIsReal
    ViewsAgree
PROPERTIES
    ImplementsLedger
SYMMETRY InvoiceSymmetry
