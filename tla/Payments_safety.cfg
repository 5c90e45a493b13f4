CONSTANTS
    c1 = c1
    c2 = c2
    pay1 = pay1
    pay2 = pay2
    d1 = d1
    d2 = d2
    d3 = d3
    d4 = d4
    k1 = k1
    Checkouts = {c1, c2}
    Cancels = {k1}
    Payments = {pay1, pay2}
    Deliveries = {d1, d2, d3, d4}
    PaymentOf <- MCPaymentOf
    ProviderOf <- MCProviderOf
    Overlap = FALSE
    NoInvoice = NoInvoice
    s1 = s1  s2 = s2  name = name  f1 = f1  f2 = f2
    Starts = {s1, s2}
    Names = {name}
    Documents = {f1, f2}
    MaxProjects = 2
    MaxMoves = 2
    Followed = {"intake", "invoices"}
    MaxFaults = 1
SPECIFICATION FairPurchases
INVARIANTS
    PurchasesTypeOK
    InvoicesInOrder
    AnswersAreTrue
    ConversationLeadsOn
PROPERTIES
    EveryPaymentIsAnswered
CHECK_DEADLOCK FALSE
