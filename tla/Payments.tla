------------------------------ MODULE Payments ------------------------------
(***************************************************************************)
(* Invoices and the providers' webhooks (packages/platform/invoices.py,    *)
(* the invoice rows of database.py, payment_webhooks.py, payment_flow.py): *)
(* a checkout opens an invoice, the buyer may cancel it, and the provider  *)
(* delivers each payment until it is answered.                             *)
(*                                                                         *)
(* No write to an invoice is guarded by its status: every handler reads,   *)
(* decides, and writes by primary key one await later.  The module follows *)
(* one conversation, about one project of one buyer: conversations share   *)
(* no invoice and no state.  A checkout inserts at most one invoice, so    *)
(* the invoice is named by its checkout.                                   *)
(*                                                                         *)
(* Left out: the dev-mode auto-confirm; InvoiceService's sweep of old      *)
(* invoices, which nothing in the repository calls; products without a     *)
(* price, which no keyboard offers.                                        *)
(***************************************************************************)
EXTENDS Faults, Sequences, SequencesExt

CONSTANTS
    Checkouts,          \* pay_payme / pay_click / pay_uzum callbacks
    Cancels,            \* cancel_payment callbacks
    Payments,           \* transactions at the providers
    Deliveries,         \* webhook calls that finalise a payment
    PaymentOf,          \* the payment a delivery is about
    ProviderOf,         \* who a payment is made through
    Overlap,            \* may calls about one invoice, or two checkouts, overlap?
    NoInvoice

ASSUME PaymentsAssumption ==
    /\ PaymentOf \in [Deliveries -> Payments]
    /\ ProviderOf \in [Payments -> {"payme", "click", "uzum"}]
    /\ Overlap \in BOOLEAN
    /\ NoInvoice \notin Checkouts

VARIABLES
    status,             \* invoices.status
    issued,             \* the invoices in created_at order
    talking,            \* does the chat's FSM data (in memory) hold the project?
    shown,              \* invoice_number in the FSM data
    grants,             \* the GRANT_PAID rows written for a payment
    cpc, previous,      \* a checkout: where it is, the pending invoice it found
    kpc, target,        \* a cancel: where it is, the invoice it will expire
    invoiceOf, exact,   \* a payment: its invoice, and whether the amount is the invoice's
    dialog,             \* where the provider is before it finalises it
    answer,             \* what the provider was told about it in the end
    dpc, verdict        \* a delivery: where it is, what it is going to answer

checkoutVars == <<cpc, previous>>
cancelVars   == <<kpc, target>>
paymentVars  == <<invoiceOf, exact, dialog, answer>>
deliveryVars == <<dpc, verdict>>
chatVars == <<talking, shown>>
vars == <<status, issued, chatVars, grants, checkoutVars, cancelVars, paymentVars,
          deliveryVars, faults>>

InvoiceOrNone == Checkouts \cup {NoInvoice}

TypeOK ==
    /\ status \in [Checkouts -> {"absent", "pending", "paid", "expired", "cancelled"}]
    /\ issued \in Seq(Checkouts) /\ IsInjective(issued)
    /\ talking \in BOOLEAN
    /\ shown \in InvoiceOrNone
    /\ grants \in [Payments -> Nat]
    /\ cpc \in [Checkouts -> {"idle", "expire", "insert", "show", "over"}]
    /\ previous \in [Checkouts -> InvoiceOrNone]
    /\ kpc \in [Cancels -> {"idle", "expire", "clear", "over"}]
    /\ target \in [Cancels -> InvoiceOrNone]
    /\ invoiceOf \in [Payments -> InvoiceOrNone]
    /\ exact \in [Payments -> BOOLEAN]
    /\ dialog \in [Payments -> {"none", "asking", "allowed", "ready"}]
    /\ answer \in [Payments -> {"none", "denied", "cancelled", "confirmed", "refused"}]
    /\ dpc \in [Deliveries -> {"idle", "mark", "grant", "answer", "over"}]
    /\ verdict \in [Deliveries -> {"confirmed", "refused"}]
    /\ FaultsTypeOK

Init ==
    /\ status = [c \in Checkouts |-> "absent"]
    /\ issued = <<>>
    /\ talking = TRUE
    /\ shown = NoInvoice
    /\ grants = [p \in Payments |-> 0]
    /\ cpc = [c \in Checkouts |-> "idle"]
    /\ previous = [c \in Checkouts |-> NoInvoice]
    /\ kpc = [k \in Cancels |-> "idle"]
    /\ target = [k \in Cancels |-> NoInvoice]
    /\ invoiceOf = [p \in Payments |-> NoInvoice]
    /\ exact = [p \in Payments |-> FALSE]
    /\ dialog = [p \in Payments |-> "none"]
    /\ answer = [p \in Payments |-> "none"]
    /\ dpc = [d \in Deliveries |-> "idle"]
    /\ verdict = [d \in Deliveries |-> "refused"]
    /\ FaultsInit

-----------------------------------------------------------------------------
(***************************************************************************)
(* Checkout: InvoiceService.create_invoice, then the chat is shown it.     *)
(***************************************************************************)

CheckoutRunning(c) == cpc[c] \in {"expire", "insert", "show"}

\* get_pending_invoice: the most recent pending invoice.
Latest(i) ==
    /\ i \in DOMAIN issued
    /\ status[issued[i]] = "pending"
    /\ \A k \in i + 1 .. Len(issued) : status[issued[k]] # "pending"

LookUpPending(c) ==
    /\ cpc[c] = "idle" /\ talking
    /\ Overlap \/ \A o \in Checkouts : ~CheckoutRunning(o)
    /\ \/ \E i \in DOMAIN issued :
            /\ Latest(i)
            /\ previous' = [previous EXCEPT ![c] = issued[i]]
            /\ cpc' = [cpc EXCEPT ![c] = "expire"]
       \/ /\ \A i \in DOMAIN issued : ~Latest(i)
          /\ cpc' = [cpc EXCEPT ![c] = "insert"]
          /\ UNCHANGED previous
    /\ UNCHANGED <<status, issued, chatVars, grants, cancelVars, paymentVars, deliveryVars, faults>>

\* mark_invoice_expired, by primary key: whatever the row has become since.
ExpirePrevious(c) ==
    /\ cpc[c] = "expire"
    /\ cpc' = [cpc EXCEPT ![c] = "insert"]
    /\ status' = [status EXCEPT ![previous[c]] = "expired"]
    /\ previous' = [previous EXCEPT ![c] = NoInvoice]
    /\ UNCHANGED <<issued, chatVars, grants, cancelVars, paymentVars, deliveryVars, faults>>

InsertInvoice(c) ==
    /\ cpc[c] = "insert"
    /\ cpc' = [cpc EXCEPT ![c] = "show"]
    /\ status' = [status EXCEPT ![c] = "pending"]
    /\ issued' = Append(issued, c)
    /\ UNCHANGED <<chatVars, grants, previous, cancelVars, paymentVars, deliveryVars, faults>>

\* The message is edited and the number put into the FSM data.
ShowInvoice(c) ==
    /\ cpc[c] = "show"
    /\ cpc' = [cpc EXCEPT ![c] = "over"]
    /\ shown' = c
    /\ UNCHANGED <<status, issued, talking, grants, previous, cancelVars, paymentVars,
                   deliveryVars, faults>>

-----------------------------------------------------------------------------
(***************************************************************************)
(* cancel_payment                                                          *)
(***************************************************************************)

CancelRunning(k) == kpc[k] \in {"expire", "clear"}

\* The shown invoice is read.  When it is not pending, or there is none,
\* nothing is written.
LookUpShown(k) ==
    /\ kpc[k] = "idle"
    /\ IF shown # NoInvoice /\ status[shown] = "pending"
       THEN /\ kpc' = [kpc EXCEPT ![k] = "expire"]
            /\ target' = [target EXCEPT ![k] = shown]
       ELSE /\ kpc' = [kpc EXCEPT ![k] = "clear"]
            /\ UNCHANGED target
    /\ UNCHANGED <<status, issued, chatVars, grants, checkoutVars, paymentVars,
                   deliveryVars, faults>>

\* mark_invoice_expired, by primary key again.
CancelInvoice(k) ==
    /\ kpc[k] = "expire"
    /\ kpc' = [kpc EXCEPT ![k] = "clear"]
    /\ status' = [status EXCEPT ![target[k]] = "expired"]
    /\ target' = [target EXCEPT ![k] = NoInvoice]
    /\ UNCHANGED <<issued, chatVars, grants, checkoutVars, paymentVars, deliveryVars, faults>>

\* The menu is shown and the FSM data, project and invoice, are dropped.
ClearChat(k) ==
    /\ kpc[k] = "clear"
    /\ kpc' = [kpc EXCEPT ![k] = "over"]
    /\ talking' = FALSE
    /\ shown' = NoInvoice
    /\ UNCHANGED <<status, issued, grants, checkoutVars, target, paymentVars,
                   deliveryVars, faults>>

-----------------------------------------------------------------------------
(***************************************************************************)
(* The provider.  A payment may be about any invoice ever issued and of    *)
(* any amount (exact: the sum the handler reads is the invoice's).  Payme  *)
(* and Click ask first, Uzum does not.  What was allowed is delivered      *)
(* until the provider has an answer; nothing of the dialog is written      *)
(* down here, so only the provider knows where it is.                      *)
(***************************************************************************)

BeginPayment(p) ==
    /\ invoiceOf[p] = NoInvoice
    /\ \E i \in DOMAIN issued : invoiceOf' = [invoiceOf EXCEPT ![p] = issued[i]]
    /\ \E e \in BOOLEAN : exact' = [exact EXCEPT ![p] = e]
    /\ dialog' = [dialog EXCEPT ![p] = IF ProviderOf[p] = "uzum" THEN "ready" ELSE "asking"]
    /\ UNCHANGED <<status, issued, chatVars, grants, checkoutVars, cancelVars, answer,
                   deliveryVars, faults>>

Dialog(p, from, to, a) ==
    /\ dialog[p] = from /\ answer[p] = "none"
    /\ dialog' = [dialog EXCEPT ![p] = to]
    /\ answer' = [answer EXCEPT ![p] = a]
    /\ UNCHANGED <<status, issued, chatVars, grants, checkoutVars, cancelVars, invoiceOf, exact,
                   deliveryVars, faults>>

Payable(p) == status[invoiceOf[p]] = "pending" /\ exact[p]

\* CheckPerformTransaction; Click's action 0
Allow(p) ==
    /\ dialog[p] = "asking" /\ Payable(p)
    /\ Dialog(p, "asking", IF ProviderOf[p] = "payme" THEN "allowed" ELSE "ready", "none")

Deny(p) ==
    /\ dialog[p] = "asking" /\ ~Payable(p)
    /\ Dialog(p, "asking", "asking", "denied")

\* CreateTransaction is acknowledged unseen.
CreateTransaction(p) == Dialog(p, "allowed", "ready", "none")

\* So is CancelTransaction, whatever became of the invoice.
CancelTransaction(p) ==
    /\ ProviderOf[p] = "payme"
    /\ Overlap \/ \A d \in Deliveries : PaymentOf[d] = p => dpc[d] \notin {"mark", "grant", "answer"}
    /\ Dialog(p, "ready", "ready", "cancelled")

Invoice(d) == invoiceOf[PaymentOf[d]]

DeliveryRunning(d) == dpc[d] \in {"mark", "grant", "answer"}

Delivers(d) ==
    /\ dpc[d] = "idle"
    /\ dialog[PaymentOf[d]] = "ready"
    /\ answer[PaymentOf[d]] = "none"
    /\ Overlap \/ \A o \in Deliveries : DeliveryRunning(o) => Invoice(o) # Invoice(d)

Goes(d, to, v) ==
    /\ dpc' = [dpc EXCEPT ![d] = to]
    /\ verdict' = [verdict EXCEPT ![d] = v]
    /\ UNCHANGED <<status, issued, chatVars, grants, checkoutVars, cancelVars, paymentVars, faults>>

\* Mutant: a repeated webhook is not answered at all.
FindPaid_Silent(d) ==
    /\ Delivers(d)
    /\ status[Invoice(d)] = "paid"
    /\ Goes(d, "over", "refused")

\* process_payment reads the invoice and decides.  Already paid: the invoice
\* is returned, whoever's payment paid it.
FindPaid(d) ==
    /\ Delivers(d)
    /\ status[Invoice(d)] = "paid"
    /\ Goes(d, "answer", "confirmed")

FindExpired(d) ==
    /\ Delivers(d)
    /\ status[Invoice(d)] = "expired"
    /\ Goes(d, "answer", "refused")

FindWrongAmount(d) ==
    /\ Delivers(d)
    /\ status[Invoice(d)] = "pending"
    /\ ~exact[PaymentOf[d]]
    /\ Goes(d, "answer", "refused")

\* Mutant: an invoice that is paid already is accepted like a pending one.
FindPending_OrPaid(d) ==
    /\ Delivers(d)
    /\ status[Invoice(d)] \in {"pending", "paid"}
    /\ exact[PaymentOf[d]]
    /\ Goes(d, "mark", "refused")

FindPending(d) ==
    /\ Delivers(d)
    /\ status[Invoice(d)] = "pending"
    /\ exact[PaymentOf[d]]
    /\ Goes(d, "mark", "refused")

\* mark_invoice_paid, by primary key: whatever the row has become since.
MarkPaid(d) ==
    /\ dpc[d] = "mark"
    /\ dpc' = [dpc EXCEPT ![d] = "grant"]
    /\ status' = [status EXCEPT ![Invoice(d)] = "paid"]
    /\ UNCHANGED <<issued, chatVars, grants, checkoutVars, cancelVars, paymentVars, verdict, faults>>

\* Mutant: the answer is what the refreshed row says.
GrantCredit_AnswersRefreshed(d) ==
    /\ dpc[d] = "grant"
    /\ dpc' = [dpc EXCEPT ![d] = "answer"]
    /\ verdict' = [verdict EXCEPT ![d] =
                     IF status[Invoice(d)] = "paid" THEN "confirmed" ELSE "refused"]
    /\ grants' = [grants EXCEPT ![PaymentOf[d]] = @ + 1]
    /\ UNCHANGED <<status, issued, chatVars, checkoutVars, cancelVars, paymentVars, faults>>

\* grant_paid_credit; the refreshed invoice is for the reply only.
GrantCredit(d) ==
    /\ dpc[d] = "grant"
    /\ dpc' = [dpc EXCEPT ![d] = "answer"]
    /\ verdict' = [verdict EXCEPT ![d] = "confirmed"]
    /\ grants' = [grants EXCEPT ![PaymentOf[d]] = @ + 1]
    /\ UNCHANGED <<status, issued, chatVars, checkoutVars, cancelVars, paymentVars, faults>>

\* The buyer is notified and the provider reads the reply; it keeps the first.
Answer(d) ==
    /\ dpc[d] = "answer"
    /\ dpc' = [dpc EXCEPT ![d] = "over"]
    /\ answer' = [answer EXCEPT ![PaymentOf[d]] = IF @ = "none" THEN verdict[d] ELSE @]
    /\ UNCHANGED <<status, issued, chatVars, grants, checkoutVars, cancelVars, invoiceOf, exact,
                   dialog, verdict, faults>>

-----------------------------------------------------------------------------
(***************************************************************************)
(* Failures                                                                *)
(***************************************************************************)

\* A database call raises: aiohttp answers 500, which is no answer to the
\* provider, and aiogram logs and drops the update.
DeliveryRaises(d) ==
    /\ DeliveryRunning(d)
    /\ dpc' = [dpc EXCEPT ![d] = "over"]
    /\ Fault
    /\ UNCHANGED <<status, issued, chatVars, grants, checkoutVars, cancelVars, paymentVars, verdict>>

CheckoutRaises(c) ==
    /\ CheckoutRunning(c)
    /\ cpc' = [cpc EXCEPT ![c] = "over"]
    /\ Fault
    /\ UNCHANGED <<status, issued, chatVars, grants, previous, cancelVars, paymentVars, deliveryVars>>

CancelRaises(k) ==
    /\ CancelRunning(k)
    /\ kpc' = [kpc EXCEPT ![k] = "over"]
    /\ Fault
    /\ UNCHANGED <<status, issued, chatVars, grants, checkoutVars, target, paymentVars, deliveryVars>>

\* The bot restarts: every handler in progress is gone, and with it the FSM data.
BotRestarts ==
    /\ cpc' = [c \in Checkouts |-> IF CheckoutRunning(c) THEN "over" ELSE cpc[c]]
    /\ kpc' = [k \in Cancels |-> IF CancelRunning(k) THEN "over" ELSE kpc[k]]
    /\ dpc' = [d \in Deliveries |-> IF DeliveryRunning(d) THEN "over" ELSE dpc[d]]
    /\ talking' = FALSE
    /\ shown' = NoInvoice
    /\ Fault
    /\ UNCHANGED <<status, issued, grants, previous, target, paymentVars, verdict>>

-----------------------------------------------------------------------------
CheckoutStep(c) ==
    \/ LookUpPending(c) \/ ExpirePrevious(c) \/ InsertInvoice(c) \/ ShowInvoice(c)

CancelStep(k) == LookUpShown(k) \/ CancelInvoice(k) \/ ClearChat(k)

DialogStep(p) == Allow(p) \/ Deny(p) \/ CreateTransaction(p)

Receive(d) == FindPaid(d) \/ FindExpired(d) \/ FindWrongAmount(d) \/ FindPending(d)

DeliveryStep(d) == Receive(d) \/ MarkPaid(d) \/ GrantCredit(d) \/ Answer(d)

Next ==
    \/ \E c \in Checkouts : CheckoutStep(c) \/ CheckoutRaises(c)
    \/ \E k \in Cancels : CancelStep(k) \/ CancelRaises(k)
    \/ \E p \in Payments : BeginPayment(p) \/ DialogStep(p) \/ CancelTransaction(p)
    \/ \E d \in Deliveries : DeliveryStep(d) \/ DeliveryRaises(d)
    \/ BotRestarts

Spec == Init /\ [][Next]_vars

\* A handler runs on until it is over, and a provider goes on with a payment and
\* delivers again what was not answered.  Buyers need not do anything.
FairSpec ==
    /\ Spec
    /\ \A p \in Payments : WF_vars(DialogStep(p))
    /\ \A d \in Deliveries : WF_vars(DeliveryStep(d))

-----------------------------------------------------------------------------
(***************************************************************************)
(* Properties                                                              *)
(***************************************************************************)

PaymentsFor(i) == {p \in Payments : invoiceOf[p] = i}

Credits(i) == {p \in PaymentsFor(i) : grants[p] > 0}

\* process_payment: "a webhook that arrives twice for the same invoice returns
\* the existing invoice on the second call without double-crediting".  Whatever
\* payments are made for an invoice, and however a checkout or a cancel rewrites
\* it meanwhile, it is credited once.
CreditedAtMostOnce ==
    \A i \in Checkouts :
        /\ \A p \in PaymentsFor(i) : grants[p] <= 1
        /\ \A p, q \in Credits(i) : p = q

\* When nothing fails, a provider told "done" was told so about an invoice that
\* was credited, and one told "failed", or that cancelled, gives back money that
\* was not credited.  And an answer to "may this be paid?" stays good until the
\* money comes, unless the invoice has expired in between.
AnswersAreTrue ==
    \A p \in Payments :
        /\ answer[p] = "confirmed" => Credits(invoiceOf[p]) # {} \/ faults > 0
        /\ answer[p] \in {"refused", "cancelled"} => grants[p] = 0 \/ faults > 0
        /\ answer[p] = "refused" /\ ProviderOf[p] # "uzum" => status[invoiceOf[p]] = "expired"

\* create_invoice: "only one live invoice per generation at a time"; and what is
\* credited was paid for: an invoice once, only by a payment of its amount, and only
\* when it is not open any more.
InvoicesInOrder ==
    /\ \A c, o \in Checkouts : status[c] = "pending" /\ status[o] = "pending" => c = o
    /\ CreditedAtMostOnce
    /\ \A p \in Payments : grants[p] > 0 =>
           exact[p] /\ status[invoiceOf[p]] \in {"paid", "expired"}

\* The webhook finalises a payment: "mark invoice paid, credit user, notify".
\* What a provider was told is done was credited, failures or not.
ConfirmedIsCredited ==
    \A p \in Payments : answer[p] = "confirmed" => Credits(invoiceOf[p]) # {}

\* Every payment that was begun is answered in the end, however often the bot
\* dies under it.
EveryPaymentIsAnswered ==
    \A p \in Payments : invoiceOf[p] # NoInvoice ~> answer[p] # "none"
=============================================================================
