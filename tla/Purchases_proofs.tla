-------------------------- MODULE Purchases_proofs --------------------------
(***************************************************************************)
(* Proofs about Purchases, for every number of checkouts, payments,        *)
(* deliveries and failures: invoices and answers while the calls about one *)
(* invoice follow each other, the types whatever overlaps, and that the    *)
(* conversation about a presentation leads on.                             *)
(***************************************************************************)
EXTENDS Purchases, SequenceTheorems, TLAPS

(***************************************************************************)
(* The inductive invariant.                                                *)
(***************************************************************************)
Open(i) == status[i] = "pending"

\* What is named anywhere has been inserted, and nothing is inserted twice.
IssuedInv ==
    /\ \A i \in DOMAIN issued : status[issued[i]] # "absent"
    /\ \A c \in Checkouts : status[c] # "absent" => \E i \in DOMAIN issued : issued[i] = c
    /\ \A c \in Checkouts :
        /\ cpc[c] \in {"idle", "expire", "insert"} => status[c] = "absent"
        /\ cpc[c] = "show" => status[c] # "absent"
        /\ cpc[c] = "expire" => previous[c] # NoInvoice
        /\ previous[c] # NoInvoice => status[previous[c]] # "absent"
    /\ \A k \in Cancels :
        /\ kpc[k] = "expire" => target[k] # NoInvoice
        /\ target[k] # NoInvoice => status[target[k]] # "absent"
    /\ shown # NoInvoice => status[shown] # "absent"
    /\ \A p \in Payments : invoiceOf[p] # NoInvoice => status[invoiceOf[p]] # "absent"

\* A checkout that is going to insert has nothing open before it.
OpenInv ==
    /\ \A c, o \in Checkouts : CheckoutRunning(c) /\ CheckoutRunning(o) => c = o
    /\ \A c, o \in Checkouts : Open(c) /\ Open(o) => c = o
    /\ \A c, o \in Checkouts : cpc[c] = "expire" /\ Open(o) => o = previous[c]
    /\ \A c, o \in Checkouts : cpc[c] = "insert" => ~Open(o)

\* What has not been opened yet, or is open, was not credited; whoever is about
\* to mark or to credit is alone with its invoice, and the first.
CreditInv ==
    /\ \A p \in Payments : dialog[p] = "none" <=> invoiceOf[p] = NoInvoice
    /\ \A d \in Deliveries : DeliveryRunning(d) =>
        dialog[PaymentOf[d]] = "ready" /\ answer[PaymentOf[d]] = "none"
    /\ \A d, e \in Deliveries :
        DeliveryRunning(d) /\ DeliveryRunning(e) /\ Invoice(d) = Invoice(e) => d = e
    /\ \A p \in Payments : grants[p] > 0 =>
        exact[p] /\ invoiceOf[p] # NoInvoice /\ status[invoiceOf[p]] \in {"paid", "expired"}
    /\ CreditedAtMostOnce
    /\ \A d \in Deliveries : dpc[d] \in {"mark", "grant"} =>
        /\ exact[PaymentOf[d]]
        /\ \A p \in PaymentsFor(Invoice(d)) : grants[p] = 0
        /\ dpc[d] = "mark" => status[Invoice(d)] \in {"pending", "expired"}
        /\ dpc[d] = "grant" => status[Invoice(d)] \in {"paid", "expired"}

\* Why an answer is true when it is given, and stays so.
\* Who asks first was told that the amount is right.
AskedInv ==
    \A p \in Payments :
        /\ answer[p] # "none" => dialog[p] # "none"
        /\ dialog[p] \in {"allowed", "ready"} /\ ProviderOf[p] # "uzum" => exact[p]

\* A credit is told, or going to be.
ToldInv ==
    \A p \in Payments : grants[p] > 0 =>
        \/ faults > 0 \/ answer[p] = "confirmed"
        \/ \E d \in Deliveries :
            PaymentOf[d] = p /\ dpc[d] = "answer" /\ verdict[d] = "confirmed"

\* What is marked paid is credited, or going to be.
PaidInv ==
    \A i \in Checkouts : status[i] = "paid" =>
        \/ faults > 0 \/ Credits(i) # {}
        \/ \E d \in Deliveries : dpc[d] = "grant" /\ Invoice(d) = i

VerdictInv ==
    \A d \in Deliveries : dpc[d] = "answer" =>
        /\ verdict[d] = "confirmed" => Credits(Invoice(d)) # {} \/ faults > 0
        /\ verdict[d] = "refused" =>
            /\ grants[PaymentOf[d]] = 0 \/ faults > 0
            /\ ProviderOf[PaymentOf[d]] # "uzum" => status[Invoice(d)] = "expired"

\* Nobody was refused what is going to be marked paid.
MarkInv ==
    \A d \in Deliveries : dpc[d] = "mark" =>
        \A p \in PaymentsFor(Invoice(d)) : answer[p] = "refused" => ProviderOf[p] = "uzum"

AnswerInv == AskedInv /\ ToldInv /\ PaidInv /\ VerdictInv /\ MarkInv /\ AnswersAreTrue

PaymentInv == IssuedInv /\ OpenInv /\ CreditInv /\ AnswerInv

-----------------------------------------------------------------------------
(***************************************************************************)
(* Types.                                                                  *)
(***************************************************************************)
\* An inserted invoice comes last, and is new.
LEMMA IssuedGrows ==
    ASSUME issued \in Seq(Checkouts), NEW c \in Checkouts, InsertInvoice(c)
    PROVE  /\ issued' \in Seq(Checkouts)
           /\ DOMAIN issued = 1..Len(issued) /\ DOMAIN issued' = 1..Len(issued) + 1
           /\ Len(issued) \in Nat
           /\ \A i \in DOMAIN issued : issued'[i] = issued[i] /\ issued[i] \in Checkouts
           /\ issued'[Len(issued) + 1] = c
<1>1. issued' = Append(issued, c)
  BY DEF InsertInvoice
<1>2. Len(issued) \in Nat /\ DOMAIN issued = 1..Len(issued)
  BY LenProperties
<1>3. /\ issued' \in Seq(Checkouts) /\ Len(issued') = Len(issued) + 1
      /\ \A i \in 1..Len(issued) : issued'[i] = issued[i]
      /\ issued'[Len(issued) + 1] = c
  BY <1>1, AppendProperties
<1>4. DOMAIN issued' = 1..Len(issued')
  BY <1>3, LenProperties
<1>. QED
  BY <1>2, <1>3, <1>4, ElementOfSeq

LEMMA InsertType ==
    ASSUME TypeOK, IssuedInv, NEW c \in Checkouts, InsertInvoice(c)
    PROVE  TypeOK'
<1>1. issued' \in Seq(Checkouts) /\ IsInjective(issued')
  <2>1. \A i \in DOMAIN issued : issued[i] # c
    BY DEF IssuedInv, InsertInvoice
  <2>2. issued \in Seq(Checkouts) /\ IsInjective(issued)
    BY DEF TypeOK
  <2>3. ASSUME NEW a \in 1..Len(issued) + 1, NEW b \in 1..Len(issued) + 1, issued'[a] = issued'[b]
        PROVE  a = b
    <3>1. (a \in 1..Len(issued) \/ a = Len(issued) + 1) /\ (b \in 1..Len(issued) \/ b = Len(issued) + 1)
      BY <2>2, IssuedGrows
    <3>. QED
      BY <2>1, <2>2, <2>3, <3>1, IssuedGrows DEF IsInjective
  <2>. QED
    BY <2>2, <2>3, IssuedGrows DEF IsInjective
<1>. QED
  BY <1>1 DEF TypeOK, InsertInvoice, chatVars, cancelVars, paymentVars, deliveryVars, FaultsTypeOK

LEMMA FaultType ==
    ASSUME FaultsTypeOK, Fault
    PROVE  FaultsTypeOK' /\ faults' > 0 /\ faults' # 0
BY MaxFaultsAssumption DEF FaultsTypeOK, Fault

\* A step of a dialog moves one payment on.
LEMMA DialogWrites ==
    ASSUME NEW p \in Payments, DialogStep(p) \/ CancelTransaction(p)
    PROVE  \/ dialog[p] = "asking" /\ Payable(p) /\ Dialog(p, "asking", "allowed", "none")
           \/ dialog[p] = "asking" /\ Payable(p) /\ Dialog(p, "asking", "ready", "none")
           \/ Dialog(p, "asking", "asking", "denied")
           \/ Dialog(p, "allowed", "ready", "none")
           \/ CancelTransaction(p) /\ Dialog(p, "ready", "ready", "cancelled")
BY DEF DialogStep, CancelTransaction, Allow, Deny, CreateTransaction

LEMMA DialogType ==
    ASSUME TypeOK, NEW p \in Payments,
           NEW from, NEW to \in {"none", "asking", "allowed", "ready"},
           NEW a \in {"none", "denied", "cancelled", "confirmed", "refused"},
           Dialog(p, from, to, a)
    PROVE  TypeOK'
BY DEF TypeOK, Dialog, chatVars, cancelVars, checkoutVars, deliveryVars, InvoiceOrNone, FaultsTypeOK

LEMMA ReceiptType ==
    ASSUME TypeOK, NEW d \in Deliveries, Receive(d)
    PROVE  TypeOK'
<1>1. PICK to \in {"answer", "mark"}, v \in {"confirmed", "refused"} : Goes(d, to, v)
  BY DEF Receive, FindPaid, FindExpired, FindWrongAmount, FindPending
<1>. QED
  BY <1>1 DEF TypeOK, Goes, chatVars, cancelVars, checkoutVars, paymentVars, InvoiceOrNone, FaultsTypeOK

LEMMA PaymentsType ==
    ASSUME TypeOK, IssuedInv, Next
    PROVE  TypeOK'
<1>. USE PaymentsAssumption DEF vars, chatVars, cancelVars, checkoutVars, paymentVars, deliveryVars, InvoiceOrNone
<1>0. \A i \in DOMAIN issued : issued[i] \in Checkouts
  BY ElementOfSeq, LenProperties DEF TypeOK
<1>1. ASSUME NEW c \in Checkouts, CheckoutStep(c) PROVE TypeOK'
  <2>1. CASE LookUpPending(c)
    <3>1. PICK pc \in {"expire", "insert"} : cpc' = [cpc EXCEPT ![c] = pc]
      BY <2>1 DEF LookUpPending
    <3>2. previous' = previous \/ \E i \in DOMAIN issued : previous' = [previous EXCEPT ![c] = issued[i]]
      BY <2>1 DEF LookUpPending
    <3>3. previous' \in [Checkouts -> InvoiceOrNone]
      <4>1. ASSUME NEW i \in DOMAIN issued, previous' = [previous EXCEPT ![c] = issued[i]]
            PROVE  previous' \in [Checkouts -> InvoiceOrNone]
        <5>1. issued[i] \in InvoiceOrNone /\ previous \in [Checkouts -> InvoiceOrNone]
          BY <1>0 DEF TypeOK
        <5>. HIDE DEF InvoiceOrNone
        <5>. QED
          BY <4>1, <5>1
      <4>. QED
        BY <3>2, <4>1 DEF TypeOK
    <3>4. cpc' \in [Checkouts -> {"idle", "expire", "insert", "show", "over"}]
      BY <3>1 DEF TypeOK
    <3>5. UNCHANGED <<status, issued, chatVars, grants, cancelVars, paymentVars, deliveryVars, faults>>
      BY <2>1 DEF LookUpPending
    <3>. QED
      BY <3>3, <3>4, <3>5 DEF TypeOK, FaultsTypeOK
  <2>2. CASE ExpirePrevious(c)
    <3>1. /\ cpc' = [cpc EXCEPT ![c] = "insert"]
          /\ status' = [status EXCEPT ![previous[c]] = "expired"]
          /\ previous' = [previous EXCEPT ![c] = NoInvoice]
          /\ UNCHANGED <<issued, chatVars, grants, cancelVars, paymentVars, deliveryVars, faults>>
      BY <2>2 DEF ExpirePrevious
    <3>2. /\ cpc' \in [Checkouts -> {"idle", "expire", "insert", "show", "over"}]
          /\ status' \in [Checkouts -> {"absent", "pending", "paid", "expired", "cancelled"}]
          /\ previous' \in [Checkouts -> InvoiceOrNone]
      BY <3>1 DEF TypeOK
    <3>. QED
      BY <3>1, <3>2 DEF TypeOK, FaultsTypeOK
  <2>3. CASE ShowInvoice(c)
    BY <2>3 DEF TypeOK, ShowInvoice, FaultsTypeOK
  <2>. QED
    BY <1>1, <2>1, <2>2, <2>3, InsertType DEF CheckoutStep
<1>2. ASSUME NEW k \in Cancels, CancelStep(k) PROVE TypeOK'
  <2>1. CASE LookUpShown(k)
    <3>1. PICK pc \in {"expire", "clear"} : kpc' = [kpc EXCEPT ![k] = pc]
      BY <2>1 DEF LookUpShown
    <3>2. target' = target \/ target' = [target EXCEPT ![k] = shown]
      BY <2>1 DEF LookUpShown
    <3>5. target' \in [Cancels -> InvoiceOrNone]
      BY <3>2 DEF TypeOK
    <3>3. kpc' \in [Cancels -> {"idle", "expire", "clear", "over"}]
      BY <3>1 DEF TypeOK
    <3>4. UNCHANGED <<status, issued, chatVars, grants, checkoutVars, paymentVars, deliveryVars, faults>>
      BY <2>1 DEF LookUpShown
    <3>. QED
      BY <3>5, <3>3, <3>4 DEF TypeOK, FaultsTypeOK
  <2>2. CASE CancelInvoice(k)
    <3>1. /\ kpc' = [kpc EXCEPT ![k] = "clear"]
          /\ status' = [status EXCEPT ![target[k]] = "expired"]
          /\ target' = [target EXCEPT ![k] = NoInvoice]
          /\ UNCHANGED <<issued, chatVars, grants, checkoutVars, paymentVars, deliveryVars, faults>>
      BY <2>2 DEF CancelInvoice
    <3>2. /\ kpc' \in [Cancels -> {"idle", "expire", "clear", "over"}]
          /\ status' \in [Checkouts -> {"absent", "pending", "paid", "expired", "cancelled"}]
          /\ target' \in [Cancels -> InvoiceOrNone]
      BY <3>1 DEF TypeOK
    <3>. QED
      BY <3>1, <3>2 DEF TypeOK, FaultsTypeOK
  <2>3. CASE ClearChat(k)
    BY <2>3 DEF TypeOK, ClearChat, FaultsTypeOK
  <2>. QED
    BY <1>2, <2>1, <2>2, <2>3 DEF CancelStep
<1>3. ASSUME NEW p \in Payments, BeginPayment(p) PROVE TypeOK'
  BY <1>0, <1>3 DEF TypeOK, BeginPayment, FaultsTypeOK
<1>4. ASSUME NEW p \in Payments, DialogStep(p) \/ CancelTransaction(p) PROVE TypeOK'
  BY <1>4, DialogWrites, DialogType DEF TypeOK
<1>5. ASSUME NEW d \in Deliveries, DeliveryStep(d) PROVE TypeOK'
  <2>1. CASE Receive(d)
    BY <2>1, ReceiptType
  <2>2. CASE MarkPaid(d)
    BY <2>2 DEF TypeOK, MarkPaid, FaultsTypeOK
  <2>3. CASE GrantCredit(d)
    BY <2>3 DEF TypeOK, GrantCredit, FaultsTypeOK
  <2>4. CASE Answer(d)
    BY <2>4 DEF TypeOK, Answer, FaultsTypeOK
  <2>. QED
    BY <1>5, <2>1, <2>2, <2>3, <2>4 DEF DeliveryStep
<1>6. ASSUME BotRestarts \/ (\E c \in Checkouts : CheckoutRaises(c)) \/ (\E k \in Cancels : CancelRaises(k))
             \/ (\E d \in Deliveries : DeliveryRaises(d))
      PROVE  TypeOK'
  <2>1. Fault
    BY <1>6 DEF BotRestarts, CheckoutRaises, CancelRaises, DeliveryRaises
  <2>2. FaultsTypeOK'
    BY <2>1, FaultType DEF TypeOK
  <2>3. CASE BotRestarts
    BY <2>2, <2>3 DEF TypeOK, BotRestarts
  <2>4. CASE \E c \in Checkouts : CheckoutRaises(c)
    BY <2>2, <2>4 DEF TypeOK, CheckoutRaises
  <2>5. CASE \E k \in Cancels : CancelRaises(k)
    BY <2>2, <2>5 DEF TypeOK, CancelRaises
  <2>6. CASE \E d \in Deliveries : DeliveryRaises(d)
    BY <2>2, <2>6 DEF TypeOK, DeliveryRaises
  <2>. QED
    BY <1>6, <2>3, <2>4, <2>5, <2>6
<1>. QED
  BY <1>1, <1>2, <1>3, <1>4, <1>5, <1>6 DEF Next

-----------------------------------------------------------------------------
(***************************************************************************)
(* Invoices: issued once, and one open at a time.                          *)
(***************************************************************************)
LEMMA InsertIssues ==
    ASSUME TypeOK, IssuedInv, NEW c \in Checkouts, InsertInvoice(c)
    PROVE  IssuedInv'
<1>. USE PaymentsAssumption DEF chatVars, cancelVars, paymentVars, deliveryVars, InvoiceOrNone
<1>1. /\ status' = [status EXCEPT ![c] = "pending"] /\ cpc' = [cpc EXCEPT ![c] = "show"]
      /\ UNCHANGED <<previous, kpc, target, shown, invoiceOf>>
      /\ status[c] = "absent"
  BY DEF InsertInvoice, IssuedInv
<1>2. issued \in Seq(Checkouts) /\ status \in [Checkouts -> {"absent", "pending", "paid", "expired", "cancelled"}]
  BY DEF TypeOK
<1>3. \A i \in DOMAIN issued' : status'[issued'[i]] # "absent"
  BY <1>1, <1>2, IssuedGrows DEF IssuedInv
<1>4. \A o \in Checkouts : status'[o] # "absent" => \E i \in DOMAIN issued' : issued'[i] = o
  <2>1. \A o \in Checkouts : status'[o] # "absent" => o = c \/ status[o] # "absent"
    BY <1>1, <1>2
  <2>2. Len(issued) + 1 \in DOMAIN issued' /\ DOMAIN issued \subseteq DOMAIN issued'
    BY <1>2, IssuedGrows
  <2>. QED
    BY <1>2, <2>1, <2>2, IssuedGrows DEF IssuedInv
<1>5. \A o \in InvoiceOrNone : o # NoInvoice /\ status[o] # "absent" => status'[o] # "absent"
  BY <1>1, <1>2
<1>6. /\ \A o \in Checkouts :
          /\ cpc'[o] \in {"idle", "expire", "insert"} => status'[o] = "absent"
          /\ cpc'[o] = "show" => status'[o] # "absent"
          /\ cpc'[o] = "expire" => previous'[o] # NoInvoice
          /\ previous'[o] # NoInvoice => status'[previous'[o]] # "absent"
  BY <1>1, <1>5 DEF TypeOK, IssuedInv
<1>7. /\ \A k \in Cancels :
          /\ kpc'[k] = "expire" => target'[k] # NoInvoice
          /\ target'[k] # NoInvoice => status'[target'[k]] # "absent"
      /\ shown' # NoInvoice => status'[shown'] # "absent"
      /\ \A p \in Payments : invoiceOf'[p] # NoInvoice => status'[invoiceOf'[p]] # "absent"
  BY <1>1, <1>5 DEF TypeOK, IssuedInv
<1>. QED
  BY <1>3, <1>4, <1>6, <1>7 DEF IssuedInv

LEMMA IssuedKept ==
    ASSUME TypeOK, IssuedInv, Next
    PROVE  IssuedInv'
<1>. USE PaymentsAssumption DEF chatVars, cancelVars, checkoutVars, paymentVars, deliveryVars, InvoiceOrNone
<1>0. \A i \in DOMAIN issued : issued[i] \in Checkouts
  BY ElementOfSeq, LenProperties DEF TypeOK
<1>1. ASSUME NEW c \in Checkouts, CheckoutStep(c) PROVE IssuedInv'
  <2>1. CASE LookUpPending(c)
    <3>1. UNCHANGED <<status, issued, shown, kpc, target, invoiceOf>>
      BY <2>1 DEF LookUpPending
    <3>2. cpc[c] = "idle" /\ cpc' \in {[cpc EXCEPT ![c] = "expire"], [cpc EXCEPT ![c] = "insert"]}
      BY <2>1 DEF LookUpPending
    <3>3. \/ cpc' = [cpc EXCEPT ![c] = "insert"] /\ UNCHANGED previous
          \/ \E i \in DOMAIN issued : previous' = [previous EXCEPT ![c] = issued[i]]
      BY <2>1 DEF LookUpPending
    <3>4. \A o \in Checkouts :
            /\ cpc'[o] \in {"idle", "expire", "insert"} => status[o] = "absent"
            /\ cpc'[o] = "show" => status[o] # "absent"
      <4>1. \A o \in Checkouts : cpc'[o] = cpc[o] \/ (o = c /\ cpc'[o] \in {"expire", "insert"})
        BY <3>2 DEF TypeOK
      <4>2. status[c] = "absent"
        BY <3>2 DEF IssuedInv
      <4>. QED
        BY <4>1, <4>2 DEF IssuedInv
    <3>5. \A o \in Checkouts :
            /\ cpc'[o] = "expire" => previous'[o] # NoInvoice
            /\ previous'[o] # NoInvoice => status[previous'[o]] # "absent"
      <4>1. CASE cpc' = [cpc EXCEPT ![c] = "insert"] /\ UNCHANGED previous
        BY <4>1 DEF TypeOK, IssuedInv
      <4>2. ASSUME NEW i \in DOMAIN issued, previous' = [previous EXCEPT ![c] = issued[i]]
            PROVE  \A o \in Checkouts :
                     /\ cpc'[o] = "expire" => previous'[o] # NoInvoice
                     /\ previous'[o] # NoInvoice => status[previous'[o]] # "absent"
        <5>1. issued[i] # NoInvoice /\ status[issued[i]] # "absent"
          BY <1>0 DEF IssuedInv
        <5>. QED
          BY <3>2, <4>2, <5>1 DEF TypeOK, IssuedInv
      <4>. QED
        BY <3>3, <4>1, <4>2
    <3>. QED
      BY <3>1, <3>4, <3>5 DEF IssuedInv
  <2>2. CASE ExpirePrevious(c)
    BY <2>2 DEF TypeOK, IssuedInv, ExpirePrevious
  <2>3. CASE ShowInvoice(c)
    BY <2>3 DEF TypeOK, IssuedInv, ShowInvoice
  <2>. QED
    BY <1>1, <2>1, <2>2, <2>3, InsertIssues DEF CheckoutStep
<1>2. ASSUME NEW k \in Cancels, CancelStep(k) PROVE IssuedInv'
  <2>1. CASE LookUpShown(k)
    <3>1. UNCHANGED <<status, issued, shown, cpc, previous, invoiceOf>>
      BY <2>1 DEF LookUpShown
    <3>2. \/ /\ kpc' = [kpc EXCEPT ![k] = "expire"] /\ target' = [target EXCEPT ![k] = shown]
             /\ shown # NoInvoice
          \/ kpc' = [kpc EXCEPT ![k] = "clear"] /\ UNCHANGED target
      BY <2>1 DEF LookUpShown
    <3>3. \A o \in Cancels :
            /\ kpc'[o] = "expire" => target'[o] # NoInvoice
            /\ target'[o] # NoInvoice => status[target'[o]] # "absent"
      <4>1. /\ kpc \in [Cancels -> {"idle", "expire", "clear", "over"}]
            /\ target \in [Cancels -> InvoiceOrNone]
            /\ \A o \in Cancels :
                /\ kpc[o] = "expire" => target[o] # NoInvoice
                /\ target[o] # NoInvoice => status[target[o]] # "absent"
            /\ shown # NoInvoice => status[shown] # "absent"
        BY DEF TypeOK, IssuedInv
      <4>2. CASE kpc' = [kpc EXCEPT ![k] = "clear"] /\ UNCHANGED target
        BY ONLY <4>1, <4>2
      <4>3. CASE /\ kpc' = [kpc EXCEPT ![k] = "expire"] /\ target' = [target EXCEPT ![k] = shown]
                 /\ shown # NoInvoice
        BY ONLY <4>1, <4>3
      <4>. QED
        BY <3>2, <4>2, <4>3
    <3>. QED
      BY <3>1, <3>3 DEF IssuedInv
  <2>2. CASE CancelInvoice(k)
    BY <2>2 DEF TypeOK, IssuedInv, CancelInvoice
  <2>3. CASE ClearChat(k)
    BY <2>3 DEF TypeOK, IssuedInv, ClearChat
  <2>. QED
    BY <1>2, <2>1, <2>2, <2>3 DEF CancelStep
<1>3. ASSUME NEW p \in Payments, BeginPayment(p) PROVE IssuedInv'
  BY <1>0, <1>3 DEF TypeOK, IssuedInv, BeginPayment
<1>4. ASSUME NEW p \in Payments, DialogStep(p) \/ CancelTransaction(p) PROVE IssuedInv'
  <2>1. UNCHANGED <<status, issued, shown, cpc, previous, kpc, target, invoiceOf>>
    BY <1>4, DialogWrites DEF Dialog
  <2>. QED
    BY <2>1 DEF IssuedInv
<1>5. ASSUME NEW d \in Deliveries, DeliveryStep(d) \/ DeliveryRaises(d) PROVE IssuedInv'
  <2>1. UNCHANGED <<issued, shown, cpc, previous, kpc, target, invoiceOf>>
    BY <1>5 DEF DeliveryStep, Receive, FindPaid, FindExpired, FindWrongAmount, FindPending, Goes, MarkPaid,
                GrantCredit, Answer, DeliveryRaises
  <2>2. UNCHANGED status \/ MarkPaid(d)
    BY <1>5 DEF DeliveryStep, Receive, FindPaid, FindExpired, FindWrongAmount, FindPending, Goes,
                GrantCredit, Answer, DeliveryRaises
  <2>3. CASE UNCHANGED status
    BY <2>1, <2>3 DEF IssuedInv
  <2>4. CASE MarkPaid(d)
    <3>1. \A o \in Checkouts : status'[o] = "absent" <=> status[o] = "absent"
      BY <2>4 DEF MarkPaid, TypeOK, IssuedInv, Invoice
    <3>2. /\ \A o \in Checkouts : previous[o] \in InvoiceOrNone
          /\ \A k \in Cancels : target[k] \in InvoiceOrNone
          /\ \A p \in Payments : invoiceOf[p] \in InvoiceOrNone
          /\ shown \in InvoiceOrNone
      BY DEF TypeOK
    <3>. QED
      BY <1>0, <2>1, <3>1, <3>2 DEF IssuedInv
  <2>. QED
    BY <2>2, <2>3, <2>4
<1>6. CASE BotRestarts
  BY <1>6 DEF TypeOK, IssuedInv, BotRestarts, CheckoutRunning, CancelRunning
<1>7. ASSUME NEW c \in Checkouts, CheckoutRaises(c) PROVE IssuedInv'
  BY <1>7 DEF TypeOK, IssuedInv, CheckoutRaises
<1>8. ASSUME NEW k \in Cancels, CancelRaises(k) PROVE IssuedInv'
  BY <1>8 DEF TypeOK, IssuedInv, CancelRaises
<1>. QED
  BY <1>1, <1>2, <1>3, <1>4, <1>5, <1>6, <1>7, <1>8 DEF Next

\* The open invoice, if there is one, is the latest.
LEMMA LookUpFindsTheOpenOne ==
    ASSUME TypeOK, IssuedInv, OpenInv
    PROVE  /\ (\A i \in DOMAIN issued : ~Latest(i)) => \A o \in Checkouts : ~Open(o)
           /\ \A i \in DOMAIN issued : Latest(i) => \A o \in Checkouts : Open(o) => o = issued[i]
<1>0. /\ issued \in Seq(Checkouts) /\ IsInjective(issued)
      /\ DOMAIN issued = 1..Len(issued) /\ Len(issued) \in Nat
      /\ \A i \in DOMAIN issued : issued[i] \in Checkouts
  BY ElementOfSeq, LenProperties DEF TypeOK
<1>1. ASSUME NEW o \in Checkouts, Open(o) PROVE \E i \in DOMAIN issued : Latest(i)
  <2>1. PICK i \in DOMAIN issued : issued[i] = o
    BY <1>1 DEF IssuedInv, Open
  <2>2. ASSUME NEW k \in i + 1 .. Len(issued), status[issued[k]] = "pending" PROVE FALSE
    <3>1. k \in DOMAIN issued /\ k # i /\ issued[k] \in Checkouts
      BY <1>0
    <3>2. issued[k] = issued[i]
      BY <1>1, <2>1, <2>2, <3>1 DEF OpenInv, Open
    <3>. QED
      BY <1>0, <3>1, <3>2 DEF IsInjective
  <2>. QED
    BY <1>1, <2>1, <2>2 DEF Latest, Open
<1>. QED
  BY <1>0, <1>1 DEF OpenInv, Open, Latest

\* Without an overlap no invoice is opened while another is open.
LEMMA OpenKept ==
    ASSUME TypeOK, IssuedInv, OpenInv, Next, ~Overlap
    PROVE  OpenInv'
<1>. USE DEF checkoutVars, Open
<1>0. /\ status \in [Checkouts -> {"absent", "pending", "paid", "expired", "cancelled"}]
      /\ cpc \in [Checkouts -> {"idle", "expire", "insert", "show", "over"}]
      /\ previous \in [Checkouts -> InvoiceOrNone]
  BY DEF TypeOK
<1>1. ASSUME NEW c \in Checkouts, LookUpPending(c) PROVE OpenInv'
  <2>1. UNCHANGED status /\ \A o \in Checkouts : ~CheckoutRunning(o)
    BY <1>1 DEF LookUpPending
  <2>2. \/ cpc' = [cpc EXCEPT ![c] = "insert"] /\ \A o \in Checkouts : ~Open(o)
        \/ /\ cpc' = [cpc EXCEPT ![c] = "expire"]
           /\ \E i \in DOMAIN issued :
                /\ previous' = [previous EXCEPT ![c] = issued[i]]
                /\ \A o \in Checkouts : Open(o) => o = issued[i]
    BY <1>1, LookUpFindsTheOpenOne DEF LookUpPending
  <2>3. \A o \in Checkouts : CheckoutRunning(o)' => o = c
    BY <1>0, <2>1, <2>2 DEF CheckoutRunning
  <2>4. \A b, o \in Checkouts : cpc'[b] = "expire" /\ Open(o)' => o = previous'[b]
    BY <1>0, <2>1, <2>2, <2>3 DEF CheckoutRunning
  <2>5. \A b, o \in Checkouts : cpc'[b] = "insert" => ~Open(o)'
    BY <1>0, <2>1, <2>2, <2>3 DEF CheckoutRunning
  <2>. QED
    BY <2>1, <2>3, <2>4, <2>5 DEF OpenInv
<1>2. ASSUME NEW c \in Checkouts, ExpirePrevious(c) PROVE OpenInv'
  BY <1>0, <1>2 DEF OpenInv, ExpirePrevious, CheckoutRunning
<1>3. ASSUME NEW c \in Checkouts, InsertInvoice(c) PROVE OpenInv'
  BY <1>0, <1>3 DEF OpenInv, InsertInvoice, CheckoutRunning
<1>4. ASSUME NEW c \in Checkouts, ShowInvoice(c) \/ CheckoutRaises(c) PROVE OpenInv'
  BY <1>0, <1>4 DEF OpenInv, ShowInvoice, CheckoutRaises, CheckoutRunning
<1>5. ASSUME UNCHANGED <<cpc, previous>>, \A o \in Checkouts : Open(o)' => Open(o)
      PROVE  OpenInv'
  BY <1>5 DEF OpenInv, CheckoutRunning
<1>6. ASSUME NEW k \in Cancels, CancelStep(k) \/ CancelRaises(k) PROVE OpenInv'
  BY <1>0, <1>5, <1>6 DEF CancelStep, LookUpShown, CancelInvoice, ClearChat, CancelRaises
<1>7. ASSUME NEW d \in Deliveries, DeliveryStep(d) \/ DeliveryRaises(d) PROVE OpenInv'
  BY <1>0, <1>5, <1>7 DEF DeliveryStep, Receive, FindPaid, FindExpired, FindWrongAmount, FindPending, Goes, MarkPaid,
                          GrantCredit, Answer, DeliveryRaises
<1>8. ASSUME NEW p \in Payments, BeginPayment(p) \/ DialogStep(p) \/ CancelTransaction(p) PROVE OpenInv'
  BY <1>5, <1>8, DialogWrites DEF BeginPayment, Dialog
<1>9. CASE BotRestarts
  BY <1>0, <1>9 DEF OpenInv, BotRestarts, CheckoutRunning
<1>. QED
  BY <1>1, <1>2, <1>3, <1>4, <1>6, <1>7, <1>8, <1>9 DEF Next, CheckoutStep

-----------------------------------------------------------------------------
(***************************************************************************)
(* Credits: for what was paid, once.                                       *)
(***************************************************************************)
\* A running delivery is about an invoice.
LEMMA RunningHasInvoice ==
    ASSUME TypeOK, CreditInv, NEW d \in Deliveries, DeliveryRunning(d)
    PROVE  /\ PaymentOf[d] \in Payments /\ Invoice(d) \in Checkouts
           /\ dialog[PaymentOf[d]] = "ready" /\ answer[PaymentOf[d]] = "none"
BY PaymentsAssumption DEF TypeOK, CreditInv, Invoice, InvoiceOrNone

\* A checkout or a cancel opens what was not there, and expires anything.
LEMMA StatusMoves ==
    ASSUME TypeOK, IssuedInv,
           \/ \E c \in Checkouts : CheckoutStep(c) \/ CheckoutRaises(c)
           \/ \E k \in Cancels : CancelStep(k) \/ CancelRaises(k)
    PROVE  /\ \A i \in Checkouts :
                \/ status'[i] = status[i]
                \/ status'[i] = "expired" /\ status[i] # "absent"
                \/ status[i] = "absent" /\ status'[i] = "pending"
           /\ UNCHANGED <<grants, invoiceOf, exact, dialog, answer, dpc, verdict>>
           /\ faults' = faults \/ faults' > 0
<1>. USE DEF paymentVars, deliveryVars, chatVars, checkoutVars, cancelVars
<1>0. /\ status \in [Checkouts -> {"absent", "pending", "paid", "expired", "cancelled"}]
      /\ previous \in [Checkouts -> InvoiceOrNone] /\ target \in [Cancels -> InvoiceOrNone]
  BY DEF TypeOK
<1>1. CASE \E c \in Checkouts : CheckoutStep(c)
  BY <1>0, <1>1 DEF CheckoutStep, LookUpPending, ExpirePrevious, InsertInvoice, ShowInvoice, IssuedInv
<1>2. CASE \E k \in Cancels : CancelStep(k)
  BY <1>0, <1>2 DEF CancelStep, LookUpShown, CancelInvoice, ClearChat, IssuedInv
<1>3. CASE \/ \E c \in Checkouts : CheckoutRaises(c)
           \/ \E k \in Cancels : CancelRaises(k)
  BY <1>3, FaultType DEF CheckoutRaises, CancelRaises, TypeOK
<1>. QED
  BY <1>1, <1>2, <1>3

LEMMA CreditsWhileStatusMoves ==
    ASSUME TypeOK, CreditInv,
           \A i \in Checkouts :
                \/ status'[i] = status[i] \/ status'[i] = "expired"
                \/ status[i] = "absent" /\ status'[i] = "pending",
           UNCHANGED <<grants, invoiceOf, exact, dialog, answer, dpc>>
    PROVE  CreditInv'
<1>. USE DEF DeliveryRunning, Invoice, PaymentsFor, Credits, CreditedAtMostOnce
<1>1. \A p \in Payments : invoiceOf[p] \in Checkouts \/ invoiceOf[p] = NoInvoice
  BY DEF TypeOK, InvoiceOrNone
<1>2. \A p \in Payments : grants[p] > 0 =>
        exact[p] /\ invoiceOf[p] # NoInvoice /\ status'[invoiceOf[p]] \in {"paid", "expired"}
  BY <1>1 DEF CreditInv
<1>3. \A d \in Deliveries : dpc[d] \in {"mark", "grant"} =>
        /\ exact[PaymentOf[d]]
        /\ \A p \in PaymentsFor(Invoice(d)) : grants[p] = 0
        /\ dpc[d] = "mark" => status'[Invoice(d)] \in {"pending", "expired"}
        /\ dpc[d] = "grant" => status'[Invoice(d)] \in {"paid", "expired"}
  BY RunningHasInvoice DEF CreditInv
<1>. QED
  BY <1>2, <1>3 DEF CreditInv

LEMMA CreditsBeginPayment ==
    ASSUME TypeOK, CreditInv, NEW p \in Payments, BeginPayment(p)
    PROVE  CreditInv'
<1>. USE PaymentsAssumption DEF Invoice, PaymentsFor, Credits, CreditedAtMostOnce
<1>1. PICK i \in Checkouts, e \in BOOLEAN, s \in {"ready", "asking"} :
        /\ invoiceOf' = [invoiceOf EXCEPT ![p] = i] /\ exact' = [exact EXCEPT ![p] = e]
        /\ dialog' = [dialog EXCEPT ![p] = s]
  <2>1. \A k \in DOMAIN issued : issued[k] \in Checkouts
    BY ElementOfSeq, LenProperties DEF TypeOK
  <2>2. PICK k \in DOMAIN issued : invoiceOf' = [invoiceOf EXCEPT ![p] = issued[k]]
    BY DEF BeginPayment
  <2>3. PICK e \in BOOLEAN : exact' = [exact EXCEPT ![p] = e]
    BY DEF BeginPayment
  <2>4. PICK s \in {"ready", "asking"} : dialog' = [dialog EXCEPT ![p] = s]
    BY DEF BeginPayment
  <2>. QED
    BY <2>1, <2>2, <2>3, <2>4
<1>2. invoiceOf[p] = NoInvoice /\ UNCHANGED <<status, grants, answer, dpc>>
  BY <1>1 DEF BeginPayment, deliveryVars
<1>3. grants[p] = 0 /\ \A d \in Deliveries : DeliveryRunning(d) => PaymentOf[d] # p
  BY <1>2, RunningHasInvoice DEF CreditInv, TypeOK
<1>4. \A q \in Payments : q # p => /\ invoiceOf'[q] = invoiceOf[q] /\ exact'[q] = exact[q] /\ dialog'[q] = dialog[q]
  BY <1>1 DEF TypeOK
<1>5. /\ invoiceOf'[p] = i /\ i # NoInvoice /\ dialog'[p] # "none"
  BY <1>1 DEF TypeOK
<1>6. \A d \in Deliveries : DeliveryRunning(d)' <=> DeliveryRunning(d)
  BY <1>2 DEF DeliveryRunning
<1>7. \A d \in Deliveries : DeliveryRunning(d) => Invoice(d)' = Invoice(d)
  BY <1>3, <1>4
<1>8. /\ \A q \in Payments : dialog'[q] = "none" <=> invoiceOf'[q] = NoInvoice
      /\ \A q \in Payments : grants[q] > 0 =>
            exact'[q] /\ invoiceOf'[q] # NoInvoice /\ status[invoiceOf'[q]] \in {"paid", "expired"}
  BY <1>3, <1>4, <1>5 DEF CreditInv
<1>9. /\ \A d \in Deliveries : DeliveryRunning(d) =>
            dialog'[PaymentOf[d]] = "ready" /\ answer[PaymentOf[d]] = "none"
      /\ \A d, f \in Deliveries :
            DeliveryRunning(d) /\ DeliveryRunning(f) /\ Invoice(d)' = Invoice(f)' => d = f
  BY <1>3, <1>4, <1>7 DEF CreditInv
<1>10. CreditedAtMostOnce'
  BY <1>2, <1>3, <1>4 DEF CreditInv
<1>11. \A d \in Deliveries : dpc[d] \in {"mark", "grant"} =>
        /\ exact'[PaymentOf[d]]
        /\ \A q \in Payments : invoiceOf'[q] = Invoice(d) => grants[q] = 0
        /\ dpc[d] = "mark" => status[Invoice(d)] \in {"pending", "expired"}
        /\ dpc[d] = "grant" => status[Invoice(d)] \in {"paid", "expired"}
  BY <1>3, <1>4 DEF CreditInv, DeliveryRunning
<1>. QED
  BY <1>2, <1>6, <1>7, <1>8, <1>9, <1>10, <1>11 DEF CreditInv, DeliveryRunning

LEMMA CreditsDialog ==
    ASSUME TypeOK, CreditInv, ~Overlap, NEW p \in Payments, DialogStep(p) \/ CancelTransaction(p)
    PROVE  CreditInv'
<1>. USE DEF Invoice, PaymentsFor, Credits, CreditedAtMostOnce
<1>1. /\ UNCHANGED <<status, grants, invoiceOf, exact, dpc>>
      /\ \E s \in {"asking", "allowed", "ready"} : dialog' = [dialog EXCEPT ![p] = s]
      /\ \E a \in {"none", "denied", "cancelled"} : answer' = [answer EXCEPT ![p] = a]
      /\ dialog[p] # "none" /\ answer[p] = "none"
  BY DialogWrites DEF Dialog, deliveryVars
<1>2. \A d \in Deliveries : DeliveryRunning(d) => PaymentOf[d] # p
  <2>1. CASE dialog[p] # "ready"
    BY <2>1, RunningHasInvoice
  <2>2. CASE dialog[p] = "ready"
    BY <2>2, DialogWrites DEF CancelTransaction, DeliveryRunning, Dialog
  <2>. QED
    BY <2>1, <2>2
<1>3. \A q \in Payments : q # p => dialog'[q] = dialog[q] /\ answer'[q] = answer[q]
  BY <1>1 DEF TypeOK
<1>4. dialog'[p] # "none"
  BY <1>1 DEF TypeOK
<1>5. \A q \in Payments : dialog'[q] = "none" <=> invoiceOf[q] = NoInvoice
  BY <1>1, <1>3, <1>4 DEF CreditInv
<1>6. \A d \in Deliveries : DeliveryRunning(d) =>
        dialog'[PaymentOf[d]] = "ready" /\ answer'[PaymentOf[d]] = "none"
  BY <1>2, <1>3, RunningHasInvoice
<1>. QED
  BY <1>1, <1>5, <1>6 DEF CreditInv, DeliveryRunning

LEMMA CreditsReceive ==
    ASSUME TypeOK, CreditInv, ~Overlap, NEW d \in Deliveries, Receive(d)
    PROVE  CreditInv'
<1>. USE PaymentsAssumption DEF Invoice, PaymentsFor, Credits, CreditedAtMostOnce
<1>1. /\ Delivers(d) /\ UNCHANGED <<status, grants, invoiceOf, exact, dialog, answer>>
      /\ \/ dpc' = [dpc EXCEPT ![d] = "answer"]
         \/ dpc' = [dpc EXCEPT ![d] = "mark"] /\ status[Invoice(d)] = "pending" /\ exact[PaymentOf[d]]
  BY DEF Receive, FindPaid, FindExpired, FindWrongAmount, FindPending, Goes, paymentVars
<1>2. /\ dialog[PaymentOf[d]] = "ready" /\ answer[PaymentOf[d]] = "none"
      /\ \A o \in Deliveries : DeliveryRunning(o) => Invoice(o) # Invoice(d)
  BY <1>1 DEF Delivers
<1>3. \A o \in Deliveries : o # d => dpc'[o] = dpc[o]
  BY <1>1 DEF TypeOK
<1>4. \A o \in Deliveries : DeliveryRunning(o)' => o = d \/ DeliveryRunning(o)
  BY <1>3 DEF DeliveryRunning
<1>5. \A o \in Deliveries : DeliveryRunning(o)' =>
        dialog[PaymentOf[o]] = "ready" /\ answer[PaymentOf[o]] = "none"
  BY <1>2, <1>4, RunningHasInvoice
<1>6. \A o, f \in Deliveries :
        DeliveryRunning(o)' /\ DeliveryRunning(f)' /\ Invoice(o) = Invoice(f) => o = f
  BY <1>2, <1>4 DEF CreditInv
<1>7. dpc'[d] = "mark" =>
        /\ exact[PaymentOf[d]] /\ status[Invoice(d)] = "pending"
        /\ \A p \in PaymentsFor(Invoice(d)) : grants[p] = 0
  <2>1. ASSUME status[Invoice(d)] = "pending", NEW p \in PaymentsFor(Invoice(d)) PROVE grants[p] = 0
    <3>1. p \in Payments /\ invoiceOf[p] = Invoice(d) /\ grants[p] \in Nat
      BY <2>1 DEF TypeOK
    <3>2. ~(grants[p] > 0)
      BY <2>1, <3>1 DEF CreditInv
    <3>. QED
      BY <3>1, <3>2
  <2>. QED
    BY <1>1, <2>1 DEF TypeOK
<1>8. dpc'[d] # "grant"
  BY <1>1 DEF TypeOK
<1>. QED
  BY <1>1, <1>3, <1>5, <1>6, <1>7, <1>8 DEF CreditInv, DeliveryRunning

LEMMA CreditsMark ==
    ASSUME TypeOK, CreditInv, NEW d \in Deliveries, MarkPaid(d)
    PROVE  CreditInv'
<1>. USE DEF PaymentsFor, Credits, CreditedAtMostOnce
<1>1. /\ dpc[d] = "mark" /\ dpc' = [dpc EXCEPT ![d] = "grant"]
      /\ status' = [status EXCEPT ![Invoice(d)] = "paid"]
      /\ UNCHANGED <<grants, invoiceOf, exact, dialog, answer>>
  BY DEF MarkPaid, paymentVars
<1>2. /\ DeliveryRunning(d) /\ Invoice(d) \in Checkouts /\ \A o \in Deliveries : Invoice(o)' = Invoice(o)
      /\ \A o \in Deliveries : DeliveryRunning(o)' <=> DeliveryRunning(o)
      /\ \A o \in Deliveries : o # d => dpc'[o] = dpc[o]
  BY <1>1, RunningHasInvoice DEF TypeOK, DeliveryRunning, Invoice
<1>3. status'[Invoice(d)] = "paid" /\ \A i \in Checkouts : i # Invoice(d) => status'[i] = status[i]
  BY <1>1, <1>2 DEF TypeOK
<1>4. /\ exact[PaymentOf[d]] /\ \A p \in PaymentsFor(Invoice(d)) : grants[p] = 0
  BY <1>1 DEF CreditInv
<1>5. \A p \in Payments : grants[p] > 0 =>
        exact[p] /\ invoiceOf[p] # NoInvoice /\ status'[invoiceOf[p]] \in {"paid", "expired"}
  BY <1>3 DEF CreditInv, TypeOK, InvoiceOrNone
<1>6. \A o \in Deliveries : dpc'[o] \in {"mark", "grant"} =>
        /\ exact[PaymentOf[o]]
        /\ \A p \in PaymentsFor(Invoice(o)) : grants[p] = 0
        /\ dpc'[o] = "mark" => status'[Invoice(o)] \in {"pending", "expired"}
        /\ dpc'[o] = "grant" => status'[Invoice(o)] \in {"paid", "expired"}
  <2>1. ASSUME NEW o \in Deliveries, o # d, dpc[o] \in {"mark", "grant"}
        PROVE  Invoice(o) # Invoice(d) /\ Invoice(o) \in Checkouts
    BY <1>2, <2>1, RunningHasInvoice DEF CreditInv, DeliveryRunning
  <2>2. dpc'[d] = "grant"
    BY <1>1 DEF TypeOK
  <2>. QED
    BY <1>2, <1>3, <1>4, <2>1, <2>2 DEF CreditInv
<1>. QED
  BY <1>1, <1>2, <1>5, <1>6 DEF CreditInv

LEMMA CreditsGrant ==
    ASSUME TypeOK, CreditInv, NEW d \in Deliveries, GrantCredit(d)
    PROVE  CreditInv'
<1>. USE DEF PaymentsFor, Credits, CreditedAtMostOnce
<1>. DEFINE p == PaymentOf[d]
<1>1. /\ dpc[d] = "grant" /\ dpc' = [dpc EXCEPT ![d] = "answer"]
      /\ grants' = [grants EXCEPT ![p] = @ + 1]
      /\ UNCHANGED <<status, invoiceOf, exact, dialog, answer>>
  BY DEF GrantCredit, paymentVars
<1>2. /\ DeliveryRunning(d) /\ p \in Payments /\ invoiceOf[p] = Invoice(d) /\ Invoice(d) \in Checkouts
      /\ \A o \in Deliveries : Invoice(o)' = Invoice(o)
      /\ \A o \in Deliveries : DeliveryRunning(o)' <=> DeliveryRunning(o)
      /\ \A o \in Deliveries : o # d => dpc'[o] = dpc[o]
      /\ dpc'[d] = "answer"
  BY <1>1, RunningHasInvoice DEF TypeOK, DeliveryRunning, Invoice
<1>3. /\ exact[p] /\ status[Invoice(d)] \in {"paid", "expired"}
      /\ \A q \in PaymentsFor(Invoice(d)) : grants[q] = 0
  BY <1>1 DEF CreditInv
<1>4. grants'[p] = 1 /\ \A q \in Payments : q # p => grants'[q] = grants[q]
  BY <1>1, <1>2, <1>3 DEF TypeOK
<1>5. \A q \in Payments : grants'[q] > 0 =>
        exact[q] /\ invoiceOf[q] # NoInvoice /\ status[invoiceOf[q]] \in {"paid", "expired"}
  BY <1>2, <1>3, <1>4, PaymentsAssumption DEF CreditInv
<1>6. CreditedAtMostOnce'
  <2>1. ASSUME NEW i \in Checkouts PROVE \A q \in PaymentsFor(i) : grants'[q] <= 1
    BY <1>4, <2>1 DEF CreditInv
  <2>2. ASSUME NEW i \in Checkouts, NEW q \in PaymentsFor(i), NEW r \in PaymentsFor(i),
               grants'[q] > 0, grants'[r] > 0
        PROVE  q = r
    <3>1. CASE i = Invoice(d)
      BY <1>3, <1>4, <2>2, <3>1
    <3>2. CASE i # Invoice(d)
      BY <1>2, <1>4, <2>2, <3>2 DEF CreditInv
    <3>. QED
      BY <3>1, <3>2
  <2>. QED
    BY <1>1, <2>1, <2>2
<1>7. \A o \in Deliveries : dpc'[o] \in {"mark", "grant"} =>
        /\ exact[PaymentOf[o]]
        /\ \A q \in PaymentsFor(Invoice(o)) : grants'[q] = 0
        /\ dpc'[o] = "mark" => status[Invoice(o)] \in {"pending", "expired"}
        /\ dpc'[o] = "grant" => status[Invoice(o)] \in {"paid", "expired"}
  <2>1. ASSUME NEW o \in Deliveries, dpc'[o] \in {"mark", "grant"}
        PROVE  dpc[o] = dpc'[o] /\ Invoice(o) # Invoice(d)
    BY <1>2, <2>1 DEF CreditInv, DeliveryRunning
  <2>. QED
    BY <1>2, <1>4, <2>1 DEF CreditInv
<1>. QED
  BY <1>1, <1>2, <1>5, <1>6, <1>7 DEF CreditInv

\* Handlers that end leave everything else as it is.
LEMMA CreditsWhileOver ==
    ASSUME TypeOK, CreditInv, UNCHANGED <<status, grants, invoiceOf, exact, dialog>>,
           \A d \in Deliveries : dpc'[d] = dpc[d] \/ dpc'[d] = "over",
           \A d \in Deliveries : DeliveryRunning(d)' => answer'[PaymentOf[d]] = "none"
    PROVE  CreditInv'
<1>1. \A d \in Deliveries : (DeliveryRunning(d)' => DeliveryRunning(d)) /\ Invoice(d)' = Invoice(d)
  BY DEF DeliveryRunning, Invoice
<1>. QED
  BY <1>1 DEF CreditInv, PaymentsFor, Credits, CreditedAtMostOnce

LEMMA CreditKept ==
    ASSUME TypeOK, IssuedInv, CreditInv, Next, ~Overlap
    PROVE  CreditInv'
<1>1. CASE \/ \E c \in Checkouts : CheckoutStep(c) \/ CheckoutRaises(c)
           \/ \E k \in Cancels : CancelStep(k) \/ CancelRaises(k)
  BY <1>1, StatusMoves, CreditsWhileStatusMoves
<1>2. CASE BotRestarts
  BY <1>2, CreditsWhileOver DEF BotRestarts, TypeOK, CreditInv, DeliveryRunning, paymentVars
<1>3. ASSUME NEW d \in Deliveries, Answer(d) \/ DeliveryRaises(d) PROVE CreditInv'
  <2>1. UNCHANGED <<status, grants, invoiceOf, exact, dialog>>
    BY <1>3 DEF Answer, DeliveryRaises, paymentVars
  <2>2. DeliveryRunning(d) /\ dpc' = [dpc EXCEPT ![d] = "over"]
    BY <1>3 DEF Answer, DeliveryRaises, DeliveryRunning
  <2>3. \A o \in Deliveries : DeliveryRunning(o)' => DeliveryRunning(o) /\ o # d
    BY <2>2 DEF TypeOK, DeliveryRunning
  <2>4. \A o \in Deliveries : DeliveryRunning(o) /\ o # d => PaymentOf[o] # PaymentOf[d]
    BY <2>2 DEF CreditInv, Invoice
  <2>5. \A p \in Payments : p # PaymentOf[d] => answer'[p] = answer[p]
    BY <1>3 DEF Answer, DeliveryRaises, TypeOK, paymentVars
  <2>6. \A o \in Deliveries : DeliveryRunning(o)' => answer'[PaymentOf[o]] = "none"
    BY <2>3, <2>4, <2>5, RunningHasInvoice
  <2>7. \A o \in Deliveries : dpc'[o] = dpc[o] \/ dpc'[o] = "over"
    BY <2>2 DEF TypeOK
  <2>. QED
    BY <2>1, <2>6, <2>7, CreditsWhileOver
<1>. QED
  BY <1>1, <1>2, <1>3, CreditsBeginPayment, CreditsDialog, CreditsReceive, CreditsMark, CreditsGrant
  DEF Next, DeliveryStep

-----------------------------------------------------------------------------
(***************************************************************************)
(* Answers.                                                                *)
(***************************************************************************)

LEMMA AnsweredHasInvoice ==
    ASSUME TypeOK, CreditInv, AskedInv, NEW p \in Payments, answer[p] # "none"
    PROVE  invoiceOf[p] \in Checkouts
BY DEF TypeOK, CreditInv, AskedInv, InvoiceOrNone

LEMMA AnswersWhileStatusMoves ==
    ASSUME TypeOK, CreditInv, AnswerInv,
           \A i \in Checkouts :
                \/ status'[i] = status[i]
                \/ status'[i] = "expired" /\ status[i] # "absent"
                \/ status[i] = "absent" /\ status'[i] = "pending",
           UNCHANGED <<grants, invoiceOf, exact, dialog, answer, dpc, verdict>>,
           faults' = faults \/ faults' > 0
    PROVE  AnswerInv'
<1>. USE DEF Invoice, PaymentsFor, Credits
<1>0. faults > 0 => faults' > 0
  OBVIOUS
<1>1. AskedInv' /\ ToldInv' /\ MarkInv'
  BY <1>0 DEF AnswerInv, AskedInv, ToldInv, MarkInv
<1>2. PaidInv'
  BY <1>0 DEF AnswerInv, PaidInv
<1>3. VerdictInv'
  BY <1>0, RunningHasInvoice DEF AnswerInv, VerdictInv, DeliveryRunning
<1>4. AnswersAreTrue'
  BY <1>0, AnsweredHasInvoice DEF AnswerInv, AnswersAreTrue
<1>. QED
  BY <1>1, <1>2, <1>3, <1>4 DEF AnswerInv

LEMMA AnswersBeginPayment ==
    ASSUME TypeOK, CreditInv, AnswerInv, NEW p \in Payments, BeginPayment(p)
    PROVE  AnswerInv'
<1>. USE DEF Invoice, PaymentsFor, Credits
<1>1. /\ invoiceOf[p] = NoInvoice /\ UNCHANGED <<status, grants, answer, dpc, verdict, faults>>
      /\ \A q \in Payments : q # p => /\ invoiceOf'[q] = invoiceOf[q] /\ exact'[q] = exact[q] /\ dialog'[q] = dialog[q]
      /\ dialog'[p] \in {"ready", "asking"} /\ (dialog'[p] = "ready" => ProviderOf[p] = "uzum")
  <2>1. \E i : invoiceOf' = [invoiceOf EXCEPT ![p] = i]
    BY DEF BeginPayment
  <2>2. \E e : exact' = [exact EXCEPT ![p] = e]
    BY DEF BeginPayment
  <2>3. dialog' = [dialog EXCEPT ![p] = IF ProviderOf[p] = "uzum" THEN "ready" ELSE "asking"]
    BY DEF BeginPayment
  <2>. QED
    BY <2>1, <2>2, <2>3 DEF BeginPayment, deliveryVars, TypeOK
<1>2. grants[p] = 0 /\ answer[p] = "none" /\ \A d \in Deliveries : DeliveryRunning(d) => PaymentOf[d] # p
  BY <1>1, RunningHasInvoice DEF CreditInv, TypeOK, AnswerInv, AskedInv
<1>3. \A d \in Deliveries : DeliveryRunning(d) => PaymentOf[d] \in Payments /\ Invoice(d)' = Invoice(d)
  BY <1>1, <1>2, RunningHasInvoice
<1>4. \A i : Credits(i)' = Credits(i)
  BY <1>1, <1>2
<1>5. AskedInv' /\ ToldInv'
  BY <1>1, <1>2 DEF AnswerInv, AskedInv, ToldInv
<1>6. PaidInv'
  BY <1>1, <1>3, <1>4 DEF AnswerInv, PaidInv, DeliveryRunning
<1>7. VerdictInv'
  BY <1>1, <1>3, <1>4 DEF AnswerInv, VerdictInv, DeliveryRunning
<1>8. MarkInv'
  BY <1>1, <1>2, <1>3 DEF AnswerInv, MarkInv, DeliveryRunning
<1>9. AnswersAreTrue'
  BY <1>1, <1>2, <1>4 DEF AnswerInv, AnswersAreTrue
<1>. QED
  BY <1>5, <1>6, <1>7, <1>8, <1>9 DEF AnswerInv

LEMMA AnswersDialog ==
    ASSUME TypeOK, CreditInv, AnswerInv, ~Overlap, NEW p \in Payments, DialogStep(p) \/ CancelTransaction(p)
    PROVE  AnswerInv'
<1>. USE DEF Invoice, PaymentsFor, Credits
<1>1. /\ UNCHANGED <<status, grants, invoiceOf, exact, dpc, verdict, faults>>
      /\ \E s \in {"asking", "allowed", "ready"} : dialog' = [dialog EXCEPT ![p] = s]
      /\ \E a \in {"none", "denied", "cancelled"} : answer' = [answer EXCEPT ![p] = a]
      /\ dialog[p] # "none" /\ answer[p] = "none"
  BY DialogWrites DEF Dialog, deliveryVars
<1>2. \A d \in Deliveries : DeliveryRunning(d) => PaymentOf[d] # p
  <2>1. CASE dialog[p] # "ready"
    BY <2>1, RunningHasInvoice
  <2>2. CASE dialog[p] = "ready"
    BY <2>2, DialogWrites DEF CancelTransaction, DeliveryRunning, Dialog
  <2>. QED
    BY <2>1, <2>2
<1>3. \A q \in Payments : q # p => dialog'[q] = dialog[q] /\ answer'[q] = answer[q]
  BY <1>1 DEF TypeOK
<1>4. dialog'[p] # "none" /\ answer'[p] \in {"none", "denied", "cancelled"}
  BY <1>1 DEF TypeOK
<1>5. dialog'[p] \in {"allowed", "ready"} => exact[p] \/ dialog[p] \in {"allowed", "ready"}
  BY DialogWrites DEF Payable, Dialog, TypeOK
<1>6. grants[p] > 0 => faults > 0
  BY <1>1, <1>2 DEF AnswerInv, ToldInv, DeliveryRunning
<1>7. AskedInv'
  BY <1>1, <1>3, <1>4, <1>5 DEF AnswerInv, AskedInv
<1>8. ToldInv'
  BY <1>1, <1>3, <1>6 DEF AnswerInv, ToldInv
<1>9. PaidInv' /\ VerdictInv'
  BY <1>1 DEF AnswerInv, PaidInv, VerdictInv
<1>10. MarkInv'
  BY <1>1, <1>3, <1>4 DEF AnswerInv, MarkInv
<1>11. AnswersAreTrue'
  <2>1. grants[p] = 0 \/ faults > 0
    BY <1>6 DEF TypeOK
  <2>. QED
    BY <1>1, <1>3, <1>4, <2>1 DEF AnswerInv, AnswersAreTrue
<1>. QED
  BY <1>7, <1>8, <1>9, <1>10, <1>11 DEF AnswerInv

LEMMA AnswersReceive ==
    ASSUME TypeOK, CreditInv, AnswerInv, ~Overlap, NEW d \in Deliveries, Receive(d)
    PROVE  AnswerInv'
<1>. USE PaymentsAssumption DEF Invoice, PaymentsFor, Credits
<1>1. PICK to \in {"answer", "mark"}, v \in {"confirmed", "refused"} :
        /\ Goes(d, to, v) /\ Delivers(d)
        /\ \/ status[Invoice(d)] = "paid" /\ to = "answer" /\ v = "confirmed"
           \/ status[Invoice(d)] = "expired" /\ to = "answer" /\ v = "refused"
           \/ /\ status[Invoice(d)] = "pending" /\ ~exact[PaymentOf[d]]
              /\ to = "answer" /\ v = "refused"
           \/ status[Invoice(d)] = "pending" /\ to = "mark"
  BY DEF Receive, FindPaid, FindExpired, FindWrongAmount, FindPending
<1>2. /\ UNCHANGED <<status, grants, invoiceOf, exact, dialog, answer, faults>>
      /\ dpc'[d] = to /\ verdict'[d] = v /\ dpc[d] = "idle"
      /\ \A o \in Deliveries : o # d => dpc'[o] = dpc[o] /\ verdict'[o] = verdict[o]
  BY <1>1 DEF Goes, Delivers, TypeOK, paymentVars
<1>3. /\ PaymentOf[d] \in Payments /\ dialog[PaymentOf[d]] = "ready" /\ answer[PaymentOf[d]] = "none"
      /\ \A o \in Deliveries : DeliveryRunning(o) => Invoice(o) # Invoice(d)
      /\ Invoice(d) \in Checkouts
  BY <1>1 DEF Delivers, CreditInv, TypeOK, InvoiceOrNone
<1>4. grants[PaymentOf[d]] = 0 \/ faults > 0
  <2>1. grants[PaymentOf[d]] \in Nat
    BY <1>3 DEF TypeOK
  <2>2. \A o \in Deliveries : dpc[o] = "answer" => PaymentOf[o] # PaymentOf[d]
    BY <1>3 DEF DeliveryRunning
  <2>3. grants[PaymentOf[d]] > 0 => faults > 0
    BY <1>3, <2>2 DEF AnswerInv, ToldInv
  <2>. QED
    BY <2>1, <2>3
<1>5. status[Invoice(d)] = "paid" => Credits(Invoice(d)) # {} \/ faults > 0
  BY <1>3 DEF AnswerInv, PaidInv, DeliveryRunning
<1>6. AskedInv' /\ ToldInv' /\ PaidInv' /\ AnswersAreTrue'
  BY <1>2 DEF AnswerInv, AskedInv, ToldInv, PaidInv, AnswersAreTrue
<1>7. VerdictInv'
  <2>1. ~exact[PaymentOf[d]] => ProviderOf[PaymentOf[d]] = "uzum"
    BY <1>3 DEF AnswerInv, AskedInv
  <2>. QED
    BY <1>1, <1>2, <1>4, <1>5, <2>1 DEF AnswerInv, VerdictInv
<1>8. MarkInv'
  <2>1. to = "mark" => \A p \in PaymentsFor(Invoice(d)) : answer[p] = "refused" => ProviderOf[p] = "uzum"
    BY <1>1 DEF AnswerInv, AnswersAreTrue
  <2>. QED
    BY <1>2, <2>1 DEF AnswerInv, MarkInv
<1>. QED
  BY <1>6, <1>7, <1>8 DEF AnswerInv

LEMMA AnswersMark ==
    ASSUME TypeOK, CreditInv, AnswerInv, NEW d \in Deliveries, MarkPaid(d)
    PROVE  AnswerInv'
<1>. USE DEF PaymentsFor, Credits
<1>1. /\ dpc[d] = "mark" /\ dpc'[d] = "grant"
      /\ \A o \in Deliveries : o # d => dpc'[o] = dpc[o]
      /\ UNCHANGED <<grants, invoiceOf, exact, dialog, answer, verdict, faults>>
      /\ status' = [status EXCEPT ![Invoice(d)] = "paid"]
  BY DEF MarkPaid, paymentVars, TypeOK
<1>2. /\ DeliveryRunning(d) /\ Invoice(d) \in Checkouts /\ \A o \in Deliveries : Invoice(o)' = Invoice(o)
      /\ \A o \in Deliveries : o # d /\ DeliveryRunning(o) => Invoice(o) # Invoice(d) /\ Invoice(o) \in Checkouts
  BY <1>1, RunningHasInvoice DEF CreditInv, DeliveryRunning, Invoice
<1>3. status'[Invoice(d)] = "paid" /\ \A i \in Checkouts : i # Invoice(d) => status'[i] = status[i]
  BY <1>1, <1>2 DEF TypeOK
<1>4. AskedInv' /\ ToldInv'
  BY <1>1 DEF AnswerInv, AskedInv, ToldInv
<1>5. PaidInv'
  BY <1>1, <1>2, <1>3 DEF AnswerInv, PaidInv
<1>6. VerdictInv'
  BY <1>1, <1>2, <1>3 DEF AnswerInv, VerdictInv, DeliveryRunning
<1>7. MarkInv'
  BY <1>1, <1>2 DEF AnswerInv, MarkInv
<1>8. AnswersAreTrue'
  <2>1. \A p \in Payments : answer[p] = "refused" /\ ProviderOf[p] # "uzum" =>
            invoiceOf[p] # Invoice(d) /\ invoiceOf[p] \in Checkouts
    BY <1>1, AnsweredHasInvoice DEF AnswerInv, MarkInv
  <2>. QED
    BY <1>1, <1>3, <2>1 DEF AnswerInv, AnswersAreTrue
<1>. QED
  BY <1>4, <1>5, <1>6, <1>7, <1>8 DEF AnswerInv

LEMMA AnswersGrant ==
    ASSUME TypeOK, CreditInv, AnswerInv, NEW d \in Deliveries, GrantCredit(d)
    PROVE  AnswerInv'
<1>. USE DEF PaymentsFor, Credits
<1>. DEFINE p == PaymentOf[d]
<1>1. /\ dpc[d] = "grant" /\ dpc'[d] = "answer" /\ verdict'[d] = "confirmed"
      /\ \A o \in Deliveries : o # d => dpc'[o] = dpc[o] /\ verdict'[o] = verdict[o]
      /\ UNCHANGED <<status, invoiceOf, exact, dialog, answer, faults>>
      /\ grants' = [grants EXCEPT ![p] = @ + 1]
  BY DEF GrantCredit, paymentVars, TypeOK
<1>2. /\ DeliveryRunning(d) /\ p \in Payments /\ Invoice(d) \in Checkouts /\ invoiceOf[p] = Invoice(d)
      /\ answer[p] = "none" /\ \A o \in Deliveries : Invoice(o)' = Invoice(o)
      /\ \A o \in Deliveries : o # d /\ DeliveryRunning(o) => Invoice(o) # Invoice(d)
  BY <1>1, RunningHasInvoice DEF CreditInv, DeliveryRunning, Invoice
<1>3. grants'[p] > 0 /\ \A q \in Payments : q # p => grants'[q] = grants[q]
  BY <1>1, <1>2 DEF TypeOK
<1>4. /\ \A i : Credits(i) # {} => Credits(i)' # {}
      /\ Credits(Invoice(d))' # {}
  BY <1>1, <1>2, <1>3
<1>5. AskedInv' /\ MarkInv'
  BY <1>1, <1>2 DEF AnswerInv, AskedInv, MarkInv
<1>6. ToldInv'
  BY <1>1, <1>2, <1>3 DEF AnswerInv, ToldInv
<1>7. PaidInv'
  BY <1>1, <1>2, <1>4 DEF AnswerInv, PaidInv
<1>8. VerdictInv'
  <2>1. \A o \in Deliveries : o # d /\ DeliveryRunning(o) => PaymentOf[o] # p
    BY <1>2 DEF Invoice
  <2>2. \A o \in Deliveries : o # d /\ dpc[o] = "answer" =>
            PaymentOf[o] # p /\ PaymentOf[o] \in Payments /\ grants'[PaymentOf[o]] = grants[PaymentOf[o]]
    BY <1>3, <2>1, RunningHasInvoice DEF DeliveryRunning
  <2>. QED
    BY <1>1, <1>2, <1>4, <2>2 DEF AnswerInv, VerdictInv
<1>9. AnswersAreTrue'
  BY <1>1, <1>2, <1>3, <1>4 DEF AnswerInv, AnswersAreTrue
<1>. QED
  BY <1>5, <1>6, <1>7, <1>8, <1>9 DEF AnswerInv

LEMMA AnswersAnswer ==
    ASSUME TypeOK, CreditInv, AnswerInv, NEW d \in Deliveries, Answer(d)
    PROVE  AnswerInv'
<1>. USE DEF PaymentsFor, Credits
<1>. DEFINE p == PaymentOf[d]
<1>1. /\ dpc[d] = "answer" /\ dpc'[d] = "over"
      /\ \A o \in Deliveries : o # d => dpc'[o] = dpc[o]
      /\ UNCHANGED <<status, grants, invoiceOf, exact, dialog, verdict, faults>>
      /\ answer' = [answer EXCEPT ![p] = IF @ = "none" THEN verdict[d] ELSE @]
  BY DEF Answer, paymentVars, TypeOK
<1>2. /\ DeliveryRunning(d) /\ p \in Payments /\ Invoice(d) \in Checkouts /\ invoiceOf[p] = Invoice(d)
      /\ answer[p] = "none" /\ dialog[p] = "ready" /\ \A o \in Deliveries : Invoice(o)' = Invoice(o)
      /\ \A o \in Deliveries : o # d /\ DeliveryRunning(o) => Invoice(o) # Invoice(d)
  BY <1>1, RunningHasInvoice DEF CreditInv, DeliveryRunning, Invoice
<1>3. /\ answer'[p] = verdict[d] /\ verdict[d] \in {"confirmed", "refused"}
      /\ \A q \in Payments : q # p => answer'[q] = answer[q]
  BY <1>1, <1>2 DEF TypeOK
<1>4. /\ verdict[d] = "confirmed" => Credits(Invoice(d)) # {} \/ faults > 0
      /\ verdict[d] = "refused" =>
            /\ grants[p] = 0 \/ faults > 0
            /\ ProviderOf[p] # "uzum" => status[Invoice(d)] = "expired"
  BY <1>1 DEF AnswerInv, VerdictInv
<1>5. AskedInv'
  BY <1>1, <1>2, <1>3 DEF AnswerInv, AskedInv
<1>6. ToldInv'
  <2>1. ASSUME NEW q \in Payments, grants[q] > 0
        PROVE  \/ faults > 0 \/ answer'[q] = "confirmed"
               \/ \E o \in Deliveries : PaymentOf[o] = q /\ dpc'[o] = "answer" /\ verdict[o] = "confirmed"
    <3>1. CASE q = p
      BY <1>3, <1>4, <2>1, <3>1
    <3>2. CASE q # p
      BY <1>1, <1>3, <2>1, <3>2 DEF AnswerInv, ToldInv
    <3>. QED
      BY <3>1, <3>2
  <2>. QED
    BY <1>1, <2>1 DEF ToldInv
<1>7. PaidInv'
  BY <1>1, <1>2 DEF AnswerInv, PaidInv
<1>8. VerdictInv'
  BY <1>1, <1>2 DEF AnswerInv, VerdictInv
<1>9. MarkInv'
  <2>1. ASSUME NEW o \in Deliveries, dpc'[o] = "mark", NEW q \in Payments, invoiceOf[q] = Invoice(o),
               answer'[q] = "refused"
        PROVE  ProviderOf[q] = "uzum"
    <3>1. dpc[o] = "mark" /\ o # d /\ DeliveryRunning(o)
      BY <1>1, <2>1 DEF DeliveryRunning
    <3>2. q # p
      BY <1>2, <2>1, <3>1
    <3>. QED
      BY <1>3, <2>1, <3>1, <3>2 DEF AnswerInv, MarkInv
  <2>. QED
    BY <1>1, <1>2, <2>1 DEF MarkInv
<1>10. AnswersAreTrue'
  BY <1>1, <1>2, <1>3, <1>4 DEF AnswerInv, AnswersAreTrue
<1>. QED
  BY <1>5, <1>6, <1>7, <1>8, <1>9, <1>10 DEF AnswerInv

LEMMA AnswersAfterFault ==
    ASSUME TypeOK, AnswerInv, UNCHANGED <<status, grants, invoiceOf, exact, dialog, answer, verdict>>,
           \A d \in Deliveries : dpc'[d] = dpc[d] \/ dpc'[d] = "over", faults' > 0
    PROVE  AnswerInv'
<1>. USE DEF PaymentsFor, Credits, Invoice
<1>1. AskedInv' /\ ToldInv' /\ PaidInv'
  BY DEF AnswerInv, AskedInv, ToldInv, PaidInv
<1>2. VerdictInv' /\ MarkInv'
  BY DEF AnswerInv, VerdictInv, MarkInv
<1>3. AnswersAreTrue'
  BY DEF AnswerInv, AnswersAreTrue
<1>. QED
  BY <1>1, <1>2, <1>3 DEF AnswerInv

LEMMA AnswerKept ==
    ASSUME TypeOK, IssuedInv, CreditInv, AnswerInv, Next, ~Overlap
    PROVE  AnswerInv'
<1>1. CASE \/ \E c \in Checkouts : CheckoutStep(c) \/ CheckoutRaises(c)
           \/ \E k \in Cancels : CancelStep(k) \/ CancelRaises(k)
  BY <1>1, StatusMoves, AnswersWhileStatusMoves
<1>2. CASE BotRestarts \/ \E d \in Deliveries : DeliveryRaises(d)
  <2>1. faults' > 0
    BY <1>2, FaultType DEF BotRestarts, DeliveryRaises, TypeOK
  <2>2. UNCHANGED <<status, grants, invoiceOf, exact, dialog, answer, verdict>>
    BY <1>2 DEF BotRestarts, DeliveryRaises, paymentVars
  <2>3. \A d \in Deliveries : dpc'[d] = dpc[d] \/ dpc'[d] = "over"
    BY <1>2 DEF BotRestarts, DeliveryRaises, TypeOK
  <2>. QED
    BY <2>1, <2>2, <2>3, AnswersAfterFault
<1>. QED
  BY <1>1, <1>2, AnswersBeginPayment, AnswersDialog, AnswersReceive, AnswersMark, AnswersGrant, AnswersAnswer
  DEF Next, DeliveryStep

-----------------------------------------------------------------------------
(***************************************************************************)
(* Theorems.  The conversation changes none of this.                       *)
(***************************************************************************)
LEMMA PaymentsAtFirst == Init => TypeOK /\ PaymentInv
<1>. SUFFICES ASSUME Init PROVE TypeOK /\ PaymentInv
  OBVIOUS
<1>1. issued = <<>> /\ issued \in Seq(Checkouts) /\ DOMAIN issued = {}
  BY EmptySeq DEF Init
<1>2. TypeOK
  BY <1>1, MaxFaultsAssumption DEF Init, TypeOK, InvoiceOrNone, FaultsInit, FaultsTypeOK, IsInjective
<1>3. IssuedInv /\ OpenInv
  BY <1>1 DEF Init, IssuedInv, OpenInv, Open, CheckoutRunning
<1>4. CreditInv
  <2>1. /\ \A p \in Payments : dialog[p] = "none" /\ invoiceOf[p] = NoInvoice /\ grants[p] = 0
        /\ \A d \in Deliveries : dpc[d] = "idle"
    BY DEF Init
  <2>2. CreditedAtMostOnce
    BY <2>1 DEF CreditedAtMostOnce, Credits, PaymentsFor
  <2>. QED
    BY <2>1, <2>2 DEF CreditInv, DeliveryRunning
<1>5. AnswerInv
  BY DEF Init, AnswerInv, AskedInv, ToldInv, PaidInv, VerdictInv, MarkInv, AnswersAreTrue
<1>. QED
  BY <1>2, <1>3, <1>4, <1>5 DEF PaymentInv

LEMMA PaymentsKept ==
    ASSUME TypeOK, PaymentInv, [PurchasesNext]_purchaseVars, ~Overlap
    PROVE  TypeOK' /\ PaymentInv'
<1>1. CASE Next
  BY <1>1, PaymentsType, IssuedKept, OpenKept, CreditKept, AnswerKept DEF PaymentInv
<1>2. CASE UNCHANGED vars
  <2>. USE <1>2 DEF vars, chatVars, checkoutVars, cancelVars, paymentVars, deliveryVars
  <2>1. TypeOK'
    BY DEF TypeOK, FaultsTypeOK
  <2>2. IssuedInv' /\ OpenInv'
    BY DEF PaymentInv, IssuedInv, OpenInv, Open, CheckoutRunning
  <2>3. CreditInv'
    BY DEF PaymentInv, CreditInv, DeliveryRunning, Invoice, PaymentsFor, CreditedAtMostOnce, Credits
  <2>4. AnswerInv'
    BY DEF PaymentInv, AnswerInv, AskedInv, ToldInv, PaidInv, VerdictInv, MarkInv, AnswersAreTrue, Credits,
           PaymentsFor, Invoice
  <2>. QED
    BY <2>1, <2>2, <2>3, <2>4 DEF PaymentInv
<1>. QED
  BY <1>1, <1>2 DEF PurchasesNext, Conversation, Invoices, purchaseVars

\* While calls about one invoice, and checkouts of one project, follow each
\* other, the invariant holds.
THEOREM PaymentInvariant ==
    ASSUME ~Overlap
    PROVE  PurchasesSpec => [](TypeOK /\ PaymentInv)
<1>1. PurchasesInit => TypeOK /\ PaymentInv
  BY PaymentsAtFirst DEF PurchasesInit
<1>2. TypeOK /\ PaymentInv /\ [PurchasesNext]_purchaseVars => (TypeOK /\ PaymentInv)'
  BY PaymentsKept
<1>. QED
  BY <1>1, <1>2, PTL DEF PurchasesSpec

\* One open invoice at a time, each credited at most once, for its amount, and
\* only when it is open no more.
THEOREM InvoicesStayInOrder ==
    ASSUME ~Overlap
    PROVE  PurchasesSpec => []InvoicesInOrder
<1>1. TypeOK /\ PaymentInv => InvoicesInOrder
  BY DEF PaymentInv, OpenInv, Open, CreditInv, InvoicesInOrder
<1>. QED
  BY <1>1, PaymentInvariant, PTL

\* What a provider is told about a payment is so, and stays so.
THEOREM AnswersStayTrue ==
    ASSUME ~Overlap
    PROVE  PurchasesSpec => []AnswersAreTrue
<1>1. TypeOK /\ PaymentInv => AnswersAreTrue
  BY DEF PaymentInv, AnswerInv
<1>. QED
  BY <1>1, PaymentInvariant, PTL

-----------------------------------------------------------------------------
(***************************************************************************)
(* Types of the conversation.                                              *)
(***************************************************************************)
LEMMA ButtonsOfKeyboards ==
    /\ DOMAIN Buttons = {"languages", "menu", "levels", "upload", "tiers", "providers", "link", "downloads"}
    /\ Keyboards = {"languages", "menu", "levels", "upload", "tiers", "providers", "link", "downloads",
                    "unsent", "none"}
BY DEF Keyboards, Buttons

\* Handlers, the messages they are at work under, and what they may take a payment for.
LEMMA HandlerNames ==
    /\ Starts \subseteq Messages /\ Names \subseteq Messages /\ Documents \subseteq Messages
    /\ Messages \subseteq Handlers /\ Seconds \subseteq Handlers /\ Messages \cap Seconds = {}
    /\ Documents \subseteq Payers /\ Payers \subseteq Handlers
    /\ \A p \in Payers : p \in Documents \/ p \in Seconds
    /\ \A p \in Payers : Progress(p) \in Messages
    /\ \A m \in Messages : On(m) = m
    /\ \A h \in Seconds : On(h) \in Messages /\ On(h) # h
    /\ \A h \in Handlers : On(h) \in Messages
<1>1. /\ Starts \subseteq Messages /\ Names \subseteq Messages /\ Documents \subseteq Messages
      /\ Messages \subseteq Handlers /\ Seconds \subseteq Handlers /\ Messages \cap Seconds = {}
      /\ \A p \in Payers : Progress(p) \in Messages
      /\ \A m \in Messages : On(m) = m
  BY IntakeAssumption DEF Messages, Replies, Handlers, On
<1>2. \A p \in Payers : p \in Documents \/ p \in Seconds
  BY <1>1 DEF Payers, Seconds
<1>3. \A h \in Seconds : On(h) \in Messages /\ On(h) # h
  BY <1>1 DEF Seconds, On, Again
<1>4. \A h \in Handlers : On(h) \in Messages
  BY <1>1, <1>3 DEF Handlers
<1>5. Documents \subseteq Payers /\ Payers \subseteq Handlers
  BY <1>1, <1>2 DEF Payers
<1>. QED
  BY <1>1, <1>2, <1>3, <1>4, <1>5

LEMMA StepTypes ==
    ASSUME IntakeTypeOK, NEW m \in Handlers
    PROVE  /\ step[m] \in Step /\ step[m].leads \in Stages \cup {"same"} /\ step[m].shows \in Keyboards
           /\ Done \in Step
           /\ \A s \in {"idle", "charge", "confirm", "announce", "make", "show", "set"} :
                [step[m] EXCEPT !.at = s] \in Step
           /\ [step[m] EXCEPT !.at = "set", !.leads = "reviewing"] \in Step
           /\ \A k \in Keyboards, s \in Stages \cup {"same"} :
                [Done EXCEPT !.at = "show", !.shows = k, !.leads = s] \in Step
           /\ [Done EXCEPT !.at = "charge", !.project = project,
                           !.files = {f \in Documents : told[f] = project}] \in Step
<1>1. step[m] \in Step
  BY DEF IntakeTypeOK
<1>2. Done \in Step
  BY ButtonsOfKeyboards, IntakeAssumption DEF Done, Step, Stages
<1>3. \A s \in {"idle", "charge", "confirm", "announce", "make", "show", "set"} :
        [step[m] EXCEPT !.at = s] \in Step
  BY <1>1 DEF Step
<1>4. [step[m] EXCEPT !.at = "set", !.leads = "reviewing"] \in Step
  BY <1>1 DEF Step, Stages
<1>5. \A k \in Keyboards, s \in Stages \cup {"same"} :
        [Done EXCEPT !.at = "show", !.shows = k, !.leads = s] \in Step
  BY <1>2 DEF Step
<1>6. [Done EXCEPT !.at = "charge", !.project = project,
                   !.files = {f \in Documents : told[f] = project}] \in Step
  BY <1>2 DEF Step, IntakeTypeOK
<1>. QED
  BY <1>1, <1>2, <1>3, <1>4, <1>5, <1>6 DEF Step

\* What a step of the conversation writes.
LEMMA IntakeWrites ==
    ASSUME IntakeTypeOK, IntakeStep
    PROVE  /\ stage' \in Stages
           /\ project' \in {project, 0} \/ (begun < MaxProjects /\ project' = begun + 1)
           /\ begun' = begun \/ (begun < MaxProjects /\ begun' = begun + 1)
           /\ sources' \in {sources, {}} \/ \E d \in Documents : sources' = sources \cup {d}
           /\ registered' \in {registered, TRUE} /\ refused' \in {refused, TRUE}
           /\ orderly' = orderly \/ \E m \in Handlers : Breaks(m) \/ Counts(m)
           /\ seconds' \in {seconds, seconds + 1}
           /\ stashed' \subseteq stashed
              \/ \E p \in Payers : order[p].made # 0 /\ stashed' = stashed \cup {order[p].made}
           /\ told' = told \/ \E d \in Documents : told' = [told EXCEPT ![d] = project]
<1>. USE DEF IntakeStep, CmdStart, ProcessName, Shows, Sets, StartPresentation, Turn, ContinueToQuestionnaire,
             ReceiveDocument, PayFromBalance, PayExternally, CancelPress, Refuse, Charge, HandOff, Announce,
             Deliver, MakingFails, Finish, SetStage, ClearData, dataVars, recordVars, orderVars
<1>1. stage' \in Stages
  <2>1. \/ stage' \in {stage, "none", "generating"}
        \/ \E m \in Handlers : step[m].leads # "same" /\ stage' = step[m].leads
    OBVIOUS
  <2>. QED
    BY <2>1, StepTypes DEF IntakeTypeOK, Stages
<1>2. project' \in {project, 0} \/ (begun < MaxProjects /\ project' = begun + 1)
  OBVIOUS
<1>3. begun' = begun \/ (begun < MaxProjects /\ begun' = begun + 1)
  OBVIOUS
<1>4. sources' \in {sources, {}} \/ \E d \in Documents : sources' = sources \cup {d}
  OBVIOUS
<1>5. registered' \in {registered, TRUE} /\ refused' \in {refused, TRUE}
  OBVIOUS
<1>6. orderly' = orderly \/ \E m \in Handlers : Breaks(m) \/ Counts(m)
  BY HandlerNames
<1>7. \/ stashed' \subseteq stashed
      \/ \E p \in Payers : order[p].made # 0 /\ stashed' = stashed \cup {order[p].made}
  OBVIOUS
<1>9. seconds' \in {seconds, seconds + 1}
  BY DEF Pressed
<1>8. told' = told \/ \E d \in Documents : told' = [told EXCEPT ![d] = project]
  OBVIOUS
<1>. QED
  BY <1>1, <1>2, <1>3, <1>4, <1>5, <1>6, <1>7, <1>8, <1>9

LEMMA IntakeRecords ==
    ASSUME IntakeTypeOK, IntakeStep
    PROVE  /\ step' \in [Handlers -> Step]
           /\ keyboard' \in [Messages -> Keyboards]
           /\ order' \in [Payers -> Order]
<1>. USE DEF IntakeTypeOK
<1>0. /\ \A d \in Payers : d \in Handlers /\ On(d) \in Messages /\ Progress(d) \in Messages
      /\ \A m \in Messages : m \in Handlers
  BY HandlerNames
<1>1. ASSUME NEW m \in Handlers, NEW k \in Keyboards, NEW s \in Stages \cup {"same"}, Respond(m, k, s)
      PROVE  step' \in [Handlers -> Step]
  BY <1>1, StepTypes DEF Respond
<1>2. CASE \/ \E m \in Starts : CmdStart(m)
           \/ \E m \in Names : ProcessName(m)
           \/ \E m \in Handlers : StartPresentation(m) \/ ContinueToQuestionnaire(m) \/ \E t \in Turns : Turn(m, t)
           \/ \E d \in Documents : ReceiveDocument(d)
           \/ \E m \in Handlers : Finish(m)
           \/ \E d \in Payers : PayExternally(d) \/ CancelPress(d) \/ Refuse(d)
  <2>1. UNCHANGED <<keyboard, order>>
    BY <1>2 DEF CmdStart, ProcessName, StartPresentation, ContinueToQuestionnaire, Turn, ReceiveDocument,
                PayExternally, CancelPress, Refuse, Finish, recordVars
  <2>2. \A t \in Turns : t.shows \in Keyboards /\ t.leads \in Stages
    BY ButtonsOfKeyboards DEF Turns, ProcessLanguage, ProcessCalibration, UploadMore, ChooseTier, Stages
  <2>3. \E m \in Handlers, k \in Keyboards, s \in Stages \cup {"same"} : Respond(m, k, s)
    <3>1. CASE (\E m \in Starts : CmdStart(m)) \/ \E m \in Names : ProcessName(m)
      BY <3>1, HandlerNames, ButtonsOfKeyboards DEF CmdStart, ProcessName, Stages
    <3>2. CASE \E m \in Handlers : StartPresentation(m) \/ ContinueToQuestionnaire(m) \/ \E t \in Turns : Turn(m, t)
      BY <2>2, <3>2, ButtonsOfKeyboards DEF StartPresentation, ContinueToQuestionnaire, Turn, Stages
    <3>3. CASE (\E d \in Documents : ReceiveDocument(d)) \/ \E m \in Handlers : Finish(m)
      BY <3>3, HandlerNames, ButtonsOfKeyboards DEF ReceiveDocument, Finish, Stages
    <3>4. CASE \E d \in Payers : PayExternally(d) \/ CancelPress(d) \/ Refuse(d)
      BY <1>0, <3>4, ButtonsOfKeyboards DEF PayExternally, CancelPress, Refuse, Stages
    <3>. QED
      BY <1>2, <3>1, <3>2, <3>3, <3>4
  <2>. QED
    BY <1>1, <2>1, <2>3
<1>3. ASSUME NEW m \in Handlers, Shows(m) \/ Sets(m)
      PROVE  step' \in [Handlers -> Step] /\ keyboard' \in [Messages -> Keyboards] /\ UNCHANGED order
  <2>1. CASE Shows(m)
    <3>1. step' = [step EXCEPT ![m] = [step[m] EXCEPT !.at = "set"]] /\ UNCHANGED order
          /\ keyboard' = [keyboard EXCEPT ![On(m)] = step[m].shows]
      BY <2>1 DEF Shows, recordVars
    <3>. QED
      BY <3>1, StepTypes, HandlerNames
  <2>2. CASE Sets(m)
    BY <2>2, StepTypes DEF Sets, recordVars
  <2>. QED
    BY <1>3, <2>1, <2>2
<1>4. ASSUME NEW d \in Payers, PayFromBalance(d)
      PROVE  step' \in [Handlers -> Step] /\ UNCHANGED <<keyboard, order>>
  <2>1. CASE project = 0
    BY <1>0, <1>1, <1>4, <2>1, ButtonsOfKeyboards DEF PayFromBalance, recordVars, Stages
  <2>2. CASE project # 0
    BY <1>0, <1>4, <2>2, StepTypes DEF PayFromBalance, recordVars
  <2>. QED
    BY <2>1, <2>2
<1>5. ASSUME NEW d \in Payers, Charge(d)
      PROVE  step' \in [Handlers -> Step] /\ UNCHANGED keyboard /\ order' \in [Payers -> Order]
  <2>1. step[d].project \in 0..MaxProjects /\ step[d].files \in SUBSET Documents
    BY <1>0 DEF Step
  <2>2. NoOrder \in Order
    BY IntakeAssumption DEF NoOrder, Order
  <2>3. [NoOrder EXCEPT !.paid = step[d].project, !.promised = step[d].files] \in Order
    BY <2>1, <2>2 DEF Order
  <2>. QED
    BY <1>0, <1>5, <2>3, StepTypes DEF Charge, recordVars
<1>6. ASSUME NEW d \in Payers, HandOff(d)
      PROVE  /\ step' \in [Handlers -> Step] /\ keyboard' \in [Messages -> Keyboards]
             /\ order' \in [Payers -> Order]
  <2>0. order[d] \in Order /\ project \in 0..MaxProjects /\ sources \in SUBSET Documents
    OBVIOUS
  <2>1. [order[d] EXCEPT !.made = project, !.from = sources] \in Order
    BY <2>0 DEF Order
  <2>2. order' = [order EXCEPT ![d] = [order[d] EXCEPT !.made = project, !.from = sources]]
    BY <1>6 DEF HandOff
  <2>. QED
    <3>1. step' = [step EXCEPT ![d] = [step[d] EXCEPT !.at = "announce"]]
      BY <1>6 DEF HandOff
    <3>2. step' \in [Handlers -> Step]
      BY <1>0, <3>1, StepTypes
    <3>3. keyboard' \in [Messages -> Keyboards]
      BY <1>0, <1>6, ButtonsOfKeyboards DEF HandOff
    <3>4. order' \in [Payers -> Order]
      BY <2>1, <2>2
    <3>. QED
      BY <3>2, <3>3, <3>4
<1>7. ASSUME NEW d \in Payers, Announce(d)
      PROVE  step' \in [Handlers -> Step] /\ keyboard' \in [Messages -> Keyboards] /\ UNCHANGED order
  BY <1>0, <1>7, StepTypes, ButtonsOfKeyboards DEF Announce, recordVars
<1>8. ASSUME NEW d \in Payers, Deliver(d)
      PROVE  step' \in [Handlers -> Step] /\ keyboard' \in [Messages -> Keyboards] /\ UNCHANGED order
  <2>1. step' = [step EXCEPT ![d] = [step[d] EXCEPT !.at = "set", !.leads = "reviewing"]]
    BY <1>8 DEF Deliver
  <2>. QED
    <3>1. step' \in [Handlers -> Step]
      BY <1>0, <2>1, StepTypes
    <3>2. keyboard' \in [Messages -> Keyboards] /\ UNCHANGED order
      BY <1>0, <1>8, ButtonsOfKeyboards DEF Deliver
    <3>. QED
      BY <3>1, <3>2
<1>9. ASSUME NEW d \in Payers, MakingFails(d)
      PROVE  step' \in [Handlers -> Step] /\ UNCHANGED <<keyboard, order>>
  BY <1>0, <1>9, StepTypes DEF MakingFails, recordVars
<1>. QED
  BY <1>2, <1>3, <1>4, <1>5, <1>6, <1>7, <1>8, <1>9 DEF IntakeStep

\* The tables are well typed, whatever overlaps.
THEOREM PurchasesTypeCorrect == PurchasesSpec => []PurchasesTypeOK
<1>1. PurchasesInit => PurchasesTypeOK /\ IssuedInv
  <2>1. IntakeInit => IntakeTypeOK
    <3>. SUFFICES ASSUME IntakeInit PROVE IntakeTypeOK
      OBVIOUS
    <3>1. Done \in Step /\ NoOrder \in Order /\ 0 \in 0..MaxProjects
      BY ButtonsOfKeyboards, IntakeAssumption DEF Done, Step, Stages, NoOrder, Order
    <3>2. step \in [Handlers -> Step] /\ order \in [Payers -> Order]
      BY <3>1 DEF IntakeInit
    <3>3. keyboard \in [Messages -> Keyboards] /\ stage \in Stages
      BY ButtonsOfKeyboards DEF IntakeInit, Stages
    <3>4. told \in [Documents -> 0..MaxProjects] /\ project \in 0..MaxProjects /\ begun \in 0..MaxProjects
      BY <3>1 DEF IntakeInit
    <3>5. sources \subseteq Documents /\ stashed \subseteq Projects /\ registered \in BOOLEAN
          /\ orderly \in BOOLEAN /\ refused \in BOOLEAN /\ seconds \in Nat
      BY DEF IntakeInit
    <3>. QED
      BY <3>2, <3>3, <3>4, <3>5 DEF IntakeTypeOK
  <2>. QED
    BY <2>1, PaymentsAtFirst DEF PurchasesInit, PurchasesTypeOK, PaymentInv
<1>2. PurchasesTypeOK /\ IssuedInv /\ [PurchasesNext]_purchaseVars => (PurchasesTypeOK /\ IssuedInv)'
  <2>. SUFFICES ASSUME PurchasesTypeOK, IssuedInv, [PurchasesNext]_purchaseVars
                PROVE  PurchasesTypeOK' /\ IssuedInv'
    OBVIOUS
  <2>1. TypeOK' /\ IssuedInv'
    <3>1. CASE Next
      BY <3>1, PaymentsType, IssuedKept DEF PurchasesTypeOK
    <3>2. CASE UNCHANGED vars
      BY <3>2 DEF PurchasesTypeOK, TypeOK, FaultsTypeOK, IssuedInv, vars, chatVars, checkoutVars, cancelVars,
                  paymentVars, deliveryVars
    <3>. QED
      BY <3>1, <3>2 DEF PurchasesNext, Conversation, Invoices, purchaseVars
  <2>2. IntakeTypeOK'
    <3>1. CASE IntakeStep
      <4>1. project' \in 0..MaxProjects /\ begun' \in 0..MaxProjects
        <5>1. begun \in 0..MaxProjects /\ project \in 0..MaxProjects /\ MaxProjects \in Nat
          BY IntakeAssumption DEF PurchasesTypeOK, IntakeTypeOK
        <5>2. begun < MaxProjects => begun + 1 \in 0..MaxProjects
          BY <5>1
        <5>. QED
          BY <3>1, <5>1, <5>2, IntakeWrites DEF PurchasesTypeOK
      <4>2. sources' \subseteq Documents /\ told' \in [Documents -> 0..MaxProjects]
        BY <3>1, IntakeWrites DEF PurchasesTypeOK, IntakeTypeOK
      <4>3. registered' \in BOOLEAN /\ refused' \in BOOLEAN /\ orderly' \in BOOLEAN
        BY <3>1, IntakeWrites, Zenon DEF PurchasesTypeOK, IntakeTypeOK, Breaks, Counts
      <4>5. seconds' \in Nat
        <5>1. seconds \in Nat /\ seconds + 1 \in Nat
          BY DEF PurchasesTypeOK, IntakeTypeOK
        <5>. QED
          BY <3>1, <5>1, IntakeWrites DEF PurchasesTypeOK
      <4>4. stashed' \subseteq Projects
        <5>1. stashed \subseteq Projects /\ MaxProjects \in Nat
          BY IntakeAssumption DEF PurchasesTypeOK, IntakeTypeOK
        <5>2. \A d \in Payers : order[d] \in Order
          BY DEF PurchasesTypeOK, IntakeTypeOK
        <5>3. \A d \in Payers : order[d].made \in 0..MaxProjects
          BY <5>2 DEF Order
        <5>4. \A d \in Payers : order[d].made # 0 => order[d].made \in Projects
          BY <5>1, <5>3 DEF Projects
        <5>. QED
          BY <3>1, <5>1, <5>4, IntakeWrites DEF PurchasesTypeOK
      <4>. QED
        BY <3>1, <4>1, <4>2, <4>3, <4>4, <4>5, IntakeWrites, IntakeRecords DEF PurchasesTypeOK, IntakeTypeOK
    <3>2. CASE UNCHANGED intakeVars
      BY <3>2 DEF PurchasesTypeOK, IntakeTypeOK, intakeVars
    <3>. QED
      BY <3>1, <3>2 DEF PurchasesNext, Conversation, Invoices, purchaseVars
  <2>3. follows' \in Followed
    BY DEF PurchasesTypeOK, PurchasesNext, purchaseVars
  <2>. QED
    BY <2>1, <2>2, <2>3 DEF PurchasesTypeOK
<1>. QED
  BY <1>1, <1>2, PTL DEF PurchasesSpec

-----------------------------------------------------------------------------
(***************************************************************************)
(* The conversation: its inductive invariant.                              *)
(***************************************************************************)
Turning(m, to) == step[m].at \in {"show", "set"} /\ step[m].leads \in to

\* A file that a project was told to have is its source, and projects are new.
FilesInv ==
    /\ project \in 0..begun
    /\ \A d \in Documents : /\ told[d] \in 0..begun
                            /\ told[d] = project /\ project # 0 => d \in sources

\* The keyboard that leads on from a state.
KeyboardOf == [language |-> "languages", level |-> "levels", more |-> "upload",
               tier |-> "tiers", confirming |-> "providers"]

\* A handler that leads to a state shows its keyboard first; a generation's buttons
\* come under a message of their own, which nobody answers before.
ShownInv ==
    /\ \A m \in Messages :
        /\ step[m].at \notin {"idle", "show", "set"} => m \in Documents
        /\ Turning(m, {"reviewing"}) => m \in Documents /\ step[m].at = "set"
        /\ ~Turning(m, {"generating"})
        /\ Turning(m, DOMAIN KeyboardOf) => step[m].shows = KeyboardOf[step[m].leads]
        /\ step[m].at = "show" => step[m].shows # "unsent"
        /\ step[m].at = "set" /\ step[m].leads # "reviewing" => keyboard[m] = step[m].shows
    /\ \A d \in Documents :
        /\ step[d].at \in {"announce", "make"} => keyboard[d] = "none"
        /\ keyboard[Progress(d)] = "unsent" => Rests(Progress(d))
        /\ keyboard[Progress(d)] # "unsent" =>
            keyboard[d] = "none" /\ (step[d].at \in {"idle", "make"} \/ Turning(d, {"reviewing"}))
        /\ step[d].at = "make" => keyboard[Progress(d)] = "none" /\ Rests(Progress(d))

\* What was paid is what the data still name when it is made.
PromiseInv ==
    orderly =>
        \A d \in Documents :
            /\ step[d].at = "charge" =>
                step[d].project = project /\ project # 0 /\ step[d].files \subseteq sources
            /\ step[d].at = "confirm" =>
                /\ order[d].paid = project /\ project # 0 /\ order[d].promised \subseteq sources
                /\ order[d].made = 0
            /\ step[d].at \in {"announce", "make"} => order[d].made = project /\ project # 0
            /\ order[d].made # 0 =>
                order[d].made = order[d].paid /\ order[d].promised \subseteq order[d].from

\* A new project has no sources, and then another message is about to say so.
EmptyInv ==
    orderly /\ sources = {} =>
        /\ stage = "more" => \E m \in Messages : Turning(m, {"none", "uploading"})
        /\ \A m \in Messages : ~Turning(m, {"more"})

\* What is shown for review is in the cache, unless it is being left.
ReviewInv ==
    orderly =>
        /\ stage = "reviewing" =>
            project \in stashed \/ \E m \in Messages : Turning(m, {"none", "uploading"})
        /\ \A d \in Documents : Turning(d, {"reviewing"}) =>
            \/ project \in stashed /\ Rests(Progress(d)) /\ keyboard[Progress(d)] = "downloads"
            \/ \E m \in Messages : Turning(m, {"none"})

\* At rest a message's buttons lead on; at work its handler will.
Leading(m) == step[m].at \notin {"show", "set"} \/ step[m].leads # "same" \/ step[m].shows = "link"
Holds(m) == IF Rests(m) THEN Works(m) ELSE Leading(m)

LeadInv ==
    orderly => stage \in {"none", "uploading", "name"} \/ refused \/ \E m \in Messages : Holds(m)

TalkInv == FilesInv /\ ShownInv /\ PromiseInv /\ EmptyInv /\ ReviewInv /\ LeadInv

TalkSteps == {"idle", "charge", "confirm", "announce", "make", "show", "set"}

LEMMA MessageNames ==
    /\ Starts \subseteq Messages /\ Names \subseteq Messages /\ Documents \subseteq Messages
    /\ \A d \in Documents : Progress(d) \in Messages /\ Progress(d) \notin Replies
    /\ \A d, e \in Documents : (Progress(d) = Progress(e) => d = e) /\ Progress(d) # e
<1>1. \A d \in Documents : d \in Payers /\ d \in Messages
  BY HandlerNames
<1>2. \A d \in Documents : Progress(d) \in Messages /\ Progress(d) \notin Replies
  BY <1>1, HandlerNames, IntakeAssumption
<1>3. \A d, e \in Documents : (Progress(d) = Progress(e) => d = e) /\ Progress(d) # e
  BY <1>2 DEF Progress, Replies
<1>. QED
  BY <1>2, <1>3, HandlerNames

LEMMA CountsPlain ==
    ASSUME IntakeTypeOK, NEW m \in Messages, Counts(m)
    PROVE  UNCHANGED orderly
BY DEF Counts, IntakeTypeOK

LEMMA WhatButtonsAre ==
    /\ Buttons["languages"] = {"lang"} /\ Buttons["levels"] = {"cal"}
    /\ Buttons["menu"] = {"create_presentation"} /\ Buttons["tiers"] = {"tier"}
    /\ Buttons["upload"] = {"upload_more", "continue_flow"}
    /\ Buttons["providers"] = {"pay", "pay_balance"} /\ Buttons["link"] = {"cancel_payment"}
    /\ Buttons["downloads"] = {"download", "done"}
BY DEF Buttons

LEMMA PressedKeyboard ==
    ASSUME NEW m \in Messages, NEW b, Pressed(m, b)
    PROVE  /\ Rests(m) /\ keyboard[m] \notin {"none", "unsent"}
           /\ b # "done" => keyboard[m] # "downloads" \/ b = "download"
           /\ b = "done" => keyboard[m] = "downloads"
<1>1. Rests(m) /\ keyboard[m] \in DOMAIN Buttons /\ b \in Buttons[keyboard[m]]
  BY HandlerNames DEF Pressed, ButtonsUnder
<1>. QED
  BY <1>1, ButtonsOfKeyboards, WhatButtonsAre

\* While a conversation is orderly nothing else is at work when it ends.
LEMMA BreaksAlone ==
    ASSUME NEW m \in Messages, Breaks(m), orderly'
    PROVE  orderly /\ \A n \in Messages \ {m} : Rests(n)
BY HandlerNames DEF Breaks

\* How a handler moves.
Elsewhere(m) == \A n \in Messages \ {m} : step'[n] = step[n]

LEMMA RespondMoves ==
    ASSUME IntakeTypeOK, NEW m \in Messages, NEW k, NEW s, Respond(m, k, s)
    PROVE  /\ step'[m].at = "show" /\ step'[m].shows = k /\ step'[m].leads = s
           /\ Elsewhere(m)
BY HandlerNames DEF Respond, Done, IntakeTypeOK, Elsewhere

LEMMA AtMoves ==
    ASSUME IntakeTypeOK, NEW m \in Messages, NEW a, step' = [step EXCEPT ![m].at = a]
    PROVE  /\ step'[m].at = a /\ step'[m].shows = step[m].shows /\ step'[m].leads = step[m].leads
           /\ step'[m].project = step[m].project /\ step'[m].files = step[m].files
           /\ Elsewhere(m)
<1>1. step[m] \in Step
  BY HandlerNames DEF IntakeTypeOK
<1>2. step'[m] = [step[m] EXCEPT !.at = a] /\ Elsewhere(m)
  BY HandlerNames DEF IntakeTypeOK, Elsewhere
<1>. QED
  BY <1>1, <1>2 DEF Step

LEMMA DoneMoves ==
    ASSUME IntakeTypeOK, NEW m \in Messages, step' = [step EXCEPT ![m] = Done]
    PROVE  step'[m].at = "idle" /\ Elsewhere(m)
BY HandlerNames DEF Done, IntakeTypeOK, Elsewhere

LEMMA TurningKept ==
    ASSUME NEW m \in Messages, Elsewhere(m), step[m].at \notin {"show", "set"}, NEW to,
           \E n \in Messages : Turning(n, to)
    PROVE  \E n \in Messages : Turning(n, to)'
BY DEF Elsewhere, Turning

\* An answer: a message at rest that has buttons or was just sent, or the refusal of a
\* charge; the keyboard is not shown yet.
Answers(m, k, s) ==
    /\ Respond(m, k, s) /\ UNCHANGED keyboard
    /\ k # "unsent" /\ s \notin {"generating", "reviewing"}
    /\ s \in DOMAIN KeyboardOf => k = KeyboardOf[s]
    /\ \/ Rests(m) /\ keyboard[m] # "none" /\ (m \in Replies \/ keyboard[m] # "unsent")
       \/ step[m].at = "charge" /\ m \in Documents

LEMMA AnswersShown ==
    ASSUME IntakeTypeOK, ShownInv, NEW m \in Messages, NEW k, NEW s, Answers(m, k, s)
    PROVE  ShownInv'
<1>1. /\ step'[m].at = "show" /\ step'[m].shows = k /\ step'[m].leads = s
      /\ Elsewhere(m) /\ keyboard' = keyboard
  BY RespondMoves DEF Answers
<1>2. ASSUME NEW n \in Messages
      PROVE  /\ step'[n].at \notin {"idle", "show", "set"} => n \in Documents
             /\ Turning(n, {"reviewing"})' => n \in Documents /\ step'[n].at = "set"
             /\ ~Turning(n, {"generating"})'
             /\ Turning(n, DOMAIN KeyboardOf)' => step'[n].shows = KeyboardOf[step'[n].leads]
             /\ step'[n].at = "show" => step'[n].shows # "unsent"
             /\ step'[n].at = "set" /\ step'[n].leads # "reviewing" => keyboard'[n] = step'[n].shows
  <2>1. CASE n = m
    BY <1>1, <2>1 DEF Answers, Turning
  <2>2. CASE n # m
    BY <1>1, <2>2 DEF Elsewhere, ShownInv, Turning
  <2>. QED
    BY <2>1, <2>2
<1>3. ASSUME NEW d \in Documents
      PROVE  /\ step'[d].at \in {"announce", "make"} => keyboard'[d] = "none"
             /\ keyboard'[Progress(d)] = "unsent" => Rests(Progress(d))'
             /\ keyboard'[Progress(d)] # "unsent" =>
                 keyboard'[d] = "none" /\ (step'[d].at \in {"idle", "make"} \/ Turning(d, {"reviewing"})')
             /\ step'[d].at = "make" => keyboard'[Progress(d)] = "none" /\ Rests(Progress(d))'
  <2>1. CASE m = d
    <3>1. keyboard[Progress(d)] = "unsent"
      BY <2>1 DEF Answers, ShownInv, Rests, Turning
    <3>. QED
      BY <1>1, <2>1, <3>1, MessageNames DEF Elsewhere, ShownInv, Rests
  <2>2. CASE m = Progress(d)
    BY <1>1, <2>2, MessageNames DEF Answers, Elsewhere, ShownInv, Rests, Turning
  <2>3. CASE m # d /\ m # Progress(d)
    BY <1>1, <2>3, MessageNames DEF Elsewhere, ShownInv, Rests, Turning
  <2>. QED
    BY <2>1, <2>2, <2>3
<1>. QED
  BY <1>2, <1>3 DEF ShownInv

\* What an answer changes beyond itself: nothing, at most.
LEMMA AnswersPromise ==
    ASSUME IntakeTypeOK, PromiseInv, NEW m \in Messages, NEW k, NEW s, Answers(m, k, s),
           UNCHANGED <<project, order>>, orderly' => orderly, sources \subseteq sources'
    PROVE  PromiseInv'
<1>1. step'[m].at = "show" /\ Elsewhere(m)
  BY RespondMoves DEF Answers
<1>2. ASSUME NEW d \in Documents, orderly'
      PROVE  /\ step'[d].at = "charge" =>
                    step'[d].project = project' /\ project' # 0 /\ step'[d].files \subseteq sources'
             /\ step'[d].at = "confirm" =>
                    /\ order'[d].paid = project' /\ project' # 0 /\ order'[d].promised \subseteq sources'
                    /\ order'[d].made = 0
             /\ step'[d].at \in {"announce", "make"} => order'[d].made = project' /\ project' # 0
             /\ order'[d].made # 0 =>
                    order'[d].made = order'[d].paid /\ order'[d].promised \subseteq order'[d].from
  <2>1. CASE d = m
    BY <1>1, <1>2, <2>1 DEF PromiseInv
  <2>2. CASE d # m
    <3>1. step'[d] = step[d]
      BY <1>1, <2>2, MessageNames DEF Elsewhere
    <3>. QED
      BY <1>2, <3>1 DEF PromiseInv
  <2>. QED
    BY <2>1, <2>2
<1>. QED
  BY <1>2 DEF PromiseInv

LEMMA AnswersReview ==
    ASSUME IntakeTypeOK, ReviewInv, NEW m \in Messages, NEW k, NEW s, Answers(m, k, s),
           UNCHANGED <<stage, project, stashed>>, orderly' => orderly, keyboard[m] # "downloads" \/ m \in Documents
    PROVE  ReviewInv'
<1>1. step'[m].at = "show" /\ step'[m].leads = s /\ Elsewhere(m) /\ keyboard' = keyboard
      /\ s # "reviewing" /\ step[m].at \notin {"show", "set"}
  BY RespondMoves DEF Answers, Rests
<1>2. \A to : (\E n \in Messages : Turning(n, to)) => \E n \in Messages : Turning(n, to)'
  BY <1>1, TurningKept
<1>3. ASSUME NEW d \in Documents, orderly', Turning(d, {"reviewing"})'
      PROVE  \/ project \in stashed /\ Rests(Progress(d))' /\ keyboard[Progress(d)] = "downloads"
             \/ \E n \in Messages : Turning(n, {"none"})'
  <2>1. d # m /\ step'[d] = step[d]
    BY <1>1, <1>3, MessageNames DEF Elsewhere, Turning
  <2>2. Turning(d, {"reviewing"})
    BY <1>3, <2>1 DEF Turning
  <2>3. CASE project \in stashed /\ Rests(Progress(d)) /\ keyboard[Progress(d)] = "downloads"
    BY <1>1, <2>3, MessageNames DEF Elsewhere, Rests
  <2>4. CASE \E n \in Messages : Turning(n, {"none"})
    BY <1>2, <2>4
  <2>. QED
    BY <1>3, <2>2, <2>3, <2>4 DEF ReviewInv
<1>4. orderly' /\ stage' = "reviewing" =>
        project' \in stashed' \/ \E n \in Messages : Turning(n, {"none", "uploading"})'
  BY <1>2 DEF ReviewInv
<1>. QED
  BY <1>1, <1>3, <1>4 DEF ReviewInv

LEMMA AnswersEmpty ==
    ASSUME IntakeTypeOK, EmptyInv, NEW m \in Messages, NEW k, NEW s, Answers(m, k, s),
           UNCHANGED <<stage, sources>>, orderly' => orderly, s # "more"
    PROVE  EmptyInv'
<1>1. step'[m].leads = s /\ Elsewhere(m) /\ step[m].at \notin {"show", "set"}
  BY RespondMoves DEF Answers, Rests
<1>2. \A to : (\E n \in Messages : Turning(n, to)) => \E n \in Messages : Turning(n, to)'
  BY <1>1, TurningKept
<1>3. (\A n \in Messages : ~Turning(n, {"more"})) => \A n \in Messages : ~Turning(n, {"more"})'
  BY <1>1 DEF Turning, Elsewhere
<1>4. orderly' /\ sources' = {} /\ stage' = "more" =>
        \E n \in Messages : Turning(n, {"none", "uploading"})'
  BY <1>2 DEF EmptyInv
<1>5. orderly' /\ sources' = {} => \A n \in Messages : ~Turning(n, {"more"})'
  BY <1>3 DEF EmptyInv
<1>. QED
  BY <1>4, <1>5 DEF EmptyInv

LEMMA AnswersLead ==
    ASSUME IntakeTypeOK, LeadInv, EmptyInv, NEW m \in Messages, NEW k, NEW s, Answers(m, k, s),
           UNCHANGED stage, orderly' => orderly, refused => refused',
           \/ s # "same" \/ k = "link" \/ refused'
           \/ Rests(m) /\ ~Works(m)
           \/ Rests(m) /\ sources = {} /\ stage = "more"
    PROVE  LeadInv'
<1>1. step'[m].at = "show" /\ step'[m].shows = k /\ step'[m].leads = s /\ Elsewhere(m)
      /\ keyboard' = keyboard
  BY RespondMoves DEF Answers
<1>2. \A n \in Messages : Works(n)' = Works(n)
  BY <1>1 DEF Works, ButtonsUnder
<1>3. ASSUME NEW n \in Messages \ {m}, Holds(n) PROVE Holds(n)'
  BY <1>1, <1>2, <1>3 DEF Elsewhere, Holds, Rests, Leading
<1>4. CASE s # "same" \/ k = "link"
  BY <1>1, <1>4 DEF LeadInv, Holds, Rests, Leading
<1>5. CASE Rests(m) /\ ~Works(m)
  <2>1. ~Holds(m)
    BY <1>5 DEF Holds
  <2>. QED
    BY <1>3, <2>1 DEF LeadInv
<1>6. CASE Rests(m) /\ sources = {} /\ stage = "more"
  <2>. SUFFICES ASSUME orderly' PROVE \E n \in Messages : Holds(n)'
    BY DEF LeadInv
  <2>1. PICK n \in Messages : Turning(n, {"none", "uploading"})
    BY <1>6 DEF EmptyInv
  <2>2. n # m /\ Holds(n)
    BY <1>6, <2>1 DEF Turning, Rests, Holds, Leading
  <2>. QED
    BY <1>3, <2>2
<1>. QED
  BY <1>4, <1>5, <1>6 DEF LeadInv

LEMMA PlainKeeps ==
    ASSUME IntakeTypeOK, TalkInv, NEW m \in Messages, NEW k, NEW s, Answers(m, k, s),
           UNCHANGED <<stage, project, sources, begun, told, order, stashed, orderly>>,
           refused => refused', s # "more", keyboard[m] # "downloads" \/ m \in Documents,
           \/ s # "same" \/ k = "link" \/ refused'
           \/ Rests(m) /\ ~Works(m)
           \/ Rests(m) /\ sources = {} /\ stage = "more"
    PROVE  TalkInv'
<1>. USE DEF TalkInv
<1>1. FilesInv'
  BY DEF FilesInv
<1>. QED
  BY <1>1, AnswersShown, AnswersPromise, AnswersReview, AnswersEmpty, AnswersLead

LEMMA NextIsUnsent ==
    ASSUME NEW S, NEW m, IsNext(m, S)
    PROVE  m \in S /\ Rests(m) /\ keyboard[m] = "unsent" /\ ~Works(m)
BY ButtonsOfKeyboards DEF IsNext, Unsent, Works, ButtonsUnder

LEMMA StartKeeps ==
    ASSUME IntakeTypeOK, TalkInv, NEW m \in Starts, CmdStart(m)
    PROVE  TalkInv'
<1>1. m \in Messages /\ m \in Replies /\ Rests(m) /\ keyboard[m] = "unsent" /\ ~Works(m)
  BY NextIsUnsent, MessageNames DEF CmdStart, Replies
<1>2. UNCHANGED <<stage, project, sources, keyboard, begun, told, order, stashed, orderly, refused>>
  BY DEF CmdStart, dataVars, recordVars, orderVars
<1>3. PICK k, s : /\ Respond(m, k, s)
                  /\ \/ k = "menu" /\ s = "same"
                     \/ k = "languages" /\ s = "language"
  <2>1. CASE registered
    BY <2>1 DEF CmdStart
  <2>2. CASE ~registered
    BY <2>2 DEF CmdStart
  <2>. QED
    BY <2>1, <2>2
<1>4. Answers(m, k, s) /\ s # "more" /\ keyboard[m] # "downloads"
  BY <1>1, <1>2, <1>3 DEF Answers, KeyboardOf
<1>. QED
  BY <1>1, <1>2, <1>4, PlainKeeps

LEMMA NameKeeps ==
    ASSUME IntakeTypeOK, TalkInv, NEW m \in Names, ProcessName(m)
    PROVE  TalkInv'
<1>1. m \in Messages /\ m \in Replies /\ Rests(m) /\ keyboard[m] = "unsent"
  BY NextIsUnsent, MessageNames DEF ProcessName, Replies
<1>2. UNCHANGED <<stage, project, sources, keyboard, begun, told, order, stashed, orderly, refused>>
  BY DEF ProcessName, dataVars, orderVars
<1>3. Answers(m, "menu", "none")
  BY <1>1, <1>2 DEF ProcessName, Answers, KeyboardOf
<1>. QED
  BY <1>1, <1>2, <1>3, PlainKeeps

LEMMA TurnKeeps ==
    ASSUME IntakeTypeOK, TalkInv, NEW m \in Messages, NEW t \in Turns, Turn(m, t)
    PROVE  TalkInv'
<1>1. /\ t.press \notin {"done", "download"} /\ t.shows # "unsent"
      /\ t.leads \notin {"generating", "reviewing", "more", "same"}
      /\ t.leads \in DOMAIN KeyboardOf => t.shows = KeyboardOf[t.leads]
  BY DEF Turns, ProcessLanguage, ProcessCalibration, UploadMore, ChooseTier, KeyboardOf
<1>2. UNCHANGED <<stage, project, sources, keyboard, begun, told, order, stashed, orderly, refused>>
  BY CountsPlain DEF Turn, dataVars, recordVars
<1>3. Rests(m) /\ keyboard[m] \notin {"none", "unsent", "downloads"}
  BY <1>1, PressedKeyboard DEF Turn
<1>4. Answers(m, t.shows, t.leads)
  BY <1>1, <1>2, <1>3 DEF Turn, Answers
<1>. QED
  BY <1>1, <1>2, <1>3, <1>4, PlainKeeps

LEMMA ContinueKeeps ==
    ASSUME IntakeTypeOK, TalkInv, NEW m \in Messages, ContinueToQuestionnaire(m)
    PROVE  TalkInv'
<1>1. UNCHANGED <<stage, project, sources, keyboard, begun, told, order, stashed, orderly, refused>>
  BY CountsPlain DEF ContinueToQuestionnaire, dataVars, recordVars
<1>2. Rests(m) /\ keyboard[m] \notin {"none", "unsent", "downloads"}
  BY PressedKeyboard DEF ContinueToQuestionnaire
<1>3. PICK k, s : /\ Respond(m, k, s)
                  /\ \/ k = "none" /\ s = "same" /\ sources = {} /\ stage = "more"
                     \/ k = "tiers" /\ s = "tier"
  BY DEF ContinueToQuestionnaire
<1>4. Answers(m, k, s) /\ s # "more"
  BY <1>1, <1>2, <1>3 DEF Answers, KeyboardOf
<1>. QED
  BY <1>1, <1>2, <1>3, <1>4, PlainKeeps

\* The presses that answer at once, under a message of the payment.
LEMMA PaymentPressKeeps ==
    ASSUME IntakeTypeOK, TalkInv, NEW d \in Documents,
           (PayFromBalance(d) /\ project = 0) \/ PayExternally(d) \/ CancelPress(d)
    PROVE  TalkInv'
<1>1. UNCHANGED <<stage, project, sources, keyboard, begun, told, order, stashed, orderly, refused>>
  BY CountsPlain, MessageNames DEF PayFromBalance, PayExternally, CancelPress, dataVars, recordVars
<1>2. Rests(d) /\ keyboard[d] \notin {"none", "unsent", "downloads"}
  BY PressedKeyboard, MessageNames DEF PayFromBalance, PayExternally, CancelPress
<1>3. PICK k, s : /\ Respond(d, k, s)
                  /\ \/ k \in {"none", "menu"} /\ s = "none"
                     \/ k = "link" /\ s = "same"
  BY DEF PayFromBalance, PayExternally, CancelPress
<1>4. Answers(d, k, s) /\ s # "more"
  BY <1>1, <1>2, <1>3, MessageNames DEF Answers, KeyboardOf
<1>. QED
  BY <1>1, <1>2, <1>3, <1>4, MessageNames, PlainKeeps

LEMMA RefuseKeeps ==
    ASSUME IntakeTypeOK, TalkInv, NEW d \in Documents, Refuse(d)
    PROVE  TalkInv'
<1>1. UNCHANGED <<stage, project, sources, keyboard, begun, told, order, stashed, orderly>> /\ refused'
  BY DEF Refuse, dataVars, orderVars
<1>2. step[d].at = "charge" /\ Respond(d, "none", "same")
  BY DEF Refuse
<1>3. Answers(d, "none", "same")
  BY <1>1, <1>2 DEF Answers, KeyboardOf
<1>. QED
  BY <1>1, <1>3, MessageNames, PlainKeeps

LEMMA StartPresentationKeeps ==
    ASSUME IntakeTypeOK, TalkInv, NEW m \in Messages, StartPresentation(m)
    PROVE  TalkInv'
<1>1. /\ Rests(m) /\ Respond(m, "none", "uploading") /\ Breaks(m)
      /\ project' = begun + 1 /\ begun' = begun + 1 /\ sources' = {}
      /\ UNCHANGED <<stage, keyboard, told, order, stashed>>
  BY DEF StartPresentation, Pressed
<1>2. Answers(m, "none", "uploading")
  BY <1>1, PressedKeyboard DEF StartPresentation, Answers, KeyboardOf
<1>3. /\ step'[m].at = "show" /\ step'[m].leads = "uploading" /\ step'[m].shows = "none"
      /\ Elsewhere(m)
  BY <1>1, RespondMoves
<1>4. orderly' => orderly /\ \A n \in Messages \ {m} : step'[n].at = "idle"
  BY <1>1, <1>3, BreaksAlone DEF Elsewhere, Rests
<1>5. FilesInv'
  <2>1. begun \in Nat
    BY IntakeAssumption DEF IntakeTypeOK
  <2>. QED
    BY <1>1, <2>1 DEF TalkInv, FilesInv
<1>6. PromiseInv'
  <2>1. orderly' => \A d \in Documents : step'[d].at \notin {"charge", "confirm", "announce", "make"}
    BY <1>3, <1>4, MessageNames
  <2>. QED
    BY <1>1, <1>4, <2>1 DEF TalkInv, PromiseInv
<1>7. orderly' => \A n \in Messages : ~Turning(n, {"more"})' /\ ~Turning(n, {"reviewing"})'
  BY <1>3, <1>4 DEF Turning
<1>8. Turning(m, {"none", "uploading"})' /\ Holds(m)'
  BY <1>3 DEF Turning, Holds, Rests, Leading
<1>9. EmptyInv'
  BY <1>7, <1>8 DEF EmptyInv
<1>10. ReviewInv'
  BY <1>7, <1>8, MessageNames DEF ReviewInv
<1>11. LeadInv'
  BY <1>8 DEF LeadInv
<1>. QED
  BY <1>2, <1>5, <1>6, <1>9, <1>10, <1>11, AnswersShown DEF TalkInv

LEMMA ReceiveKeeps ==
    ASSUME IntakeTypeOK, TalkInv, NEW d \in Documents, ReceiveDocument(d)
    PROVE  TalkInv'
<1>1. /\ Respond(d, "upload", "more") /\ stage = "uploading"
      /\ sources' = sources \cup {d} /\ told' = [told EXCEPT ![d] = project]
      /\ UNCHANGED <<stage, project, keyboard, begun, order, stashed, orderly>>
  BY DEF ReceiveDocument, orderVars
<1>2. Rests(d) /\ keyboard[d] = "unsent" /\ d \in Messages /\ d \in Replies
  BY NextIsUnsent, MessageNames DEF ReceiveDocument, Replies
<1>3. Answers(d, "upload", "more")
  BY <1>1, <1>2 DEF Answers, KeyboardOf
<1>4. FilesInv'
  BY <1>1 DEF TalkInv, FilesInv, IntakeTypeOK
<1>5. PromiseInv' /\ ReviewInv'
  BY <1>1, <1>2, <1>3, AnswersPromise, AnswersReview DEF TalkInv
<1>6. EmptyInv' /\ LeadInv'
  BY <1>1 DEF EmptyInv, LeadInv
<1>. QED
  BY <1>2, <1>3, <1>4, <1>5, <1>6, AnswersShown DEF TalkInv

LEMMA FinishKeeps ==
    ASSUME IntakeTypeOK, TalkInv, NEW m \in Messages, Finish(m)
    PROVE  TalkInv'
<1>1. /\ Pressed(m, "done") /\ Respond(m, "menu", "none")
      /\ UNCHANGED <<stage, project, sources, keyboard, begun, told, order, orderly, refused>>
  BY CountsPlain DEF Finish, dataVars
<1>2. Rests(m) /\ keyboard[m] = "downloads"
  BY <1>1, PressedKeyboard
<1>3. Answers(m, "menu", "none")
  BY <1>1, <1>2 DEF Answers, KeyboardOf
<1>4. Turning(m, {"none", "uploading"})' /\ Turning(m, {"none"})'
  BY <1>1, RespondMoves DEF Turning
<1>5. FilesInv'
  BY <1>1 DEF TalkInv, FilesInv
<1>6. ReviewInv'
  BY <1>1, <1>4 DEF ReviewInv
<1>7. PromiseInv'
  BY <1>1, <1>3, AnswersPromise DEF TalkInv
<1>8. EmptyInv'
  BY <1>1, <1>3, AnswersEmpty DEF TalkInv
<1>9. LeadInv'
  BY <1>1, <1>3, AnswersLead DEF TalkInv
<1>. QED
  BY <1>1, <1>3, <1>5, <1>6, <1>7, <1>8, <1>9, AnswersShown DEF TalkInv

\* The keyboard is shown: the handler stays at work.
LEMMA ShowsKeeps ==
    ASSUME IntakeTypeOK, TalkInv, NEW m \in Messages, Shows(m)
    PROVE  TalkInv'
<1>. USE DEF TalkInv
<1>1. /\ step[m].at = "show" /\ step' = [step EXCEPT ![m].at = "set"]
      /\ keyboard' = [keyboard EXCEPT ![m] = step[m].shows]
      /\ UNCHANGED <<stage, project, sources, begun, told, order, stashed, orderly, refused>>
  BY HandlerNames DEF Shows, dataVars, recordVars, orderVars
<1>2. /\ step'[m].at = "set" /\ step'[m].shows = step[m].shows /\ step'[m].leads = step[m].leads
      /\ Elsewhere(m)
  BY <1>1, AtMoves
<1>3. /\ keyboard'[m] = step[m].shows /\ \A n \in Messages \ {m} : keyboard'[n] = keyboard[n]
      /\ keyboard'[m] # "unsent"
  BY <1>1 DEF IntakeTypeOK, ShownInv
<1>4. \A n \in Messages : \A to : Turning(n, to)' = Turning(n, to)
  BY <1>1, <1>2 DEF Turning, Elsewhere
<1>5. FilesInv'
  BY <1>1 DEF FilesInv
<1>6. ShownInv'
  <2>1. ASSUME NEW n \in Messages
        PROVE  /\ step'[n].at \notin {"idle", "show", "set"} => n \in Documents
               /\ Turning(n, {"reviewing"})' => n \in Documents /\ step'[n].at = "set"
               /\ ~Turning(n, {"generating"})'
               /\ Turning(n, DOMAIN KeyboardOf)' => step'[n].shows = KeyboardOf[step'[n].leads]
               /\ step'[n].at = "show" => step'[n].shows # "unsent"
               /\ step'[n].at = "set" /\ step'[n].leads # "reviewing" => keyboard'[n] = step'[n].shows
    <3>1. CASE n = m
      BY <1>1, <1>2, <1>3, <1>4, <3>1 DEF ShownInv
    <3>2. CASE n # m
      BY <1>2, <1>3, <1>4, <3>2 DEF ShownInv, Elsewhere
    <3>. QED
      BY <3>1, <3>2
  <2>2. ASSUME NEW d \in Documents
        PROVE  /\ step'[d].at \in {"announce", "make"} => keyboard'[d] = "none"
               /\ keyboard'[Progress(d)] = "unsent" => Rests(Progress(d))'
               /\ keyboard'[Progress(d)] # "unsent" =>
                    keyboard'[d] = "none" /\ (step'[d].at \in {"idle", "make"} \/ Turning(d, {"reviewing"})')
               /\ step'[d].at = "make" => keyboard'[Progress(d)] = "none" /\ Rests(Progress(d))'
    <3>1. d \in Messages /\ Progress(d) \in Messages /\ d # Progress(d)
      BY MessageNames
    <3>2. CASE m = d
      <4>1. keyboard[Progress(d)] = "unsent"
        BY <1>1, <3>2 DEF ShownInv, Turning
      <4>. QED
        BY <1>2, <1>3, <3>1, <3>2, <4>1 DEF Elsewhere, ShownInv, Rests
    <3>3. CASE m = Progress(d)
      <4>1. keyboard[Progress(d)] # "unsent" /\ ~Rests(Progress(d))
        BY <1>1, <3>3 DEF ShownInv, Rests
      <4>. QED
        BY <1>2, <1>3, <1>4, <3>1, <3>3, <4>1 DEF Elsewhere, ShownInv
    <3>4. CASE m # d /\ m # Progress(d)
      BY <1>2, <1>3, <1>4, <3>1, <3>4 DEF Elsewhere, ShownInv, Rests
    <3>. QED
      BY <3>2, <3>3, <3>4
  <2>. QED
    BY <2>1, <2>2 DEF ShownInv
<1>7. PromiseInv'
  <2>1. \A d \in Documents : /\ step'[d].at \notin {"show", "set"} => step'[d] = step[d]
    BY <1>1, <1>2, MessageNames DEF Elsewhere
  <2>2. \A d \in Documents : \A a \in {"charge", "confirm", "announce", "make"} :
            step'[d].at = a => step'[d] = step[d] /\ step[d].at = a
    BY <2>1
  <2>. QED
    BY <1>1, <2>2 DEF PromiseInv
<1>8. EmptyInv'
  BY <1>1, <1>4 DEF EmptyInv
<1>9. ReviewInv'
  <2>1. ASSUME NEW d \in Documents, Rests(Progress(d))
        PROVE  Rests(Progress(d))' /\ keyboard'[Progress(d)] = keyboard[Progress(d)]
    BY <1>1, <1>2, <1>3, <2>1, MessageNames DEF Elsewhere, Rests
  <2>2. \A to : (\E n \in Messages : Turning(n, to)') <=> \E n \in Messages : Turning(n, to)
    BY <1>4
  <2>3. orderly' /\ stage' = "reviewing" =>
            project' \in stashed' \/ \E n \in Messages : Turning(n, {"none", "uploading"})'
    BY <1>1, <2>2 DEF ReviewInv
  <2>4. ASSUME NEW d \in Documents, orderly', Turning(d, {"reviewing"})'
        PROVE  \/ project' \in stashed' /\ Rests(Progress(d))' /\ keyboard'[Progress(d)] = "downloads"
               \/ \E n \in Messages : Turning(n, {"none"})'
    <3>1. orderly /\ Turning(d, {"reviewing"})
      BY <1>1, <1>4, <2>4, MessageNames
    <3>. QED
      BY <1>1, <2>1, <2>2, <3>1 DEF ReviewInv
  <2>. QED
    BY <2>3, <2>4 DEF ReviewInv
<1>10. LeadInv'
  <2>1. ASSUME NEW n \in Messages, Holds(n) PROVE Holds(n)'
    <3>1. CASE n = m
      BY <1>1, <1>2, <2>1, <3>1 DEF Holds, Rests, Leading
    <3>2. CASE n # m
      <4>1. step'[n] = step[n] /\ keyboard'[n] = keyboard[n]
        BY <1>2, <1>3, <3>2 DEF Elsewhere
      <4>2. Works(n)' = Works(n)
        BY <1>1, <4>1 DEF Works, ButtonsUnder
      <4>. QED
        BY <2>1, <4>1, <4>2 DEF Holds, Rests, Leading
    <3>. QED
      BY <3>1, <3>2
  <2>. QED
    BY <1>1, <2>1 DEF LeadInv
<1>. QED
  BY <1>5, <1>6, <1>7, <1>8, <1>9, <1>10

\* A message with the keyboard of the state leads on.
LEMMA KeyboardLeads ==
    ASSUME NEW m \in Messages,
           \/ stage' \in DOMAIN KeyboardOf /\ keyboard'[m] = KeyboardOf[stage']
           \/ stage' = "reviewing" /\ keyboard'[m] = "downloads"
           \/ keyboard'[m] = "link"
    PROVE  Works(m)'
<1>1. CASE keyboard'[m] = "link"
  BY <1>1, ButtonsOfKeyboards, WhatButtonsAre DEF Works, ButtonsUnder
<1>2. CASE stage' = "reviewing" /\ keyboard'[m] = "downloads"
  BY <1>2, ButtonsOfKeyboards, WhatButtonsAre DEF Works, ButtonsUnder
<1>3. CASE stage' \in DOMAIN KeyboardOf /\ keyboard'[m] = KeyboardOf[stage']
  <2>1. \/ stage' = "language" /\ keyboard'[m] = "languages"
        \/ stage' = "level" /\ keyboard'[m] = "levels"
        \/ stage' = "more" /\ keyboard'[m] = "upload"
        \/ stage' = "tier" /\ keyboard'[m] = "tiers"
        \/ stage' = "confirming" /\ keyboard'[m] = "providers"
    BY <1>3 DEF KeyboardOf
  <2>2. \/ stage' = "language" /\ "lang" \in ButtonsUnder(m)'
        \/ stage' = "level" /\ "cal" \in ButtonsUnder(m)'
        \/ stage' = "more" /\ "continue_flow" \in ButtonsUnder(m)'
        \/ stage' = "tier" /\ "tier" \in ButtonsUnder(m)'
        \/ "pay" \in ButtonsUnder(m)'
    BY <2>1, ButtonsOfKeyboards, WhatButtonsAre DEF ButtonsUnder
  <2>3. /\ ProcessLanguage \in Turns /\ ProcessLanguage.press = "lang" /\ ProcessLanguage.within = "language"
        /\ ProcessCalibration \in Turns /\ ProcessCalibration.press = "cal" /\ ProcessCalibration.within = "level"
        /\ ChooseTier \in Turns /\ ChooseTier.press = "tier" /\ ChooseTier.within = "tier"
    BY DEF Turns, ProcessLanguage, ProcessCalibration, ChooseTier
  <2>. QED
    BY <2>2, <2>3 DEF Works
<1>. QED
  BY <1>1, <1>2, <1>3

LEMMA SetsShown ==
    ASSUME IntakeTypeOK, ShownInv, NEW m \in Messages, step[m].at \in {"set", "make"}, step'[m].at = "idle",
           Elsewhere(m), UNCHANGED keyboard
    PROVE  ShownInv'
<1>1. ASSUME NEW n \in Messages
      PROVE  /\ step'[n].at \notin {"idle", "show", "set"} => n \in Documents
             /\ Turning(n, {"reviewing"})' => n \in Documents /\ step'[n].at = "set"
             /\ ~Turning(n, {"generating"})'
             /\ Turning(n, DOMAIN KeyboardOf)' => step'[n].shows = KeyboardOf[step'[n].leads]
             /\ step'[n].at = "show" => step'[n].shows # "unsent"
             /\ step'[n].at = "set" /\ step'[n].leads # "reviewing" => keyboard'[n] = step'[n].shows
  <2>1. CASE n = m
    BY <2>1 DEF Turning
  <2>2. CASE n # m
    BY <2>2 DEF ShownInv, Elsewhere, Turning
  <2>. QED
    BY <2>1, <2>2
<1>2. ASSUME NEW d \in Documents
      PROVE  /\ step'[d].at \in {"announce", "make"} => keyboard'[d] = "none"
             /\ keyboard'[Progress(d)] = "unsent" => Rests(Progress(d))'
             /\ keyboard'[Progress(d)] # "unsent" =>
                  keyboard'[d] = "none" /\ (step'[d].at \in {"idle", "make"} \/ Turning(d, {"reviewing"})')
             /\ step'[d].at = "make" => keyboard'[Progress(d)] = "none" /\ Rests(Progress(d))'
  <2>1. d \in Messages /\ Progress(d) \in Messages /\ d # Progress(d)
    BY MessageNames
  <2>2. CASE m = d
    BY <2>1, <2>2 DEF Elsewhere, ShownInv, Rests
  <2>3. CASE m = Progress(d)
    BY <2>1, <2>3 DEF Elsewhere, ShownInv, Rests, Turning
  <2>4. CASE m # d /\ m # Progress(d)
    BY <2>1, <2>4 DEF Elsewhere, ShownInv, Rests, Turning
  <2>. QED
    BY <2>2, <2>3, <2>4
<1>. QED
  BY <1>1, <1>2 DEF ShownInv

\* A conversation that ends while nothing else is at work leaves nothing at work.
LEMMA EndKeeps ==
    ASSUME IntakeTypeOK, TalkInv, NEW m \in Messages, Breaks(m), step'[m].at = "idle", Elsewhere(m),
           stage' = "none", project' = 0, UNCHANGED <<begun, told, order>>
    PROVE  FilesInv' /\ PromiseInv' /\ EmptyInv' /\ ReviewInv' /\ LeadInv'
<1>1. orderly' => orderly /\ \A n \in Messages : step'[n].at = "idle"
  BY BreaksAlone DEF Elsewhere, Rests
<1>2. FilesInv'
  <2>1. begun \in Nat
    BY IntakeAssumption DEF IntakeTypeOK
  <2>. QED
    BY <2>1 DEF TalkInv, FilesInv
<1>3. PromiseInv'
  BY <1>1, MessageNames DEF TalkInv, PromiseInv
<1>4. EmptyInv' /\ ReviewInv' /\ LeadInv'
  BY <1>1, MessageNames DEF EmptyInv, ReviewInv, LeadInv, Turning
<1>. QED
  BY <1>2, <1>3, <1>4

LEMMA SetsKeeps ==
    ASSUME IntakeTypeOK, TalkInv, NEW m \in Messages, Sets(m)
    PROVE  TalkInv'
<1>. USE DEF TalkInv
<1>1. /\ step[m].at = "set" /\ step' = [step EXCEPT ![m] = Done]
      /\ UNCHANGED <<keyboard, begun, told, order, stashed, refused>>
  BY DEF Sets, recordVars
<1>2. step'[m].at = "idle" /\ Elsewhere(m)
  BY <1>1, DoneMoves
<1>3. ShownInv'
  BY <1>1, <1>2, SetsShown
<1>4. CASE step[m].leads = "none"
  <2>1. Breaks(m) /\ stage' = "none" /\ project' = 0
    BY <1>4 DEF Sets, SetStage, ClearData
  <2>. QED
    BY <1>1, <1>2, <1>3, <2>1, EndKeeps
<1>5. CASE step[m].leads # "none"
  <2>1. /\ stage' = IF step[m].leads = "same" THEN stage ELSE step[m].leads
        /\ UNCHANGED <<project, sources, orderly>>
    BY <1>5 DEF Sets, SetStage, dataVars
  <2>2. \A n \in Messages : \A to : Turning(n, to)' <=> n # m /\ Turning(n, to)
    BY <1>2 DEF Turning, Elsewhere
  <2>3. FilesInv'
    BY <1>1, <2>1 DEF FilesInv
  <2>4. PromiseInv'
    <3>1. \A d \in Documents : \A a \in {"charge", "confirm", "announce", "make"} :
            step'[d].at = a => step'[d] = step[d] /\ step[d].at = a
      BY <1>2, MessageNames DEF Elsewhere
    <3>. QED
      BY <1>1, <2>1, <3>1 DEF PromiseInv
  <2>5. EmptyInv'
    <3>. SUFFICES ASSUME orderly, sources = {}
                  PROVE  /\ stage' = "more" => \E n \in Messages : Turning(n, {"none", "uploading"})'
                         /\ \A n \in Messages : ~Turning(n, {"more"})'
      BY <2>1 DEF EmptyInv
    <3>1. \A n \in Messages : ~Turning(n, {"more"})
      BY DEF EmptyInv
    <3>2. ASSUME stage' = "more" PROVE \E n \in Messages : Turning(n, {"none", "uploading"})'
      <4>1. step[m].leads # "more"
        BY <1>1, <3>1 DEF Turning
      <4>2. step[m].leads = "same" /\ stage = "more"
        BY <2>1, <3>2, <4>1
      <4>3. PICK n \in Messages : Turning(n, {"none", "uploading"})
        BY <4>2 DEF EmptyInv
      <4>4. n # m
        BY <4>2, <4>3 DEF Turning
      <4>. QED
        BY <2>2, <4>3, <4>4
    <3>. QED
      BY <2>2, <3>1, <3>2
  <2>6. ReviewInv'
    <3>. SUFFICES ASSUME orderly
                  PROVE  /\ stage' = "reviewing" =>
                              project \in stashed \/ \E n \in Messages : Turning(n, {"none", "uploading"})'
                         /\ \A d \in Documents : Turning(d, {"reviewing"})' =>
                              \/ /\ project \in stashed /\ Rests(Progress(d))'
                                 /\ keyboard[Progress(d)] = "downloads"
                              \/ \E n \in Messages : Turning(n, {"none"})'
      BY <1>1, <2>1 DEF ReviewInv
    <3>1. ASSUME NEW n \in Messages, Turning(n, {"none"})
          PROVE  Turning(n, {"none"})' /\ Turning(n, {"none", "uploading"})'
      <4>1. n # m /\ Turning(n, {"none", "uploading"})
        BY <1>5, <3>1 DEF Turning
      <4>. QED
        BY <2>2, <3>1, <4>1
    <3>2. ASSUME stage' = "reviewing"
          PROVE  project \in stashed \/ \E n \in Messages : Turning(n, {"none", "uploading"})'
      <4>1. CASE step[m].leads = "same"
        <5>1. ASSUME NEW n \in Messages, Turning(n, {"none", "uploading"})
              PROVE  Turning(n, {"none", "uploading"})'
          <6>1. n # m
            BY <4>1, <5>1 DEF Turning
          <6>. QED
            BY <2>2, <5>1, <6>1
        <5>. QED
          BY <2>1, <3>2, <4>1, <5>1 DEF ReviewInv
      <4>2. CASE step[m].leads # "same"
        <5>1. Turning(m, {"reviewing"})
          BY <1>1, <2>1, <3>2, <4>2 DEF Turning
        <5>2. m \in Documents
          BY <5>1 DEF ShownInv
        <5>. QED
          BY <3>1, <5>1, <5>2 DEF ReviewInv
      <4>. QED
        BY <4>1, <4>2
    <3>3. ASSUME NEW d \in Documents, Turning(d, {"reviewing"})'
          PROVE  \/ project \in stashed /\ Rests(Progress(d))' /\ keyboard[Progress(d)] = "downloads"
                 \/ \E n \in Messages : Turning(n, {"none"})'
      <4>1. Turning(d, {"reviewing"})
        BY <2>2, <3>3, MessageNames
      <4>2. Rests(Progress(d)) => Rests(Progress(d))'
        BY <1>2, MessageNames DEF Elsewhere, Rests
      <4>. QED
        BY <3>1, <4>1, <4>2 DEF ReviewInv
    <3>. QED
      BY <3>2, <3>3
  <2>7. LeadInv'
    <3>. SUFFICES ASSUME orderly, stage' \notin {"none", "uploading", "name"}, ~refused
                  PROVE  \E n \in Messages : Holds(n)'
      BY <1>1, <2>1 DEF LeadInv
    <3>1. \A n \in Messages \ {m} : Rests(n)' = Rests(n) /\ Leading(n)' = Leading(n)
      BY <1>2 DEF Elsewhere, Rests, Leading
    <3>2. CASE step[m].leads = "same"
      <4>1. \A n \in Messages : Works(n)' = Works(n)
        BY <1>1, <2>1, <3>2 DEF Works, ButtonsUnder
      <4>2. PICK n \in Messages : Holds(n)
        BY <2>1, <3>2 DEF LeadInv
      <4>3. CASE n # m
        BY <3>1, <4>1, <4>2, <4>3 DEF Holds
      <4>4. CASE n = m
        <5>1. step[m].shows = "link"
          BY <1>1, <3>2, <4>2, <4>4 DEF Holds, Rests, Leading
        <5>2. keyboard'[m] = "link"
          BY <1>1, <3>2, <5>1 DEF ShownInv
        <5>3. Works(m)'
          BY <5>2, KeyboardLeads
        <5>. QED
          BY <1>2, <5>3 DEF Holds, Rests
      <4>. QED
        BY <4>3, <4>4
    <3>3. CASE step[m].leads = "reviewing"
      <4>1. Turning(m, {"reviewing"}) /\ m \in Documents /\ stage' = "reviewing"
        BY <1>1, <2>1, <3>3 DEF ShownInv, Turning
      <4>2. CASE Rests(Progress(m)) /\ keyboard[Progress(m)] = "downloads"
        <5>1. Progress(m) \in Messages \ {m}
          BY <4>1, MessageNames
        <5>2. Works(Progress(m))'
          BY <1>1, <4>1, <4>2, <5>1, KeyboardLeads
        <5>. QED
          BY <3>1, <4>2, <5>1, <5>2 DEF Holds
      <4>3. CASE \E n \in Messages : Turning(n, {"none"})
        <5>1. PICK n \in Messages : Turning(n, {"none"})
          BY <4>3
        <5>2. n # m /\ ~Rests(n) /\ Leading(n)
          BY <3>3, <5>1 DEF Turning, Rests, Leading
        <5>. QED
          BY <3>1, <5>2 DEF Holds
      <4>. QED
        BY <4>1, <4>2, <4>3 DEF ReviewInv
    <3>4. CASE step[m].leads \notin {"same", "reviewing"}
      <4>1. stage' = step[m].leads /\ step[m].leads \in Stages
        BY <2>1, <3>4, HandlerNames DEF IntakeTypeOK, Step
      <4>2. stage' \in DOMAIN KeyboardOf
        BY <1>1, <3>4, <4>1 DEF Stages, KeyboardOf, ShownInv, Turning
      <4>3. keyboard'[m] = KeyboardOf[stage']
        BY <1>1, <3>4, <4>1, <4>2 DEF ShownInv, Turning
      <4>4. Works(m)'
        BY <4>2, <4>3, KeyboardLeads
      <4>. QED
        BY <1>2, <4>4 DEF Holds, Rests
    <3>. QED
      BY <3>2, <3>3, <3>4
  <2>. QED
    BY <1>3, <2>3, <2>4, <2>5, <2>6, <2>7
<1>. QED
  BY <1>4, <1>5

\* A generation goes on: what leads on is its handler.
LEMMA WorkKeeps ==
    ASSUME IntakeTypeOK, TalkInv, NEW d \in Documents, Elsewhere(d),
           step[d].at \notin {"show", "set"}, step'[d].at \in {"charge", "confirm", "announce", "make"},
           UNCHANGED <<project, sources, begun, told, stashed, orderly, refused>>,
           stage' \in {stage, "generating"},
           \A n \in Messages \ {d, Progress(d)} : keyboard'[n] = keyboard[n]
    PROVE  FilesInv' /\ EmptyInv' /\ ReviewInv' /\ LeadInv'
<1>. USE DEF TalkInv
<1>1. \A n \in Messages : \A to : Turning(n, to)' <=> Turning(n, to)
  BY DEF Turning, Elsewhere
<1>2. FilesInv'
  BY DEF FilesInv
<1>3. EmptyInv'
  BY <1>1 DEF EmptyInv
<1>4. ReviewInv'
  <2>1. orderly' /\ stage' = "reviewing" =>
            project' \in stashed' \/ \E n \in Messages : Turning(n, {"none", "uploading"})'
    BY <1>1 DEF ReviewInv
  <2>2. ASSUME NEW e \in Documents, orderly', Turning(e, {"reviewing"})'
        PROVE  \/ project' \in stashed' /\ Rests(Progress(e))' /\ keyboard'[Progress(e)] = "downloads"
               \/ \E n \in Messages : Turning(n, {"none"})'
    <3>1. Turning(e, {"reviewing"}) /\ e # d
      BY <1>1, <2>2, MessageNames DEF Turning
    <3>2. Progress(e) \in Messages \ {d, Progress(d)}
      BY <3>1, MessageNames
    <3>3. Rests(Progress(e))' = Rests(Progress(e)) /\ keyboard'[Progress(e)] = keyboard[Progress(e)]
      BY <3>2 DEF Elsewhere, Rests
    <3>. QED
      BY <1>1, <2>2, <3>1, <3>3 DEF ReviewInv
  <2>. QED
    BY <2>1, <2>2 DEF ReviewInv
<1>5. LeadInv'
  BY MessageNames DEF LeadInv, Holds, Rests, Leading
<1>. QED
  BY <1>2, <1>3, <1>4, <1>5

\* The messages of a generation under way.
LEMMA WorkShown ==
    ASSUME IntakeTypeOK, ShownInv, NEW d \in Documents, Elsewhere(d),
           \A n \in Messages \ {d, Progress(d)} : keyboard'[n] = keyboard[n],
           Rests(Progress(d)), keyboard[Progress(d)] \in {"unsent", "none"},
           \/ step'[d].at \in {"charge", "confirm"} /\ keyboard'[Progress(d)] = "unsent"
           \/ step'[d].at = "announce" /\ keyboard'[d] = "none" /\ keyboard'[Progress(d)] = "unsent"
           \/ step'[d].at = "make" /\ keyboard'[d] = "none" /\ keyboard'[Progress(d)] = "none"
           \/ /\ step'[d].at = "set" /\ step'[d].leads = "reviewing"
              /\ keyboard'[d] = "none" /\ keyboard'[Progress(d)] = "downloads"
    PROVE  ShownInv'
<1>1. d \in Messages /\ Progress(d) \in Messages /\ d # Progress(d) /\ Progress(d) \notin Documents
  BY MessageNames DEF Replies
<1>2. ASSUME NEW n \in Messages
      PROVE  /\ step'[n].at \notin {"idle", "show", "set"} => n \in Documents
             /\ Turning(n, {"reviewing"})' => n \in Documents /\ step'[n].at = "set"
             /\ ~Turning(n, {"generating"})'
             /\ Turning(n, DOMAIN KeyboardOf)' => step'[n].shows = KeyboardOf[step'[n].leads]
             /\ step'[n].at = "show" => step'[n].shows # "unsent"
             /\ step'[n].at = "set" /\ step'[n].leads # "reviewing" => keyboard'[n] = step'[n].shows
  <2>1. CASE n = d
    BY <2>1 DEF Turning, KeyboardOf
  <2>2. CASE n = Progress(d)
    BY <1>1, <2>2 DEF Elsewhere, Rests, Turning
  <2>3. CASE n # d /\ n # Progress(d)
    BY <2>3 DEF Elsewhere, ShownInv, Turning
  <2>. QED
    BY <2>1, <2>2, <2>3
<1>3. ASSUME NEW e \in Documents
      PROVE  /\ step'[e].at \in {"announce", "make"} => keyboard'[e] = "none"
             /\ keyboard'[Progress(e)] = "unsent" => Rests(Progress(e))'
             /\ keyboard'[Progress(e)] # "unsent" =>
                  keyboard'[e] = "none" /\ (step'[e].at \in {"idle", "make"} \/ Turning(e, {"reviewing"})')
             /\ step'[e].at = "make" => keyboard'[Progress(e)] = "none" /\ Rests(Progress(e))'
  <2>1. CASE e = d
    BY <1>1, <2>1 DEF Elsewhere, Rests, Turning
  <2>2. CASE e # d
    <3>1. {e, Progress(e)} \subseteq Messages \ {d, Progress(d)}
      BY <2>2, MessageNames
    <3>2. /\ step'[e] = step[e] /\ step'[Progress(e)] = step[Progress(e)]
          /\ keyboard'[e] = keyboard[e] /\ keyboard'[Progress(e)] = keyboard[Progress(e)]
      BY <3>1 DEF Elsewhere
    <3>. QED
      BY <3>2 DEF ShownInv, Rests, Turning
  <2>. QED
    BY <2>1, <2>2
<1>. QED
  BY <1>2, <1>3 DEF ShownInv

LEMMA PayFromBalanceKeeps ==
    ASSUME IntakeTypeOK, TalkInv, NEW d \in Documents, PayFromBalance(d), project # 0
    PROVE  TalkInv'
<1>1. /\ step' = [step EXCEPT ![d] = [Done EXCEPT !.at = "charge", !.project = project,
                                          !.files = {f \in Documents : told[f] = project}]]
      /\ UNCHANGED <<stage, project, sources, keyboard, begun, told, order, stashed, orderly, refused>>
  BY CountsPlain, MessageNames DEF PayFromBalance, dataVars, recordVars
<1>2. /\ step'[d].at = "charge" /\ step'[d].project = project
      /\ step'[d].files = {f \in Documents : told[f] = project} /\ Elsewhere(d)
  BY <1>1, HandlerNames DEF IntakeTypeOK, Done, Elsewhere
<1>3. Rests(d) /\ keyboard[d] \notin {"none", "unsent"}
  BY PressedKeyboard, MessageNames DEF PayFromBalance
<1>4. keyboard[Progress(d)] = "unsent" /\ Rests(Progress(d))
  BY <1>3 DEF TalkInv, ShownInv
<1>5. ShownInv'
  BY <1>1, <1>2, <1>4, WorkShown DEF TalkInv
<1>6. PromiseInv'
  <2>1. ASSUME NEW e \in Documents, orderly
        PROVE  /\ step'[e].at = "charge" =>
                    step'[e].project = project /\ project # 0 /\ step'[e].files \subseteq sources
               /\ step'[e].at # "charge" => step'[e] = step[e]
    <3>1. CASE e = d
      BY <1>2, <3>1 DEF TalkInv, FilesInv
    <3>2. CASE e # d
      <4>1. step'[e] = step[e]
        BY <1>2, <3>2, MessageNames DEF Elsewhere
      <4>. QED
        BY <2>1, <4>1 DEF TalkInv, PromiseInv
    <3>. QED
      BY <3>1, <3>2
  <2>. QED
    BY <1>1, <2>1 DEF TalkInv, PromiseInv
<1>7. FilesInv' /\ EmptyInv' /\ ReviewInv' /\ LeadInv'
  BY <1>1, <1>2, <1>3, WorkKeeps DEF Rests
<1>. QED
  BY <1>5, <1>6, <1>7 DEF TalkInv

LEMMA ChargeKeeps ==
    ASSUME IntakeTypeOK, TalkInv, NEW d \in Documents, Charge(d)
    PROVE  TalkInv'
<1>1. /\ step[d].at = "charge" /\ step' = [step EXCEPT ![d].at = "confirm"]
      /\ order' = [order EXCEPT ![d] =
                      [NoOrder EXCEPT !.paid = step[d].project, !.promised = step[d].files]]
      /\ UNCHANGED <<stage, project, sources, keyboard, begun, told, stashed, orderly, refused>>
  BY DEF Charge, dataVars, orderVars
<1>2. step'[d].at = "confirm" /\ Elsewhere(d)
  BY <1>1, AtMoves, MessageNames
<1>3. /\ order'[d].paid = step[d].project /\ order'[d].promised = step[d].files /\ order'[d].made = 0
      /\ \A e \in Documents \ {d} : order'[e] = order[e]
  BY <1>1, HandlerNames DEF IntakeTypeOK, NoOrder
<1>4. keyboard[Progress(d)] = "unsent" /\ Rests(Progress(d))
  BY <1>1 DEF TalkInv, ShownInv, Turning
<1>5. ShownInv'
  BY <1>1, <1>2, <1>4, WorkShown DEF TalkInv
<1>6. PromiseInv'
  <2>1. \A e \in Documents \ {d} : step'[e] = step[e]
    BY <1>2, MessageNames DEF Elsewhere
  <2>2. orderly => step[d].project = project /\ project # 0 /\ step[d].files \subseteq sources
    BY <1>1 DEF TalkInv, PromiseInv
  <2>3. ASSUME NEW e \in Documents, orderly
        PROVE  /\ step'[e].at = "charge" =>
                    step'[e].project = project /\ project # 0 /\ step'[e].files \subseteq sources
               /\ step'[e].at = "confirm" =>
                    /\ order'[e].paid = project /\ project # 0 /\ order'[e].promised \subseteq sources
                    /\ order'[e].made = 0
               /\ step'[e].at \in {"announce", "make"} => order'[e].made = project /\ project # 0
               /\ order'[e].made # 0 =>
                    order'[e].made = order'[e].paid /\ order'[e].promised \subseteq order'[e].from
    <3>1. CASE e = d
      BY <1>2, <1>3, <2>2, <2>3, <3>1
    <3>2. CASE e # d
      BY <1>3, <2>1, <2>3, <3>2 DEF TalkInv, PromiseInv
    <3>. QED
      BY <3>1, <3>2
  <2>. QED
    BY <1>1, <2>3 DEF PromiseInv
<1>7. FilesInv' /\ EmptyInv' /\ ReviewInv' /\ LeadInv'
  BY <1>1, <1>2, WorkKeeps
<1>. QED
  BY <1>5, <1>6, <1>7 DEF TalkInv

\* The data still name what was paid: nothing that would change them is orderly.
LEMMA HandOffKeeps ==
    ASSUME IntakeTypeOK, TalkInv, NEW d \in Documents, HandOff(d)
    PROVE  TalkInv'
<1>1. /\ step[d].at = "confirm" /\ step' = [step EXCEPT ![d].at = "announce"]
      /\ keyboard' = [keyboard EXCEPT ![d] = "none"] /\ stage' = "generating"
      /\ order' = [order EXCEPT ![d] = [order[d] EXCEPT !.made = project, !.from = sources]]
      /\ UNCHANGED <<project, sources, begun, told, stashed, orderly, refused>>
  BY HandlerNames DEF HandOff, SetStage, dataVars, orderVars
<1>2. step'[d].at = "announce" /\ Elsewhere(d)
  BY <1>1, AtMoves, MessageNames
<1>3. /\ keyboard'[d] = "none" /\ \A n \in Messages \ {d} : keyboard'[n] = keyboard[n]
  BY <1>1, MessageNames DEF IntakeTypeOK
<1>4. /\ order'[d].paid = order[d].paid /\ order'[d].promised = order[d].promised
      /\ order'[d].made = project /\ order'[d].from = sources
      /\ \A e \in Documents \ {d} : order'[e] = order[e]
  <2>1. order[d] \in Order
    BY HandlerNames DEF IntakeTypeOK
  <2>2. order'[d] = [order[d] EXCEPT !.made = project, !.from = sources]
        /\ \A e \in Documents \ {d} : order'[e] = order[e]
    BY <1>1, HandlerNames DEF IntakeTypeOK
  <2>. QED
    BY <2>1, <2>2 DEF Order
<1>5. keyboard[Progress(d)] = "unsent" /\ Rests(Progress(d)) /\ keyboard'[Progress(d)] = "unsent"
  BY <1>1, <1>3, MessageNames DEF TalkInv, ShownInv, Turning
<1>6. ShownInv'
  BY <1>2, <1>3, <1>5, WorkShown DEF TalkInv
<1>7. PromiseInv'
  <2>1. \A e \in Documents \ {d} : step'[e] = step[e]
    BY <1>2, MessageNames DEF Elsewhere
  <2>2. orderly => order[d].paid = project /\ project # 0 /\ order[d].promised \subseteq sources
    BY <1>1 DEF TalkInv, PromiseInv
  <2>3. ASSUME NEW e \in Documents, orderly
        PROVE  /\ step'[e].at = "charge" =>
                    step'[e].project = project /\ project # 0 /\ step'[e].files \subseteq sources
               /\ step'[e].at = "confirm" =>
                    /\ order'[e].paid = project /\ project # 0 /\ order'[e].promised \subseteq sources
                    /\ order'[e].made = 0
               /\ step'[e].at \in {"announce", "make"} => order'[e].made = project /\ project # 0
               /\ order'[e].made # 0 =>
                    order'[e].made = order'[e].paid /\ order'[e].promised \subseteq order'[e].from
    <3>1. CASE e = d
      BY <1>2, <1>4, <2>2, <2>3, <3>1
    <3>2. CASE e # d
      BY <1>4, <2>1, <2>3, <3>2 DEF TalkInv, PromiseInv
    <3>. QED
      BY <3>1, <3>2
  <2>. QED
    BY <1>1, <2>3 DEF PromiseInv
<1>8. FilesInv' /\ EmptyInv' /\ ReviewInv' /\ LeadInv'
  BY <1>1, <1>2, <1>3, WorkKeeps
<1>. QED
  BY <1>6, <1>7, <1>8 DEF TalkInv

\* The step of a generation changes no order.
LEMMA WorkPromise ==
    ASSUME IntakeTypeOK, PromiseInv, NEW d \in Documents, Elsewhere(d), step[d].at \in {"announce", "make"},
           step'[d].at \in {"make", "set"}, UNCHANGED <<project, sources, order, orderly>>
    PROVE  PromiseInv'
<1>1. \A e \in Documents \ {d} : step'[e] = step[e]
  BY MessageNames DEF Elsewhere
<1>2. ASSUME NEW e \in Documents, orderly
      PROVE  /\ step'[e].at = "charge" =>
                  step'[e].project = project /\ project # 0 /\ step'[e].files \subseteq sources
             /\ step'[e].at = "confirm" =>
                  /\ order[e].paid = project /\ project # 0 /\ order[e].promised \subseteq sources
                  /\ order[e].made = 0
             /\ step'[e].at \in {"announce", "make"} => order[e].made = project /\ project # 0
             /\ order[e].made # 0 =>
                  order[e].made = order[e].paid /\ order[e].promised \subseteq order[e].from
  <2>1. CASE e = d
    BY <1>2, <2>1 DEF PromiseInv
  <2>2. CASE e # d
    BY <1>1, <1>2, <2>2 DEF PromiseInv
  <2>. QED
    BY <2>1, <2>2
<1>. QED
  BY <1>2 DEF PromiseInv

LEMMA AnnounceKeeps ==
    ASSUME IntakeTypeOK, TalkInv, NEW d \in Documents, Announce(d)
    PROVE  TalkInv'
<1>1. /\ step[d].at = "announce" /\ step' = [step EXCEPT ![d].at = "make"]
      /\ keyboard' = [keyboard EXCEPT ![Progress(d)] = "none"] /\ stage' = "generating"
      /\ UNCHANGED <<project, sources, begun, told, order, stashed, orderly, refused>>
  BY DEF Announce, SetStage, dataVars, recordVars, orderVars
<1>2. step'[d].at = "make" /\ Elsewhere(d)
  BY <1>1, AtMoves, MessageNames
<1>3. /\ keyboard'[Progress(d)] = "none"
      /\ \A n \in Messages \ {Progress(d)} : keyboard'[n] = keyboard[n]
  BY <1>1, MessageNames DEF IntakeTypeOK
<1>4. /\ keyboard[Progress(d)] = "unsent" /\ Rests(Progress(d))
      /\ keyboard[d] = "none" /\ keyboard'[d] = "none"
  BY <1>1, <1>3, MessageNames DEF TalkInv, ShownInv, Turning
<1>5. ShownInv'
  BY <1>2, <1>3, <1>4, WorkShown DEF TalkInv
<1>6. PromiseInv'
  BY <1>1, <1>2, WorkPromise DEF TalkInv
<1>7. FilesInv' /\ EmptyInv' /\ ReviewInv' /\ LeadInv'
  BY <1>1, <1>2, <1>3, WorkKeeps
<1>. QED
  BY <1>5, <1>6, <1>7 DEF TalkInv

\* What is delivered is of the project the data name.
LEMMA DeliverKeeps ==
    ASSUME IntakeTypeOK, TalkInv, NEW d \in Documents, Deliver(d)
    PROVE  TalkInv'
<1>. DEFINE made == order[d].made
<1>1. /\ step[d].at = "make" /\ step' = [step EXCEPT ![d] = [step[d] EXCEPT !.at = "set", !.leads = "reviewing"]]
      /\ keyboard' = [keyboard EXCEPT ![Progress(d)] = "downloads"] /\ stashed' = stashed \cup {made}
      /\ UNCHANGED <<stage, project, sources, begun, told, order, orderly, refused>>
  BY DEF Deliver, dataVars, orderVars
<1>2. step'[d].at = "set" /\ step'[d].leads = "reviewing" /\ Elsewhere(d)
  <2>1. step[d] \in Step
    BY HandlerNames DEF IntakeTypeOK
  <2>2. step'[d] = [step[d] EXCEPT !.at = "set", !.leads = "reviewing"] /\ Elsewhere(d)
    BY <1>1, HandlerNames DEF IntakeTypeOK, Elsewhere
  <2>. QED
    BY <2>1, <2>2 DEF Step
<1>3. /\ keyboard'[Progress(d)] = "downloads"
      /\ \A n \in Messages \ {Progress(d)} : keyboard'[n] = keyboard[n]
  BY <1>1, MessageNames DEF IntakeTypeOK
<1>4. /\ keyboard[Progress(d)] = "none" /\ Rests(Progress(d))
      /\ keyboard[d] = "none" /\ keyboard'[d] = "none"
  BY <1>1, <1>3, MessageNames DEF TalkInv, ShownInv
<1>5. ShownInv'
  BY <1>2, <1>3, <1>4, WorkShown DEF TalkInv
<1>6. PromiseInv'
  BY <1>1, <1>2, WorkPromise DEF TalkInv
<1>7. orderly => made = project
  BY <1>1 DEF TalkInv, PromiseInv
<1>. HIDE DEF made
<1>8. \A n \in Messages : \A to : Turning(n, to) => Turning(n, to)'
  BY <1>1, <1>2 DEF Turning, Elsewhere
<1>9. \A n \in Messages \ {d} : \A to : Turning(n, to)' => Turning(n, to)
  BY <1>2 DEF Turning, Elsewhere
<1>10. FilesInv'
  BY <1>1 DEF TalkInv, FilesInv
<1>11. EmptyInv'
  <2>1. ~Turning(d, {"more"})'
    BY <1>2 DEF Turning
  <2>. QED
    BY <1>1, <1>8, <1>9, <2>1 DEF TalkInv, EmptyInv
<1>12. ReviewInv'
  <2>1. orderly' /\ stage' = "reviewing" =>
            project' \in stashed' \/ \E n \in Messages : Turning(n, {"none", "uploading"})'
    BY <1>1, <1>8 DEF TalkInv, ReviewInv
  <2>2. ASSUME NEW e \in Documents, orderly', Turning(e, {"reviewing"})'
        PROVE  \/ project' \in stashed' /\ Rests(Progress(e))' /\ keyboard'[Progress(e)] = "downloads"
               \/ \E n \in Messages : Turning(n, {"none"})'
    <3>1. CASE e = d
      <4>1. Rests(Progress(d))'
        BY <1>2, <1>4, MessageNames DEF Elsewhere, Rests
      <4>. QED
        BY <1>1, <1>3, <1>7, <2>2, <3>1, <4>1
    <3>2. CASE e # d
      <4>1. Turning(e, {"reviewing"}) /\ Progress(e) \in Messages \ {d, Progress(d)}
        BY <1>9, <2>2, <3>2, MessageNames
      <4>2. Rests(Progress(e))' = Rests(Progress(e)) /\ keyboard'[Progress(e)] = keyboard[Progress(e)]
        BY <1>2, <1>3, <4>1 DEF Elsewhere, Rests
      <4>. QED
        BY <1>1, <1>8, <2>2, <4>1, <4>2 DEF TalkInv, ReviewInv
    <3>. QED
      BY <3>1, <3>2
  <2>. QED
    BY <2>1, <2>2 DEF ReviewInv
<1>13. LeadInv'
  <2>1. Holds(d)' /\ d \in Messages
    BY <1>2, MessageNames DEF Holds, Rests, Leading
  <2>. QED
    BY <2>1 DEF LeadInv
<1>. QED
  BY <1>5, <1>6, <1>10, <1>11, <1>12, <1>13 DEF TalkInv

LEMMA MakingFailsKeeps ==
    ASSUME IntakeTypeOK, TalkInv, NEW d \in Documents, MakingFails(d)
    PROVE  TalkInv'
<1>1. /\ step[d].at = "make" /\ step' = [step EXCEPT ![d] = Done] /\ Breaks(d)
      /\ stage' = "none" /\ project' = 0
      /\ UNCHANGED <<keyboard, begun, told, order, stashed, refused>>
  BY DEF MakingFails, SetStage, ClearData, recordVars
<1>2. step'[d].at = "idle" /\ Elsewhere(d)
  BY <1>1, DoneMoves, MessageNames
<1>3. ShownInv'
  BY <1>1, <1>2, MessageNames, SetsShown DEF TalkInv
<1>. QED
  BY <1>1, <1>2, <1>3, MessageNames, EndKeeps DEF TalkInv

\* A step by the first handlers of messages.
PlainStep ==
    \/ (\E m \in Starts : CmdStart(m)) \/ (\E m \in Names : ProcessName(m))
    \/ (\E d \in Documents : ReceiveDocument(d))
    \/ \E m \in Messages :
        \/ Shows(m) \/ Sets(m) \/ StartPresentation(m)
        \/ (\E t \in Turns : Turn(m, t)) \/ ContinueToQuestionnaire(m) \/ Finish(m)
    \/ \E d \in Documents :
        \/ PayFromBalance(d) \/ PayExternally(d) \/ CancelPress(d)
        \/ Refuse(d) \/ Charge(d) \/ HandOff(d) \/ Announce(d)
        \/ Deliver(d) \/ MakingFails(d)

\* No message was pressed while a press under it was handled.
Calm ==
    /\ \A h \in Seconds : Rests(h)
    /\ \A p \in Payers : p \in Seconds => order[p].made = 0

LEMMA TalkKept ==
    ASSUME IntakeTypeOK, TalkInv, PlainStep
    PROVE  TalkInv'
<1>1. CASE (\E m \in Starts : CmdStart(m)) \/ (\E m \in Names : ProcessName(m))
  BY <1>1, StartKeeps, NameKeeps
<1>2. CASE \E m \in Messages :
        \/ Shows(m) \/ Sets(m) \/ StartPresentation(m)
        \/ (\E t \in Turns : Turn(m, t)) \/ ContinueToQuestionnaire(m) \/ Finish(m)
  BY <1>2, ShowsKeeps, SetsKeeps, StartPresentationKeeps, TurnKeeps, ContinueKeeps, FinishKeeps
<1>3. CASE \E d \in Documents :
        \/ ReceiveDocument(d) \/ PayFromBalance(d) \/ PayExternally(d) \/ CancelPress(d)
        \/ Refuse(d) \/ Charge(d) \/ HandOff(d) \/ Announce(d)
        \/ Deliver(d) \/ MakingFails(d)
  BY <1>3, ReceiveKeeps, PayFromBalanceKeeps, PaymentPressKeeps, RefuseKeeps, ChargeKeeps, HandOffKeeps,
     AnnounceKeeps, DeliverKeeps, MakingFailsKeeps
<1>. QED
  BY <1>1, <1>2, <1>3 DEF PlainStep

\* What a second handler does at first ends the calm, and it is orderly no more.
LEMMA PressedBeside ==
    ASSUME IntakeTypeOK, NEW h \in Seconds, NEW b, Pressed(h, b)
    PROVE  ~(Breaks(h) /\ orderly') /\ ~(Counts(h) /\ orderly')
<1>1. On(h) \in Handlers \ {h} /\ h \notin Messages
  BY HandlerNames
<1>2. ~Rests(On(h))
  BY DEF Pressed
<1>. QED
  BY <1>1, <1>2 DEF Breaks, Counts

LEMMA OnlyPlain ==
    ASSUME IntakeTypeOK, IntakeStep, orderly', orderly => Calm
    PROVE  orderly /\ Calm /\ PlainStep
<1>1. orderly
  BY IntakeWrites DEF Breaks, Counts
<1>2. \A h \in Seconds : step[h].at = "idle"
  BY <1>1 DEF Calm, Rests
<1>3. ASSUME NEW h \in Handlers,
             \/ Shows(h) \/ Sets(h) \/ StartPresentation(h)
             \/ (\E t \in Turns : Turn(h, t)) \/ ContinueToQuestionnaire(h) \/ Finish(h)
      PROVE  h \in Messages
  <2>. SUFFICES ASSUME h \in Seconds PROVE FALSE
    BY DEF Handlers
  <2>1. CASE Shows(h) \/ Sets(h)
    BY <1>2, <2>1 DEF Shows, Sets
  <2>2. CASE StartPresentation(h)
    BY <2>2, PressedBeside DEF StartPresentation
  <2>3. CASE (\E t \in Turns : Turn(h, t)) \/ ContinueToQuestionnaire(h) \/ Finish(h)
    BY <2>3, PressedBeside DEF Turn, ContinueToQuestionnaire, Finish
  <2>. QED
    BY <1>3, <2>1, <2>2, <2>3
<1>4. ASSUME NEW p \in Payers,
             \/ PayFromBalance(p) \/ PayExternally(p) \/ CancelPress(p)
             \/ Refuse(p) \/ Charge(p) \/ HandOff(p) \/ Announce(p)
             \/ Deliver(p) \/ MakingFails(p)
      PROVE  p \in Documents
  <2>. SUFFICES ASSUME p \in Seconds PROVE FALSE
    BY HandlerNames
  <2>1. CASE PayFromBalance(p) \/ PayExternally(p) \/ CancelPress(p)
    BY <2>1, PressedBeside DEF PayFromBalance, PayExternally, CancelPress
  <2>2. CASE \/ Refuse(p) \/ Charge(p) \/ HandOff(p) \/ Announce(p)
             \/ Deliver(p) \/ MakingFails(p)
    BY <1>2, <2>2 DEF Refuse, Charge, HandOff, Announce, Deliver, MakingFails
  <2>. QED
    BY <1>4, <2>1, <2>2
<1>. QED
  BY <1>1, <1>3, <1>4 DEF IntakeStep, PlainStep

\* And it stays calm.
LEMMA CalmKept ==
    ASSUME IntakeTypeOK, Calm, PlainStep
    PROVE  Calm'
<1>0. /\ step \in [Handlers -> Step] /\ order \in [Payers -> Order]
      /\ \A h \in Seconds : h \in Handlers /\ h \notin Messages
      /\ Starts \subseteq Messages /\ Names \subseteq Messages /\ Documents \subseteq Messages
  BY HandlerNames DEF IntakeTypeOK
<1>1. ASSUME NEW h \in Seconds PROVE step'[h] = step[h]
  <2>1. CASE \/ (\E m \in Starts : CmdStart(m)) \/ (\E m \in Names : ProcessName(m))
             \/ (\E d \in Documents : ReceiveDocument(d))
    BY ONLY <1>0, <2>1, h \in Seconds DEF CmdStart, ProcessName, ReceiveDocument, Respond
  <2>2. CASE \E m \in Messages : Shows(m) \/ Sets(m) \/ StartPresentation(m)
    BY ONLY <1>0, <2>2, h \in Seconds DEF Shows, Sets, StartPresentation, Respond
  <2>3. CASE \E m \in Messages :
                (\E t \in Turns : Turn(m, t)) \/ ContinueToQuestionnaire(m) \/ Finish(m)
    BY ONLY <1>0, <2>3, h \in Seconds DEF Turn, ContinueToQuestionnaire, Finish, Respond
  <2>4. CASE \E d \in Documents :
                PayFromBalance(d) \/ PayExternally(d) \/ CancelPress(d) \/ Refuse(d) \/ Charge(d)
    BY ONLY <1>0, <2>4, h \in Seconds DEF PayFromBalance, PayExternally, CancelPress, Refuse, Charge, Respond
  <2>5. CASE \E d \in Documents : HandOff(d) \/ Announce(d) \/ Deliver(d) \/ MakingFails(d)
    BY ONLY <1>0, <2>5, h \in Seconds DEF HandOff, Announce, Deliver, MakingFails
  <2>. QED
    BY <2>1, <2>2, <2>3, <2>4, <2>5 DEF PlainStep
<1>2. ASSUME NEW p \in Payers, p \in Seconds PROVE order'[p] = order[p]
  <2>1. CASE \E d \in Documents : Charge(d) \/ HandOff(d)
    BY ONLY <1>0, <1>2, <2>1, p \in Payers DEF Charge, HandOff
  <2>2. CASE UNCHANGED order
    BY <2>2
  <2>. QED
    BY <2>1, <2>2 DEF PlainStep, CmdStart, ProcessName, ReceiveDocument, Shows, Sets, StartPresentation, Turn,
       ContinueToQuestionnaire, Finish, PayFromBalance, PayExternally, CancelPress, Refuse, Announce, Deliver,
       MakingFails, recordVars
<1>. QED
  BY <1>1, <1>2 DEF Calm, Rests

\* Whatever order presses and answers come in, the files are kept.
LEMMA FilesKept ==
    ASSUME IntakeTypeOK, FilesInv, IntakeStep
    PROVE  FilesInv'
<1>. USE DEF IntakeStep, CmdStart, ProcessName, Shows, Sets, StartPresentation, Turn, ContinueToQuestionnaire,
             ReceiveDocument, PayFromBalance, PayExternally, CancelPress, Refuse, Charge, HandOff, Announce,
             Deliver, MakingFails, Finish, SetStage, ClearData, dataVars, recordVars, orderVars
<1>1. \/ /\ UNCHANGED <<told, begun>>
         /\ UNCHANGED <<project, sources>> \/ project' = 0
      \/ UNCHANGED told /\ begun' = begun + 1 /\ project' = begun + 1
      \/ /\ UNCHANGED <<project, begun>>
         /\ \E d \in Documents : sources' = sources \cup {d} /\ told' = [told EXCEPT ![d] = project]
  OBVIOUS
<1>2. begun \in Nat
  BY ONLY IntakeTypeOK, IntakeAssumption DEF IntakeTypeOK
<1>3. told \in [Documents -> 0..MaxProjects]
  BY ONLY IntakeTypeOK DEF IntakeTypeOK
<1>. QED
  BY ONLY <1>1, <1>2, <1>3, FilesInv DEF FilesInv

WholeInv == FilesInv /\ (orderly => Calm /\ TalkInv)

LEMMA WholeKept ==
    ASSUME IntakeTypeOK, WholeInv, [IntakeStep]_intakeVars
    PROVE  WholeInv'
<1>1. CASE IntakeStep
  <2>1. FilesInv'
    BY <1>1, FilesKept DEF WholeInv
  <2>2. ASSUME orderly' PROVE Calm' /\ TalkInv'
    BY <1>1, <2>2, OnlyPlain, CalmKept, TalkKept DEF WholeInv
  <2>. QED
    BY <2>1, <2>2 DEF WholeInv
<1>2. CASE UNCHANGED intakeVars
  BY <1>2 DEF intakeVars, WholeInv, Calm, TalkInv, FilesInv, ShownInv, PromiseInv, EmptyInv, ReviewInv, LeadInv,
              Turning, Holds, Rests, Works, ButtonsUnder, Leading
<1>. QED
  BY <1>1, <1>2

LEMMA WholeAtFirst == IntakeInit => WholeInv
<1>. SUFFICES ASSUME IntakeInit PROVE WholeInv
  OBVIOUS
<1>1. /\ \A h \in Handlers : step[h].at = "idle"
      /\ \A m \in Messages : step[m].at = "idle" /\ keyboard[m] = "unsent"
      /\ \A p \in Payers : order[p].made = 0
      /\ \A d \in Documents : told[d] = 0 /\ order[d].made = 0
      /\ stage = "none" /\ project = 0 /\ begun = 0
  BY HandlerNames DEF IntakeInit, Done, NoOrder
<1>0. Calm
  BY <1>1, HandlerNames DEF Calm, Rests
<1>2. FilesInv
  BY <1>1 DEF FilesInv
<1>3. ShownInv
  BY <1>1, MessageNames DEF ShownInv, Turning, Rests
<1>4. PromiseInv
  BY <1>1, MessageNames DEF PromiseInv
<1>5. EmptyInv /\ ReviewInv /\ LeadInv
  BY <1>1, MessageNames DEF EmptyInv, ReviewInv, LeadInv, Turning
<1>. QED
  BY <1>0, <1>2, <1>3, <1>4, <1>5 DEF TalkInv, WholeInv

LEMMA LeadsOnFromInv == ASSUME WholeInv PROVE ConversationLeadsOn
<1>1. \A d \in Documents : told[d] = project /\ project # 0 => d \in sources
  BY DEF WholeInv, FilesInv
<1>2. ASSUME orderly, NEW p \in Payers, order[p].made # 0
      PROVE  order[p].made = order[p].paid /\ order[p].promised \subseteq order[p].from
  <2>1. p \in Documents
    BY <1>2, HandlerNames DEF WholeInv, Calm
  <2>. QED
    BY <1>2, <2>1 DEF WholeInv, TalkInv, PromiseInv
<1>3. ASSUME orderly, Quiet
      PROVE  (stage = "reviewing" => project \in stashed) /\ (LeadsOn \/ refused)
  <2>0. \A m \in Messages : Rests(m)
    BY <1>3, HandlerNames DEF Quiet
  <2>1. \A m \in Messages : \A to : ~Turning(m, to)
    BY <2>0 DEF Rests, Turning
  <2>2. stage = "reviewing" => project \in stashed
    BY <1>3, <2>1 DEF WholeInv, TalkInv, ReviewInv
  <2>3. \A m \in Messages : Holds(m) => Works(m)
    BY <2>0 DEF Holds
  <2>. QED
    BY <1>3, <2>2, <2>3 DEF WholeInv, TalkInv, LeadInv, LeadsOn
<1>. QED
  BY <1>1, <1>2, <1>3 DEF ConversationLeadsOn

\* However presses, files, late answers and generations of one chat interleave, over any
\* number of projects, two presses under one message included: a file the user was told
\* is received is a source of its project.  And while no conversation ends with a handler
\* at work and no message is pressed while a press under it is handled, a payment makes
\* what it was for and the bot never rests without a way on (main_menu,
\* presentation_flow, payment_flow).
THEOREM ConversationLeads == PurchasesSpec => []ConversationLeadsOn
<1>1. PurchasesInit => WholeInv
  BY WholeAtFirst DEF PurchasesInit
<1>2. PurchasesTypeOK /\ WholeInv /\ [PurchasesNext]_purchaseVars => WholeInv'
  <2>. SUFFICES ASSUME PurchasesTypeOK, WholeInv, [PurchasesNext]_purchaseVars PROVE WholeInv'
    OBVIOUS
  <2>1. [IntakeStep]_intakeVars
    BY DEF PurchasesNext, Conversation, Invoices, purchaseVars
  <2>. QED
    BY <2>1, WholeKept DEF PurchasesTypeOK
<1>. QED
  BY <1>1, <1>2, LeadsOnFromInv, PurchasesTypeCorrect, PTL DEF PurchasesSpec
=============================================================================
