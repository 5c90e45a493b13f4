----------------------------- MODULE Purchases -----------------------------
(***************************************************************************)
(* What a buyer goes through.  The conversation up to a generation, seen   *)
(* message by message and over several projects, and one project's         *)
(* invoices with the calls about them, seen write by write, share nothing  *)
(* but the process: a behaviour follows one of them.                       *)
(***************************************************************************)
EXTENDS Payments, PresentationIntake

CONSTANT Followed       \* what is followed: the conversation, the invoices

ASSUME FollowedAssumption == Followed \subseteq {"intake", "invoices"}

VARIABLE follows

purchaseVars == <<vars, intakeVars, follows>>

PurchasesTypeOK == follows \in Followed /\ TypeOK /\ IntakeTypeOK

PurchasesInit == follows \in Followed /\ Init /\ IntakeInit

Conversation ==
    /\ follows = "intake"
    /\ IntakeStep
    /\ UNCHANGED vars

Invoices ==
    /\ follows = "invoices"
    /\ Next
    /\ UNCHANGED intakeVars

PurchasesNext == (Conversation \/ Invoices) /\ UNCHANGED follows

PurchasesSpec == PurchasesInit /\ [][PurchasesNext]_purchaseVars

\* As in FairSpec: a handler of a delivery runs on, and a provider goes on.
FairPurchases ==
    /\ PurchasesSpec
    /\ \A p \in Payments : WF_vars(follows = "invoices" /\ DialogStep(p))
    /\ \A d \in Deliveries : WF_vars(follows = "invoices" /\ DeliveryStep(d))
=============================================================================
