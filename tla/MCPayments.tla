----------------------------- MODULE MCPayments -----------------------------
(***************************************************************************)
(* Instances of Purchases for TLC.                                         *)
(***************************************************************************)
EXTENDS Purchases

CONSTANTS c1, c2, pay1, pay2, d1, d2, d3, d4, k1, s1, s2, name, f1, f2

\* Two deliveries of each payment.
MCPaymentOf == [d \in Deliveries |-> IF d \in {d1, d2} THEN pay1 ELSE pay2]

\* With every kind of dialog; with the shortest ones that ask first.
MCProviderOf == [p \in Payments |-> IF p = pay1 THEN "payme" ELSE "uzum"]
OnlyClick == [p \in Payments |-> "click"]
=============================================================================
