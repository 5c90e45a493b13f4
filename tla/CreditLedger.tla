---------------------------- MODULE CreditLedger ----------------------------
(***************************************************************************)
(* packages/platform/credits.py: the append-only credit ledger, as the     *)
(* generation pipeline uses it.                                            *)
(*                                                                         *)
(* Rows are only ever inserted and a balance is the sum of a user's rows,  *)
(* so the table is represented by what the rows add up to: for every       *)
(* enqueue request, whether its deduction row exists and how many refund   *)
(* rows were written for it.  (The stored row carries only the user, the   *)
(* project, the amount and the action; which request a refund undoes is    *)
(* history the properties need and the program does not keep.)             *)
(*                                                                         *)
(* Who sends each request, and for which project, is declared here too:    *)
(* the job table names its rows by the requests that pay for them.         *)
(***************************************************************************)
EXTENDS Integers, FiniteSetsExt

CONSTANTS
    Requests,           \* POST /jobs requests, one row of generation_jobs each at most
    Users,              \* the users with an account
    Projects,           \* the projects decks are generated for
    UserOf,             \* the user a request charges
    ProjectOf,          \* the project it generates for
    PriceOf,            \* CreditLedger.PRICING of the product it names
    Opening,            \* each user's balance before the first request
    DevMode             \* CreditLedger(dev_mode=...): skip balance checks

ASSUME RequestsAssumption ==
    /\ UserOf \in [Requests -> Users]
    /\ ProjectOf \in [Requests -> Projects]
    /\ PriceOf \in [Requests -> Nat \ {0}]

ASSUME LedgerAssumption ==
    /\ Opening \in [Users -> Nat]
    /\ DevMode \in BOOLEAN

VARIABLES
    deducted,           \* the requests whose deduction row exists
    refunded            \* the number of refund rows written for a request

ledgerVars == <<deducted, refunded>>

LedgerTypeOK ==
    /\ deducted \in SUBSET Requests
    /\ refunded \in [Requests -> Nat]

LedgerInit ==
    /\ deducted = {}
    /\ refunded = [r \in Requests |-> 0]

-----------------------------------------------------------------------------

\* What the ledger rows of request r add up to.
Net(r) ==
    PriceOf[r] * (refunded[r] - (IF r \in deducted THEN 1 ELSE 0))

GetBalance(u) ==
    Opening[u] + MapThenSumSet(Net, {r \in Requests : UserOf[r] = u})

\* has_sufficient_credits, and the check deduct_for_generation repeats.
HasSufficientCredits(r) ==
    DevMode \/ GetBalance(UserOf[r]) >= PriceOf[r]

\* The row deduct_for_generation inserts once its own check has passed: a
\* plain insert, it looks at no balance any more.
InsertDeduction(r) ==
    /\ deducted' = deducted \cup {r}
    /\ UNCHANGED refunded

Refund(r) ==
    /\ refunded' = [refunded EXCEPT ![r] = @ + 1]
    /\ UNCHANGED deducted
=============================================================================
