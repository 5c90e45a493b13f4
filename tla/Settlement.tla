----------------------------- MODULE Settlement -----------------------------
(***************************************************************************)
(* What the pipeline promises a user about money, with no queue, no worker *)
(* and no failure in sight: the price of a request is taken once, and then *)
(* either earned by a finished deck or given back, never both and never    *)
(* back out of either.                                                     *)
(***************************************************************************)
CONSTANT Requests

VARIABLE account        \* what became of each request's price

AccountStates ==
    {"unpaid",          \* nothing taken
     "held",            \* taken; the deck is not there yet
     "earned",          \* taken, and the job completed
     "returned"}        \* taken and refunded, once

Init == account = [r \in Requests |-> "unpaid"]

Becomes(r, from, to) ==
    /\ account[r] = from
    /\ account' = [account EXCEPT ![r] = to]

Take(r)   == Becomes(r, "unpaid", "held")
Earn(r)   == Becomes(r, "held", "earned")
Return(r) == Becomes(r, "held", "returned")

Next == \E r \in Requests : Take(r) \/ Earn(r) \/ Return(r)

Spec == Init /\ [][Next]_account
=============================================================================
