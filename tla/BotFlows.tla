------------------------------ MODULE BotFlows ------------------------------
(***************************************************************************)
(* The conversations of the bot's two products.  A presentation project's  *)
(* generations and its editing session share the decks and brain_sessions  *)
(* rows and the chat's FSM state; an article has its own states and cache. *)
(* Each conversation is about one project, and the two share nothing but   *)
(* the process: a behaviour follows one of them.                           *)
(***************************************************************************)
EXTENDS EditSession, ArticleFlow

CONSTANT Conversations  \* the products whose conversations are followed

ASSUME ConversationsAssumption == Conversations \subseteq {"presentation", "article"}

VARIABLE product

presentationVars == <<sessionVars, chatVars, editVars>>
vars == <<presentationVars, articleVars, generationVars, faults, product>>

TypeOK ==
    /\ product \in Conversations
    /\ SessionsTypeOK
    /\ ChatTypeOK
    /\ EditTypeOK
    /\ ArticleTypeOK
    /\ GenerationTypeOK
    /\ FaultsTypeOK

Init ==
    /\ product \in Conversations
    /\ SessionsInit
    /\ ChatInit
    /\ EditInit
    /\ ArticleInit
    /\ GenerationInit
    /\ FaultsInit

Presentation ==
    /\ product = "presentation"
    /\ \/ EditStep /\ UNCHANGED generationVars
       \/ GenerationStep /\ UNCHANGED editVars
    /\ UNCHANGED articleVars

Article ==
    /\ product = "article"
    /\ ArticleStep
    /\ UNCHANGED presentationVars

BotRestarts ==
    /\ GenerationStops
    /\ Fault
    /\ IF product = "presentation"
       THEN EditStops /\ ClearState /\ UNCHANGED <<sessionVars, articleVars>>
       ELSE ArticleStops /\ UNCHANGED presentationVars

Next == (Presentation \/ Article \/ BotRestarts) /\ UNCHANGED product

Spec == Init /\ [][Next]_vars

-----------------------------------------------------------------------------
(***************************************************************************)
(* Properties                                                              *)
(***************************************************************************)

\* budget.py: the count "can never be exceeded".  However turns, approvals and
\* regenerations interleave, a session delivers no more edits than its package
\* grants, one more for every failure that lost a count.
EditsWithinAllowance == delivered <= FixLimit + faults

\* "A per-project lock serializes concurrent turns": whoever is between its load
\* and its write holds the lock, and a lock that is held is held by a handler
\* that is still running, whatever was raised or restarted in between.  And no
\* brain turn runs on a history that ends in an unanswered edit_slides call (the
\* model API refuses it), not after a restart in the middle of a parked change
\* either.
TurnsAreSerialized ==
    /\ {h \in Handlers : hpc[h] \in {"load", "brain", "fix", "persist", "park", "reject"}}
        = {lock} \ {Free}
    /\ \A t \in Texts : hpc[t] = "brain" => copy[t].open = NoChange

\* A change is delivered once, however often its button is pressed, unless a
\* failure lost the write that took it out of the row; one the brain proposed of
\* its own accord only through the button (requires_approval); and one the user
\* was told is discarded never, not by an approval that was waiting for the lock
\* either.
AppliedAsApproved ==
    /\ [](\A t \in Texts :
            /\ applied[t] <= 1 + faults
            /\ t \in OwnInitiative /\ applied[t] > 0 => t \in approved)
    /\ [][\A t \in discarded : applied'[t] = applied[t]]_vars

\* regenerate_output: "Re-render the deck without charging again".  What is
\* given back was taken.
RefundsWereCharged == refunded \subseteq charged

\* Was the conversation cleared, and with it what the download buttons go by?
Left == IF product = "presentation" THEN ~linked ELSE ~titled

\* start_generation: "On failure the credit is refunded before the state is
\* cleared".  While nothing failed around it, a generation that was paid for and
\* found its project does not end before its files can be downloaded or its price
\* went back; only one whose files were made for a conversation that was cleared
\* meanwhile (cancel_flow, cancel_payment, a failure beside it) ends with neither.
ChargeIsServedOrReturned ==
    [][\A g \in charged :
        gpc[g] \notin {"start", "over"} /\ gpc'[g] = "over" =>
            \/ g \in served' \cup refunded'
            \/ gpc[g] # "refund" /\ Left
            \/ faults' > 0]_vars

\* What is left of the caps on free credits (credits.py, "3 per day, 10 per week, 5
\* per project") when nothing serializes their reads and the insert: calls under way
\* together do pass a cap, against the text, but by no more than their number less
\* one, however uploads, answers and midnight interleave; one after the other they
\* keep it.
FreeCreditsWithinCaps ==
    LET beyond == IF crowd = 0 THEN 0 ELSE crowd - 1 IN
    /\ \A d \in Days : grantedOn[d] <= DailyCap + beyond
    /\ GetThisWeek <= WeeklyCap + beyond
    /\ GetForProject <= ProjectCap + beyond
=============================================================================
