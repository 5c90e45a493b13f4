--------------------------- MODULE BotGeneration ---------------------------
(***************************************************************************)
(* Generations of one project's deck: presentation_flow.start_generation   *)
(* after a payment from the balance (payment_flow.py) or behind the        *)
(* regenerate button, and the worker's _run_presentation for the same      *)
(* project, which shares the decks and brain_sessions rows.  (The articles *)
(* among the generations run as ArticleFlow says.)                         *)
(***************************************************************************)
EXTENDS BrainSessions, Faults

CONSTANTS
    Paid,               \* pay_balance presses
    Regenerations,      \* regenerate_output presses
    WebJobs,            \* jobs of JobPipeline for the same project
    Articles            \* pay_balance presses in an article's conversation

FromBot == Paid \cup Regenerations
Decks == FromBot \cup WebJobs
Generations == Decks \cup Articles

ASSUME GenerationsAssumption ==
    /\ Paid \cap Regenerations = {} /\ FromBot \cap WebJobs = {}
    /\ Articles \cap Decks = {}

VARIABLES
    gpc,                \* where a generation is
    charged,            \* the generations the balance was charged for
    refunded,           \* the generations a refund row was written for
    served              \* the generations whose files the user could download when
                        \* they were made

generationVars == <<gpc, charged, refunded, served>>
moneyVars == <<charged, refunded, served>>

GenerationTypeOK ==
    /\ gpc \in [Generations -> {"idle", "start", "pipeline", "render", "session",
                                "show", "refund", "over"}]
    /\ charged \in SUBSET Generations
    /\ refunded \in SUBSET Generations
    /\ served \in SUBSET Generations

GenerationInit ==
    /\ gpc = [g \in Generations |-> "idle"]
    /\ charged = {}
    /\ refunded = {}
    /\ served = {}

Moves(g, from, to) ==
    /\ gpc[g] = from
    /\ gpc' = [gpc EXCEPT ![g] = to]

-----------------------------------------------------------------------------

\* _handle_balance_payment: deduct_for_generation, then the hand-off, whatever
\* state the conversation is in.
Pay(g) ==
    /\ linked
    /\ Moves(g, "idle", "start")
    /\ charged' = charged \cup {g}
    /\ UNCHANGED <<sessionVars, chatVars, faults, refunded, served>>

\* cancel_payment has no state filter: whatever the conversation is doing, the
\* button on a payment message that was not replaced yet clears it.
CancelPayment(g) ==
    /\ gpc[g] \in {"idle", "start"}
    /\ ClearState
    /\ UNCHANGED <<sessionVars, faults, generationVars>>

\* regenerate_output: "without charging again".
PressRegenerate(g) ==
    /\ fsm = "reviewing"
    /\ Moves(g, "idle", "start")
    /\ UNCHANGED <<sessionVars, chatVars, faults, moneyVars>>

WebJobStarts(g) ==
    /\ Moves(g, "idle", "pipeline")
    /\ UNCHANGED <<sessionVars, chatVars, faults, moneyVars>>

\* start_generation reads the FSM data and shows its progress.  Data that were
\* cleared name no project and no tier: the pipeline raises and nothing is
\* refunded.
Start(g) ==
    /\ IF linked
       THEN Moves(g, "start", "pipeline") /\ SetState("generating")
       ELSE Moves(g, "start", "over") /\ ClearState
    /\ UNCHANGED <<sessionVars, faults, moneyVars>>

\* The pipeline's own deck write is best-effort.
DeckIsSaved(g) ==
    /\ Moves(g, "pipeline", "render")
    /\ \/ SaveDeck /\ UNCHANGED faults
       \/ Fault /\ UNCHANGED sessionVars
    /\ UNCHANGED <<chatVars, moneyVars>>

\* The worker refunds a failed job elsewhere.
PipelineFails(g) ==
    /\ gpc[g] \in {"pipeline", "render"}
    /\ Moves(g, gpc[g], IF g \in FromBot THEN "refund" ELSE "over")
    /\ UNCHANGED <<sessionVars, chatVars, faults, moneyVars>>

\* The bot's download buttons look the files up under the project of the FSM
\* data; the site reads their rows.
PipelineSucceeds(g) ==
    /\ Moves(g, "render", "session")
    /\ served' = IF linked \/ g \in WebJobs THEN served \cup {g} ELSE served
    /\ UNCHANGED <<sessionVars, chatVars, faults, charged, refunded>>

\* Mutant: a failed generation clears the conversation and keeps the money.
RefundOnFailure_ClearsOnly(g) ==
    /\ Moves(g, "refund", "over")
    /\ ClearState
    /\ UNCHANGED <<sessionVars, faults, charged, refunded, served>>

\* _refund_on_failure: the price of the tier in the FSM data, charged or not;
\* a refund that raises is logged.  Then the state is cleared.
RefundOnFailure(g) ==
    /\ Moves(g, "refund", "over")
    /\ \/ refunded' = refunded \cup {g} /\ UNCHANGED faults
       \/ Fault /\ UNCHANGED refunded
    /\ ClearState
    /\ UNCHANGED <<sessionVars, charged, served>>

\* _open_brain_session: without a deck, or when the write raises, the user can
\* only download.
OpenSession(g) ==
    /\ Moves(g, "session", IF g \in FromBot THEN "show" ELSE "over")
    /\ \/ CreateSession /\ UNCHANGED faults
       \/ ~deckSaved /\ UNCHANGED <<sessionVars, faults>>
       \/ Fault /\ UNCHANGED sessionVars
    /\ UNCHANGED <<chatVars, moneyVars>>

ShowDeck(g) ==
    /\ Moves(g, "show", "over")
    /\ SetState("reviewing")
    /\ UNCHANGED <<sessionVars, faults, moneyVars>>

\* The bot process is gone, and what it was generating with it.
GenerationStops ==
    /\ gpc' = [g \in Generations |->
                IF g \in WebJobs \/ gpc[g] = "idle" THEN gpc[g] ELSE "over"]
    /\ UNCHANGED moneyVars

-----------------------------------------------------------------------------
\* What a generation does once it was started.
GenerationRuns(g) ==
    \/ Start(g) \/ DeckIsSaved(g) \/ PipelineFails(g) \/ PipelineSucceeds(g)
    \/ RefundOnFailure(g) \/ OpenSession(g) \/ ShowDeck(g)

GenerationStep ==
    \/ \E g \in Paid : Pay(g) \/ CancelPayment(g)
    \/ \E g \in Regenerations : PressRegenerate(g)
    \/ \E g \in WebJobs : WebJobStarts(g)
    \/ \E g \in Decks : GenerationRuns(g)
=============================================================================
