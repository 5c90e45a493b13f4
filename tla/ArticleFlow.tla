----------------------------- MODULE ArticleFlow -----------------------------
(***************************************************************************)
(* The article conversation of packages/bot/handlers/article_flow.py: from *)
(* the upload over the interview and the outline to the paid generation,   *)
(* over one chat's FSM state and the project's slot of the in-memory       *)
(* cache.  Nothing serializes its handlers: each looks at the state when   *)
(* its update arrives, works for minutes, and then writes state and slot.  *)
(* A handler, or a generation, keeps the slot it was given; dropping the   *)
(* slot leaves it with one nobody reads.  What models answer, and whether they answer, is      *)
(* nondeterministic.                                                       *)
(***************************************************************************)
EXTENDS BotGeneration, FreeCredits

CONSTANTS
    Files,              \* documents and photos the user sends
    Continues,          \* continue_flow presses
    Answers,            \* interview messages, and skip_question presses
    Revisions,          \* regenerate_outline presses
    MaxQuestions

Updates == Files \cup Continues \cup Answers \cup Revisions

ASSUME ArticleAssumption ==
    /\ Grantors = Continues \cup Answers
    /\ Updates \cap Articles = {}
    /\ MaxQuestions \in Nat \ {0}
    /\ IsFiniteSet(Files)

VARIABLES
    article,            \* of ArticleStates, the FSM state
    titled,             \* do the FSM data still hold the article's project?
    priced,             \* and the tier, since its payment keyboard is shown?
    uploads,            \* how many sources they list
    index,              \* and their current_question_index
    cache,              \* the slot of the project
    holding,            \* the handlers and generations that were given this slot
    turning,            \* presses about to set the state
    handler             \* where an update's handler is, and what it read

articleVars == <<article, titled, priced, uploads, index, cache, holding, turning, handler, creditVars>>

ArticleStates == {"none", "uploading", "more", "interview", "outline", "tier", "confirming",
                  "generating", "reviewing"}

\* The button, the state it is shown in and the state it leads to.
Turns == {<<"more", "uploading">>, <<"outline", "tier">>, <<"tier", "confirming">>}

Slot == [inputs : BOOLEAN, questions : 0..MaxQuestions, outline : BOOLEAN]
EmptySlot == [inputs |-> FALSE, questions |-> 0, outline |-> FALSE]

Handler == [at : {"idle", "reply", "process", "questions", "score", "advance", "outline",
                  "writing", "over"},
            titled : BOOLEAN, index : 0..MaxQuestions, left : 0..Cardinality(Files)]
IdleHandler == [at |-> "idle", titled |-> FALSE, index |-> 0, left |-> 0]

ArticleTypeOK ==
    /\ article \in ArticleStates
    /\ titled \in BOOLEAN /\ priced \in BOOLEAN
    /\ uploads \in 0..Cardinality(Files)
    /\ index \in 0..MaxQuestions
    /\ cache \in Slot /\ holding \subseteq Updates \cup Articles
    /\ turning \subseteq Turns
    /\ handler \in [Updates -> Handler]
    /\ CreditsTypeOK

\* main_menu._start_flow
ArticleInit ==
    /\ article = "uploading" /\ titled = TRUE /\ priced = FALSE
    /\ uploads = 0 /\ index = 0
    /\ cache = EmptySlot /\ holding = {}
    /\ turning = {}
    /\ handler = [u \in Updates |-> IdleHandler]
    /\ CreditsInit

-----------------------------------------------------------------------------

At(u, s) == handler[u].at = s
Arrives(u, s) ==
    /\ At(u, "idle")
    /\ handler' = [handler EXCEPT ![u] =
            [at |-> s, titled |-> titled, index |-> index, left |-> uploads]]
To(u, s) == handler' = [handler EXCEPT ![u].at = s]
TakesOne(u) == handler' = [handler EXCEPT ![u].left = @ - 1]
Ends(u) == handler' = [handler EXCEPT ![u] = [IdleHandler EXCEPT !.at = "over"]]

Idle(u) == u \in Grantors => asking[u] = "no"

InState(s) == article' = s /\ UNCHANGED <<titled, priced, uploads>>

\* state.clear()
ClearArticle ==
    /\ article' = "none"
    /\ titled' = FALSE /\ priced' = FALSE /\ uploads' = 0 /\ index' = 0

\* _drop_cache
DropCache == cache' = EmptySlot /\ holding' = {}

KeepChat == UNCHANGED <<article, titled, priced, uploads, index>>

\* A write through a slot that was dropped meanwhile reaches nobody.
Writes(u, new) ==
    /\ cache' = IF u \in holding THEN new ELSE cache
    /\ holding' = holding \ {u}

-----------------------------------------------------------------------------
(***************************************************************************)
(* Sources                                                                 *)
(***************************************************************************)

ReceiveFile(u) ==
    /\ At(u, "idle") /\ To(u, "reply")
    /\ article = "uploading"
    /\ uploads' = uploads + 1
    /\ UNCHANGED <<article, titled, priced, index, cache, holding, turning, creditVars>>

FileReceived(u) ==
    /\ At(u, "reply") /\ Ends(u)
    /\ InState("more")
    /\ UNCHANGED <<index, cache, holding, turning, creditVars>>

\* upload_more, approve_outline, choose_tier: the state is set after the
\* message was edited; the tier is in the data before it.
PressTurn(t) ==
    /\ article = t[1]
    /\ turning' = turning \cup {t}
    /\ priced' = (priced \/ t[1] = "tier")
    /\ UNCHANGED <<article, titled, uploads, index, cache, holding, handler, creditVars>>

Turn(t) ==
    /\ t \in turning
    /\ turning' = turning \ {t}
    /\ InState(t[2])
    /\ UNCHANGED <<index, cache, holding, handler, creditVars>>

ContinueFlow(u) ==
    /\ article = "more" /\ uploads > 0
    /\ Arrives(u, "process")
    /\ UNCHANGED <<article, titled, priced, uploads, index, cache, holding, turning, creditVars>>

\* _process_one_source: a file that cannot be used is skipped, one that can
\* earns a credit.
ProcessFile(u) ==
    /\ At(u, "process") /\ Idle(u) /\ handler[u].left > 0
    /\ TakesOne(u)
    /\ AskForCredit(u) \/ UNCHANGED creditVars
    /\ UNCHANGED <<article, titled, priced, uploads, index, cache, holding, turning>>

SourcesDone(u) ==
    /\ At(u, "process") /\ Idle(u) /\ handler[u].left = 0 /\ To(u, "questions")
    /\ holding' = holding \cup {u}
    /\ cache' = [cache EXCEPT !.inputs = TRUE]
    /\ UNCHANGED <<article, titled, priced, uploads, index, turning, creditVars>>

\* Sources without content, a step that raises: whatever the conversation has
\* come to meanwhile, its slot is dropped and its state cleared.
ContinueFails(u) ==
    /\ At(u, "process") \/ At(u, "questions")
    /\ Ends(u)
    /\ DropCache /\ ClearArticle
    /\ StopAsking({u})
    /\ UNCHANGED turning

\* generate_questions falls back to a fixed list: there is at least one.
QuestionsReady(u) ==
    /\ At(u, "questions") /\ Ends(u)
    /\ \E n \in 1..MaxQuestions : Writes(u, [cache EXCEPT !.questions = n])
    /\ InState("interview")
    /\ index' = 0
    /\ UNCHANGED <<turning, creditVars>>

-----------------------------------------------------------------------------
(***************************************************************************)
(* Interview                                                               *)
(***************************************************************************)

AnswerArrives(u) ==
    /\ article = "interview" /\ titled
    /\ index < cache.questions /\ cache.inputs
    /\ Arrives(u, "score")
    /\ UNCHANGED <<article, titled, priced, uploads, index, cache, holding, turning, creditVars>>

SkipArrives(u) ==
    /\ article = "interview"
    /\ Arrives(u, "advance")
    /\ UNCHANGED <<article, titled, priced, uploads, index, cache, holding, turning, creditVars>>

\* A good answer earns a credit; whatever raises, the interview goes on.
Score(u) ==
    /\ At(u, "score") /\ To(u, "advance")
    /\ AskForCredit(u) \/ UNCHANGED creditVars
    /\ UNCHANGED <<article, titled, priced, uploads, index, cache, holding, turning>>

GrantRaises(u) ==
    /\ At(u, "advance") /\ ~Idle(u)
    /\ StopAsking({u})
    /\ Fault
    /\ UNCHANGED <<article, titled, priced, uploads, index, cache, holding, turning, handler>>

\* _advance_interview counts on from the index its handler read.
Questions(u) == IF handler[u].titled THEN cache.questions ELSE 0

Advance(u) ==
    /\ At(u, "advance") /\ Idle(u)
    /\ IF handler[u].index + 1 < Questions(u)
       THEN index' = handler[u].index + 1 /\ Ends(u)
       ELSE UNCHANGED index /\ To(u, "outline")
    /\ UNCHANGED <<article, titled, priced, uploads, cache, holding, turning, creditVars>>

-----------------------------------------------------------------------------
(***************************************************************************)
(* Outline                                                                 *)
(***************************************************************************)

RegenerateOutline(u) ==
    /\ article = "outline"
    /\ Arrives(u, "outline")
    /\ UNCHANGED <<article, titled, priced, uploads, index, cache, holding, turning, creditVars>>

GenerateOutline(u) ==
    /\ At(u, "outline")
    /\ IF handler[u].titled /\ cache.inputs
       THEN To(u, "writing") /\ KeepChat /\ holding' = holding \cup {u}
       ELSE Ends(u) /\ ClearArticle /\ UNCHANGED holding
    /\ UNCHANGED <<cache, turning, creditVars>>

OutlineFails(u) ==
    /\ At(u, "writing") /\ Ends(u)
    /\ ClearArticle
    /\ holding' = holding \ {u}
    /\ UNCHANGED <<cache, turning, creditVars>>

ShowOutline(u) ==
    /\ At(u, "writing") /\ Ends(u)
    /\ Writes(u, [cache EXCEPT !.outline = TRUE])
    /\ InState("outline")
    /\ UNCHANGED <<index, turning, creditVars>>

\* cancel_flow in any state, done after the delivery.
Leave ==
    /\ article # "none"
    /\ DropCache /\ ClearArticle
    /\ UNCHANGED <<turning, handler, creditVars>>

-----------------------------------------------------------------------------
(***************************************************************************)
(* Payment and generation                                                  *)
(***************************************************************************)

\* pay_balance charges whatever state the conversation is in: the keyboard
\* stays in the chat.
PayArticle(g) ==
    /\ titled /\ priced
    /\ Moves(g, "idle", "start")
    /\ charged' = charged \cup {g}
    /\ UNCHANGED <<refunded, served, articleVars, faults>>

\* start_generation: without an outline it gives up, and refunds nothing.
StartArticle(g) ==
    /\ IF titled /\ cache.inputs /\ cache.outline
       THEN /\ Moves(g, "start", "pipeline")
            /\ holding' = holding \cup {g}
            /\ InState("generating") /\ UNCHANGED index
       ELSE Moves(g, "start", "over") /\ ClearArticle /\ UNCHANGED holding
    /\ UNCHANGED <<cache, turning, handler, creditVars, moneyVars, faults>>

ArticleFails(g) ==
    /\ Moves(g, "pipeline", "refund")
    /\ UNCHANGED <<moneyVars, articleVars, faults>>

\* The message and the project's status come first; if either raises, the
\* refund is never reached and the state stays.  A refund that raises is logged.
RefundArticle(g) ==
    /\ Moves(g, "refund", "over")
    /\ \/ refunded' = refunded \cup {g} /\ ClearArticle /\ UNCHANGED faults
       \/ Fault /\ ClearArticle /\ UNCHANGED refunded
       \/ Fault /\ KeepChat /\ UNCHANGED refunded
    /\ UNCHANGED <<charged, served, cache, holding, turning, handler, creditVars>>

\* The paths go into the slot the generation was given: the buttons find them
\* if it is still the project's, and the data still name the project.
ArticleSucceeds(g) ==
    /\ Moves(g, "pipeline", "show")
    /\ served' = IF g \in holding /\ titled THEN served \cup {g} ELSE served
    /\ UNCHANGED <<charged, refunded, articleVars, faults>>

ShowArticle(g) ==
    /\ Moves(g, "show", "over")
    /\ \/ InState("reviewing") /\ UNCHANGED <<index, faults>>
       \/ Fault /\ KeepChat
    /\ UNCHANGED <<cache, holding, turning, handler, creditVars, moneyVars>>

\* cancel_payment clears the state; the slot stays.
CancelArticlePayment(g) ==
    /\ gpc[g] \in {"idle", "start"}
    /\ ClearArticle
    /\ UNCHANGED <<cache, holding, turning, handler, creditVars, generationVars, faults>>

-----------------------------------------------------------------------------
ArticleConversation ==
    \/ \E u \in Files : ReceiveFile(u) \/ FileReceived(u)
    \/ \E t \in Turns : PressTurn(t) \/ Turn(t)
    \/ \E u \in Continues :
        \/ ContinueFlow(u) \/ ProcessFile(u) \/ SourcesDone(u)
        \/ ContinueFails(u) \/ QuestionsReady(u)
    \/ \E u \in Answers : AnswerArrives(u) \/ SkipArrives(u) \/ Score(u) \/ Advance(u)
    \/ \E u \in Revisions : RegenerateOutline(u)
    \/ \E u \in Answers \cup Revisions :
        GenerateOutline(u) \/ OutlineFails(u) \/ ShowOutline(u)
    \/ Leave

CreditCalls ==
    /\ (\E u \in Grantors : ReadCap(u) \/ InsertGrant(u)) \/ Midnight
    /\ UNCHANGED <<article, titled, priced, uploads, index, cache, holding, turning, handler>>

ArticleGeneration ==
    \E g \in Articles :
        \/ PayArticle(g) \/ StartArticle(g) \/ ArticleFails(g) \/ RefundArticle(g)
        \/ ArticleSucceeds(g) \/ ShowArticle(g) \/ CancelArticlePayment(g)

ArticleStep ==
    \/ (ArticleConversation \/ CreditCalls) /\ UNCHANGED <<generationVars, faults>>
    \/ (\E u \in Answers : GrantRaises(u)) /\ UNCHANGED generationVars
    \/ ArticleGeneration

\* The process is gone, with the FSM, the cache and its handlers.
ArticleStops ==
    /\ DropCache /\ ClearArticle
    /\ turning' = {}
    /\ handler' = [u \in Updates |->
            IF At(u, "idle") THEN handler[u] ELSE [IdleHandler EXCEPT !.at = "over"]]
    /\ StopAsking(Grantors)
=============================================================================
