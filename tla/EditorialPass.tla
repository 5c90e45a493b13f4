--------------------------- MODULE EditorialPass ---------------------------
(***************************************************************************)
(* EditorialPass.generate_deck_spec of packages/presentation/editorial.py: *)
(* plan, write, hold the deck against the plan, have the critic read it,   *)
(* repair what it found, let the brain try where the repair failed, add    *)
(* the interactive slides, ship or raise.  Every answer of a model is      *)
(* nondeterministic: what it plans and writes, which of the unsupported    *)
(* facts a pass of the critic sees, and whether an answer can be used at   *)
(* all.                                                                    *)
(***************************************************************************)
EXTENDS DeckRules

CONSTANTS
    Plans,              \* plans a planner may answer
    Drafts,             \* sequences of raw slides the executor may answer
    Rewrites,           \* raw slides it may answer for one slide
    Readings,           \* sets of findings a pass of the critic may propose
    ClaimSets,          \* the tokens the extracted claims support
    MaxAttempts,        \* BRAIN_ESCALATION_MAX_ATTEMPTS
    MaxSlides,          \* the bound on DeckSpec.slides
    NoPlan, NoClaims

\* What a model may answer; its slides carry fresh uuids, and so do the title, the
\* takeaway and the interactive slides the code adds.
RawSlides ==
    [id : Ids, type : ContentTypes, index : Nat, tag : Nat, loose : BOOLEAN,
     people : SUBSET Persons, thesis : BOOLEAN, facts : SUBSET Tokens, clash : BOOLEAN]

ASSUME EditorialAssumption ==
    /\ MaxAttempts \in Nat \ {0} /\ MaxSlides \in Nat \ {0, 1}
    /\ Len(EmergencyDeck) <= MaxSlides
    /\ Clash \notin Tokens
    /\ NoPlan \notin Plans

ASSUME AnswersAssumption ==
    /\ \A p \in Plans : p.wants \in Seq(SUBSET Persons)
    /\ \A d \in Drafts : d \in Seq(RawSlides) /\ EachOnce(d)
    /\ Rewrites \subseteq RawSlides
    /\ \A r \in Readings : r \subseteq [handle : Nat, token : Tokens \cup {Clash}]
    /\ IsFiniteSet(QuizIds)
    /\ TitleId \notin Ids \cup QuizIds /\ TakeawayId \notin Ids \cup QuizIds \cup {TitleId}
    /\ Ids \cap QuizIds = {}

VARIABLES
    pc,                 \* the stage the generation is at
    retried,            \* has this stage's call been repeated?
    claims,             \* what the source supports, NoClaims if nothing was extracted
    plan, replanned,
    slides,             \* content_slides; the deck, once shipped
    emergency,          \* deck_is_emergency
    failing,            \* the sections of the one repair
    todo,               \* slides still to be written again
    rewritten,          \* slides written again and spliced in since the gate
    half,               \* the first of two passes of the critic
    standing,           \* first_hard, later surviving
    attempts, applied,  \* of the brain
    quizzes,            \* the interactive slides
    \* History:
    alarmed,            \* a pass has confirmed a hard stop
    known,              \* hard stops confirmed on slides that are still the same
    quiet               \* passes since the last change that confirmed none

gateVars == <<plan, replanned, claims, emergency, failing>>
repairVars == <<todo, rewritten, half, standing, attempts, applied>>
historyVars == <<alarmed, known, quiet>>
editorialVars == <<pc, retried, slides, quizzes, gateVars, repairVars, historyVars>>

CriticStages == {"first", "again1", "again2", "entry", "check1", "check2"}
ModelStages == {"plan", "draft", "repair", "regen", "brain", "apply", "interact"}
                    \cup CriticStages
Ended == {"shipped", "raised"}
Stages == ModelStages \cup {"gate", "merge"} \cup Ended

Outcomes == [ok : BOOLEAN, hits : SUBSET [slide : Ids \cup {TitleId}, token : Tokens \cup {Clash}]]
NoVerdict == [ok |-> FALSE, hits |-> {}]

Findings == [slide : Ids \cup {TitleId}, token : Tokens]

EditorialTypeOK ==
    /\ pc \in Stages /\ retried \in BOOLEAN
    /\ plan \in Plans \cup {NoPlan} /\ replanned \in BOOLEAN
    /\ claims \in ClaimSets \cup {NoClaims}
    /\ slides \in Seq(Slides)
    /\ emergency \in BOOLEAN /\ applied \in BOOLEAN
    /\ failing \subseteq Nat
    /\ todo \subseteq IdsOf(slides) /\ rewritten \subseteq IdsOf(slides)
    /\ half \in Outcomes
    /\ standing \subseteq Findings
    /\ attempts \in 0..MaxAttempts
    /\ quizzes \subseteq QuizIds
    /\ alarmed \in BOOLEAN /\ known \subseteq Findings /\ quiet \in 0..2

EditorialInit ==
    /\ pc = "plan" /\ retried = FALSE
    /\ plan = NoPlan /\ replanned = FALSE
    /\ claims \in ClaimSets \cup {NoClaims}
    /\ slides = <<>> /\ emergency = FALSE /\ failing = {}
    /\ todo = {} /\ rewritten = {} /\ half = NoVerdict /\ standing = {}
    /\ attempts = 0 /\ applied = FALSE
    /\ quizzes = {}
    /\ alarmed = FALSE /\ known = {} /\ quiet = 0

Goto(s) == pc' = s /\ retried' = FALSE

-----------------------------------------------------------------------------
(***************************************************************************)
(* Calls of models                                                         *)
(***************************************************************************)

\* An answer that cannot be parsed is asked for once more, with a nudge.
AsksAgain ==
    /\ pc \in ModelStages \ {"brain"} /\ ~retried
    /\ pc \in {"regen", "apply"} => todo # {}
    /\ retried' = TRUE
    /\ UNCHANGED <<pc, slides, quizzes, gateVars, repairVars, historyVars>>

\* An API error ends the generation wherever it strikes.
CallRaises ==
    /\ pc \in ModelStages
    /\ pc \in {"regen", "apply"} => todo # {}
    /\ Goto("raised")
    /\ UNCHANGED <<slides, quizzes, gateVars, repairVars, historyVars>>

-----------------------------------------------------------------------------
(***************************************************************************)
(* Plan, draft, gate                                                       *)
(***************************************************************************)

\* _plan_and_validate: a plan that fails is planned again once.
Plan ==
    /\ pc = "plan"
    /\ \E p \in Plans :
        /\ plan' = p
        /\ IF PlanPasses(p) THEN Goto("draft") /\ UNCHANGED replanned
           ELSE IF replanned THEN Goto("raised") /\ UNCHANGED replanned
           ELSE Goto("plan") /\ replanned' = TRUE
    /\ UNCHANGED <<slides, quizzes, claims, emergency, failing, repairVars, historyVars>>

\* PlannerError: the second answer cannot be parsed either.
PlannerGivesUp ==
    /\ pc = "plan" /\ retried
    /\ Goto("raised")
    /\ UNCHANGED <<slides, quizzes, gateVars, repairVars, historyVars>>

\* An executor that answered nothing usable twice counts as one that wrote no
\* slide.
Answers == IF retried THEN Drafts \cup {<<>>} ELSE Drafts

Draft ==
    /\ pc = "draft"
    /\ \E d \in Answers :
        /\ slides' = PostProcess(MaterialisedAll(d, plan))
        /\ emergency' = (d = <<>>)
    /\ Goto("gate")
    /\ UNCHANGED <<quizzes, plan, replanned, claims, failing, repairVars, historyVars>>

AfterGate == IF claims = NoClaims THEN "interact" ELSE "first"

\* _enforce_plan_adherence, up to the repair.
Gate ==
    /\ pc = "gate"
    /\ failing' = IF emergency THEN {} ELSE FailingSections(slides, plan)
    /\ IF emergency THEN Goto("merge")
       ELSE IF DeckPasses(slides, plan) THEN Goto(AfterGate)
       ELSE IF failing' = {} THEN Goto("raised")
       ELSE Goto("repair")
    /\ UNCHANGED <<slides, quizzes, plan, replanned, claims, emergency, repairVars, historyVars>>

\* _repair_failing_sections, and the second and last look at the deck.
Repair ==
    /\ pc = "repair"
    /\ \E d \in Answers :
        /\ IdsOf(d) \cap IdsOf(slides) = {}
        /\ slides' = PostProcessRepaired(
                         SpliceSections(slides, MaterialisedAll(d, plan), failing, plan))
    /\ IF DeckPasses(slides', plan) THEN Goto(AfterGate) ELSE Goto("raised")
    /\ UNCHANGED <<quizzes, gateVars, repairVars, historyVars>>

-----------------------------------------------------------------------------
(***************************************************************************)
(* One pass of the critic                                                  *)
(***************************************************************************)

Verdicts ==
    {[ok |-> TRUE, hits |-> Failures(r, slides, claims)] : r \in Readings}
        \cup (IF retried THEN {NoVerdict} ELSE {})

Reads(v) ==
    LET hard == HardStops(v.hits) IN
    /\ alarmed' = (alarmed \/ hard # {})
    /\ known' = known \cup hard
    /\ quiet' = IF v.ok /\ hard = {} THEN IF quiet = 0 THEN 1 ELSE 2 ELSE 0

\* Two passes over one state of the deck: both must have a verdict.
Union(v) == [ok |-> half.ok /\ v.ok, hits |-> half.hits \cup v.hits]

FirstHalf(s, next) ==
    /\ pc = s
    /\ \E v \in Verdicts : Reads(v) /\ half' = v
    /\ Goto(next)
    /\ UNCHANGED <<slides, quizzes, gateVars, todo, rewritten, standing, attempts, applied>>

Rejudge == FirstHalf("again1", "again2")
Recheck == FirstHalf("check1", "check2")

\* The first critique: without a verdict, or with nothing to route, the deck
\* ships as it is.
Critique ==
    /\ pc = "first"
    /\ \E v \in Verdicts :
        /\ Reads(v)
        /\ todo' = Flagged(v.hits)
        /\ standing' = HardStops(v.hits)
        /\ Goto(IF v.hits = {} THEN "interact" ELSE "regen")
    /\ UNCHANGED <<slides, quizzes, gateVars, rewritten, half, attempts, applied>>

\* What the rejudge leaves: the hard stops of slides that could not be
\* rewritten, or all the first ones if it has no verdict, and its own.
Residual(u) ==
    (IF u.ok THEN {f \in standing : f.slide \notin rewritten} ELSE standing)
        \cup HardStops(u.hits)

RejudgeAgain ==
    /\ pc = "again2"
    /\ \E v \in Verdicts :
        /\ Reads(v)
        /\ standing' = Residual(Union(v))
    /\ half' = NoVerdict
    /\ Goto(IF standing' = {} THEN "interact" ELSE "entry")
    /\ UNCHANGED <<slides, quizzes, gateVars, todo, rewritten, attempts, applied>>

-----------------------------------------------------------------------------
(***************************************************************************)
(* Writing one slide again                                                 *)
(***************************************************************************)

\* A rewrite that passes its own checks takes its target's place.
Splice(new) ==
    /\ slides' = SpliceSingleSlide(slides, new)
    /\ rewritten' = rewritten \cup {new.id}
    /\ known' = {f \in known : f.slide # new.id}
    /\ quiet' = 0

Regenerate(s, id) ==
    /\ pc = s /\ id \in todo
    /\ todo' = todo \ {id}
    /\ Goto(s)
    /\ UNCHANGED <<quizzes, gateVars, half, standing, attempts, alarmed>>

Accepts(s) ==
    \E id \in todo, r \in Rewrites :
        LET target == SlideOf(slides, id)
            new == Rewritten(target, r, plan)
        IN  /\ Regenerate(s, id)
            /\ RegenPasses(new, target, plan)
            /\ Splice(new)

Rejects(s) ==
    \E id \in todo, r \in Rewrites :
        LET target == SlideOf(slides, id) IN
        /\ Regenerate(s, id)
        /\ ~RegenPasses(Rewritten(target, r, plan), target, plan)
        /\ UNCHANGED <<slides, rewritten, known, quiet>>

CriticRegen == (Accepts("regen") \/ Rejects("regen")) /\ UNCHANGED applied

\* EditorialSlideRegenError: no slide came back.  Here nothing catches it.
CriticRegenFails ==
    /\ pc = "regen" /\ todo # {} /\ retried
    /\ Goto("raised")
    /\ UNCHANGED <<slides, quizzes, gateVars, repairVars, historyVars>>

\* When nothing could be rewritten there is nothing to judge again.
CriticRegenDone ==
    /\ pc = "regen" /\ todo = {}
    /\ slides' = PostProcessRepaired(slides)
    /\ Goto(IF rewritten # {} THEN "again1"
            ELSE IF standing # {} THEN "entry"
            ELSE "interact")
    /\ UNCHANGED <<quizzes, gateVars, repairVars, historyVars>>

-----------------------------------------------------------------------------
(***************************************************************************)
(* The brain                                                               *)
(***************************************************************************)

\* One more pass over the deck the repair left; without a verdict it is ignored.
BrainEntry ==
    /\ pc = "entry"
    /\ \E v \in Verdicts :
        /\ Reads(v)
        /\ standing' = standing \cup HardStops(v.hits)
    /\ Goto("brain")
    /\ UNCHANGED <<slides, quizzes, gateVars, todo, rewritten, half, attempts, applied>>

\* run_brain_loop with edit_slides forced.  Fixes for slides that are not
\* flagged are skipped; with no fix at all the attempt ends like one of which
\* nothing was applied.
BrainProposes ==
    /\ pc = "brain"
    /\ \E fixes \in SUBSET Flagged(standing) : todo' = fixes
    /\ applied' = FALSE
    /\ Goto("apply")
    /\ UNCHANGED <<slides, quizzes, gateVars, rewritten, half, standing, attempts, historyVars>>

BrainFix ==
    \/ Accepts("apply") /\ applied' = TRUE
    \/ Rejects("apply") /\ UNCHANGED applied

\* Here the EditorialSlideRegenError is caught.
BrainFixFails ==
    /\ retried
    /\ \E id \in todo : Regenerate("apply", id)
    /\ UNCHANGED <<slides, rewritten, applied, known, quiet>>

\* Mutant: the attempt is not counted.
CountAttempt_Forgets == UNCHANGED attempts

CountAttempt == attempts' = attempts + 1

BrainFixesDone ==
    /\ pc = "apply" /\ todo = {}
    /\ IF applied
       THEN /\ slides' = PostProcessRepaired(slides)
            /\ CountAttempt
            /\ Goto("check1")
       ELSE Goto("raised") /\ UNCHANGED <<slides, attempts>>
    /\ UNCHANGED <<quizzes, gateVars, todo, rewritten, half, standing, applied, historyVars>>

\* Mutant: a re-critique without a verdict clears.
Surviving_Unverified(u) == HardStops(u.hits)

\* Only a verdict of both passes replaces what still stands...
Surviving(u) == IF u.ok THEN HardStops(u.hits) ELSE standing

\* Mutant: off by one.
MayTryAgain_OnceMore(u) == u.ok /\ attempts <= MaxAttempts

\* ... without one the brain stops, and so it does after its last attempt.
MayTryAgain(u) == u.ok /\ attempts < MaxAttempts

RecheckAgain ==
    /\ pc = "check2"
    /\ \E v \in Verdicts :
        LET u == Union(v) IN
        /\ Reads(v)
        /\ standing' = Surviving(u)
        /\ Goto(IF standing' = {} THEN "interact"
                ELSE IF MayTryAgain(u) THEN "brain"
                ELSE "raised")
    /\ half' = NoVerdict
    /\ UNCHANGED <<slides, quizzes, gateVars, todo, rewritten, attempts, applied>>

-----------------------------------------------------------------------------
(***************************************************************************)
(* Interactive slides, and the deck                                        *)
(***************************************************************************)

\* Not asked for, none made, or some.
Interact ==
    /\ pc = "interact"
    /\ quizzes' \in SUBSET QuizIds
    /\ Goto("merge")
    /\ UNCHANGED <<slides, gateVars, repairVars, historyVars>>

QuizSlides ==
    LET order == SetToSeq(quizzes) IN [k \in DOMAIN order |-> Slide(order[k], "quiz")]

\* A deck longer than DeckSpec allows is refused by its own validation.
Assemble ==
    /\ pc = "merge"
    /\ slides' = MergeSlides(slides, QuizSlides)
    /\ Goto(IF Len(slides') <= MaxSlides THEN "shipped" ELSE "raised")
    /\ UNCHANGED <<quizzes, gateVars, repairVars, historyVars>>

-----------------------------------------------------------------------------
Work ==
    \/ AsksAgain \/ CallRaises
    \/ Plan \/ PlannerGivesUp \/ Draft \/ Gate \/ Repair
    \/ Critique \/ CriticRegen \/ CriticRegenFails \/ CriticRegenDone
    \/ Rejudge \/ RejudgeAgain
    \/ BrainEntry \/ BrainProposes \/ BrainFix \/ BrainFixFails \/ BrainFixesDone
    \/ Recheck \/ RecheckAgain
    \/ Interact \/ Assemble

Delivered == pc \in Ended /\ UNCHANGED editorialVars

EditorialNext == Work \/ Delivered

-----------------------------------------------------------------------------
(***************************************************************************)
(* Properties                                                              *)
(***************************************************************************)

Shipped == pc = "shipped"

\* "Delivery still requires a clean critic verdict on the full deck, and an
\* unverifiable re-critique never clears a known finding": once any pass of the
\* critic has confirmed an unsupported fact, two passes in a row have read the
\* very deck that ships and confirmed none.  And a confirmed hard stop "on a slide
\* whose regen was REJECTED stands": unless the brain changed the deck, no slide is
\* still the one it was confirmed on, whatever a later pass failed to see.
VerdictIsClean ==
    Shipped =>
        /\ alarmed => quiet = 2
        /\ attempts = 0 => known = {}

\* No planned section is lost, nobody invented or misplaced; a planned figure is
\* missing only where a slide of its section was rewritten after the gate.
PlanIsKept ==
    /\ Uncovered(slides, plan) = {} /\ Offending(slides, plan) = {}
    /\ \A i \in Substituted(slides, plan) :
           \E s \in SlidesOf(slides, i) : s.id \in rewritten

QuizzesCloseSections ==
    \A k \in DOMAIN slides :
        slides[k].type = "quiz" => slides[k + 1].type \in {"quiz", "break"}

\* What the gate and the post-processing established survives every repair, rewrite
\* and splice until a deck ships: the plan is kept, every slide is there once, no
\* divider is hollow, the title opens the deck unless a repair replaced its section,
\* and an interactive slide closes a section (while there are no more of them than
\* breaks).  The emergency deck, which nothing is held against, gets none.
ShippedDeckIsSound ==
    LET breaks == {k \in DOMAIN slides : slides[k].type = "break"} IN
    Shipped =>
        /\ IF emergency THEN quizzes = {} ELSE PlanIsKept
        /\ Cardinality(IdsOf(slides)) = Len(slides)
        /\ \A k \in DOMAIN slides : ~Hollow(slides[k])
        /\ failing = {} => slides[1].type = "title"
        /\ Cardinality(quizzes) <= Cardinality(breaks) => QuizzesCloseSections
=============================================================================
