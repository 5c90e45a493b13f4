----------------------------- MODULE DeckRules -----------------------------
(***************************************************************************)
(* What is decided about a sequence of slides without asking a model: the  *)
(* plan's own checks and the deck-against-plan gate of                     *)
(* packages/presentation/plan_validator.py, the grounding of the critic's  *)
(* proposals in content_critic.py, and the splices and post-processing of  *)
(* editorial.py.                                                           *)
(*                                                                         *)
(* A plan's sections are numbered from 1; a slide's tag is the section its *)
(* section_name names, NoSection for none or a foreign name.  The name is  *)
(* loose when it names the section only after _normalize.  people are the  *)
(* persons a slide portrays (content.people, or a timeline's portraits),   *)
(* facts the checkable tokens it shows, clash says that it contradicts     *)
(* itself (chart against title, title against subject).                    *)
(***************************************************************************)
EXTENDS Naturals, SequencesExt

CONSTANTS Persons, Tokens, Ids, TitleId, TakeawayId, QuizIds

NoSection == 0
Clash == "clash"

ContentTypes == {"title", "break", "gallery", "team", "timeline", "words", "takeaway"}
Dense == {"timeline"}
SparseOpening == {"title", "break", "words"}
RendersPeople == {"gallery", "team"}
Portrays == RendersPeople \cup {"timeline"}

Slide(id, type) ==
    [id |-> id, type |-> type, tag |-> NoSection, loose |-> FALSE, people |-> {},
     thesis |-> FALSE, facts |-> {}, clash |-> FALSE]

Slides ==
    [id : Ids \cup {TitleId, TakeawayId} \cup QuizIds,
     type : ContentTypes \cup {"quiz"}, tag : Nat, loose : BOOLEAN,
     people : SUBSET Persons, thesis : BOOLEAN, facts : SUBSET Tokens, clash : BOOLEAN]

IdsOf(deck) == {deck[k].id : k \in DOMAIN deck}
EachOnce(deck) == \A j, k \in DOMAIN deck : deck[j].id = deck[k].id => j = k
SlideOf(deck, id) == deck[CHOOSE k \in DOMAIN deck : deck[k].id = id]

\* The elements of a sequence that stand at places of S, in their order.
Kept(seq, S) == FlattenSeq([k \in DOMAIN seq |-> IF k \in S THEN <<seq[k]>> ELSE <<>>])

-----------------------------------------------------------------------------
(***************************************************************************)
(* The plan, and the deck against the plan                                 *)
(***************************************************************************)

Sections(plan) == DOMAIN plan.wants

\* P-F1, P-F2 and P-A1, P-A3: no figure from outside the roster, none without a
\* reason, every thesis an argument.
PlanPasses(plan) ==
    /\ \A i \in Sections(plan) : plan.wants[i] \subseteq plan.roster
    /\ plan.justified
    /\ plan.argued

\* _section_index_of compares normalised names, _section_index_for exact ones.
ExactSection(s) == IF s.loose THEN NoSection ELSE s.tag

SlidesOf(deck, i) == {deck[k] : k \in {k \in DOMAIN deck : deck[k].tag = i}}

Uncovered(deck, plan) == {i \in Sections(plan) : SlidesOf(deck, i) = {}}

Missing(deck, plan, i) == plan.wants[i] \ UNION {s.people : s \in SlidesOf(deck, i)}

Substituted(deck, plan) == {i \in Sections(plan) : Missing(deck, plan, i) # {}}

InventsPerson(s, plan) == s.type # "team" /\ ~(s.people \subseteq plan.roster)

Misplaced(s) == s.type \notin Portrays /\ s.people # {}

Offending(deck, plan) ==
    {deck[k] : k \in {k \in DOMAIN deck : InventsPerson(deck[k], plan) \/ Misplaced(deck[k])}}

DeckPasses(deck, plan) ==
    Uncovered(deck, plan) \cup Substituted(deck, plan) = {} /\ Offending(deck, plan) = {}

FailingSections(deck, plan) ==
    (Uncovered(deck, plan) \cup Substituted(deck, plan)
        \cup {s.tag : s \in Offending(deck, plan)}) \ {NoSection}

-----------------------------------------------------------------------------
(***************************************************************************)
(* From the answer of the executor to slides                               *)
(***************************************************************************)

\* A section_index in range wins over the name the model also wrote; people are
\* dropped where no renderer shows them.
Materialised(raw, plan) ==
    LET indexed == raw.index \in Sections(plan) IN
    [id |-> raw.id, type |-> raw.type,
     tag |-> IF indexed THEN raw.index ELSE raw.tag,
     loose |-> ~indexed /\ raw.loose,
     people |-> IF raw.type \in Portrays THEN raw.people ELSE {},
     thesis |-> raw.thesis, facts |-> raw.facts, clash |-> raw.clash]

MaterialisedAll(draft, plan) == [k \in DOMAIN draft |-> Materialised(draft[k], plan)]

Hollow(s) == s.type = "break" /\ ~s.thesis

DropHollowDividers(deck) == Kept(deck, {k \in DOMAIN deck : ~Hollow(deck[k])})

EnsureFirstIsTitle(deck) ==
    IF deck # <<>> /\ deck[1].type = "title" THEN deck
    ELSE <<Slide(TitleId, "title")>> \o deck

\* A dense slide at position 2 or 3 changes places with the first sparse one
\* from position 4 on.
OpenSparsely(deck, slot) ==
    LET later == {j \in 4..Len(deck) : deck[j].type \in SparseOpening \ {"title"}}
        j == Min(later)
    IN  IF deck[slot].type \in Dense /\ later # {}
        THEN [deck EXCEPT ![slot] = deck[j], ![j] = deck[slot]]
        ELSE deck

EnforceDensityArc(deck) ==
    IF Len(deck) < 4 THEN deck ELSE OpenSparsely(OpenSparsely(deck, 2), 3)

EmergencyDeck == <<Slide(TitleId, "title"), Slide(TakeawayId, "takeaway")>>

PostProcess(deck) ==
    IF deck = <<>> THEN EmergencyDeck
    ELSE EnforceDensityArc(EnsureFirstIsTitle(DropHollowDividers(deck)))

PostProcessRepaired(deck) == DropHollowDividers(deck)

-----------------------------------------------------------------------------
(***************************************************************************)
(* Splicing                                                                *)
(***************************************************************************)

OfSection(reps, i) == Kept(reps, {k \in DOMAIN reps : ExactSection(reps[k]) = i})

\* The replacements of a failing section stand where its first slide stood...
ReplacedInPlace(deck, reps, failing) ==
    FlattenSeq([k \in DOMAIN deck |->
        LET i == ExactSection(deck[k]) IN
        IF i \notin failing THEN <<deck[k]>>
        ELSE IF \E j \in 1..(k - 1) : ExactSection(deck[j]) = i THEN <<>>
        ELSE OfSection(reps, i)])

InsertBlock(deck, at, block) == SubSeq(deck, 1, at - 1) \o block \o SubSeq(deck, at, Len(deck))

\* ... or, if it had none, before the first slide of a later section.
InsertSection(deck, reps, i) ==
    LET later == {k \in DOMAIN deck : ExactSection(deck[k]) > i}
        at == IF later = {} THEN Len(deck) + 1 ELSE Min(later)
    IN  InsertBlock(deck, at, OfSection(reps, i))

\* One absent section after the other.
SpliceSections(deck, reps, failing, plan) ==
    LET absent == failing \ {ExactSection(deck[k]) : k \in DOMAIN deck}
        spliced[i \in 0..Len(plan.wants)] ==
            IF i = 0 THEN ReplacedInPlace(deck, reps, failing)
            ELSE IF i \in absent THEN InsertSection(spliced[i - 1], reps, i)
            ELSE spliced[i - 1]
    IN  spliced[Len(plan.wants)]

SpliceSingleSlide(deck, new) ==
    [k \in DOMAIN deck |-> IF deck[k].id = new.id THEN new ELSE deck[k]]

\* Where the section breaks stand.
Breaks(deck) == Kept([k \in DOMAIN deck |-> k], {k \in DOMAIN deck : deck[k].type = "break"})

\* Mutant: the slides already inserted are not counted.
MergeSlides_NoOffset(deck, quizzes) ==
    LET breaks == Breaks(deck)
        merged[k \in 0..Len(quizzes)] ==
            IF k = 0 THEN deck
            ELSE InsertBlock(merged[k - 1], breaks[((k - 1) % Len(breaks)) + 1],
                             <<quizzes[k]>>)
    IN  IF breaks = <<>> THEN deck \o quizzes ELSE merged[Len(quizzes)]

\* Each interactive slide goes where a section break stands, counting the ones
\* already inserted.
MergeSlides(deck, quizzes) ==
    LET breaks == Breaks(deck)
        merged[k \in 0..Len(quizzes)] ==
            IF k = 0 THEN deck
            ELSE InsertBlock(merged[k - 1], breaks[((k - 1) % Len(breaks)) + 1] + (k - 1),
                             <<quizzes[k]>>)
    IN  IF breaks = <<>> THEN deck \o quizzes ELSE merged[Len(quizzes)]

-----------------------------------------------------------------------------
(***************************************************************************)
(* One slide written again, and the critic                                 *)
(***************************************************************************)

\* What a rewrite keeps of its target: the id and the section.
Rewritten(target, r, plan) ==
    [Materialised([r EXCEPT !.id = target.id], plan) EXCEPT
        !.tag = target.tag, !.loose = target.loose]

RegenPasses(new, target, plan) ==
    /\ new.type = target.type
    /\ ~InventsPerson(new, plan) /\ ~Misplaced(new)
    /\ ~Hollow(new)

\* A finding about a handle that is no slide, a token that is not on the slide
\* or one that some claim supports is no FAIL finding.
Grounded(f, deck, claims) ==
    /\ f.handle \in DOMAIN deck
    /\ IF f.token = Clash THEN deck[f.handle].clash
       ELSE f.token \in deck[f.handle].facts \ claims

Failures(proposed, deck, claims) ==
    {[slide |-> deck[f.handle].id, token |-> f.token] :
        f \in {f \in proposed : Grounded(f, deck, claims)}}

\* HARD_STOP_CHECK_IDS: fabrication and unsupported claim; a clash is routable,
\* but no reason to stop.
HardStops(findings) == {f \in findings : f.token # Clash}

Flagged(findings) == {f.slide : f \in findings}
=============================================================================
