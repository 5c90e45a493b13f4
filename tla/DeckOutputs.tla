---------------------------- MODULE DeckOutputs ----------------------------
(***************************************************************************)
(* What becomes of a deck: PresentationOrchestrator's image stage, its save *)
(* of the deck, rendering and upload, in a generation and in an edit        *)
(* (run_full_pipeline, apply_fixes_and_render), with ImagePass.resolve_deck *)
(* and the handlers that deliver.  One project; a deck is which run wrote   *)
(* each slide and which image slots have a url.                            *)
(***************************************************************************)
EXTENDS Naturals, Sequences, FiniteSets, FiniteSetsExt, Functions

CONSTANTS
    Generations, Edits, \* runs
    Fixes,              \* Fixes[e]: the slides edit e fixes, in order
    Requested,          \* Requested[o]: the formats of a run
    ByBot,              \* generations delivered by the bot
    Order,              \* the slides in order, the title hero first
    Figures, People,    \* slides with a figure to generate, with a portrait
    Budget,             \* image_budget_for_package
    Formats,
    NoDeck,
    Overlap             \* may a generation run beside another run?

Runs == Generations \cup Edits
DeckSlides == Range(Order)
Hero == Order[1]

ASSUME OutputsAssumption ==
    /\ Generations \cap Edits = {}
    /\ Fixes \in [Edits -> Seq(DeckSlides) \ {<<>>}]
    /\ Requested \in [Runs -> SUBSET Formats \ {{}}]
    /\ ByBot \subseteq Generations
    /\ Figures \subseteq DeckSlides \ {Hero} /\ People \subseteq DeckSlides
    /\ Budget \in Nat /\ Overlap \in BOOLEAN

Paid == [slide : {Hero}, kind : {"background"}] \cup [slide : Figures, kind : {"figure"}]
Slots == Paid \cup [slide : People, kind : {"portrait"}]
SlotsOf(S) == {i \in Slots : i.slide \in S}

VARIABLES
    saved,              \* the decks row
    stored,             \* the object under each format's stable key
    rows,               \* generated_files: the key, a local path, or no row
    opc,
    work,               \* the deck a run is working on
    pending,               \* fixes still to be applied
    scope,              \* only_slide_ids
    tried,              \* slots the image pass is resolving
    files,              \* rendered files still to be uploaded
    produced,           \* result.by_extension
    \* History:
    behind,             \* formats a run has reported or logged as failed
    lost                \* the last generation could not save its deck

store == <<saved, stored, rows>>
runVars == <<opc, work, pending, scope, tried, files, produced>>
history == <<behind, lost>>
outputVars == <<store, runVars, history>>

Deck == [text : [DeckSlides -> Runs], filled : SUBSET Slots]
Over == {"delivered", "failed", "dead"}
Active == {"regen", "collect", "resolve", "save", "render", "upload", "deliver"}

OutputsTypeOK ==
    /\ saved \in Deck \cup {NoDeck}
    /\ stored \in [Formats -> Deck \cup {NoDeck}]
    /\ rows \in [Formats -> {"none", "key", "local"}]
    /\ opc \in [Runs -> {"new"} \cup Active \cup Over]
    /\ work \in [Runs -> Deck \cup {NoDeck}]
    /\ pending \in [Runs -> Seq(DeckSlides)] /\ scope \in [Runs -> SUBSET DeckSlides]
    /\ tried \in [Runs -> SUBSET Slots]
    /\ files \in [Runs -> SUBSET Formats] /\ produced \in [Runs -> SUBSET Formats]
    /\ behind \subseteq Formats /\ lost \in BOOLEAN

OutputsInit ==
    /\ saved = NoDeck
    /\ stored = [f \in Formats |-> NoDeck] /\ rows = [f \in Formats |-> "none"]
    /\ opc = [o \in Runs |-> "new"] /\ work = [o \in Runs |-> NoDeck]
    /\ pending = [o \in Runs |-> <<>>] /\ scope = [o \in Runs |-> {}]
    /\ tried = [o \in Runs |-> {}]
    /\ files = [o \in Runs |-> {}] /\ produced = [o \in Runs |-> {}]
    /\ behind = Formats /\ lost = FALSE

RunAt(o, s) == opc[o] = s
RunGoto(o, s) == opc' = [opc EXCEPT ![o] = s]
InProgress(o) == opc[o] \in Active

\* Edits of one project wait for its lock; nothing orders a generation with them.
MayStart(o) ==
    \A r \in Runs \ {o} : InProgress(r) => Overlap /\ {o, r} \cap Generations # {}

\* A run is over: what it held in memory is gone.
RunEnds(o, s) ==
    /\ RunGoto(o, s)
    /\ work' = [work EXCEPT ![o] = NoDeck]
    /\ pending' = [pending EXCEPT ![o] = <<>>]
    /\ scope' = [scope EXCEPT ![o] = {}]
    /\ tried' = [tried EXCEPT ![o] = {}]
    /\ files' = [files EXCEPT ![o] = {}]
    /\ produced' = [produced EXCEPT ![o] = {}]

-----------------------------------------------------------------------------
(***************************************************************************)
(* A new deck, or new slides                                               *)
(***************************************************************************)

Generate(o) ==
    /\ o \in Generations /\ RunAt(o, "new") /\ MayStart(o)
    /\ work' = [work EXCEPT ![o] = [text |-> [s \in DeckSlides |-> o], filled |-> {}]]
    /\ scope' = [scope EXCEPT ![o] = DeckSlides]
    /\ RunGoto(o, "collect")
    /\ UNCHANGED <<store, pending, tried, files, produced, history>>

\* The session's deck is the saved one.
StartEdit(o) ==
    /\ o \in Edits /\ RunAt(o, "new") /\ MayStart(o)
    /\ saved # NoDeck
    /\ work' = [work EXCEPT ![o] = saved]
    /\ pending' = [pending EXCEPT ![o] = Fixes[o]]
    /\ RunGoto(o, "regen")
    /\ UNCHANGED <<store, scope, tried, files, produced, history>>

\* Mutant: the whole deck is resolved again.
Scope_Deck(s) == DeckSlides

Scope(s) == {s}

\* A slide that is written again has no url.
RegenerateSlide(o) ==
    /\ RunAt(o, "regen") /\ pending[o] # <<>>
    /\ LET s == Head(pending[o]) IN
        /\ work' = [work EXCEPT ![o].text[s] = o, ![o].filled = @ \ SlotsOf({s})]
        /\ scope' = [scope EXCEPT ![o] = Scope(s)]
    /\ pending' = [pending EXCEPT ![o] = Tail(@)]
    /\ RunGoto(o, "collect")
    /\ UNCHANGED <<store, tried, files, produced, history>>

\* An unknown id, no usable slide, a failed call: nothing has been written.
RegenerationFails(o) ==
    /\ RunAt(o, "regen") /\ pending[o] # <<>>
    /\ RunEnds(o, "failed")
    /\ UNCHANGED <<store, history>>

FixesApplied(o) ==
    /\ RunAt(o, "regen") /\ pending[o] = <<>>
    /\ RunGoto(o, "save")
    /\ UNCHANGED <<store, work, pending, scope, tried, files, produced, history>>

-----------------------------------------------------------------------------
(***************************************************************************)
(* Images                                                                  *)
(***************************************************************************)

\* The slides that claim a generated image, sorted: the hero's scene first.
Claims(wanted) == SelectSeq(Order, LAMBDA s : \E i \in wanted : i.slide = s)

Budgeted(wanted) ==
    {i \in wanted : \E k \in 1..Budget :
        k <= Len(Claims(wanted)) /\ Claims(wanted)[k] = i.slide}

\* _collect: one task for each empty slot in scope, the paid ones up to the budget.
Collect(o) ==
    /\ RunAt(o, "collect")
    /\ LET empty == SlotsOf(scope[o]) \ work[o].filled IN
        tried' = [tried EXCEPT ![o] = (empty \ Paid) \cup Budgeted(empty \cap Paid)]
    /\ RunGoto(o, "resolve")
    /\ UNCHANGED <<store, work, pending, scope, files, produced, history>>

\* Each task writes its url or abstains, the whole stage may fail.
Resolve(o) ==
    /\ RunAt(o, "resolve")
    /\ \E got \in SUBSET tried[o] : work' = [work EXCEPT ![o].filled = @ \cup got]
    /\ scope' = [scope EXCEPT ![o] = {}]
    /\ tried' = [tried EXCEPT ![o] = {}]
    /\ RunGoto(o, IF o \in Edits THEN "regen" ELSE "save")
    /\ UNCHANGED <<store, pending, files, produced, history>>

-----------------------------------------------------------------------------
(***************************************************************************)
(* Save and render                                                         *)
(***************************************************************************)

Save(o) ==
    /\ RunAt(o, "save")
    /\ saved' = work[o]
    /\ lost' = FALSE
    /\ RunGoto(o, "render")
    /\ UNCHANGED <<stored, rows, work, pending, scope, tried, files, produced, behind>>

\* Mutant: an edit goes on without its deck, as a generation does.
SaveFails_GoesOn(o) ==
    /\ RunAt(o, "save")
    /\ lost' = (o \in Generations)
    /\ RunGoto(o, "render")
    /\ UNCHANGED <<store, work, pending, scope, tried, files, produced, behind>>

\* save_deck raises.  A generation delivers all the same, an edit fails before it
\* has rendered anything.
SaveFails(o) ==
    /\ RunAt(o, "save")
    /\ IF o \in Generations
       THEN /\ lost' = TRUE
            /\ RunGoto(o, "render")
            /\ UNCHANGED <<work, pending, scope, tried, files, produced>>
       ELSE RunEnds(o, "failed") /\ UNCHANGED lost
    /\ UNCHANGED <<store, behind>>

\* It raises after the row was written.  The edit reports a failure.
SaveReplyLost(o) ==
    /\ RunAt(o, "save")
    /\ saved' = work[o]
    /\ IF o \in Generations
       THEN /\ RunGoto(o, "render")
            /\ UNCHANGED <<work, pending, scope, tried, files, produced, behind>>
       ELSE RunEnds(o, "failed") /\ behind' = Formats
    /\ lost' = FALSE
    /\ UNCHANGED <<stored, rows>>

\* The worker is not built, or the input cannot be written: the deck is saved,
\* the run fails.
RenderNotPrepared(o) ==
    /\ RunAt(o, "render")
    /\ RunEnds(o, "failed")
    /\ behind' = Formats
    /\ UNCHANGED <<store, lost>>

\* A format that fails is a warning.
Render(o) ==
    /\ RunAt(o, "render")
    /\ \E ok \in SUBSET Requested[o] :
        /\ produced' = [produced EXCEPT ![o] = ok]
        /\ files' = [files EXCEPT ![o] = ok]
        /\ behind' = behind \cup (Requested[o] \ ok)
    /\ RunGoto(o, "upload")
    /\ UNCHANGED <<store, work, pending, scope, tried, lost>>

-----------------------------------------------------------------------------
(***************************************************************************)
(* Upload and deliver                                                      *)
(***************************************************************************)

Handled(o, f) ==
    /\ RunAt(o, "upload") /\ f \in files[o]
    /\ files' = [files EXCEPT ![o] = @ \ {f}]
    /\ UNCHANGED <<saved, opc, work, pending, scope, tried, produced, lost>>

Upload(o, f) ==
    /\ Handled(o, f)
    /\ stored' = [stored EXCEPT ![f] = work[o]]
    /\ rows' = [rows EXCEPT ![f] = "key"]
    /\ behind' = behind \ {f}

\* _register_generated_file swallows the error.
UploadNotRegistered(o, f) ==
    /\ Handled(o, f)
    /\ stored' = [stored EXCEPT ![f] = work[o]]
    /\ behind' = behind \cup {f}
    /\ UNCHANGED rows

\* Mutant: no warning.
UploadFails_Silently(o, f) ==
    /\ Handled(o, f)
    /\ UNCHANGED <<stored, rows, behind>>

UploadFails(o, f) ==
    /\ Handled(o, f)
    /\ behind' = behind \cup {f}
    /\ UNCHANGED <<stored, rows>>

Uploaded(o) ==
    /\ RunAt(o, "upload") /\ files[o] = {}
    /\ IF produced[o] = {}
       THEN RunEnds(o, "failed")
       ELSE /\ RunGoto(o, "deliver")
            /\ UNCHANGED <<work, pending, scope, tried, files, produced>>
    /\ UNCHANGED <<store, history>>

\* The bot inserts a row with its local path, where the project has none yet.
Deliver(o) ==
    /\ RunAt(o, "deliver")
    /\ rows' = [f \in Formats |->
                   IF o \in ByBot \cup Edits /\ f \in produced[o] /\ rows[f] = "none"
                   THEN "local" ELSE rows[f]]
    /\ RunEnds(o, "delivered")
    /\ UNCHANGED <<saved, stored, history>>

\* The process dies.  From the save on, the files it has not stored stay behind.
Dies(o) ==
    /\ InProgress(o)
    /\ RunEnds(o, "dead")
    /\ behind' = IF opc[o] = "render" THEN Formats
                 ELSE IF opc[o] = "upload" THEN behind \cup files[o]
                 ELSE behind
    /\ UNCHANGED <<store, lost>>

-----------------------------------------------------------------------------
RunStep(o) ==
    \/ Generate(o) \/ StartEdit(o)
    \/ RegenerateSlide(o) \/ RegenerationFails(o) \/ FixesApplied(o)
    \/ Collect(o) \/ Resolve(o)
    \/ Save(o) \/ SaveFails(o) \/ SaveReplyLost(o)
    \/ RenderNotPrepared(o) \/ Render(o)
    \/ \E f \in Formats : Upload(o, f) \/ UploadNotRegistered(o, f) \/ UploadFails(o, f)
    \/ Uploaded(o) \/ Deliver(o)
    \/ Dies(o)

Idle == \A o \in Runs : ~InProgress(o)

\* Users may stop asking.
NobodyAsks == Idle /\ UNCHANGED outputVars

OutputsNext == (\E o \in Runs : RunStep(o)) \/ NobodyAsks

-----------------------------------------------------------------------------
(***************************************************************************)
(* Properties                                                              *)
(***************************************************************************)

Shown(f) == IF rows[f] = "key" THEN stored[f] ELSE NoDeck

\* "failing here keeps the DB and the delivered files consistent": when nothing
\* is under way the web shows the saved deck in every format, unless a run
\* reported or logged that the format failed, or died; or a generation could not
\* save its deck, which it alone may survive.
FilesShowTheDeck ==
    Idle /\ saved # NoDeck /\ ~lost =>
        \A f \in Formats \ behind : Shown(f) = saved

\* "leaves every other slide's resolved image untouched": an edit that is saved
\* has changed the slides it was asked to fix and no other, neither their text
\* nor their images, not even the slots that had stayed empty.
EditsTouchOnlyTheirSlides ==
    [][\A o \in Edits : RunAt(o, "save") /\ saved' # saved =>
        \A s \in DeckSlides \ Range(Fixes[o]) :
            /\ saved'.text[s] = saved.text[s]
            /\ saved'.filled \cap SlotsOf({s}) = saved.filled \cap SlotsOf({s})]_outputVars
=============================================================================
