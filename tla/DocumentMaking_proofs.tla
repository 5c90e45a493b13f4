------------------------ MODULE DocumentMaking_proofs ------------------------
(***************************************************************************)
(* Proofs about the machines behind one generation, for every deck, slide, *)
(* run, turn and file, whatever the models and services answer.            *)
(***************************************************************************)
EXTENDS DocumentMaking, SequenceTheorems, FiniteSetTheorems, WellFoundedInduction, TLAPS

(***************************************************************************)
(* What becomes of a deck.  Runs that follow each other ask for the same   *)
(* formats: the bot always for both, the web names none, and an edit gives *)
(* "the same set it originally delivered".                                 *)
(***************************************************************************)
OneAfterAnother == Overlap = FALSE
SameFormats == \A o \in Runs : Requested[o] = Formats

\* A run under way has a deck, a new one nothing yet.
HeldInv ==
    \A o \in Runs :
        /\ InProgress(o) => work[o] \in Deck
        /\ RunAt(o, "new") => scope[o] = {} /\ tried[o] = {}

AloneInv == \A o, r \in Runs : InProgress(o) /\ InProgress(r) => o = r

\* What is saved is shown, or known to be behind.
UpToDate(f) == saved # NoDeck /\ ~lost /\ f \notin behind => Shown(f) = saved

\* Between a save and the last upload of its run, that run still holds what it saved,
\* and only the files it has yet to upload may be out of date.
ShowsInv ==
    /\ \A o \in Runs : RunAt(o, "render") \/ RunAt(o, "upload") => lost \/ saved = work[o]
    /\ (\A o \in Runs : ~RunAt(o, "render") /\ ~RunAt(o, "upload")) =>
        \A f \in Formats : UpToDate(f)
    /\ \A o \in Runs : RunAt(o, "upload") => \A f \in Formats \ files[o] : UpToDate(f)

\* An edit works on the saved deck, and only where it was asked to.
Untouched(o, s) ==
    /\ work[o].text[s] = saved.text[s]
    /\ work[o].filled \cap SlotsOf({s}) = saved.filled \cap SlotsOf({s})

StaysWithin(o) ==
    /\ saved # NoDeck
    /\ \A k \in DOMAIN pending[o] : pending[o][k] \in Range(Fixes[o])
    /\ scope[o] \subseteq Range(Fixes[o])
    /\ tried[o] \subseteq SlotsOf(Range(Fixes[o]))
    /\ \A s \in DeckSlides \ Range(Fixes[o]) : Untouched(o, s)

Editing == {"regen", "collect", "resolve", "save"}
ScopeInv == \A o \in Edits : opc[o] \in Editing => StaysWithin(o)

RunsInv == OutputsTypeOK /\ HeldInv /\ AloneInv /\ ScopeInv
OutputsInv == RunsInv /\ ShowsInv

LEMMA OutputsStart == ASSUME OutputsInit PROVE OutputsInv
<1>1. OutputsTypeOK
  BY EmptySeq DEF OutputsInit, OutputsTypeOK
<1>2. HeldInv /\ AloneInv /\ ScopeInv
  BY DEF OutputsInit, HeldInv, AloneInv, ScopeInv, Editing, InProgress, Active, Runs,
         RunAt
<1>3. ShowsInv
  BY DEF OutputsInit, ShowsInv, UpToDate, RunAt
<1>. QED
  BY <1>1, <1>2, <1>3 DEF OutputsInv, RunsInv

\* A run that is over holds nothing.
LEMMA EndTypes ==
    ASSUME OutputsTypeOK, NEW o \in Runs, NEW s \in Over, RunEnds(o, s)
    PROVE  /\ opc' \in [Runs -> {"new"} \cup Active \cup Over]
           /\ work' \in [Runs -> Deck \cup {NoDeck}]
           /\ pending' \in [Runs -> Seq(DeckSlides)] /\ scope' \in [Runs -> SUBSET DeckSlides]
           /\ tried' \in [Runs -> SUBSET Slots]
           /\ files' \in [Runs -> SUBSET Formats] /\ produced' \in [Runs -> SUBSET Formats]
BY EmptySeq DEF RunEnds, RunGoto, OutputsTypeOK

\* Where a run goes.
LEMMA GoTypes ==
    ASSUME OutputsTypeOK, NEW o \in Runs, NEW s \in Active, RunGoto(o, s)
    PROVE  opc' \in [Runs -> {"new"} \cup Active \cup Over]
BY DEF RunGoto, OutputsTypeOK

LEMMA OutputsTypeStep ==
    ASSUME OutputsTypeOK, HeldInv, NEW o \in Runs, RunStep(o)
    PROVE  OutputsTypeOK'
<1>. USE DEF store, history
<1>1. CASE Generate(o)
  <2>1. [text |-> [s \in DeckSlides |-> o], filled |-> {}] \in Deck
    BY DEF Deck
  <2>2. RunGoto(o, "collect") /\ "collect" \in Active
    BY <1>1 DEF Generate, Active
  <2>. QED
    BY <1>1, <2>1, <2>2, GoTypes DEF Generate, OutputsTypeOK
<1>2. CASE StartEdit(o)
  <2>1. Fixes[o] \in Seq(DeckSlides)
    BY <1>2, OutputsAssumption DEF StartEdit
  <2>2. RunGoto(o, "regen") /\ "regen" \in Active
    BY <1>2 DEF StartEdit, Active
  <2>. QED
    BY <1>2, <2>1, <2>2, GoTypes DEF StartEdit, OutputsTypeOK
<1>3. CASE RegenerateSlide(o)
  <2>1. pending[o] \in Seq(DeckSlides) /\ pending[o] # <<>>
    BY <1>3 DEF RegenerateSlide, OutputsTypeOK
  <2>2. Head(pending[o]) \in DeckSlides /\ Tail(pending[o]) \in Seq(DeckSlides)
    BY <2>1, HeadTailProperties
  <2>3. RunGoto(o, "collect") /\ "collect" \in Active
    BY <1>3 DEF RegenerateSlide, Active
  <2>6. work[o] \in Deck
    BY <1>3 DEF RegenerateSlide, RunAt, HeldInv, InProgress, Active
  <2>4. ASSUME NEW s \in DeckSlides
        PROVE  [work EXCEPT ![o].text[s] = o, ![o].filled = @ \ SlotsOf({s})]
                   \in [Runs -> Deck \cup {NoDeck}]
    <3>. DEFINE new == [work[o] EXCEPT !.text[s] = o, !.filled = @ \ SlotsOf({s})]
    <3>1. new \in Deck
      BY <2>6 DEF Deck
    <3>2. [work EXCEPT ![o].text[s] = o, ![o].filled = @ \ SlotsOf({s})] = [work EXCEPT ![o] = new]
      BY DEF OutputsTypeOK
    <3>. QED
      BY <3>1, <3>2 DEF OutputsTypeOK
  <2>5. work' \in [Runs -> Deck \cup {NoDeck}]
    BY <1>3, <2>2, <2>4 DEF RegenerateSlide, OutputsTypeOK
  <2>. QED
    BY <1>3, <2>2, <2>3, <2>5, GoTypes DEF RegenerateSlide, Scope, OutputsTypeOK
<1>4. CASE RegenerationFails(o)
  BY <1>4, EndTypes DEF RegenerationFails, Over, OutputsTypeOK
<1>5. CASE FixesApplied(o)
  BY <1>5, GoTypes DEF FixesApplied, Active, OutputsTypeOK
<1>6. CASE Collect(o)
  BY <1>6, GoTypes DEF Collect, Active, OutputsTypeOK, SlotsOf, Budgeted
<1>7. CASE Resolve(o)
  <2>1. PICK got \in SUBSET tried[o] : work' = [work EXCEPT ![o].filled = @ \cup got]
    BY <1>7 DEF Resolve
  <2>2. work' \in [Runs -> Deck \cup {NoDeck}]
    <3>1. work[o] \in Deck /\ got \subseteq Slots
      BY <1>7, <2>1 DEF Resolve, RunAt, HeldInv, InProgress, Active, OutputsTypeOK
    <3>2. [work[o] EXCEPT !.filled = @ \cup got] \in Deck
      BY <3>1 DEF Deck
    <3>. QED
      BY <2>1, <3>2 DEF OutputsTypeOK
  <2>. QED
    BY <1>7, <2>2, GoTypes DEF Resolve, Active, OutputsTypeOK
<1>8. CASE Save(o)
  BY <1>8, GoTypes DEF Save, Active, OutputsTypeOK
<1>9. CASE SaveFails(o)
  BY <1>9, GoTypes, EndTypes DEF SaveFails, Active, Over, OutputsTypeOK
<1>10. CASE SaveReplyLost(o)
  BY <1>10, GoTypes, EndTypes DEF SaveReplyLost, Active, Over, OutputsTypeOK
<1>11. CASE RenderNotPrepared(o)
  BY <1>11, EndTypes DEF RenderNotPrepared, Over, OutputsTypeOK
<1>12. CASE Render(o)
  <2>1. Requested[o] \subseteq Formats
    BY OutputsAssumption
  <2>. QED
    BY <1>12, <2>1, GoTypes DEF Render, Active, OutputsTypeOK
<1>13. ASSUME NEW f \in Formats, Upload(o, f) \/ UploadNotRegistered(o, f) \/ UploadFails(o, f)
       PROVE  OutputsTypeOK'
  BY <1>13 DEF Upload, UploadNotRegistered, UploadFails, Handled, OutputsTypeOK
<1>14. CASE Uploaded(o)
  BY <1>14, GoTypes, EndTypes DEF Uploaded, Active, Over, OutputsTypeOK
<1>15. CASE Deliver(o)
  BY <1>15, EndTypes DEF Deliver, Over, OutputsTypeOK
<1>16. CASE Dies(o)
  BY <1>16, EndTypes DEF Dies, Over, OutputsTypeOK
<1>. QED
  BY <1>1, <1>2, <1>3, <1>4, <1>5, <1>6, <1>7, <1>8, <1>9, <1>10, <1>11, <1>12, <1>13,
     <1>14, <1>15, <1>16 DEF RunStep

\* How a run moves: it ends, or goes from one stage to another; the others rest.
Others(o) ==
    \A r \in Runs \ {o} :
        /\ opc'[r] = opc[r] /\ work'[r] = work[r] /\ pending'[r] = pending[r]
        /\ scope'[r] = scope[r] /\ tried'[r] = tried[r] /\ files'[r] = files[r]

LEMMA RunMoves ==
    ASSUME OutputsTypeOK, HeldInv, NEW o \in Runs, RunStep(o)
    PROVE  /\ Others(o)
           /\ ~InProgress(o) => MayStart(o)
           /\ InProgress(o)' => work'[o] \in Deck
<1>. USE DEF store, history, Others
<1>1. ASSUME NEW s \in Over, RunEnds(o, s)
      PROVE  Others(o) /\ ~InProgress(o)'
  BY <1>1 DEF RunEnds, RunGoto, OutputsTypeOK, InProgress, Over, Active
<1>2. ASSUME NEW s \in Active, RunGoto(o, s), UNCHANGED <<work, pending, scope, tried, files>>,
             InProgress(o)
      PROVE  Others(o) /\ work'[o] \in Deck
  BY <1>2 DEF RunGoto, OutputsTypeOK, HeldInv
<1>3. CASE Generate(o)
  BY <1>3 DEF Generate, RunGoto, OutputsTypeOK, Deck, InProgress
<1>4. CASE StartEdit(o)
  BY <1>4 DEF StartEdit, RunGoto, OutputsTypeOK, InProgress
<1>5. CASE RegenerateSlide(o)
  <2>1. Others(o) /\ InProgress(o)
    BY <1>5 DEF RegenerateSlide, RunGoto, RunAt, OutputsTypeOK, InProgress, Active
  <2>2. work'[o] \in Deck
    <3>1. pending[o] \in Seq(DeckSlides) /\ pending[o] # <<>>
      BY <1>5 DEF RegenerateSlide, OutputsTypeOK
    <3>2. PICK s : s = Head(pending[o]) /\ s \in DeckSlides
      BY <3>1, HeadTailProperties
    <3>3. work'[o] = [work[o] EXCEPT !.text[s] = o, !.filled = @ \ SlotsOf({s})]
      BY <1>5, <3>2 DEF RegenerateSlide, OutputsTypeOK
    <3>4. work[o] \in Deck
      BY <2>1 DEF HeldInv
    <3>5. work'[o] = [work[o] EXCEPT !.text = [@ EXCEPT ![s] = o], !.filled = @ \ SlotsOf({s})]
      BY <3>3, <3>4 DEF Deck
    <3>6. [work[o].text EXCEPT ![s] = o] \in [DeckSlides -> Runs]
      BY <3>4 DEF Deck
    <3>. QED
      BY <3>4, <3>5, <3>6 DEF Deck
  <2>. QED
    BY <2>1, <2>2
<1>6. CASE RegenerationFails(o)
  BY <1>1, <1>6 DEF RegenerationFails, Over, RunAt, InProgress, Active
<1>7. CASE FixesApplied(o)
  BY <1>2, <1>7 DEF FixesApplied, RunAt, InProgress, Active
<1>8. CASE Collect(o)
  BY <1>8 DEF Collect, RunAt, RunGoto, InProgress, Active, OutputsTypeOK, HeldInv
<1>9. CASE Resolve(o)
  <2>1. PICK got \in SUBSET tried[o] : work' = [work EXCEPT ![o].filled = @ \cup got]
    BY <1>9 DEF Resolve
  <2>2. Others(o) /\ InProgress(o)
    BY <1>9, <2>1 DEF Resolve, RunAt, RunGoto, InProgress, Active, OutputsTypeOK
  <2>3. got \subseteq Slots /\ work[o] \in Deck
    BY <2>1, <2>2 DEF OutputsTypeOK, HeldInv
  <2>4. work'[o] = [work[o] EXCEPT !.filled = @ \cup got]
    BY <2>1 DEF OutputsTypeOK
  <2>. QED
    BY <2>2, <2>3, <2>4 DEF Deck
<1>10. CASE Save(o) \/ RenderNotPrepared(o) \/ Uploaded(o) \/ Deliver(o) \/ Dies(o)
  BY <1>1, <1>2, <1>10 DEF Save, RenderNotPrepared, Uploaded, Deliver, Dies, RunAt, InProgress, Active, Over
<1>11. CASE SaveFails(o) \/ SaveReplyLost(o)
  BY <1>1, <1>2, <1>11 DEF SaveFails, SaveReplyLost, RunAt, InProgress, Active, Over
<1>12. CASE Render(o)
  BY <1>12 DEF Render, RunAt, RunGoto, InProgress, Active, OutputsTypeOK, HeldInv
<1>13. ASSUME NEW f \in Formats, Upload(o, f) \/ UploadNotRegistered(o, f) \/ UploadFails(o, f)
       PROVE  Others(o) /\ InProgress(o) /\ work'[o] \in Deck
  BY <1>13 DEF Upload, UploadNotRegistered, UploadFails, Handled, RunAt, InProgress, Active,
         OutputsTypeOK, HeldInv
<1>. QED
  BY <1>3, <1>4, <1>5, <1>6, <1>7, <1>8, <1>9, <1>10, <1>11, <1>12, <1>13 DEF RunStep, InProgress

LEMMA LeavesNew ==
    ASSUME OutputsTypeOK, NEW o \in Runs, RunStep(o)
    PROVE  opc'[o] # "new"
<1>1. /\ \A s : RunGoto(o, s) => opc'[o] = s
      /\ \A s : RunEnds(o, s) => opc'[o] = s
  BY DEF RunGoto, RunEnds, OutputsTypeOK
<1>2. CASE \E f \in Formats : Upload(o, f) \/ UploadNotRegistered(o, f) \/ UploadFails(o, f)
  BY <1>2 DEF Upload, UploadNotRegistered, UploadFails, Handled, RunAt
<1>. QED
  BY <1>1, <1>2 DEF RunStep, Generate, StartEdit, RegenerateSlide, FixesApplied, RegenerationFails,
     Collect, Resolve, Save, SaveFails, SaveReplyLost, RenderNotPrepared, Render, Uploaded, Deliver,
     Dies

LEMMA AloneStep ==
    ASSUME OneAfterAnother, OutputsTypeOK, HeldInv, AloneInv, NEW o \in Runs, RunStep(o)
    PROVE  /\ HeldInv' /\ AloneInv'
           /\ \A r \in Runs \ {o} : ~InProgress(r) /\ opc'[r] = opc[r]
<1>1. \A r \in Runs \ {o} : ~InProgress(r)
  BY RunMoves DEF AloneInv, MayStart, OneAfterAnother
<1>2. \A r \in Runs \ {o} : ~InProgress(r)' /\ opc'[r] = opc[r]
  BY <1>1, RunMoves DEF Others, InProgress
<1>. QED
  BY <1>1, <1>2, RunMoves, LeavesNew DEF AloneInv, HeldInv, Others, RunAt

LEMMA ShowsFor ==
    ASSUME OneAfterAnother, OutputsInv, NEW o \in Runs, RunStep(o),
           opc'[o] \in {"render", "upload"} => lost' \/ saved' = work'[o],
           opc'[o] \notin {"render", "upload"} => \A f \in Formats : UpToDate(f)',
           opc'[o] = "upload" => \A f \in Formats \ files'[o] : UpToDate(f)'
    PROVE  ShowsInv'
<1>1. \A r \in Runs \ {o} : opc'[r] \notin {"render", "upload"}
  BY AloneStep DEF OutputsInv, RunsInv, InProgress, Active
<1>. QED
  BY <1>1 DEF ShowsInv, RunAt

\* What a step needs of the state before it.
LEMMA ShownBefore ==
    ASSUME OneAfterAnother, OutputsInv, NEW o \in Runs, RunStep(o)
    PROVE  /\ opc[o] \in {"render", "upload"} => lost \/ saved = work[o]
           /\ opc[o] \notin {"render", "upload"} => \A f \in Formats : UpToDate(f)
           /\ opc[o] = "upload" => \A f \in Formats \ files[o] : UpToDate(f)
<1>1. \A r \in Runs \ {o} : opc[r] \notin {"render", "upload"}
  BY AloneStep DEF OutputsInv, RunsInv, InProgress, Active
<1>. QED
  BY <1>1 DEF OutputsInv, ShowsInv, RunAt

LEMMA ShowsStep ==
    ASSUME OneAfterAnother, SameFormats, OutputsInv, NEW o \in Runs, RunStep(o)
    PROVE  ShowsInv'
<1>. USE ShownBefore, ShowsFor DEF store, history
<1>0. /\ \A s : RunGoto(o, s) => opc'[o] = s
      /\ \A s : RunEnds(o, s) => opc'[o] = s
  BY DEF RunGoto, RunEnds, OutputsInv, RunsInv, OutputsTypeOK
<1>1. CASE Generate(o) \/ StartEdit(o) \/ RegenerateSlide(o) \/ FixesApplied(o)
           \/ RegenerationFails(o) \/ Collect(o) \/ Resolve(o)
  <2>1. UNCHANGED <<store, history>> /\ opc[o] \notin {"render", "upload"}
    BY <1>1 DEF Generate, StartEdit, RegenerateSlide, FixesApplied, RegenerationFails, Collect,
           Resolve, RunAt
  <2>2. opc'[o] \in {"collect", "regen", "save", "failed", "resolve"}
    BY <1>0, <1>1 DEF Generate, StartEdit, RegenerateSlide, FixesApplied, RegenerationFails,
           Collect, Resolve
  <2>. QED
    BY <2>1, <2>2 DEF UpToDate, Shown
<1>2. CASE Save(o)
  BY <1>0, <1>2 DEF Save
<1>3. CASE SaveFails(o)
  <2>1. CASE o \in Generations
    BY <1>0, <1>3, <2>1 DEF SaveFails
  <2>2. CASE o \notin Generations
    BY <1>0, <1>3, <2>2 DEF SaveFails, RunAt, UpToDate, Shown
  <2>. QED
    BY <2>1, <2>2
<1>4. CASE SaveReplyLost(o)
  <2>1. CASE o \in Generations
    BY <1>0, <1>4, <2>1 DEF SaveReplyLost
  <2>2. CASE o \notin Generations
    BY <1>0, <1>4, <2>2 DEF SaveReplyLost, UpToDate
  <2>. QED
    BY <2>1, <2>2
<1>5. CASE RenderNotPrepared(o)
  BY <1>0, <1>5 DEF RenderNotPrepared, UpToDate
<1>6. CASE Render(o)
  <2>1. PICK ok \in SUBSET Requested[o] :
            files' = [files EXCEPT ![o] = ok] /\ behind' = behind \cup (Requested[o] \ ok)
    BY <1>6 DEF Render
  <2>2. Requested[o] = Formats /\ files'[o] = ok
    BY <2>1 DEF SameFormats, OutputsInv, RunsInv, OutputsTypeOK
  <2>. QED
    BY <1>0, <1>6, <2>1, <2>2 DEF Render, RunAt, UpToDate
<1>7. ASSUME NEW f \in Formats, Upload(o, f) \/ UploadNotRegistered(o, f) \/ UploadFails(o, f)
      PROVE  ShowsInv'
  <2>1. /\ opc[o] = "upload" /\ UNCHANGED <<saved, opc, work, lost>>
        /\ files'[o] = files[o] \ {f} /\ f \in files[o]
    BY <1>7 DEF Upload, UploadNotRegistered, UploadFails, Handled, RunAt, OutputsInv, RunsInv, OutputsTypeOK
  <2>2. lost \/ saved = work[o]
    BY <2>1
  <2>3. ASSUME NEW g \in Formats \ files'[o] PROVE UpToDate(g)'
    <3>1. CASE g # f
      BY <1>7, <2>1, <2>3, <3>1 DEF Upload, UploadNotRegistered, UploadFails, UpToDate, Shown,
             OutputsInv, RunsInv, OutputsTypeOK
    <3>2. CASE g = f
      BY <1>7, <2>1, <2>2, <3>2 DEF Upload, UploadNotRegistered, UploadFails, UpToDate, Shown,
             OutputsInv, RunsInv, OutputsTypeOK
    <3>. QED
      BY <3>1, <3>2
  <2>. QED
    BY <2>1, <2>2, <2>3
<1>8. CASE Uploaded(o)
  <2>1. UNCHANGED <<store, history>> /\ opc[o] = "upload" /\ files[o] = {}
    BY <1>8 DEF Uploaded, RunAt
  <2>2. opc'[o] \in {"failed", "deliver"}
    BY <1>0, <1>8 DEF Uploaded
  <2>. QED
    BY <2>1, <2>2 DEF UpToDate, Shown
<1>9. CASE Deliver(o)
  <2>1. opc[o] = "deliver" /\ opc'[o] = "delivered" /\ UNCHANGED <<saved, stored, history>>
    BY <1>0, <1>9 DEF Deliver, RunAt
  <2>2. ASSUME NEW f \in Formats PROVE rows[f] = "key" <=> rows'[f] = "key"
    BY <1>9 DEF Deliver, OutputsInv, RunsInv, OutputsTypeOK
  <2>. QED
    BY <2>1, <2>2 DEF UpToDate, Shown
<1>10. CASE Dies(o)
  <2>1. UNCHANGED <<store, lost>> /\ opc'[o] = "dead"
    BY <1>0, <1>10 DEF Dies
  <2>2. CASE opc[o] = "render"
    BY <1>10, <2>1, <2>2 DEF Dies, UpToDate
  <2>3. CASE opc[o] = "upload"
    BY <1>10, <2>1, <2>3 DEF Dies, UpToDate, Shown
  <2>4. CASE opc[o] \notin {"render", "upload"}
    BY <1>10, <2>1, <2>4 DEF Dies, UpToDate, Shown
  <2>. QED
    BY <2>2, <2>3, <2>4
<1>. QED
  BY <1>1, <1>2, <1>3, <1>4, <1>5, <1>6, <1>7, <1>8, <1>9, <1>10 DEF RunStep

LEMMA ScopeStep ==
    ASSUME OneAfterAnother, RunsInv, NEW o \in Runs, RunStep(o)
    PROVE  ScopeInv'
<1>. USE DEF store, history
<1>1. \A r \in Runs \ {o} : opc'[r] \notin Editing
  BY AloneStep DEF RunsInv, InProgress, Active, Editing
<1>2. SUFFICES ASSUME o \in Edits, opc'[o] \in Editing
               PROVE  StaysWithin(o)'
  BY <1>1 DEF ScopeInv, Runs
<1>0. /\ \A s : RunGoto(o, s) => opc'[o] = s
      /\ \A s : RunEnds(o, s) => opc'[o] = s
  BY DEF RunGoto, RunEnds, RunsInv, OutputsTypeOK
<1>3. o \notin Generations
  BY <1>2, OutputsAssumption
<1>4. opc[o] \in Editing => StaysWithin(o)
  BY <1>2 DEF RunsInv, ScopeInv
<1>5. CASE StartEdit(o)
  <2>1. /\ saved # NoDeck /\ saved' = saved /\ work'[o] = saved
        /\ pending'[o] = Fixes[o] /\ scope'[o] = scope[o] /\ tried'[o] = tried[o]
    BY <1>5 DEF StartEdit, RunsInv, OutputsTypeOK
  <2>2. scope[o] = {} /\ tried[o] = {}
    BY <1>5 DEF StartEdit, RunsInv, HeldInv
  <2>3. \A k \in DOMAIN Fixes[o] : Fixes[o][k] \in Range(Fixes[o])
    BY DEF Range
  <2>. QED
    BY <2>1, <2>2, <2>3 DEF StaysWithin, Untouched
<1>6. CASE RegenerateSlide(o)
  <2>. DEFINE s == Head(pending[o])
  <2>1. StaysWithin(o) /\ pending[o] \in Seq(DeckSlides) /\ pending[o] # <<>>
    BY <1>4, <1>6 DEF RegenerateSlide, RunAt, Editing, RunsInv, OutputsTypeOK
  <2>2. /\ s \in DeckSlides /\ s = pending[o][1] /\ 1 \in DOMAIN pending[o]
        /\ \A k \in DOMAIN Tail(pending[o]) :
            Tail(pending[o])[k] = pending[o][k + 1] /\ k + 1 \in DOMAIN pending[o]
    BY <2>1
  <2>3. s \in Range(Fixes[o])
    BY <2>1, <2>2 DEF StaysWithin
  <2>4. work[o] \in Deck
    BY <1>6 DEF RegenerateSlide, RunsInv, HeldInv, RunAt, InProgress, Active
  <2>5. /\ work'[o].text = [work[o].text EXCEPT ![s] = o]
        /\ work'[o].filled = work[o].filled \ SlotsOf({s})
        /\ saved' = saved /\ pending'[o] = Tail(pending[o]) /\ scope'[o] = {s} /\ tried'[o] = tried[o]
    BY <1>6, <2>4 DEF RegenerateSlide, Scope, RunsInv, OutputsTypeOK, Deck
  <2>6. ASSUME NEW r \in DeckSlides \ Range(Fixes[o]) PROVE Untouched(o, r)'
    <3>1. r # s /\ Untouched(o, r)
      BY <2>1, <2>3, <2>6 DEF StaysWithin
    <3>2. work'[o].text[r] = work[o].text[r]
      BY <2>4, <2>5, <3>1 DEF Deck
    <3>3. work'[o].filled \cap SlotsOf({r}) = work[o].filled \cap SlotsOf({r})
      BY <2>5, <3>1 DEF SlotsOf
    <3>. QED
      BY <2>5, <3>1, <3>2, <3>3 DEF Untouched
  <2>7. \A k \in DOMAIN pending'[o] : pending'[o][k] \in Range(Fixes[o])
    BY <2>1, <2>2, <2>5 DEF StaysWithin
  <2>. QED
    BY <2>1, <2>3, <2>5, <2>6, <2>7 DEF StaysWithin
<1>7. CASE FixesApplied(o)
  BY <1>4, <1>7 DEF FixesApplied, RunAt, Editing, StaysWithin, Untouched
<1>8. CASE Collect(o)
  <2>1. StaysWithin(o) /\ UNCHANGED <<saved, work, pending, scope>>
    BY <1>4, <1>8 DEF Collect, RunAt, Editing
  <2>2. tried'[o] \subseteq SlotsOf(scope[o])
    BY <1>8 DEF Collect, Budgeted, RunsInv, OutputsTypeOK
  <2>3. tried'[o] \subseteq SlotsOf(Range(Fixes[o]))
    BY <2>1, <2>2 DEF StaysWithin, SlotsOf
  <2>. QED
    BY <2>1, <2>3 DEF StaysWithin, Untouched
<1>9. CASE Resolve(o)
  <2>1. PICK got \in SUBSET tried[o] : work' = [work EXCEPT ![o].filled = @ \cup got]
    BY <1>9 DEF Resolve
  <2>2. work[o] \in Deck /\ StaysWithin(o)
    BY <1>4, <1>9 DEF Resolve, RunAt, Editing, RunsInv, HeldInv, InProgress, Active
  <2>3. work'[o].text = work[o].text /\ work'[o].filled = work[o].filled \cup got
    BY <2>1, <2>2 DEF RunsInv, OutputsTypeOK, Deck
  <2>4. ASSUME NEW r \in DeckSlides \ Range(Fixes[o]) PROVE Untouched(o, r)'
    <3>1. Untouched(o, r) /\ got \cap SlotsOf({r}) = {}
      BY <2>1, <2>2, <2>4 DEF StaysWithin, SlotsOf
    <3>. QED
      BY <1>9, <2>3, <3>1 DEF Resolve, Untouched
  <2>5. saved' = saved /\ pending' = pending /\ scope'[o] = {} /\ tried'[o] = {}
    BY <1>9 DEF Resolve, RunsInv, OutputsTypeOK
  <2>. QED
    BY <2>2, <2>4, <2>5 DEF StaysWithin
<1>10. CASE RegenerationFails(o) \/ Save(o) \/ SaveFails(o) \/ SaveReplyLost(o)
            \/ RenderNotPrepared(o) \/ Render(o) \/ Uploaded(o) \/ Deliver(o) \/ Dies(o)
  <2>1. opc'[o] \in {"failed", "render", "upload", "deliver", "delivered", "dead"}
    BY <1>0, <1>10 DEF RegenerationFails, Save, SaveFails, SaveReplyLost, RenderNotPrepared, Render,
           Uploaded, Deliver, Dies
  <2>. QED
    BY <1>2, <2>1 DEF Editing
<1>11. ASSUME NEW f \in Formats, Upload(o, f) \/ UploadNotRegistered(o, f) \/ UploadFails(o, f)
       PROVE  FALSE
  BY <1>2, <1>11 DEF Upload, UploadNotRegistered, UploadFails, Handled, RunAt, Editing
<1>12. CASE Generate(o)
  BY <1>3, <1>12 DEF Generate
<1>. QED
  BY <1>5, <1>6, <1>7, <1>8, <1>9, <1>10, <1>11, <1>12 DEF RunStep

(***************************************************************************)
(* In DocumentMaking.                                                      *)
(***************************************************************************)
LEMMA OutputsNextMoves ==
    ASSUME [Next]_vars
    PROVE  (\E o \in Runs : RunStep(o)) \/ UNCHANGED outputVars
BY DEF Next, vars, deckVars, InSources, InEditorial, InOutputs, InImages, InTurns, InDeck,
   InInterview, InSuggestions, InArticle, InText, OutputsNext, NobodyAsks

LEMMA RunsStep ==
    ASSUME OneAfterAnother, RunsInv, [Next]_vars
    PROVE  RunsInv'
<1>1. ASSUME NEW o \in Runs, RunStep(o) PROVE RunsInv'
  BY <1>1, OutputsTypeStep, AloneStep, ScopeStep DEF RunsInv
<1>2. CASE UNCHANGED outputVars
  BY <1>2 DEF outputVars, store, runVars, history, RunsInv, OutputsTypeOK, HeldInv, AloneInv,
     ScopeInv, StaysWithin, Untouched, InProgress, RunAt
<1>. QED
  BY <1>1, <1>2, OutputsNextMoves

LEMMA OutputsStep ==
    ASSUME OneAfterAnother, SameFormats, OutputsInv, [Next]_vars
    PROVE  OutputsInv'
<1>1. RunsInv'
  BY RunsStep DEF OutputsInv
<1>2. ASSUME NEW o \in Runs, RunStep(o) PROVE ShowsInv'
  BY <1>2, ShowsStep
<1>3. ASSUME UNCHANGED outputVars PROVE ShowsInv'
  <2>1. UNCHANGED <<saved, stored, rows, behind, lost, opc, work, files>>
    BY <1>3 DEF outputVars, store, runVars, history
  <2>2. \A f \in Formats : UpToDate(f) <=> UpToDate(f)'
    BY <2>1 DEF UpToDate, Shown
  <2>. QED
    BY <2>1, <2>2 DEF OutputsInv, ShowsInv, RunAt
<1>. QED
  BY <1>1, <1>2, <1>3, OutputsNextMoves DEF OutputsInv

\* Where runs of a project follow each other and ask for the same formats, what
\* PresentationOrchestrator saves, renders and uploads agrees: at rest the web
\* shows the saved deck in every format that is not known to be behind.
THEOREM FilesAgree == ASSUME OneAfterAnother, SameFormats PROVE Spec => []FilesShowTheDeck
<1>1. Init => OutputsInv
  BY OutputsStart DEF Init
<1>2. OutputsInv /\ [Next]_vars => OutputsInv'
  BY OutputsStep
<1>3. OutputsInv => FilesShowTheDeck
  BY DEF OutputsInv, ShowsInv, FilesShowTheDeck, UpToDate, Idle, InProgress, RunAt, Active
<1>. QED
  BY <1>1, <1>2, <1>3, PTL DEF Spec

LEMMA SavesItsOwn ==
    ASSUME OneAfterAnother, RunsInv, NEW r \in Runs, RunStep(r),
           NEW o \in Edits, RunAt(o, "save"), saved' # saved
    PROVE  \A s \in DeckSlides \ Range(Fixes[o]) :
            /\ saved'.text[s] = saved.text[s]
            /\ saved'.filled \cap SlotsOf({s}) = saved.filled \cap SlotsOf({s})
<1>1. o = r
  BY AloneStep DEF RunsInv, RunAt, InProgress, Active, Runs
<1>2. saved' = work[r]
  BY DEF RunStep, Generate, StartEdit, RegenerateSlide, FixesApplied, RegenerationFails,
     Collect, Resolve, Save, SaveFails, SaveReplyLost, RenderNotPrepared, Render, Uploaded, Deliver,
     Dies, Upload, UploadNotRegistered, UploadFails, Handled, store
<1>3. StaysWithin(o)
  BY DEF RunsInv, ScopeInv, Editing, RunAt
<1>. QED
  BY <1>1, <1>2, <1>3 DEF StaysWithin, Untouched

\* However many slides an edit writes again, and whatever images it finds: what
\* apply_fixes_and_render saves differs from the deck before only in them.
THEOREM EditsStayInside == ASSUME OneAfterAnother PROVE Spec => EditsTouchOnlyTheirSlides
<1>1. Init => RunsInv
  BY OutputsStart DEF Init, OutputsInv
<1>2. RunsInv /\ [Next]_vars => RunsInv'
  BY RunsStep
<1>3. RunsInv /\ [Next]_vars =>
        [\A o \in Edits : RunAt(o, "save") /\ saved' # saved =>
            \A s \in DeckSlides \ Range(Fixes[o]) :
                /\ saved'.text[s] = saved.text[s]
                /\ saved'.filled \cap SlotsOf({s}) = saved.filled \cap SlotsOf({s})]_outputVars
  BY SavesItsOwn, OutputsNextMoves
<1>. QED
  BY <1>1, <1>2, <1>3, PTL DEF Spec, EditsTouchOnlyTheirSlides

(***************************************************************************)
(* Turns of the brain over one cache.                                      *)
(***************************************************************************)
\* What the proof needs of the types.
TurnTypes ==
    /\ clock \in Nat /\ dies \in Seq(Nat)
    /\ cached \in Handles \cup {NoHandle} /\ expiresAt \in Nat /\ sampled \in Nat
    /\ tpc \in [Turns -> Waiting \cup TurnEnds \cup {"next", "fix"}]
    /\ iterations \in [Turns -> Nat] /\ answers \in [Turns -> Nat]
    /\ handle \in [Turns -> Handles \cup {NoHandle}]
    /\ bypassed \in [Turns -> BOOLEAN] /\ larger \in [Turns -> BOOLEAN]
    /\ open \in [Turns -> Nat] /\ strays \in [Turns -> Nat] /\ calls \in [Turns -> Nat]

\* The process believes its cache to live a margin less than it does; a create is made
\* under the lock, and in time.
CacheInv ==
    /\ cached # NoHandle => expiresAt + Margin <= dies[cached]
    /\ \A t \in Turns : TurnAt(t, "create") =>
        holder = t /\ sampled <= clock /\ clock <= sampled + CreateTimeout

\* An iteration is one answer, or is given back; only a fix has open calls, and calls
\* of other names stay open only beside one.
CountInv ==
    \A t \in Turns :
        /\ TurnAt(t, "next") => answers[t] = iterations[t]
        /\ tpc[t] \in Waiting => iterations[t] = answers[t] + 1
        /\ IF TurnAt(t, "fix") THEN open[t] = calls[t] ELSE open[t] = 0
        /\ tpc[t] \notin {"fix", "answered"} => strays[t] = 0

TurnsInv == TurnTypes /\ CacheInv /\ CountInv

\* EveryTurnIsServed, of one step and turn.
Served(t) ==
    /\ handle[t] = NoHandle /\ handle'[t] # NoHandle =>
            clock + Margin < dies'[handle'[t]]
    /\ ~TurnAt(t, "create") /\ TurnAt(t, "create")' =>
            /\ ~disabled
            /\ \A u \in Turns : ~TurnAt(u, "create")
            /\ cached # NoHandle => clock >= expiresAt
    /\ ~TurnAt(t, "raised") /\ TurnAt(t, "raised")' => handle[t] = NoHandle
    /\ ~TurnAt(t, "gave up") /\ TurnAt(t, "gave up")' =>
            answers[t] = MaxIterations \/ larger[t]
    /\ (tpc[t] \in Waiting \cup {"answered", "reply", "gave up"} => open[t] = 0)'
    /\ (tpc[t] \in Waiting \cup {"reply", "gave up"} => strays[t] = 0)'

LEMMA TurnsStart == ASSUME TurnsInit PROVE TurnsInv
<1>1. TurnTypes
  BY EmptySeq DEF TurnsInit, CacheInit, TurnTypes, Handles
<1>2. CacheInv /\ CountInv
  BY DEF TurnsInit, CacheInit, CacheInv, CountInv, TurnAt, Waiting
<1>. QED
  BY <1>1, <1>2 DEF TurnsInv

LEMMA TickStep ==
    ASSUME TurnsInv, Tick
    PROVE  TurnsInv' /\ \A t \in Turns : Served(t)
<1>1. UNCHANGED <<dies, cached, expiresAt, disabled, holder, sampled, turnVars>> /\ clock' = clock + 1
  BY DEF Tick
<1>2. TurnTypes'
  BY <1>1 DEF TurnsInv, TurnTypes, turnVars, loopVars, Handles
<1>3. CacheInv'
  BY <1>1, CacheAssumption DEF Tick, TurnsInv, TurnTypes, CacheInv, turnVars, TurnAt
<1>4. CountInv' /\ \A t \in Turns : Served(t)
  BY <1>1 DEF TurnsInv, CountInv, Served, turnVars, loopVars, TurnAt, Waiting
<1>. QED
  BY <1>2, <1>3, <1>4 DEF TurnsInv

\* Where a turn goes, and that the others rest.
TurnMoves(t, s) ==
    /\ tpc' = [tpc EXCEPT ![t] = s]
    /\ \A u \in Turns \ {t} :
        /\ iterations'[u] = iterations[u] /\ answers'[u] = answers[u]
        /\ handle'[u] = handle[u]
        /\ open'[u] = open[u] /\ strays'[u] = strays[u] /\ calls'[u] = calls[u]

\* The steps of a turn, each by what it leaves.
LEMMA TurnStepPreserves ==
    ASSUME TurnsInv, NEW t \in Turns, TurnTypes', NEW s, TurnMoves(t, s), clock' = clock,
           CacheInv', 
           s = "next" => answers'[t] = iterations'[t],
           s \in Waiting => iterations'[t] = answers'[t] + 1,
           IF s = "fix" THEN open'[t] = calls'[t] ELSE open'[t] = 0,
           s \notin {"fix", "answered"} => strays'[t] = 0
    PROVE  TurnsInv'
<1>1. tpc'[t] = s /\ \A u \in Turns \ {t} : tpc'[u] = tpc[u]
  BY DEF TurnMoves, TurnsInv, TurnTypes
<1>2. CountInv'
  BY <1>1 DEF TurnMoves, TurnsInv, CountInv, TurnAt
<1>. QED
  BY <1>2 DEF TurnsInv

LEMMA TurnStepServes ==
    ASSUME TurnsInv, TurnsInv', NEW t \in Turns, NEW s, TurnMoves(t, s),
           handle[t] = NoHandle /\ handle'[t] # NoHandle => clock + Margin < dies'[handle'[t]],
           s = "create" => /\ ~disabled /\ \A u \in Turns : ~TurnAt(u, "create")
                           /\ cached # NoHandle => clock >= expiresAt,
           s = "raised" => handle[t] = NoHandle,
           s = "gave up" => answers[t] = MaxIterations \/ larger[t]
    PROVE  \A u \in Turns : Served(u)
<1>1. tpc'[t] = s /\ \A u \in Turns \ {t} : tpc'[u] = tpc[u] /\ handle'[u] = handle[u]
  BY DEF TurnMoves, TurnsInv, TurnTypes
<1>2. \A u \in Turns :
        /\ (tpc[u] \in Waiting \cup {"answered", "reply", "gave up"} => open[u] = 0)'
        /\ (tpc[u] \in Waiting \cup {"reply", "gave up"} => strays[u] = 0)'
  BY DEF TurnsInv, CountInv, TurnAt, Waiting
<1>3. Served(t)
  BY <1>1, <1>2 DEF Served, TurnAt
<1>4. ASSUME NEW u \in Turns \ {t} PROVE Served(u)
  BY <1>1, <1>2 DEF Served, TurnAt
<1>. QED
  BY <1>3, <1>4

LEMMA CacheKept ==
    ASSUME TurnsInv, NEW t \in Turns, NEW s \in Waiting \cup TurnEnds \cup {"next", "fix"},
           s # "create", tpc' = [tpc EXCEPT ![t] = s],
           UNCHANGED <<clock, dies, holder, sampled>>,
           UNCHANGED <<cached, expiresAt>> \/ cached' = NoHandle
    PROVE  CacheInv'
BY DEF TurnsInv, TurnTypes, CacheInv, TurnAt

LEMMA IterateStep ==
    ASSUME TurnsInv, NEW t \in Turns, Iterate(t)
    PROVE  TurnsInv' /\ \A u \in Turns : Served(u)
<1>. DEFINE s == IF WantsCache(t) THEN "lock" ELSE "call"
<1>1. /\ TurnMoves(t, s) /\ s \in {"lock", "call"} /\ UNCHANGED cacheVars
      /\ iterations'[t] = iterations[t] + 1 /\ answers'[t] = answers[t] /\ open'[t] = open[t]
      /\ strays' = strays /\ handle'[t] \in {handle[t], NoHandle} /\ TurnAt(t, "next")
  BY DEF Iterate, StartCall, TurnGoto, TurnMoves, TurnsInv, TurnTypes
<1>2. TurnTypes'
  <2>1. /\ iterations' = [iterations EXCEPT ![t] = @ + 1] /\ tpc' = [tpc EXCEPT ![t] = s]
        /\ handle' = handle \/ handle' = [handle EXCEPT ![t] = NoHandle]
        /\ UNCHANGED <<cacheVars, bypassed, larger, open, strays, calls, answers>>
    BY DEF Iterate, StartCall, TurnGoto
  <2>2. iterations' \in [Turns -> Nat]
    BY <2>1 DEF TurnsInv, TurnTypes
  <2>. QED
    BY <1>1, <2>1, <2>2 DEF TurnsInv, TurnTypes, cacheVars, Handles, Waiting
<1>3. CacheInv'
  BY <1>1, CacheKept DEF cacheVars, Waiting, TurnMoves
<1>4. TurnsInv'
  <2>1. answers[t] = iterations[t] /\ open[t] = 0 /\ strays[t] = 0
    BY <1>1 DEF TurnsInv, CountInv, TurnAt
  <2>. QED
    BY <1>1, <1>2, <1>3, <2>1, TurnStepPreserves DEF cacheVars, TurnsInv, TurnTypes
<1>. HIDE DEF s
<1>. QED
  BY <1>1, <1>4, TurnStepServes

LEMMA GivesUpStep ==
    ASSUME TurnsInv, NEW t \in Turns, GivesUp(t)
    PROVE  TurnsInv' /\ \A u \in Turns : Served(u)
<1>1. /\ TurnMoves(t, "gave up") /\ UNCHANGED <<cacheVars, handle, open, strays>>
      /\ TurnAt(t, "next") /\ iterations[t] = MaxIterations
  BY DEF GivesUp, TurnGoes, TurnGoto, TurnMoves, TurnsInv, TurnTypes
<1>2. TurnTypes'
  BY DEF GivesUp, TurnGoes, TurnGoto, TurnsInv, TurnTypes, cacheVars, Handles, TurnEnds
<1>3. CacheInv'
  BY <1>1, CacheKept DEF cacheVars, TurnEnds, TurnMoves
<1>4. answers[t] = iterations[t] /\ open[t] = 0 /\ strays[t] = 0
  BY <1>1 DEF TurnsInv, CountInv, TurnAt
<1>5. TurnsInv'
  BY <1>1, <1>2, <1>3, <1>4, TurnStepPreserves DEF cacheVars, Waiting
<1>. QED
  BY <1>1, <1>4, <1>5, TurnStepServes

LEMMA TakesHandleStep ==
    ASSUME TurnsInv, NEW t \in Turns, TakesHandle(t)
    PROVE  TurnsInv' /\ \A u \in Turns : Served(u)
<1>1. /\ TurnMoves(t, "call") /\ UNCHANGED <<cacheVars, iterations, answers, open, strays>>
      /\ TurnAt(t, "lock") /\ handle'[t] = IF Usable THEN cached ELSE NoHandle
  BY DEF TakesHandle, StartCall, TurnGoto, TurnMoves, loopVars, TurnsInv, TurnTypes
<1>2. TurnTypes'
  BY DEF TakesHandle, StartCall, TurnGoto, TurnsInv, TurnTypes, cacheVars, loopVars, Handles, Waiting
<1>3. CacheInv'
  BY <1>1, CacheKept DEF cacheVars, Waiting, TurnMoves
<1>4. iterations[t] = answers[t] + 1 /\ open[t] = 0 /\ strays[t] = 0
  BY <1>1 DEF TurnsInv, CountInv, TurnAt, Waiting
<1>5. TurnsInv'
  BY <1>1, <1>2, <1>3, <1>4, TurnStepPreserves DEF cacheVars
<1>6. handle'[t] # NoHandle => clock + Margin < dies'[handle'[t]]
  <2>1. SUFFICES ASSUME handle'[t] # NoHandle PROVE clock + Margin < dies'[handle'[t]]
    OBVIOUS
  <2>2. handle'[t] = cached /\ cached # NoHandle /\ clock < expiresAt /\ dies' = dies
    BY <1>1, <2>1 DEF TakesHandle, Usable, Fresh, cacheVars
  <2>3. /\ expiresAt + Margin <= dies[cached] /\ dies[cached] \in Nat
        /\ clock \in Nat /\ expiresAt \in Nat /\ Margin \in Nat
    BY <2>2, CacheAssumption DEF TurnsInv, CacheInv, TurnTypes, Handles
  <2>. QED
    BY <2>2, <2>3
<1>. QED
  BY <1>1, <1>5, <1>6, TurnStepServes

LEMMA CreatesStep ==
    ASSUME TurnsInv, NEW t \in Turns, Creates(t)
    PROVE  TurnsInv' /\ \A u \in Turns : Served(u)
<1>1. /\ TurnMoves(t, "create") /\ TurnAt(t, "lock")
      /\ UNCHANGED <<clock, dies, cached, expiresAt, disabled, handle, iterations, answers>>
      /\ UNCHANGED <<open, strays, calls>>
      /\ holder = Nobody /\ holder' = t /\ sampled' = clock /\ Usable /\ ~Fresh
  BY DEF Creates, Lock, CreateStarts, TurnGoto, TurnMoves, loopVars
<1>2. TurnTypes'
  BY DEF Creates, Lock, CreateStarts, TurnGoto, TurnsInv, TurnTypes, loopVars, Handles, Waiting
<1>3. \A u \in Turns : ~TurnAt(u, "create")
  BY <1>1, CacheAssumption DEF TurnsInv, CacheInv
<1>4. CacheInv'
  BY <1>1, <1>3, CacheAssumption DEF TurnsInv, CacheInv, TurnTypes, TurnMoves, TurnAt
<1>5. iterations[t] = answers[t] + 1 /\ open[t] = 0 /\ strays[t] = 0
  BY <1>1 DEF TurnsInv, CountInv, TurnAt, Waiting
<1>6. TurnsInv'
  BY <1>1, <1>2, <1>4, <1>5, TurnStepPreserves
<1>7. ~disabled /\ (cached # NoHandle => clock >= expiresAt)
  BY <1>1 DEF Usable, Fresh, TurnsInv, TurnTypes
<1>. QED
  BY <1>1, <1>3, <1>6, <1>7, TurnStepServes

LEMMA CreatedStep ==
    ASSUME TurnsInv, NEW t \in Turns, Created(t)
    PROVE  TurnsInv' /\ \A u \in Turns : Served(u)
<1>1. PICK at \in sampled..clock :
        /\ dies' = Append(dies, at + Ttl) /\ cached' = Len(dies) + 1
        /\ expiresAt' = sampled + Ttl - Margin
  BY DEF Created, CreateReturns
<1>2. /\ TurnMoves(t, "call") /\ TurnAt(t, "create") /\ handle'[t] = cached'
      /\ UNCHANGED <<clock, disabled, iterations, answers, open, strays>>
  BY DEF Created, StartCall, TurnGoto, TurnMoves, loopVars, TurnsInv, TurnTypes
<1>3. /\ holder = t /\ sampled <= clock /\ clock <= sampled + CreateTimeout
      /\ at \in Nat /\ sampled \in Nat /\ clock \in Nat /\ sampled <= at
      /\ Ttl \in Nat /\ Margin \in Nat /\ CreateTimeout \in Nat /\ Margin + CreateTimeout < Ttl
  BY <1>2, CacheAssumption DEF TurnsInv, CacheInv, TurnTypes
<1>4. /\ dies' \in Seq(Nat) /\ Len(dies') = Len(dies) + 1 /\ dies'[cached'] = at + Ttl
      /\ Len(dies) \in Nat
  BY <1>1, <1>3 DEF TurnsInv, TurnTypes
<1>5. TurnTypes'
  <2>1. Handles \subseteq Handles' /\ cached' \in Handles' /\ expiresAt' \in Nat
    BY <1>1, <1>3, <1>4 DEF Handles
  <2>2. /\ sampled' = 0 /\ handle' = [handle EXCEPT ![t] = cached'] /\ tpc' = [tpc EXCEPT ![t] = "call"]
        /\ UNCHANGED <<clock, loopVars>>
    BY DEF Created, StartCall, TurnGoto, Unlock
  <2>. QED
    BY <1>4, <2>1, <2>2 DEF TurnsInv, TurnTypes, loopVars, Waiting
<1>6. CacheInv'
  <2>1. expiresAt' + Margin <= dies'[cached']
    BY <1>1, <1>3, <1>4
  <2>2. \A u \in Turns \ {t} : ~TurnAt(u, "create")
    BY <1>3 DEF TurnsInv, CacheInv
  <2>3. \A u \in Turns : ~TurnAt(u, "create")'
    BY <1>2, <2>2 DEF TurnMoves, TurnAt, TurnsInv, TurnTypes
  <2>. QED
    BY <2>1, <2>3 DEF CacheInv
<1>7. iterations[t] = answers[t] + 1 /\ open[t] = 0 /\ strays[t] = 0
  BY <1>2 DEF TurnsInv, CountInv, TurnAt, Waiting
<1>8. TurnsInv'
  BY <1>2, <1>5, <1>6, <1>7, TurnStepPreserves
<1>9. clock + Margin < dies'[handle'[t]]
  BY <1>2, <1>3, <1>4
<1>. QED
  BY <1>2, <1>8, <1>9, TurnStepServes

LEMMA NotCreatedStep ==
    ASSUME TurnsInv, NEW t \in Turns, NotCreated(t)
    PROVE  TurnsInv' /\ \A u \in Turns : Served(u)
<1>1. /\ TurnMoves(t, "call") /\ TurnAt(t, "create") /\ handle'[t] = NoHandle
      /\ cached' = NoHandle /\ UNCHANGED <<clock, dies, expiresAt, iterations, answers, open, strays>>
  BY DEF NotCreated, CreateFails, StartCall, TurnGoto, TurnMoves, loopVars, TurnsInv, TurnTypes
<1>2. TurnTypes'
  BY DEF NotCreated, CreateFails, StartCall, TurnGoto, Unlock, TurnsInv, TurnTypes, loopVars,
     Handles, Waiting
<1>3. CacheInv'
  <2>1. \A u \in Turns \ {t} : ~TurnAt(u, "create")
    BY <1>1 DEF TurnsInv, CacheInv
  <2>2. \A u \in Turns : ~TurnAt(u, "create")'
    BY <1>1, <2>1 DEF TurnMoves, TurnAt, TurnsInv, TurnTypes
  <2>. QED
    BY <1>1, <2>2 DEF CacheInv
<1>4. iterations[t] = answers[t] + 1 /\ open[t] = 0 /\ strays[t] = 0
  BY <1>1 DEF TurnsInv, CountInv, TurnAt, Waiting
<1>5. TurnsInv'
  BY <1>1, <1>2, <1>3, <1>4, TurnStepPreserves
<1>. QED
  BY <1>1, <1>5, TurnStepServes

\* A call that is made again changes only its own counters.
LEMMA RetryStep ==
    ASSUME TurnsInv, Retries, CallKeeps
    PROVE  TurnsInv' /\ \A u \in Turns : Served(u)
<1>1. UNCHANGED <<clock, dies, cached, expiresAt, disabled, holder, sampled, tpc, iterations,
                  answers, handle, bypassed, larger, open, strays, calls>>
  BY DEF Retries, CallKeeps
<1>2. TurnTypes' /\ CacheInv' /\ CountInv'
  BY <1>1 DEF TurnsInv, TurnTypes, CacheInv, CountInv, TurnAt, Handles
<1>3. \A u \in Turns : Served(u)
  BY <1>1 DEF TurnsInv, CountInv, Served, TurnAt, Waiting
<1>. QED
  BY <1>2, <1>3 DEF TurnsInv

LEMMA CallFailsStep ==
    ASSUME TurnsInv, NEW t \in Turns, TurnAt(t, "call"), CallFails(t), CallKeeps
    PROVE  TurnsInv' /\ \A u \in Turns : Served(u)
<1>. DEFINE s == IF handle[t] = NoHandle THEN "raised" ELSE "next"
<1>1. iterations[t] = answers[t] + 1 /\ open[t] = 0 /\ strays[t] = 0
  BY DEF TurnsInv, CountInv, TurnAt, Waiting
<1>2. /\ TurnMoves(t, s) /\ UNCHANGED <<clock, dies, disabled, holder, sampled, open, strays, calls>>
      /\ UNCHANGED <<cached, expiresAt>> \/ cached' = NoHandle
      /\ expiresAt' \in Nat /\ cached' \in Handles \cup {NoHandle} /\ handle'[t] = NoHandle
      /\ handle[t] # NoHandle => iterations'[t] = iterations[t] - 1 /\ answers'[t] = answers[t]
  BY DEF CallFails, TurnGoes, Fallback, Invalidate, TurnGoto, CallKeeps, TurnMoves, TurnsInv,
     TurnTypes
<1>3. TurnTypes'
  <2>1. /\ handle' = [handle EXCEPT ![t] = NoHandle]
        /\ bypassed' = [bypassed EXCEPT ![t] = handle[t] # NoHandle]
    BY DEF CallFails, TurnGoes, Fallback
  <2>2. iterations' \in [Turns -> Nat] /\ answers' \in [Turns -> Nat] /\ larger' \in [Turns -> BOOLEAN]
    <3>1. CASE handle[t] = NoHandle
      <4>1. /\ iterations' = [iterations EXCEPT ![t] = 0] /\ answers' = [answers EXCEPT ![t] = 0]
            /\ larger' = [larger EXCEPT ![t] = FALSE]
        BY <3>1 DEF CallFails, TurnGoes
      <4>. QED
        BY <4>1 DEF TurnsInv, TurnTypes
    <3>2. CASE handle[t] # NoHandle
      <4>1. iterations' = [iterations EXCEPT ![t] = @ - 1] /\ UNCHANGED <<answers, larger>>
        BY <3>2 DEF CallFails, Fallback
      <4>2. iterations[t] - 1 \in Nat
        BY <1>1 DEF TurnsInv, TurnTypes
      <4>. QED
        BY <4>1, <4>2 DEF TurnsInv, TurnTypes
    <3>. QED
      BY <3>1, <3>2
  <2>3. bypassed' \in [Turns -> BOOLEAN] /\ tpc' = [tpc EXCEPT ![t] = s]
    BY <1>2, <2>1 DEF TurnMoves, TurnsInv, TurnTypes
  <2>. QED
    BY <1>2, <2>1, <2>2, <2>3 DEF TurnsInv, TurnTypes, Handles, TurnEnds
<1>4. CacheInv'
  BY <1>2, CacheKept DEF TurnMoves, TurnEnds
<1>5. TurnsInv'
  <2>1. s = "next" => answers'[t] = iterations'[t]
    BY <1>1, <1>2 DEF TurnsInv, TurnTypes
  <2>2. s \notin Waiting /\ s # "fix" /\ open'[t] = 0 /\ strays'[t] = 0
    BY <1>1, <1>2 DEF Waiting
  <2>. HIDE DEF s
  <2>. QED
    BY <1>2, <1>3, <1>4, <2>1, <2>2, TurnStepPreserves
<1>. QED
  BY <1>2, <1>5, TurnStepServes

LEMMA UnreachableStep ==
    ASSUME TurnsInv, NEW t \in Turns, Unreachable(t)
    PROVE  TurnsInv' /\ \A u \in Turns : Served(u)
<1>1. /\ TurnMoves(t, "broke off") /\ TurnAt(t, "call") /\ handle'[t] = NoHandle
      /\ UNCHANGED <<clock, dies, cached, expiresAt, holder, sampled, open, strays>>
  BY DEF Unreachable, TurnGoes, TurnGoto, CallKeeps, TurnMoves, TurnsInv, TurnTypes
<1>2. TurnTypes'
  BY DEF Unreachable, TurnGoes, TurnGoto, CallKeeps, TurnsInv, TurnTypes, Handles, TurnEnds
<1>3. CacheInv'
  BY <1>1, CacheKept DEF TurnEnds, TurnMoves
<1>4. open[t] = 0 /\ strays[t] = 0
  BY <1>1 DEF TurnsInv, CountInv, TurnAt
<1>5. TurnsInv'
  BY <1>1, <1>2, <1>3, <1>4, TurnStepPreserves DEF Waiting
<1>. QED
  BY <1>1, <1>5, TurnStepServes

\* What every answer has in common.
LEMMA AnswerMoves ==
    ASSUME TurnsInv, NEW t \in Turns, ServerAnswers(t)
    PROVE  /\ TurnAt(t, "call") /\ handle' = [handle EXCEPT ![t] = NoHandle] /\ UNCHANGED cacheVars
           /\ iterations[t] = answers[t] + 1 /\ open[t] = 0 /\ strays[t] = 0
BY DEF ServerAnswers, TurnsInv, CountInv, TurnAt, Waiting

LEMMA AnswerStep ==
    ASSUME TurnsInv, NEW t \in Turns, ServerAnswers(t),
           NEW s \in TurnEnds \cup {"next", "fix"}, TurnMoves(t, s),
           iterations' \in [Turns -> Nat], answers' \in [Turns -> Nat],
           bypassed' \in [Turns -> BOOLEAN], larger' \in [Turns -> BOOLEAN],
           open' \in [Turns -> Nat], strays' \in [Turns -> Nat], calls' \in [Turns -> Nat],
           s = "next" => answers'[t] = iterations'[t],
           IF s = "fix" THEN open'[t] = calls'[t] ELSE open'[t] = 0,
           s = "fix" \/ strays'[t] = 0,
           s = "gave up" => larger[t], s # "raised"
    PROVE  TurnsInv' /\ \A u \in Turns : Served(u)
<1>1. TurnTypes'
  BY AnswerMoves DEF TurnMoves, TurnsInv, TurnTypes, cacheVars, Handles
<1>2. CacheInv'
  BY AnswerMoves, CacheKept DEF TurnMoves, TurnEnds, cacheVars
<1>3. TurnsInv'
  BY <1>1, <1>2, AnswerMoves, TurnStepPreserves DEF TurnEnds, Waiting, cacheVars
<1>4. handle'[t] = NoHandle /\ s # "create"
  BY AnswerMoves DEF TurnsInv, TurnTypes, TurnEnds
<1>. QED
  BY <1>3, <1>4, TurnStepServes

LEMMA AnswersStep ==
    ASSUME TurnsInv, NEW t \in Turns, Degraded(t) \/ Reply(t) \/ BadCalls(t) \/ Fix(t)
    PROVE  TurnsInv' /\ \A u \in Turns : Served(u)
<1>0. ServerAnswers(t)
  BY DEF Degraded, Reply, BadCalls, Fix
<1>. USE DEF TurnGoes, TurnGoto, GoesOn, CountAnswer, TurnMoves
<1>1. iterations[t] = answers[t] + 1 /\ open[t] = 0 /\ strays[t] = 0 /\ handle' = [handle EXCEPT ![t] = NoHandle]
  BY <1>0, AnswerMoves
<1>2. CASE Degraded(t)
  <2>1. CASE larger[t]
    <3>1. /\ TurnMoves(t, "gave up") /\ UNCHANGED <<open, strays, calls>>
          /\ iterations' = [iterations EXCEPT ![t] = 0] /\ answers' = [answers EXCEPT ![t] = 0]
          /\ bypassed' = [bypassed EXCEPT ![t] = FALSE] /\ larger' = [larger EXCEPT ![t] = FALSE]
      BY <1>1, <1>2, <2>1 DEF Degraded, TurnsInv, TurnTypes
    <3>2. /\ iterations' \in [Turns -> Nat] /\ answers' \in [Turns -> Nat]
          /\ bypassed' \in [Turns -> BOOLEAN] /\ larger' \in [Turns -> BOOLEAN]
          /\ open' \in [Turns -> Nat] /\ strays' \in [Turns -> Nat] /\ calls' \in [Turns -> Nat]
          /\ open'[t] = 0 /\ strays'[t] = 0
      BY <1>1, <3>1 DEF TurnsInv, TurnTypes
    <3>. QED
      BY <1>0, <2>1, <3>1, <3>2, AnswerStep DEF TurnEnds
  <2>2. CASE ~larger[t]
    <3>1. /\ TurnMoves(t, "next") /\ UNCHANGED <<open, strays, calls, iterations, bypassed>>
          /\ answers' = [answers EXCEPT ![t] = @ + 1] /\ larger' = [larger EXCEPT ![t] = TRUE]
      BY <1>1, <1>2, <2>2 DEF Degraded, TurnsInv, TurnTypes
    <3>2. /\ iterations' \in [Turns -> Nat] /\ answers' \in [Turns -> Nat]
          /\ bypassed' \in [Turns -> BOOLEAN] /\ larger' \in [Turns -> BOOLEAN]
          /\ open' \in [Turns -> Nat] /\ strays' \in [Turns -> Nat] /\ calls' \in [Turns -> Nat]
          /\ open'[t] = 0 /\ strays'[t] = 0
          /\ answers'[t] = iterations'[t]
      BY <1>1, <3>1 DEF TurnsInv, TurnTypes
    <3>. QED
      BY <1>0, <3>1, <3>2, AnswerStep
  <2>. QED
    BY <2>1, <2>2
<1>3. CASE Reply(t)
  BY <1>0, <1>1, <1>3, AnswerStep DEF Reply, TurnEnds, TurnsInv, TurnTypes
<1>4. CASE BadCalls(t)
  <2>1. open' = [open EXCEPT ![t] = 0]
    BY <1>4, TurnsAssumption DEF BadCalls, ErrorResponses
  <2>. QED
    BY <1>0, <1>1, <1>4, <2>1, AnswerStep DEF BadCalls, TurnEnds, TurnsInv, TurnTypes
<1>5. CASE Fix(t)
  <2>1. PICK n \in 1..MaxCalls, others \in 0..MaxCalls :
            /\ open' = [open EXCEPT ![t] = n] /\ calls' = [calls EXCEPT ![t] = n]
            /\ strays' = [strays EXCEPT ![t] = others]
    <3>1. \A n \in 1..MaxCalls : 0..(MaxCalls - n) \subseteq 0..MaxCalls
      BY TurnsAssumption
    <3>. QED
      BY <1>5, <3>1 DEF Fix
  <2>2. n \in Nat /\ others \in Nat
    OBVIOUS
  <2>. QED
    BY <1>0, <1>1, <1>5, <2>1, <2>2, AnswerStep DEF Fix, TurnEnds, TurnsInv, TurnTypes
<1>. QED
  BY <1>2, <1>3, <1>4, <1>5

LEMMA AnswersCallsStep ==
    ASSUME TurnsInv, NEW t \in Turns, AnswersCalls(t)
    PROVE  TurnsInv' /\ \A u \in Turns : Served(u)
<1>1. open[t] = calls[t] /\ open[t] \in Nat
  BY DEF AnswersCalls, TurnsInv, TurnTypes, CountInv, TurnAt
<1>2. open' = [open EXCEPT ![t] = 0] /\ calls' = [calls EXCEPT ![t] = 0]
  <2>1. open[t] - calls[t] = 0
    BY <1>1
  <2>. QED
    BY <2>1 DEF AnswersCalls
<1>3. /\ TurnMoves(t, "answered") /\ open'[t] = 0
      /\ UNCHANGED <<cacheVars, handle, iterations, bypassed, larger, answers, strays>>
  BY <1>2 DEF AnswersCalls, TurnGoto, TurnMoves, TurnsInv, TurnTypes
<1>4. TurnTypes'
  BY <1>2, <1>3 DEF TurnMoves, TurnsInv, TurnTypes, cacheVars, Handles, TurnEnds
<1>5. CacheInv'
  BY <1>3, CacheKept DEF cacheVars, TurnEnds, TurnMoves
<1>6. TurnsInv'
  BY <1>3, <1>4, <1>5, TurnStepPreserves DEF cacheVars, Waiting
<1>. QED
  BY <1>3, <1>6, TurnStepServes

LEMMA TurnsStep ==
    ASSUME TurnsInv, [Next]_vars
    PROVE  TurnsInv' /\ ((\A t \in Turns : Served(t)) \/ UNCHANGED brainVars)
<1>1. Tick \/ (\E t \in Turns : TurnStep(t)) \/ UNCHANGED brainVars
  BY DEF Next, vars, deckVars, InSources, InEditorial, InOutputs, InImages, InTurns, InDeck,
     InInterview, InSuggestions, InArticle, InText, TurnsNext, TurnsRest
<1>2. ASSUME NEW t \in Turns, Transient(t) \/ Throttled(t) \/ Terminal(t)
      PROVE  TurnsInv' /\ \A u \in Turns : Served(u)
  BY <1>2, RetryStep, CallFailsStep DEF Transient, Throttled, Terminal
<1>3. ASSUME NEW t \in Turns, TurnStep(t)
      PROVE  TurnsInv' /\ \A u \in Turns : Served(u)
  BY <1>2, <1>3, IterateStep, GivesUpStep, TakesHandleStep, CreatesStep, CreatedStep,
     NotCreatedStep, UnreachableStep, AnswersStep, AnswersCallsStep DEF TurnStep
<1>4. CASE UNCHANGED brainVars
  BY <1>4 DEF brainVars, cacheVars, turnVars, loopVars, TurnsInv, TurnTypes, CacheInv, CountInv,
     TurnAt, Handles
<1>. QED
  BY <1>1, <1>3, <1>4, TickStep

\* However the turns of a process wait for each other, fail and retry: the shared cache
\* of BrainContextCache is given out only with its margin to live and made by one of them
\* at a time, run_brain_loop gives up only after its iterations and fails a cached turn
\* only on a broken connection, and every edit_slides call is answered.
THEOREM TurnsAreServed == Spec => EveryTurnIsServed
<1>1. Init => TurnsInv
  BY TurnsStart DEF Init
<1>2. TurnsInv /\ [Next]_vars => TurnsInv'
  BY TurnsStep
<1>3. TurnsInv /\ [Next]_vars => [\A t \in Turns : Served(t)]_brainVars
  BY TurnsStep
<1>4. [][\A t \in Turns : Served(t)]_brainVars => EveryTurnIsServed
  BY DEF EveryTurnIsServed, Served
<1>. QED
  BY <1>1, <1>2, <1>3, <1>4, PTL DEF Spec

(***************************************************************************)
(* Portraits.                                                              *)
(***************************************************************************)
Suits(i) ==
    /\ person[i] \in Candidates /\ person[i].image \in Pictures
    /\ Eligible(person[i], Lived[i])
    /\ ipc[i] \in {"download", "store", "written"} => Allowed(person[i].image.marks)

Credited(i) ==
    LET remarks == notes[ShownOn[i]] IN
    NeedsCredit(person[i].image.marks) => i \in ToSet(remarks) \/ Len(remarks) = NoteSpace

\* A search's candidates stay what it found, and who was selected among them stays so
\* until the slot is written.
PortraitInv ==
    /\ ipc \in [ImageSlots -> Steps \cup ImageOver]
    /\ listed \in [Sought -> Results \cup {<<>>}]
    /\ DOMAIN person = Sought
    /\ DOMAIN notes = Illustrated
    /\ \A s \in Illustrated :
        /\ notes[s] \in Seq(Sought \cup {Remark})
        /\ Len(notes[s]) <= NoteSpace
    /\ \A i \in Sought : ipc[i] \in {"inspect", "download", "store", "written"} => Suits(i)
    /\ shown \subseteq ImageSlots /\ \A i \in shown : ipc[i] = "written"
    /\ \A i \in shown \cap Sought : Credited(i)

LEMMA PortraitStart == ASSUME ImagesInit PROVE PortraitInv
<1>1. \A s \in Illustrated : notes[s] \in {<<>>, <<Remark>>}
  BY DEF ImagesInit
<1>2. <<>> \in Seq(Sought \cup {Remark}) /\ Len(<<>>) <= NoteSpace
  BY EmptySeq, ImagesAssumption
<1>3. <<Remark>> \in Seq(Sought \cup {Remark})
  OBVIOUS
<1>4. Len(<<Remark>>) <= NoteSpace
  BY ImagesAssumption
<1>5. \A s \in Illustrated : notes[s] \in Seq(Sought \cup {Remark}) /\ Len(notes[s]) <= NoteSpace
  BY <1>1, <1>2, <1>3, <1>4
<1>. QED
  BY <1>5 DEF ImagesInit, PortraitInv, ImageSlots, Steps

\* A step that moves slot i alone, has it credited when it is written, and takes no
\* credit away.
LEMMA SlotStep ==
    ASSUME PortraitInv, NEW i \in ImageSlots, NEW to \in Steps \cup ImageOver,
           ipc' = [ipc EXCEPT ![i] = to],
           listed' \in [Sought -> Results \cup {<<>>}],
           DOMAIN person' = Sought, \A j \in Sought \ {i} : person'[j] = person[j],
           i \in Sought /\ to \in {"inspect", "download", "store", "written"} => Suits(i)',
           ipc[i] # "written",
           \/ UNCHANGED <<shown, notes>>
           \/ to = "written" /\ shown' = shown \cup {i} /\ (i \in Sought => Credited(i)'),
           DOMAIN notes' = Illustrated,
           \A s \in Illustrated :
                /\ notes'[s] \in Seq(Sought \cup {Remark}) /\ Len(notes'[s]) <= NoteSpace
                /\ ToSet(notes[s]) \subseteq ToSet(notes'[s])
                /\ Len(notes[s]) = NoteSpace => Len(notes'[s]) = NoteSpace
    PROVE  PortraitInv'
<1>1. ipc'[i] = to /\ \A j \in ImageSlots \ {i} : ipc'[j] = ipc[j]
  BY DEF PortraitInv
<1>2. \A j \in Sought : ipc'[j] \in {"inspect", "download", "store", "written"} => Suits(j)'
  BY <1>1 DEF PortraitInv, Suits, ImageSlots
<1>3. shown' \subseteq ImageSlots /\ \A j \in shown' : ipc'[j] = "written"
  BY <1>1 DEF PortraitInv
<1>4. ASSUME NEW j \in shown' \cap Sought PROVE Credited(j)'
  <2>1. CASE j = i
    BY <1>1, <2>1 DEF PortraitInv
  <2>2. CASE j # i
    <3>1. j \in shown /\ ShownOn[j] \in Illustrated /\ person'[j] = person[j] /\ Credited(j)
      BY <1>4, <2>2 DEF PortraitInv, Illustrated, ImageSlots
    <3>. QED
      BY <3>1 DEF Credited
  <2>. QED
    BY <2>1, <2>2
<1>5. ipc' \in [ImageSlots -> Steps \cup ImageOver]
  BY DEF PortraitInv
<1>. QED
  BY <1>2, <1>3, <1>4, <1>5 DEF PortraitInv

\* ... and one that touches neither the persons nor the notes.
LEMMA PlainSlotStep ==
    ASSUME PortraitInv, NEW i \in ImageSlots, NEW to \in Steps \cup ImageOver,
           ipc' = [ipc EXCEPT ![i] = to],
           listed' \in [Sought -> Results \cup {<<>>}], UNCHANGED <<person, shown, notes>>,
           i \in Sought /\ to \in {"inspect", "download", "store", "written"} =>
                /\ ipc[i] \in {"inspect", "download", "store", "written"}
                /\ to \in {"download", "store", "written"} =>
                    ipc[i] \in {"download", "store", "written"} \/ Allowed(person[i].image.marks),
           ipc[i] # "written"
    PROVE  PortraitInv'
<1>1. ipc'[i] = to
  BY DEF PortraitInv
<1>2. i \in Sought /\ to \in {"inspect", "download", "store", "written"} => Suits(i)'
  BY <1>1 DEF PortraitInv, Suits
<1>. QED
  BY <1>2, SlotStep DEF PortraitInv

LEMMA FetchStep ==
    ASSUME PortraitInv, NEW i \in Sought, Fetch(i)
    PROVE  PortraitInv'
<1>. DEFINE best == {listed[i][k] : k \in Selected(listed[i], Lived[i])}
<1>1. PICK c \in (IF best = {} THEN {NobodyFound} ELSE best) :
        /\ person' = [person EXCEPT ![i] = c]
        /\ ipc' = [ipc EXCEPT ![i] =
                      IF c # NobodyFound /\ c.image.portrait THEN "inspect" ELSE "abstained"]
  BY DEF Fetch
<1>. DEFINE to == IF c # NobodyFound /\ c.image.portrait THEN "inspect" ELSE "abstained"
<1>2. listed[i] \in Seq(Candidates)
  BY ImagesAssumption, EmptySeq DEF PortraitInv
<1>3. c \in best => c \in Candidates /\ Eligible(c, Lived[i])
  BY <1>2 DEF Selected
<1>4. to = "inspect" => c \in best
  BY <1>1
<1>5. to = "inspect" => Suits(i)'
  <2>1. person'[i] = c /\ ipc'[i] = to
    BY <1>1 DEF PortraitInv, ImageSlots
  <2>2. c \in best => c.image \in Pictures
    BY <1>3 DEF Candidates, Eligible
  <2>. QED
    BY <1>3, <1>4, <2>1, <2>2 DEF Suits
<1>6. to \in {"inspect", "abstained"} /\ i \in ImageSlots
  BY DEF ImageSlots
<1>7. listed' \in [Sought -> Results \cup {<<>>}] /\ UNCHANGED <<shown, notes>> /\ ipc[i] = "fetch"
  BY DEF Fetch, PortraitInv
<1>8. DOMAIN person' = Sought /\ \A j \in Sought \ {i} : person'[j] = person[j]
  BY <1>1 DEF PortraitInv
<1>9. ipc' = [ipc EXCEPT ![i] = to]
  BY <1>1
<1>. HIDE DEF to
<1>. QED
  BY <1>5, <1>6, <1>7, <1>8, <1>9, SlotStep DEF PortraitInv, Steps, ImageOver

\* The credit is in the notes, or they are full.
LEMMA NotedCredits ==
    ASSUME NEW remarks \in Seq(Sought \cup {Remark}), Len(remarks) <= NoteSpace, NEW i \in Sought
    PROVE  /\ Noted(remarks, i) \in Seq(Sought \cup {Remark})
           /\ Len(Noted(remarks, i)) <= NoteSpace
           /\ ToSet(remarks) \subseteq ToSet(Noted(remarks, i))
           /\ Len(remarks) = NoteSpace => Len(Noted(remarks, i)) = NoteSpace
           /\ i \in ToSet(Noted(remarks, i)) \/ Len(Noted(remarks, i)) = NoteSpace
<1>1. CASE Len(remarks) < NoteSpace
  <2>1. Noted(remarks, i) = Append(remarks, i)
    BY <1>1 DEF Noted
  <2>2. /\ Append(remarks, i) \in Seq(Sought \cup {Remark})
        /\ Len(Append(remarks, i)) = Len(remarks) + 1
        /\ \A k \in 1..Len(remarks) : Append(remarks, i)[k] = remarks[k]
        /\ Append(remarks, i)[Len(remarks) + 1] = i
    OBVIOUS
  <2>3. Len(remarks) \in Nat /\ DOMAIN remarks = 1..Len(remarks)
        /\ DOMAIN Append(remarks, i) = 1..(Len(remarks) + 1)
    BY <2>2
  <2>4. ToSet(remarks) \subseteq ToSet(Append(remarks, i))
    BY <2>2, <2>3 DEF ToSet
  <2>5. i \in ToSet(Append(remarks, i))
    BY <2>2, <2>3 DEF ToSet
  <2>6. NoteSpace \in Nat
    BY ImagesAssumption
  <2>7. Len(Append(remarks, i)) <= NoteSpace /\ Len(remarks) # NoteSpace
    BY <1>1, <2>2, <2>3, <2>6
  <2>. QED
    BY <2>1, <2>2, <2>4, <2>5, <2>7
<1>2. CASE ~(Len(remarks) < NoteSpace)
  BY <1>2, ImagesAssumption DEF Noted
<1>. QED
  BY <1>1, <1>2

LEMMA StoreStep ==
    ASSUME PortraitInv, NEW i \in ImageSlots, Store(i)
    PROVE  PortraitInv'
<1>1. /\ ipc[i] = "store" /\ ipc' = [ipc EXCEPT ![i] = "written"]
      /\ shown' = shown \cup {i} /\ UNCHANGED <<listed, person>>
  BY DEF Store, SlotGoes
<1>2. ipc'[i] = "written" /\ ShownOn[i] \in Illustrated
  BY <1>1 DEF PortraitInv, Illustrated
<1>3. i \in Sought => Suits(i)'
  BY <1>1, <1>2 DEF PortraitInv, Suits
<1>4. CASE i \in Sought /\ NeedsCredit(person[i].image.marks)
  <2>1. notes' = [notes EXCEPT ![ShownOn[i]] = Noted(notes[ShownOn[i]], i)]
    BY <1>4 DEF Store
  <2>2. /\ notes[ShownOn[i]] \in Seq(Sought \cup {Remark}) /\ Len(notes[ShownOn[i]]) <= NoteSpace
    BY <1>2 DEF PortraitInv
  <2>3. /\ DOMAIN notes' = Illustrated
        /\ notes'[ShownOn[i]] = Noted(notes[ShownOn[i]], i)
        /\ \A s \in Illustrated \ {ShownOn[i]} : notes'[s] = notes[s]
    BY <1>2, <2>1 DEF PortraitInv
  <2>4. Credited(i)'
    BY <1>4, <2>2, <2>3, NotedCredits DEF Credited
  <2>5. ASSUME NEW s \in Illustrated
        PROVE  /\ notes'[s] \in Seq(Sought \cup {Remark}) /\ Len(notes'[s]) <= NoteSpace
               /\ ToSet(notes[s]) \subseteq ToSet(notes'[s])
               /\ Len(notes[s]) = NoteSpace => Len(notes'[s]) = NoteSpace
    <3>1. CASE s = ShownOn[i]
      BY <1>4, <2>2, <2>3, <3>1, NotedCredits
    <3>2. CASE s # ShownOn[i]
      BY <2>3, <3>2 DEF PortraitInv
    <3>. QED
      BY <3>1, <3>2
  <2>. QED
    BY <1>1, <1>3, <2>3, <2>4, <2>5, SlotStep DEF PortraitInv, ImageOver
<1>5. CASE ~(i \in Sought /\ NeedsCredit(person[i].image.marks))
  <2>1. notes' = notes /\ (i \in Sought => Credited(i)')
    BY <1>1, <1>5 DEF Store, Credited
  <2>. QED
    BY <1>1, <1>3, <2>1, SlotStep DEF PortraitInv, ImageOver
<1>. QED
  BY <1>4, <1>5

LEMMA ImageStepKeeps ==
    ASSUME PortraitInv, NEW i \in ImageSlots, ImageStep(i)
    PROVE  PortraitInv'
<1>. USE DEF SlotGoes
<1>1. CASE Abstain(i)
  BY <1>1, PlainSlotStep DEF Abstain, ImageOver, PortraitInv
<1>2. CASE i \in Sought /\ Search(i)
  BY <1>2, PlainSlotStep DEF Search, Steps, PortraitInv
<1>3. CASE i \in Sought /\ Inspect(i)
  BY <1>3, PlainSlotStep DEF Inspect, Steps, PortraitInv
<1>4. CASE i \in Sought /\ Download(i)
  BY <1>4, PlainSlotStep DEF Download, Steps, PortraitInv
<1>5. CASE i \in Drawn /\ (Match(i) \/ Draw(i) \/ DrawFails(i))
  <2>1. i \notin Sought
    BY <1>5, ImagesAssumption
  <2>. QED
    BY <1>5, <2>1, PlainSlotStep DEF Match, Draw, DrawFails, Steps, ImageOver, PortraitInv
<1>6. CASE i \in Drawn /\ Caption(i)
  <2>1. i \notin Sought
    BY <1>6, ImagesAssumption
  <2>2. CASE ipc' = [ipc EXCEPT ![i] = "draw"]
    BY <1>6, <2>1, <2>2, PlainSlotStep DEF Caption, Steps, PortraitInv
  <2>3. CASE UNCHANGED ipc
    BY <1>6, <2>3 DEF Caption, PortraitInv, Suits, Credited
  <2>. QED
    BY <1>6, <2>2, <2>3 DEF Caption
<1>7. CASE i \in Drawn /\ Redraw(i)
  BY <1>7 DEF Redraw, PortraitInv, Suits, Credited
<1>. QED
  BY <1>1, <1>2, <1>3, <1>4, <1>5, <1>6, <1>7, FetchStep, StoreStep DEF ImageStep

LEMMA PortraitStep ==
    ASSUME PortraitInv, [Next]_vars
    PROVE  PortraitInv'
<1>1. (\E i \in ImageSlots : ImageStep(i)) \/ UNCHANGED imageVars
  BY DEF Next, vars, deckVars, InSources, InEditorial, InOutputs, InImages, InTurns, InDeck,
     InInterview, InSuggestions, InArticle, InText, ImagesNext, ImageRests
<1>2. CASE UNCHANGED imageVars
  BY <1>2 DEF imageVars, PortraitInv, Suits, Credited
<1>. QED
  BY <1>1, <1>2, ImageStepKeeps

LEMMA PortraitsAreRight == ASSUME PortraitInv PROVE PortraitsAreRightAndCredited
<1>. SUFFICES ASSUME NEW i \in shown \cap Sought
              PROVE  LET c == person[i] IN
                     /\ c.human
                     /\ c.label = "none" => \E y \in {"born", "died"} : c.lived[y] = Lived[i][y]
                     /\ \A y \in {"born", "died"} :
                         Unknown \in {c.lived[y], Lived[i][y]} \/ c.lived[y] - Lived[i][y] \in -1..1
                     /\ c.image.marks \cap Rejected = {}
                     /\ "pd" \in c.image.marks \/ i \in ToSet(notes[ShownOn[i]])
                         \/ Len(notes[ShownOn[i]]) = NoteSpace
  BY DEF PortraitsAreRightAndCredited
<1>. DEFINE c == person[i]
<1>1. c \in Candidates /\ Eligible(c, Lived[i]) /\ Allowed(c.image.marks) /\ Credited(i)
  BY DEF PortraitInv, Suits
<1>2. Lived[i] \in Years
  BY ImagesAssumption
<1>3. c.human /\ c.image.marks \cap Rejected = {}
  BY <1>1 DEF Eligible, Allowed
<1>4. c.label = "none" => \E y \in {"born", "died"} : c.lived[y] = Lived[i][y]
  BY <1>1 DEF Eligible, NameMatches, DateMatches
<1>5. ASSUME NEW y \in {"born", "died"}
      PROVE  Unknown \in {c.lived[y], Lived[i][y]} \/ c.lived[y] - Lived[i][y] \in -1..1
  <2>1. c.lived[y] \in Int \cup {Unknown} /\ Lived[i][y] \in Int \cup {Unknown}
    BY <1>1, <1>2 DEF Candidates, Years
  <2>2. ~DateConflicts(Lived[i][y], c.lived[y])
    BY <1>1 DEF Eligible, Conflicts
  <2>. QED
    BY <2>1, <2>2 DEF DateConflicts
<1>6. "pd" \in c.image.marks \/ i \in ToSet(notes[ShownOn[i]]) \/ Len(notes[ShownOn[i]]) = NoteSpace
  BY <1>1 DEF Credited, NeedsCredit
<1>. QED
  BY <1>3, <1>4, <1>5, <1>6

\* In whatever order the slots of a deck are resolved: the faces the image pass shows
\* are those of people whose name and years the slide gives, under a licence that
\* allows it, and credited on their slide.
THEOREM PortraitsStayRight == Spec => []PortraitsAreRightAndCredited
<1>1. Init => PortraitInv
  BY PortraitStart DEF Init
<1>2. PortraitInv /\ [Next]_vars => PortraitInv'
  BY PortraitStep
<1>. QED
  BY <1>1, <1>2, PortraitsAreRight, PTL DEF Spec

(***************************************************************************)
(* The verdict on a deck.                                                  *)
(***************************************************************************)
\* Confirmed hard stops of slides that are still the same.
Left == {f \in standing : f.slide \notin rewritten}

QuietAfter(v) == IF v.ok /\ HardStops(v.hits) = {} THEN 1 ELSE 0

Cleared == (alarmed => quiet = 2) /\ (attempts = 0 => known = {})

Untroubled == ~alarmed /\ known = {} /\ standing = {} /\ quiet = 0 /\ attempts = 0

\* What the repair of the first findings knows, and then the two passes behind it...
RepairInv ==
    /\ pc \in {"regen", "again1", "again2"} => attempts = 0
    /\ pc \in {"regen", "again1"} =>
        known = Left /\ (alarmed <=> standing # {}) /\ (rewritten # {} => quiet = 0)
    /\ pc = "again1" => rewritten # {}
    /\ pc = "again2" =>
        /\ known = Left \cup HardStops(half.hits)
        /\ alarmed <=> standing \cup HardStops(half.hits) # {}
        /\ quiet = QuietAfter(half)

\* ... and the brain's: it is only asked while something stands, and judged by passes
\* that came after its last change.
BrainInv ==
    /\ pc \in {"entry", "brain", "apply", "check1", "check2"} => standing # {}
    /\ pc = "apply" /\ applied => quiet = 0
    /\ pc \in {"check1", "check2"} => attempts > 0
    /\ pc = "check1" => quiet = 0
    /\ pc = "check2" => quiet = QuietAfter(half)

VerdictInv ==
    /\ attempts \in Nat /\ alarmed \in BOOLEAN /\ applied \in BOOLEAN
    /\ pc \in {"plan", "draft", "gate", "repair", "first"} => Untroubled /\ rewritten = {}
    /\ RepairInv
    /\ BrainInv
    /\ pc \in {"interact", "merge", "shipped"} => Cleared

LEMMA UnionHard ==
    ASSUME NEW v
    PROVE  HardStops(Union(v).hits) = HardStops(half.hits) \cup HardStops(v.hits)
BY DEF Union, HardStops

\* A step that tells the critic and the brain nothing.
LEMMA UntoldStep ==
    ASSUME VerdictInv, UNCHANGED <<rewritten, half, standing, attempts, applied, historyVars>>,
           \/ pc' = pc \/ pc' = "raised"
           \/ pc \in {"plan", "draft", "gate", "repair"} /\
              pc' \in {"plan", "draft", "gate", "repair", "first", "interact", "merge"}
           \/ pc \in {"interact", "merge"} /\ pc' \in {"merge", "shipped"}
    PROVE  VerdictInv'
<1>. USE DEF historyVars, VerdictInv, Untroubled, RepairInv, BrainInv, Cleared, Left,
         QuietAfter
<1>1. CASE pc' = pc
  BY <1>1
<1>2. CASE pc' = "raised"
  BY <1>2
<1>3. CASE /\ pc \in {"plan", "draft", "gate", "repair"}
           /\ pc' \in {"plan", "draft", "gate", "repair", "first", "interact", "merge"}
  BY <1>3
<1>4. CASE pc \in {"interact", "merge"} /\ pc' \in {"merge", "shipped"}
  BY <1>4
<1>. QED
  BY <1>1, <1>2, <1>3, <1>4

LEMMA BeforeCritique ==
    ASSUME VerdictInv,
           \/ AsksAgain \/ CallRaises \/ Plan \/ PlannerGivesUp \/ Draft \/ Gate \/ Repair
           \/ CriticRegenFails \/ Interact \/ Assemble
    PROVE  VerdictInv'
<1>. USE DEF Goto, repairVars
<1>1. CASE AsksAgain \/ CallRaises \/ PlannerGivesUp \/ CriticRegenFails
  BY <1>1, UntoldStep DEF AsksAgain, CallRaises, PlannerGivesUp, CriticRegenFails
<1>2. CASE Plan
  BY <1>2, UntoldStep DEF Plan
<1>3. CASE Draft
  BY <1>3, UntoldStep DEF Draft
<1>4. CASE Gate
  BY <1>4, UntoldStep DEF Gate, AfterGate
<1>5. CASE Repair
  BY <1>5, UntoldStep DEF Repair, AfterGate
<1>6. CASE Interact \/ Assemble
  BY <1>6, UntoldStep DEF Interact, Assemble
<1>. QED
  BY <1>1, <1>2, <1>3, <1>4, <1>5, <1>6

LEMMA CritiqueStep == ASSUME VerdictInv, Critique PROVE VerdictInv'
<1>1. PICK v \in Verdicts :
        /\ Reads(v) /\ standing' = HardStops(v.hits)
        /\ Goto(IF v.hits = {} THEN "interact" ELSE "regen")
  BY DEF Critique
<1>2. Untroubled /\ rewritten = {} /\ UNCHANGED <<rewritten, half, attempts, applied>>
  BY DEF Critique, VerdictInv
<1>3. /\ known' = standing' /\ (alarmed' <=> standing' # {}) /\ rewritten' = {}
      /\ attempts' = 0 /\ alarmed' \in BOOLEAN
  BY <1>1, <1>2 DEF Reads, Untroubled
<1>4. CASE v.hits = {}
  <2>1. standing' = {} /\ pc' = "interact"
    BY <1>1, <1>4 DEF HardStops, Goto
  <2>. QED
    BY <1>2, <1>3, <2>1 DEF VerdictInv, RepairInv, BrainInv, Cleared
<1>5. CASE v.hits # {}
  <2>1. pc' = "regen"
    BY <1>1, <1>5 DEF Goto
  <2>. QED
    BY <1>2, <1>3, <2>1 DEF VerdictInv, RepairInv, BrainInv, Left
<1>. QED
  BY <1>4, <1>5

LEMMA CriticRegenStep == ASSUME VerdictInv, CriticRegen \/ CriticRegenDone PROVE VerdictInv'
<1>1. CASE Accepts("regen") /\ UNCHANGED applied
  <2>1. PICK id \in todo, r \in Rewrites :
            Regenerate("regen", id) /\ Splice(Rewritten(SlideOf(slides, id), r, plan))
    BY <1>1 DEF Accepts
  <2>. DEFINE new == Rewritten(SlideOf(slides, id), r, plan)
  <2>2. /\ pc = "regen" /\ pc' = "regen" /\ UNCHANGED <<standing, attempts, alarmed>>
        /\ rewritten' = rewritten \cup {new.id}
        /\ known' = {f \in known : f.slide # new.id} /\ quiet' = 0
    BY <2>1 DEF Regenerate, Goto, Splice
  <2>3. known' = Left'
    BY <2>2 DEF VerdictInv, RepairInv, Left
  <2>. QED
    BY <1>1, <2>2, <2>3 DEF VerdictInv, RepairInv, BrainInv
<1>2. CASE Rejects("regen") /\ UNCHANGED applied
  <2>1. pc' = pc /\ UNCHANGED <<rewritten, half, standing, attempts, applied, historyVars>>
    BY <1>2 DEF Rejects, Regenerate, Goto, historyVars
  <2>. QED
    BY <2>1, UntoldStep
<1>3. CASE CriticRegenDone
  <2>1. /\ pc = "regen" /\ UNCHANGED <<rewritten, half, standing, attempts, applied, historyVars>>
        /\ pc' = IF rewritten # {} THEN "again1"
                 ELSE IF standing # {} THEN "entry" ELSE "interact"
    BY <1>3 DEF CriticRegenDone, Goto, repairVars
  <2>. QED
    BY <2>1 DEF historyVars, VerdictInv, RepairInv, BrainInv, Cleared, Left
<1>. QED
  BY <1>1, <1>2, <1>3 DEF CriticRegen

LEMMA RejudgeStep == ASSUME VerdictInv, Rejudge \/ RejudgeAgain PROVE VerdictInv'
<1>1. CASE Rejudge
  <2>1. PICK v \in Verdicts : Reads(v) /\ half' = v
    BY <1>1 DEF Rejudge, FirstHalf
  <2>2. /\ pc = "again1" /\ pc' = "again2"
        /\ UNCHANGED <<rewritten, standing, attempts, applied>>
    BY <1>1 DEF Rejudge, FirstHalf, Goto
  <2>3. known = Left /\ (alarmed <=> standing # {}) /\ quiet = 0 /\ attempts = 0
    BY <2>2 DEF VerdictInv, RepairInv
  <2>4. Left' = Left
    BY <2>2 DEF Left
  <2>5. /\ known' = Left' \cup HardStops(half'.hits) /\ quiet' = QuietAfter(half')
        /\ alarmed' <=> standing' \cup HardStops(half'.hits) # {}
        /\ alarmed' \in BOOLEAN
    BY <2>1, <2>2, <2>3, <2>4 DEF Reads, QuietAfter
  <2>. QED
    BY <2>2, <2>3, <2>5 DEF VerdictInv, RepairInv, BrainInv, QuietAfter
<1>2. CASE RejudgeAgain
  <2>1. PICK v \in Verdicts : Reads(v) /\ standing' = Residual(Union(v))
    BY <1>2 DEF RejudgeAgain
  <2>2. /\ pc = "again2" /\ pc' = IF standing' = {} THEN "interact" ELSE "entry"
        /\ UNCHANGED <<rewritten, attempts, applied>>
    BY <1>2 DEF RejudgeAgain, Goto
  <2>3. /\ known = Left \cup HardStops(half.hits)
        /\ alarmed <=> standing \cup HardStops(half.hits) # {}
        /\ quiet = QuietAfter(half)
    BY <2>2 DEF VerdictInv, RepairInv
  <2>4. alarmed' \in BOOLEAN
    BY <2>1 DEF Reads, VerdictInv
  <2>5. CASE standing' = {}
    <3>1. HardStops(half.hits) = {} /\ HardStops(v.hits) = {}
      BY <2>1, <2>5, UnionHard DEF Residual
    <3>2. known' = {}
      BY <2>1, <2>3, <2>5, <3>1 DEF Reads, Residual, Left
    <3>3. CASE half.ok /\ v.ok
      <4>1. quiet = 1
        BY <2>3, <3>1, <3>3 DEF QuietAfter
      <4>2. quiet' = 2
        BY <2>1, <3>1, <3>3, <4>1 DEF Reads
      <4>. QED
        BY <2>2, <2>4, <2>5, <3>2, <4>2 DEF VerdictInv, RepairInv, BrainInv, Cleared
    <3>4. CASE ~(half.ok /\ v.ok)
      <4>1. standing = {}
        BY <2>1, <2>5, <3>4 DEF Residual, Union
      <4>2. ~alarmed'
        BY <2>1, <2>3, <3>1, <4>1 DEF Reads
      <4>. QED
        BY <2>2, <2>4, <2>5, <3>2, <4>2 DEF VerdictInv, RepairInv, BrainInv, Cleared
    <3>. QED
      BY <3>3, <3>4
  <2>6. CASE standing' # {}
    BY <2>2, <2>4, <2>6 DEF VerdictInv, RepairInv, BrainInv
  <2>. QED
    BY <2>5, <2>6
<1>. QED
  BY <1>1, <1>2

LEMMA BrainStep ==
    ASSUME VerdictInv,
           BrainEntry \/ BrainProposes \/ BrainFix \/ BrainFixFails \/ BrainFixesDone
    PROVE  VerdictInv'
<1>1. CASE BrainEntry
  <2>1. PICK v \in Verdicts : Reads(v) /\ standing' = standing \cup HardStops(v.hits)
    BY <1>1 DEF BrainEntry
  <2>2. pc = "entry" /\ pc' = "brain" /\ UNCHANGED <<attempts, applied>>
    BY <1>1 DEF BrainEntry, Goto
  <2>3. standing' # {} /\ alarmed' \in BOOLEAN
    BY <2>1, <2>2 DEF VerdictInv, BrainInv, Reads
  <2>. QED
    BY <2>2, <2>3 DEF VerdictInv, RepairInv, BrainInv
<1>2. CASE BrainProposes
  <2>1. /\ pc = "brain" /\ pc' = "apply" /\ applied' = FALSE
        /\ UNCHANGED <<standing, attempts, alarmed>>
    BY <1>2 DEF BrainProposes, Goto, historyVars
  <2>. QED
    BY <2>1 DEF VerdictInv, RepairInv, BrainInv
<1>3. CASE Accepts("apply") /\ applied' = TRUE
  <2>1. pc = "apply" /\ pc' = "apply" /\ quiet' = 0 /\ UNCHANGED <<standing, attempts, alarmed>>
    BY <1>3 DEF Accepts, Regenerate, Goto, Splice
  <2>. QED
    BY <1>3, <2>1 DEF VerdictInv, RepairInv, BrainInv
<1>4. CASE (Rejects("apply") /\ UNCHANGED applied) \/ BrainFixFails
  <2>1. pc' = pc /\ UNCHANGED <<rewritten, half, standing, attempts, applied, historyVars>>
    BY <1>4 DEF Rejects, BrainFixFails, Regenerate, Goto, historyVars
  <2>. QED
    BY <2>1, UntoldStep
<1>5. CASE BrainFixesDone
  <2>1. CASE applied
    <3>1. /\ pc = "apply" /\ pc' = "check1" /\ attempts' = attempts + 1
          /\ UNCHANGED <<standing, applied, alarmed, quiet>>
      BY <1>5, <2>1 DEF BrainFixesDone, Goto, CountAttempt, historyVars
    <3>2. attempts' \in Nat /\ attempts' > 0
      BY <3>1 DEF VerdictInv
    <3>. QED
      BY <2>1, <3>1, <3>2 DEF VerdictInv, RepairInv, BrainInv
  <2>2. CASE ~applied
    <3>1. pc' = "raised" /\ UNCHANGED <<attempts, applied, alarmed>>
      BY <1>5, <2>2 DEF BrainFixesDone, Goto, historyVars
    <3>. QED
      BY <3>1 DEF VerdictInv, RepairInv, BrainInv
  <2>. QED
    BY <2>1, <2>2
<1>. QED
  BY <1>1, <1>2, <1>3, <1>4, <1>5 DEF BrainFix

LEMMA RecheckStep == ASSUME VerdictInv, Recheck \/ RecheckAgain PROVE VerdictInv'
<1>1. CASE Recheck
  <2>1. PICK v \in Verdicts : Reads(v) /\ half' = v
    BY <1>1 DEF Recheck, FirstHalf
  <2>2. /\ pc = "check1" /\ pc' = "check2" /\ UNCHANGED <<standing, attempts, applied>>
    BY <1>1 DEF Recheck, FirstHalf, Goto
  <2>3. quiet = 0 /\ standing # {} /\ attempts > 0
    BY <2>2 DEF VerdictInv, BrainInv
  <2>4. quiet' = QuietAfter(half') /\ alarmed' \in BOOLEAN
    BY <2>1, <2>3 DEF Reads, QuietAfter, VerdictInv
  <2>. QED
    BY <2>2, <2>3, <2>4 DEF VerdictInv, RepairInv, BrainInv, QuietAfter
<1>2. CASE RecheckAgain
  <2>1. PICK v \in Verdicts :
            /\ Reads(v) /\ standing' = Surviving(Union(v))
            /\ Goto(IF standing' = {} THEN "interact"
                    ELSE IF MayTryAgain(Union(v)) THEN "brain" ELSE "raised")
    BY <1>2 DEF RecheckAgain
  <2>2. pc = "check2" /\ UNCHANGED <<attempts, applied>>
    BY <1>2 DEF RecheckAgain
  <2>3. /\ quiet = QuietAfter(half) /\ standing # {} /\ attempts > 0 /\ attempts \in Nat
        /\ alarmed' \in BOOLEAN
    BY <2>1, <2>2 DEF VerdictInv, BrainInv, Reads
  <2>4. CASE standing' = {}
    <3>1. half.ok /\ v.ok /\ HardStops(Union(v).hits) = {}
      BY <2>1, <2>3, <2>4 DEF Surviving, Union
    <3>2. HardStops(half.hits) = {} /\ HardStops(v.hits) = {}
      BY <3>1, UnionHard
    <3>3. quiet = 1
      BY <2>3, <3>1, <3>2 DEF QuietAfter
    <3>4. quiet' = 2
      BY <2>1, <3>1, <3>2, <3>3 DEF Reads
    <3>5. pc' = "interact"
      BY <2>1, <2>4 DEF Goto
    <3>. QED
      BY <2>2, <2>3, <3>4, <3>5 DEF VerdictInv, RepairInv, BrainInv, Cleared
  <2>5. CASE standing' # {}
    <3>1. pc' \in {"brain", "raised"}
      BY <2>1, <2>5 DEF Goto
    <3>. QED
      BY <2>2, <2>3, <2>5, <3>1 DEF VerdictInv, RepairInv, BrainInv
  <2>. QED
    BY <2>4, <2>5
<1>. QED
  BY <1>1, <1>2

LEMMA VerdictStep == ASSUME VerdictInv, [Next]_vars PROVE VerdictInv'
<1>1. Work \/ UNCHANGED editorialVars
  BY DEF Next, vars, deckVars, InSources, InEditorial, InOutputs, InImages, InTurns, InDeck,
     InInterview, InSuggestions, InArticle, InText, EditorialNext, Delivered
<1>2. CASE UNCHANGED editorialVars
  BY <1>2, UntoldStep DEF editorialVars, repairVars, historyVars
<1>3. CASE Work
  BY <1>3, BeforeCritique, CritiqueStep, CriticRegenStep, RejudgeStep, BrainStep, RecheckStep
     DEF Work
<1>. QED
  BY <1>1, <1>2, <1>3

\* However often passes fail, miss what another saw, or are left without a verdict:
\* once a pass of the critic has confirmed an unsupported fact, a deck ships only as
\* two passes in a row have read it and found none, and unless the brain changed it no
\* slide of it is still the one the fact was confirmed on.
THEOREM VerdictsStayClean == Spec => []VerdictIsClean
<1>1. Init => VerdictInv
  <2>. SUFFICES ASSUME EditorialInit PROVE VerdictInv
    BY DEF Init
  <2>1. pc = "plan" /\ Untroubled /\ rewritten = {}
    BY DEF EditorialInit, Untroubled
  <2>2. attempts \in Nat /\ alarmed \in BOOLEAN /\ applied \in BOOLEAN
    BY DEF EditorialInit
  <2>. QED
    BY <2>1, <2>2 DEF VerdictInv, RepairInv, BrainInv
<1>2. VerdictInv /\ [Next]_vars => VerdictInv'
  BY VerdictStep
<1>3. VerdictInv => VerdictIsClean
  BY DEF VerdictInv, Cleared, VerdictIsClean, Shipped
<1>. QED
  BY <1>1, <1>2, <1>3, PTL DEF Spec

-----------------------------------------------------------------------------
(***************************************************************************)
(* Induction over data.  A non-empty set of naturals has a least element,  *)
(* so what holds of 0 and of i + 1 when it holds of i holds up to n; and a *)
(* function defined by recursion over the places of a sequence exists.     *)
(* FlattenSeq, a CHOOSE of such a function, is then what it should be.     *)
(***************************************************************************)
LEMMA LeastElement ==
    ASSUME NEW T, T \subseteq Nat, T # {}
    PROVE  \E x \in T : \A y \in T : x <= y
<1>. DEFINE R == OpToRel(<, Nat)
<1>1. IsWellFoundedOn(R, Nat)
  BY NatLessThanWellFounded
<1>2. \A x, y \in Nat : y < x => <<y, x>> \in R
  BY DEF OpToRel
<1>. HIDE DEF R
<1>3. PICK x \in T : \A y \in T : ~ (<<y, x>> \in R)
  BY <1>1, WFMin
<1>4. ASSUME NEW y \in T PROVE x <= y
  <2>1. x \in Nat /\ y \in Nat
    BY <1>4
  <2>2. ~(y < x)
    BY <1>2, <1>3, <2>1
  <2>. QED
    BY <2>1, <2>2
<1>. QED
  BY <1>4

LEMMA Counting ==
    ASSUME NEW n \in Nat, NEW T, 0 \in T, \A i \in 0..(n - 1) : i \in T => i + 1 \in T
    PROVE  \A i \in 0..n : i \in T
<1>. DEFINE U == (0..n) \ T
<1>1. SUFFICES ASSUME U # {} PROVE FALSE
  OBVIOUS
<1>2. U \subseteq Nat
  OBVIOUS
<1>3. PICK x \in U : \A y \in U : x <= y
  BY <1>1, <1>2, LeastElement
<1>4. x \in 1..n /\ x - 1 \notin U
  BY <1>3
<1>5. x - 1 \in 0..(n - 1) /\ x - 1 \in T
  BY <1>4
<1>6. (x - 1) + 1 \in T /\ (x - 1) + 1 = x
  BY <1>4, <1>5
<1>. QED
  BY <1>3, <1>6

\* A function defined by recursion over the places of a sequence exists.
IsStep(step, S, n) == step \in [S \X (1..n) -> S]
Iterates(g, S, c, step, n) ==
    /\ g \in [0..n -> S]
    /\ g[0] = c /\ \A i \in 1..n : g[i] = step[<<g[i - 1], i>>]
LEMMA Recursion ==
    ASSUME NEW S, NEW n \in Nat, NEW c \in S, NEW step, IsStep(step, S, n)
    PROVE  \E g : Iterates(g, S, c, step, n)
<1>. USE DEF IsStep, Iterates
<1>. DEFINE Upto(m, g) == g[0] = c /\ \A i \in 1..m : g[i] = step[<<g[i - 1], i>>]
            T == {m \in 0..n : \E g \in [0..n -> S] : Upto(m, g)}
<1>1. 0 \in T
  <2>. DEFINE g == [i \in 0..n |-> c]
  <2>1. g \in [0..n -> S] /\ Upto(0, g) /\ 0 \in 0..n
    OBVIOUS
  <2>. HIDE DEF g
  <2>. QED
    BY <2>1
<1>2. ASSUME NEW m \in 0..(n - 1), m \in T PROVE m + 1 \in T
  <2>1. PICK g \in [0..n -> S] : Upto(m, g)
    BY <1>2
  <2>. DEFINE e == step[<<g[m], m + 1>>]
              h == [g EXCEPT ![m + 1] = e]
  <2>2. m \in 0..n /\ m + 1 \in 0..n /\ m + 1 \in 1..n
    OBVIOUS
  <2>3. e \in S
    BY <2>2
  <2>4. h \in [0..n -> S]
    BY <2>3
  <2>5. h[m + 1] = e /\ \A i \in 0..m : h[i] = g[i]
    BY <2>2
  <2>6. Upto(m + 1, h)
    <3>1. h[0] = c
      BY <2>1, <2>5
    <3>2. ASSUME NEW i \in 1..(m + 1) PROVE h[i] = step[<<h[i - 1], i>>]
      <4>1. CASE i = m + 1
        <5>1. i - 1 = m /\ h[m] = g[m]
          BY <2>2, <2>5, <4>1
        <5>. QED
          BY <2>5, <4>1, <5>1
      <4>2. CASE i # m + 1
        <5>1. i \in 1..m /\ i \in 0..m /\ i - 1 \in 0..m
          BY <4>2
        <5>. QED
          BY <2>1, <2>5, <5>1
      <4>. QED
        BY <4>1, <4>2
    <3>. QED
      BY <3>1, <3>2
  <2>. QED
    BY <2>2, <2>4, <2>6
<1>. HIDE DEF T
<1>3. n \in T
  BY <1>1, <1>2, Counting
<1>. QED
  BY <1>3 DEF T

\* FlattenSeq joins its sequences one after the other.
LEMMA Flattened ==
    ASSUME NEW S, NEW seqs \in Seq(Seq(S))
    PROVE  \E g \in [0..Len(seqs) -> Seq(S)] :
            /\ g[0] = <<>> /\ FlattenSeq(seqs) = g[Len(seqs)]
            /\ \A i \in 1..Len(seqs) : g[i] = g[i - 1] \o seqs[i]
<1>. DEFINE n == Len(seqs)
            Body(f) == [i \in 1..n |-> IF i = 1 THEN seqs[i] ELSE f[i - 1] \o seqs[i]]
            step == [p \in Seq(S) \X (1..n) |-> p[1] \o seqs[p[2]]]
<1>1. n \in Nat /\ (\A i \in 1..n : seqs[i] \in Seq(S)) /\ <<>> \in Seq(S)
  BY EmptySeq
<1>2. step \in [Seq(S) \X (1..n) -> Seq(S)]
  BY <1>1
<1>3. PICK g \in [0..n -> Seq(S)] :
        g[0] = <<>> /\ \A i \in 1..n : g[i] = step[<<g[i - 1], i>>]
  <2>1. IsStep(step, Seq(S), n)
    BY <1>2 DEF IsStep
  <2>. HIDE DEF step, n
  <2>2. \E g : Iterates(g, Seq(S), <<>>, step, n)
    BY <1>1, <2>1, Recursion
  <2>. QED
    BY <2>2 DEF Iterates
<1>4. ASSUME NEW i \in 1..n PROVE g[i] = g[i - 1] \o seqs[i] /\ g[i - 1] \in Seq(S)
  <2>1. i - 1 \in 0..n
    BY <1>1
  <2>2. g[i - 1] \in Seq(S) /\ g[i] = step[<<g[i - 1], i>>]
    BY <1>3, <2>1
  <2>. QED
    BY <2>2
<1>. HIDE DEF step
<1>5. CASE n = 0
  <2>1. seqs = <<>>
    BY <1>5
  <2>. QED
    BY <1>3, <1>4, <1>5, <2>1 DEF FlattenSeq
<1>6. CASE n # 0
  <2>. DEFINE h == [i \in 1..n |-> g[i]]
  <2>1. h = Body(h)
    <3>. SUFFICES ASSUME NEW i \in 1..n
                  PROVE  g[i] = IF i = 1 THEN seqs[i] ELSE h[i - 1] \o seqs[i]
      OBVIOUS
    <3>1. CASE i = 1
      <4>1. i - 1 = 0
        BY <3>1
      <4>2. g[i] = g[i - 1] \o seqs[i] /\ seqs[i] \in Seq(S)
        BY <1>1, <1>4
      <4>. QED
        BY <1>3, <3>1, <4>1, <4>2, ConcatEmptySeq
    <3>2. CASE i # 1
      <4>1. i - 1 \in 1..n
        BY <1>1, <3>2
      <4>2. h[i - 1] = g[i - 1]
        BY <4>1
      <4>. QED
        BY <1>4, <3>2, <4>2
    <3>. QED
      BY <3>1, <3>2
  <2>. DEFINE f == CHOOSE f : f = Body(f)
  <2>2. f = Body(f)
    BY <2>1
  <2>3. FlattenSeq(seqs) = f[n]
    BY <1>6 DEF FlattenSeq
  <2>. HIDE DEF f
  <2>4. \A i \in 1..n : f[i] = IF i = 1 THEN seqs[i] ELSE f[i - 1] \o seqs[i]
    BY <2>2
  <2>. HIDE DEF n
  <2>5. \A i \in 0..n : i \in {j \in 0..n : j # 0 => f[j] = g[j]}
    <3>. DEFINE T == {j \in 0..n : j # 0 => f[j] = g[j]}
    <3>1. 0 \in T
      BY <1>1
    <3>2. ASSUME NEW i \in 0..(n - 1), i \in T PROVE i + 1 \in T
      <4>1. i + 1 \in 1..n /\ (i + 1) - 1 = i
        BY <1>1
      <4>2. CASE i = 0
        <5>1. 1 \in 1..n /\ 1 - 1 = 0
          BY <1>1, <4>1, <4>2
        <5>2. g[1] = g[1 - 1] \o seqs[1] /\ seqs[1] \in Seq(S) /\ f[1] = seqs[1]
          BY <1>1, <1>4, <2>4, <5>1
        <5>3. g[1] = seqs[1]
          BY <1>3, <5>1, <5>2, ConcatEmptySeq
        <5>. QED
          BY <4>1, <4>2, <5>2, <5>3
      <4>3. CASE i # 0
        <5>1. f[i] = g[i]
          BY <3>2, <4>3
        <5>2. i + 1 # 1
          BY <4>3
        <5>3. f[i + 1] = f[(i + 1) - 1] \o seqs[i + 1]
          BY <2>4, <4>1, <5>2
        <5>4. g[i + 1] = g[(i + 1) - 1] \o seqs[i + 1]
          BY <1>4, <4>1
        <5>5. i + 1 \in 0..n
          BY <1>1, <4>1
        <5>. QED
          BY <4>1, <5>1, <5>3, <5>4, <5>5
      <4>. QED
        BY <4>2, <4>3
    <3>. HIDE DEF T
    <3>3. \A i \in 0..n : i \in T
      BY <1>1, <3>1, <3>2, Counting
    <3>. QED
      BY <3>3 DEF T
  <2>6. f[n] = g[n]
    BY <1>1, <1>6, <2>5
  <2>. QED
    BY <1>3, <1>4, <2>3, <2>6 DEF n
<1>. QED
  BY <1>5, <1>6

-----------------------------------------------------------------------------
(***************************************************************************)
(* The interview.                                                          *)
(***************************************************************************)

\* A non-empty set of places has a last one.
LEMMA LastPlace ==
    ASSUME NEW n \in Nat, NEW T, T \subseteq 1..n, T # {}
    PROVE  \E m \in T : \A l \in T : l <= m
<1>. DEFINE U == {n - m : m \in T}
<1>1. U \subseteq Nat /\ U # {}
  <2>1. \A m \in T : n - m \in Nat
    OBVIOUS
  <2>2. PICK m \in T : TRUE
    OBVIOUS
  <2>3. n - m \in U
    OBVIOUS
  <2>. QED
    BY <2>1, <2>3
<1>2. PICK x \in U : \A y \in U : x <= y
  BY <1>1, LeastElement
<1>3. PICK m \in T : x = n - m
  BY <1>2
<1>4. ASSUME NEW l \in T PROVE l <= m
  <2>1. n - l \in U
    OBVIOUS
  <2>2. n - m <= n - l /\ m \in Nat /\ l \in Nat
    BY <1>2, <1>3, <2>1
  <2>. QED
    BY <2>2
<1>. QED
  BY <1>4

LEMMA LastUnderKey ==
    ASSUME NEW cs \in SUBSET Chunks, passages \in Seq([key : Nat, claims : Nat]),
           NEW key \in KeysOf(cs)
    PROVE  LastUnder(key, cs) \in cs /\ passages[LastUnder(key, cs)].key = key
<1>. DEFINE T == {c \in cs : passages[c].key = key}
<1>1. PICK c \in T : TRUE
  BY DEF KeysOf
<1>2. \E m \in T : \A l \in T : l <= m
  <2>1. Len(passages) \in Nat /\ T \subseteq 1..Len(passages)
    BY DEF Chunks
  <2>. HIDE DEF T
  <2>. QED
    BY <1>1, <2>1, LastPlace
<1>3. PICK m \in cs : passages[m].key = key /\ \A d \in cs : passages[d].key = key => d <= m
  BY <1>2
<1>. QED
  BY <1>3 DEF LastUnder

LEMMA FreshEntry ==
    ASSUME passages \in Seq([key : Nat, claims : Nat]), NEW c \in Chunks
    PROVE  InitialEntry(c) \in Entry
<1>. DEFINE key == passages[c].key
<1>1. key \in KeysOf(Chunks)
  BY DEF KeysOf
<1>. HIDE DEF key
<1>2. LastUnder(key, Chunks) \in Chunks
  BY <1>1, LastUnderKey
<1>. QED
  BY <1>2 DEF InitialEntry, Entry, key

\* An entry is filed under the last chunk that goes by its own chunk's key; with one
\* claim in each, the entries are the chunks' in their order.
InterviewInv ==
    /\ passages \in Seq([key : Nat, claims : Nat])
    /\ evidence \in Seq(Entry)
    /\ judged \in Verdict \cup {Unjudged}
    /\ OneClaimEach =>
        /\ Len(evidence) = Len(passages)
        /\ \A k \in DOMAIN evidence :
            /\ evidence[k].of = k
            /\ evidence[k].chunk = LastUnder(passages[k].key, Chunks)

LEMMA InterviewStart == ASSUME InterviewInit PROVE InterviewInv
<1>. DEFINE n == Len(passages)
            of(c) == [k \in 1..passages[c].claims |-> InitialEntry(c)]
            seqs == [c \in 1..n |-> of(c)]
<1>1. passages \in Seq([key : Nat, claims : Nat]) /\ n \in Nat /\ DOMAIN passages = 1..n
  BY InterviewAssumption DEF InterviewInit
<1>2. ASSUME NEW c \in 1..n PROVE of(c) \in Seq(Entry)
  <2>0. c \in DOMAIN passages /\ c \in Chunks
    BY <1>1 DEF Chunks
  <2>1. c \in Chunks /\ passages[c] \in [key : Nat, claims : Nat]
    <3>. DEFINE Passage == [key : Nat, claims : Nat]
    <3>1. passages \in Seq(Passage)
      BY <1>1
    <3>. HIDE DEF Passage
    <3>2. passages[c] \in Passage
      BY ONLY <2>0, <3>1
    <3>. QED
      BY <2>0, <3>2 DEF Passage
  <2>2. InitialEntry(c) \in Entry
    BY <1>1, <2>1, FreshEntry
  <2>3. passages[c].claims \in Nat
    BY <2>1
  <2>. QED
    BY <2>2, <2>3, IsASeq
<1>3. seqs \in Seq(Seq(Entry)) /\ Len(seqs) = n
  BY <1>1, <1>2, IsASeq
<1>4. evidence = FlattenSeq(seqs)
  BY <1>1 DEF InterviewInit, InitialEvidence, Chunks
<1>. HIDE DEF seqs
<1>5. PICK g \in [0..n -> Seq(Entry)] :
        /\ g[0] = <<>> /\ evidence = g[n]
        /\ \A i \in 1..n : g[i] = g[i - 1] \o seqs[i]
  <2>1. \E g \in [0..Len(seqs) -> Seq(Entry)] :
            /\ g[0] = <<>> /\ FlattenSeq(seqs) = g[Len(seqs)]
            /\ \A i \in 1..Len(seqs) : g[i] = g[i - 1] \o seqs[i]
    BY <1>3, Flattened
  <2>. HIDE DEF n
  <2>. QED
    BY <1>3, <1>4, <2>1
<1>6. evidence \in Seq(Entry)
  BY <1>1, <1>5
<1>7. ASSUME OneClaimEach
      PROVE  Len(evidence) = n /\ \A k \in 1..n : evidence[k] = InitialEntry(k)
  <2>. DEFINE T == {i \in 0..n : Len(g[i]) = i /\ \A k \in 1..i : g[i][k] = InitialEntry(k)}
  <2>1. 0 \in T
    BY <1>1, <1>5
  <2>2. ASSUME NEW i \in 0..(n - 1), i \in T PROVE i + 1 \in T
    <3>1. i + 1 \in 1..n /\ i + 1 \in 0..n /\ (i + 1) - 1 = i /\ i \in 0..n
      BY <1>1
    <3>2. g[i + 1] = g[i] \o seqs[i + 1] /\ g[i] \in Seq(Entry)
      BY <1>5, <3>1
    <3>3. /\ seqs[i + 1] \in Seq(Entry) /\ Len(seqs[i + 1]) = 1
          /\ seqs[i + 1][1] = InitialEntry(i + 1)
      <4>1. passages[i + 1].claims = 1
        BY <1>1, <1>7, <3>1 DEF OneClaimEach, Chunks
      <4>2. seqs[i + 1] = [k \in 1..1 |-> InitialEntry(i + 1)]
        BY <3>1, <4>1 DEF seqs
      <4>3. of(i + 1) \in Seq(Entry) /\ seqs[i + 1] = of(i + 1)
        BY <1>2, <3>1 DEF seqs
      <4>4. Len(seqs[i + 1]) = 1 /\ seqs[i + 1][1] = InitialEntry(i + 1)
        BY <4>2
      <4>. HIDE DEF of
      <4>. QED
        BY <4>3, <4>4
    <3>4. /\ Len(g[i + 1]) = i + 1
          /\ \A k \in 1..i : g[i + 1][k] = g[i][k]
          /\ g[i + 1][i + 1] = seqs[i + 1][1]
      <4>. DEFINE a == g[i]
                  b == seqs[i + 1]
      <4>1. a \in Seq(Entry) /\ b \in Seq(Entry) /\ Len(a) = i /\ Len(b) = 1 /\ g[i + 1] = a \o b
        BY <2>2, <3>2, <3>3
      <4>. HIDE DEF a, b
      <4>2. i \in Nat /\ Len(a \o b) = i + 1
        <5>1. i \in Nat
          OBVIOUS
        <5>2. Len(a \o b) = Len(a) + Len(b)
          BY <4>1, ConcatProperties
        <5>. QED
          BY <4>1, <5>1, <5>2
      <4>3. \A k \in 1..i : (a \o b)[k] = a[k]
        BY <4>1
      <4>4. (a \o b)[i + 1] = b[1]
        BY <4>1, <4>2, ConcatProperties
      <4>. QED
        BY <4>1, <4>2, <4>3, <4>4 DEF a, b
    <3>. QED
      BY <2>2, <3>1, <3>3, <3>4
  <2>. HIDE DEF T
  <2>3. \A i \in 0..n : i \in T
    <3>. HIDE DEF n
    <3>. QED
      BY <1>1, <2>1, <2>2, Counting
  <2>4. n \in T
    BY <1>1, <2>3
  <2>. QED
    BY <1>5, <2>4 DEF T
<1>8. ASSUME NEW k \in 1..n
      PROVE  InitialEntry(k).of = k /\ InitialEntry(k).chunk = LastUnder(passages[k].key, Chunks)
  BY DEF InitialEntry
<1>9. DOMAIN evidence = 1..Len(evidence)
  BY <1>6
<1>10. judged = Unjudged
  BY DEF InterviewInit
<1>. QED
  BY ONLY <1>1, <1>6, <1>7, <1>8, <1>9, <1>10 DEF InterviewInv

LEMMA InterviewStepKeeps ==
    ASSUME InterviewInv, InterviewStep
    PROVE  InterviewInv' /\ (evidence' # evidence => UpdateWithAnswer)
<1>1. UNCHANGED passages
  BY DEF InterviewStep, ScoreAnswer, ScoreByDefault, PassQuestion, UpdateWithAnswer
<1>2. UNCHANGED <<Chunks, Entry, Verdict, OneClaimEach>> /\ \A key : LastUnder(key, Chunks)' = LastUnder(key, Chunks)
  BY <1>1 DEF Chunks, Entry, Verdict, OneClaimEach, LastUnder
<1>3. CASE ScoreAnswer \/ ScoreByDefault \/ PassQuestion
  <2>1. UNCHANGED evidence /\ judged' \in Verdict \cup {Unjudged}
    <3>1. CASE ScoreAnswer
      BY <1>2, <3>1 DEF ScoreAnswer
    <3>2. CASE ScoreByDefault
      BY <3>2 DEF ScoreByDefault, Verdict, DefaultVerdict
    <3>3. CASE PassQuestion
      BY <3>3 DEF PassQuestion
    <3>. QED
      BY <1>3, <3>1, <3>2, <3>3
  <2>. QED
    BY <1>1, <1>2, <2>1 DEF InterviewInv
<1>4. CASE UpdateWithAnswer
  <2>1. /\ judged \in Verdict /\ judged' = Unjudged
        /\ evidence' = [k \in DOMAIN evidence |-> Apply(evidence[k])]
    BY <1>4 DEF UpdateWithAnswer, InterviewInv
  <2>2. /\ Len(evidence) \in Nat /\ DOMAIN evidence = 1..Len(evidence)
        /\ \A k \in DOMAIN evidence : evidence[k] \in Entry
    BY DEF InterviewInv
  <2>3. ASSUME NEW e \in Entry
        PROVE  Apply(e) \in Entry /\ Apply(e).of = e.of /\ Apply(e).chunk = e.chunk
    <3>1. judged.strong \in BOOLEAN
      BY <2>1 DEF Verdict
    <3>2. \/ Apply(e) = e
          \/ Apply(e) = [e EXCEPT !.answered = TRUE, !.ready = e.ready \/ judged.strong]
      BY DEF Apply
    <3>3. ASSUME NEW r \in BOOLEAN, Apply(e) = [e EXCEPT !.answered = TRUE, !.ready = r]
          PROVE  Apply(e) \in Entry /\ Apply(e).of = e.of /\ Apply(e).chunk = e.chunk
      BY <3>3 DEF Entry
    <3>4. (e.ready \/ judged.strong) \in BOOLEAN
      OBVIOUS
    <3>. QED
      BY <3>2, <3>3, <3>4
  <2>4. evidence' \in Seq(Entry)
    BY <2>1, <2>2, <2>3, IsASeq
  <2>5. \A k \in DOMAIN evidence :
            evidence'[k].of = evidence[k].of /\ evidence'[k].chunk = evidence[k].chunk
    BY <2>1, <2>2, <2>3
  <2>6. DOMAIN evidence' = DOMAIN evidence /\ Len(evidence') = Len(evidence)
    BY <2>1, <2>2, <2>4
  <2>7. judged' \in Verdict \cup {Unjudged}
    BY <2>1
  <2>. QED
    BY ONLY InterviewInv, <1>1, <1>2, <1>4, <2>4, <2>5, <2>6, <2>7 DEF InterviewInv
<1>. QED
  BY <1>3, <1>4 DEF InterviewStep

LEMMA InterviewNextKeeps ==
    ASSUME InterviewInv, [Next]_vars
    PROVE  InterviewInv' /\ (evidence' # evidence => UpdateWithAnswer)
<1>1. InterviewStep \/ UNCHANGED interviewVars
  BY DEF Next, vars, textVars, InSources, InEditorial, InOutputs, InImages, InTurns, InDeck,
     InInterview, InSuggestions, InArticle, InText, InterviewNext
<1>2. CASE UNCHANGED interviewVars
  BY <1>2 DEF interviewVars, InterviewInv, OneClaimEach, LastUnder, Entry, Verdict, Chunks
<1>. QED
  BY <1>1, <1>2, InterviewStepKeeps

LEMMA AnAnswerReaches ==
    ASSUME InterviewInv, UpdateWithAnswer, NEW k \in DOMAIN evidence
    PROVE  /\ Len(evidence') = Len(evidence)
           /\ evidence'[k].of = evidence[k].of /\ evidence'[k].chunk = evidence[k].chunk
           /\ evidence[k].ready => evidence'[k].ready
           /\ evidence[k].answered => evidence'[k].answered
           /\ ~evidence[k].ready /\ evidence'[k].ready => judged.strong
<1>1. /\ judged \in Verdict /\ evidence[k] \in Entry
      /\ evidence'[k] = Apply(evidence[k])
      /\ DOMAIN evidence' = DOMAIN evidence
  BY DEF UpdateWithAnswer, InterviewInv
<1>2. Len(evidence') = Len(evidence)
  BY <1>1 DEF UpdateWithAnswer, InterviewInv
<1>. QED
  BY <1>1, <1>2 DEF Apply, Entry, Verdict

\* With one claim in each chunk, the chunks and the entries are paired one to one, and
\* the entry paired with the last chunk of a key is filed under that chunk.
LEMMA PairsAreFiled ==
    ASSUME InterviewInv, OneClaimEach, NEW key \in KeysOf(Chunks)
    PROVE  /\ Paired = Chunks
           /\ ChunkMap(key) = LastUnder(key, Chunks)
           /\ passages[ChunkMap(key)].key = key
<1>1. Paired = Chunks
  BY DEF InterviewInv, Paired, Chunks
<1>. DEFINE last == LastUnder(key, Chunks)
<1>2. last \in Chunks /\ passages[last].key = key
  BY LastUnderKey DEF InterviewInv
<1>3. ChunkMap(key) = evidence[last].chunk
  BY <1>1 DEF ChunkMap
<1>. HIDE DEF last
<1>4. evidence[last].chunk = LastUnder(passages[last].key, Chunks)
  BY <1>1, <1>2 DEF InterviewInv, Paired
<1>. QED
  BY <1>1, <1>2, <1>3, <1>4 DEF last

LEMMA ReachedExactly ==
    ASSUME InterviewInv, OneClaimEach, judged \in Verdict, NEW k \in DOMAIN evidence
    PROVE  evidence[k].chunk \in ResolvedChunks(judged.used) <=> Reached(evidence[k])
<1>. DEFINE mine == passages[k].key
<1>1. /\ k \in Chunks /\ judged.used \subseteq Chunks
      /\ evidence[k].of = k /\ evidence[k].chunk = LastUnder(mine, Chunks)
  BY DEF InterviewInv, Chunks, Verdict
<1>2. mine \in KeysOf(Chunks) /\ KeysOf(judged.used) \subseteq KeysOf(Chunks)
  BY <1>1 DEF KeysOf
<1>3. Reached(evidence[k]) <=> mine \in KeysOf(judged.used)
  BY <1>1 DEF Reached
<1>. HIDE DEF mine
<1>4. /\ Paired = Chunks /\ evidence[k].chunk = ChunkMap(mine) /\ passages[ChunkMap(mine)].key = mine
  BY <1>1, <1>2, PairsAreFiled
<1>5. \A key \in KeysOf(Chunks) : passages[ChunkMap(key)].key = key
  BY PairsAreFiled
<1>6. ResolvedChunks(judged.used) = {ChunkMap(key) : key \in KeysOf(judged.used)}
  BY <1>2, <1>4 DEF ResolvedChunks
<1>. QED
  BY <1>2, <1>3, <1>4, <1>5, <1>6

LEMMA AnAnswerLands ==
    ASSUME InterviewInv, OneClaimEach, UpdateWithAnswer, NEW k \in DOMAIN evidence
    PROVE  /\ evidence'[k].answered <=> evidence[k].answered \/ Reached(evidence[k])
           /\ evidence'[k].ready <=>
                evidence[k].ready \/ (Reached(evidence[k]) /\ judged.strong)
<1>1. /\ judged \in Verdict /\ evidence[k] \in Entry
      /\ evidence'[k] = Apply(evidence[k])
  BY DEF UpdateWithAnswer, InterviewInv
<1>2. evidence[k].chunk \in ResolvedChunks(judged.used) <=> Reached(evidence[k])
  BY <1>1, ReachedExactly
<1>. DEFINE hit == evidence[k].chunk \in ResolvedChunks(judged.used)
<1>3. /\ hit => evidence'[k].answered /\ (evidence'[k].ready <=> evidence[k].ready \/ judged.strong)
      /\ ~hit => evidence'[k] = evidence[k]
  BY <1>1 DEF Apply, Entry, Verdict
<1>. HIDE DEF hit
<1>. QED
  BY <1>2, <1>3 DEF hit

\* For every source: an answer takes no entry of the matrix back and makes none ready
\* unless it is a strong one; and where each chunk gave one claim it is worked into
\* exactly the entries whose claim's chunk goes by the key of one it used.
THEOREM AnswersReach == Spec => AnswersReachTheirEvidence
<1>. DEFINE Unaltered ==
                /\ Len(evidence') = Len(evidence)
                /\ \A k \in DOMAIN evidence :
                    /\ evidence'[k].of = evidence[k].of /\ evidence'[k].chunk = evidence[k].chunk
                    /\ evidence[k].ready => evidence'[k].ready
                    /\ evidence[k].answered => evidence'[k].answered
                    /\ ~evidence[k].ready /\ evidence'[k].ready => judged.strong
            Landed ==
                \A k \in DOMAIN evidence :
                    /\ evidence'[k].answered <=> evidence[k].answered \/ Reached(evidence[k])
                    /\ evidence'[k].ready <=>
                        evidence[k].ready \/ (Reached(evidence[k]) /\ judged.strong)
<1>1. Init => InterviewInv
  BY InterviewStart DEF Init
<1>2. InterviewInv /\ [Next]_vars => InterviewInv'
  BY InterviewNextKeeps
<1>3. InterviewInv /\ [Next]_vars =>
        [/\ evidence' # evidence => Unaltered
         /\ UpdateWithAnswer /\ OneClaimEach => Landed]_interviewVars
  <2>1. ASSUME InterviewInv, [Next]_vars, evidence' # evidence PROVE Unaltered
    <3>1. UpdateWithAnswer
      BY <2>1, InterviewNextKeeps
    <3>2. Len(evidence') = Len(evidence)
      BY <2>1, <3>1 DEF UpdateWithAnswer, InterviewInv
    <3>. QED
      BY <2>1, <3>1, <3>2, AnAnswerReaches
  <2>2. ASSUME InterviewInv, UpdateWithAnswer, OneClaimEach PROVE Landed
    BY <2>2, AnAnswerLands
  <2>. HIDE DEF Unaltered, Landed
  <2>. QED
    BY <2>1, <2>2
<1>. QED
  BY <1>1, <1>2, <1>3, PTL DEF Spec, AnswersReachTheirEvidence

-----------------------------------------------------------------------------
(***************************************************************************)
(* From files to evidence.                                                 *)
(***************************************************************************)
Read == {ids[k] : k \in DOMAIN ids}

OfFile == {"fetch", "validate", "parse", "recognise", "cut", "extract", "collect"}

\* The file at work has no chunk before it is cut, and its pages are pages.
FileInv ==
    /\ file \in 1..Uploads
    /\ spc \in {"fetch", "validate", "parse", "recognise"} => pieces = <<>> /\ start = 0
    /\ spc \in OfFile => pages \in Seq(Page)
    /\ spc = "recognise" => page \in Nat \ {0}

\* The chunks cut so far: the pages before the one at work are done, that one's last
\* chunk reaches to where the next one starts, or further.
Continues(k) == k > 1 /\ pieces[k - 1].page = pieces[k].page

Piecewise == [page : Nat, from : Int, to : Int]

CutInv ==
    /\ pieces \in Seq(Piecewise)
    /\ start \in Nat /\ page \in 1..(Len(pages) + 1)
    /\ \A p \in 1..(page - 1) : pages[p].text > 0 <=> \E k \in DOMAIN pieces : pieces[k].page = p
    /\ \A k \in DOMAIN pieces :
        LET c == pieces[k] IN
        /\ c.page \in 1..page
        /\ c.to - c.from < ChunkSize + MinChunkSize
        /\ IF Continues(k)
           THEN c.from > pieces[k - 1].from /\ c.from <= pieces[k - 1].to
           ELSE c.from = 0 /\ (k > 1 => c.page > pieces[k - 1].page)
        /\ c.page < page /\ (k = Len(pieces) \/ ~Continues(k + 1)) => c.to = pages[c.page].text
        /\ c.page = page => start > 0
    /\ start > 0 =>
        /\ page <= Len(pages) /\ pages[page].text > 0
        /\ pieces # <<>>
        /\ LET c == pieces[Len(pieces)] IN c.page = page /\ c.from < start /\ start <= c.to

\* Every file that was taken up is in exactly one of the two lists, and what was kept
\* of it leads back to it.
ListsInv ==
    /\ ids \in Seq(1..Uploads) /\ metas = ids
    /\ IsFiniteSet(Read) /\ Cardinality(Read) = Len(ids)
    /\ Read \cap failures = {}
    /\ spc \in OfFile => Read \cup failures = 1..(file - 1)
    /\ spc \in {"matrix", "done", "nothing"} => Read \cup failures = 1..Uploads
    /\ kept \in Seq(Chunk) /\ \A k \in DOMAIN kept : kept[k].file \in Read

\* Claims name chunks that are kept, or about to be.
Backed(c) ==
    \/ \E k \in DOMAIN kept : kept[k].file = c.file /\ kept[k].index = c.index
    \/ spc = "collect" /\ c.file = file /\ c.index + 1 \in DOMAIN pieces

ClaimsInv ==
    /\ found \in Seq(Claim)
    /\ \A k \in DOMAIN found :
        /\ spc # "raised" => Backed(found[k])
        /\ ~ofJob => found[k].key = <<found[k].index, 0>>

MatrixInv ==
    spc = "done" /\ ~ofJob /\ Len(ids) = 1 =>
        /\ Len(matrix) = Len(found)
        /\ \A k \in DOMAIN matrix :
            matrix[k].file = found[k].file /\ matrix[k].index = found[k].index

ReadInv ==
    /\ spc \in ReadingStages /\ ofJob \in BOOLEAN
    /\ FileInv /\ ListsInv /\ ClaimsInv /\ MatrixInv
    /\ spc \in {"cut", "extract"} => CutInv
    /\ spc = "extract" => page = Len(pages) + 1
    /\ spc \in {"extract", "collect"} => pieces \in Seq(Piecewise)

\* A chunk is added: its page goes on behind it, or ends with it.
LEMMA EmitKeepsCut ==
    ASSUME CutInv, pages \in Seq(Page), page <= Len(pages), pages[page].text > 0,
           NEW to \in Int, to - start < ChunkSize + MinChunkSize,
           Emit(to), UNCHANGED pages,
           \/ page' = page + 1 /\ start' = 0 /\ to = pages[page].text
           \/ page' = page /\ start' \in Nat /\ start' > start /\ start' <= to
    PROVE  CutInv'
<1>. SUFFICES ASSUME NEW CONSTANT n, n = Len(pieces) PROVE CutInv'
  OBVIOUS
<1>. DEFINE new == [page |-> page, from |-> start, to |-> to]
<1>1. /\ page \in Nat \ {0} /\ start \in Nat /\ Len(pages) \in Nat /\ n \in Nat
      /\ pieces \in Seq(Piecewise) /\ DOMAIN pieces = 1..n
      /\ new \in Piecewise
  BY DEF CutInv, Piecewise
<1>2. /\ pieces' \in Seq(Piecewise) /\ Len(pieces') = n + 1 /\ DOMAIN pieces' = 1..(n + 1)
      /\ pieces'[n + 1] = new /\ \A k \in 1..n : pieces'[k] = pieces[k]
  BY <1>1 DEF Emit
<1>3. page' \in {page, page + 1} /\ page' \in 1..(Len(pages) + 1) /\ start' \in Nat
  BY <1>1
<1>4. \A k \in 1..n : pieces[k].page \in Nat /\ pieces[k].page <= page
  <2>. SUFFICES ASSUME NEW k \in DOMAIN pieces
                PROVE  pieces[k].page \in Nat /\ pieces[k].page <= page
    BY <1>1
  <2>1. pieces[k].page \in 1..page
    BY DEF CutInv
  <2>. QED
    BY <1>1, <2>1
<1>. HIDE DEF new
<1>5. \A k \in 1..n : Continues(k)' <=> Continues(k)
  BY <1>1, <1>2 DEF Continues
<1>6. Continues(n + 1)' <=> n # 0 /\ pieces[n].page = page
  <2>1. (n + 1) - 1 = n /\ (n + 1 > 1 <=> n # 0) /\ (n # 0 => n \in 1..n)
    BY <1>1
  <2>2. pieces'[n + 1].page = page /\ (n # 0 => pieces'[n].page = pieces[n].page)
    BY <1>2, <2>1 DEF new
  <2>. QED
    BY <2>1, <2>2 DEF Continues
<1>7. start > 0 <=> n # 0 /\ pieces[n].page = page
  <2>1. start > 0 => n # 0 /\ pieces[n].page = page
    BY <1>1 DEF CutInv
  <2>2. n # 0 /\ pieces[n].page = page => start > 0
    BY <1>1 DEF CutInv
  <2>. QED
    BY <2>1, <2>2
<1>8. ASSUME NEW p, p \in 1..(page' - 1)
      PROVE  pages[p].text > 0 <=> \E k \in DOMAIN pieces' : pieces'[k].page = p
  <2>1. CASE p = page
    <3>1. n + 1 \in DOMAIN pieces' /\ pieces'[n + 1].page = page
      BY <1>1, <1>2 DEF new
    <3>. QED
      BY <2>1, <3>1
  <2>2. CASE p # page
    <3>1. p \in 1..(page - 1)
      <4>1. page' \in Int /\ page' <= page + 1 /\ page \in Int
        BY <1>1, <1>3
      <4>2. p \in Int /\ 1 <= p /\ p <= page' - 1
        BY <1>8, <4>1
      <4>. QED
        BY <2>2, <4>1, <4>2
    <3>2. pages[p].text > 0 <=> \E k \in 1..n : pieces[k].page = p
      BY <1>1, <3>1 DEF CutInv
    <3>3. (\E k \in 1..n : pieces[k].page = p) <=> (\E k \in 1..(n + 1) : pieces'[k].page = p)
      <4>1. new.page # p
        BY <2>2 DEF new
      <4>2. \A k \in 1..(n + 1) : k = n + 1 \/ k \in 1..n
        BY <1>1
      <4>3. \A k \in 1..n : k \in 1..(n + 1)
        BY <1>1
      <4>. QED
        BY <1>2, <4>1, <4>2, <4>3
    <3>. QED
      BY <1>2, <3>2, <3>3
  <2>. QED
    BY <2>1, <2>2
<1>9. ASSUME NEW k \in 1..n
      PROVE  /\ pieces[k].page \in 1..page'
             /\ pieces[k].to - pieces[k].from < ChunkSize + MinChunkSize
             /\ IF Continues(k)'
                THEN pieces[k].from > pieces'[k - 1].from /\ pieces[k].from <= pieces'[k - 1].to
                ELSE pieces[k].from = 0 /\ (k > 1 => pieces[k].page > pieces'[k - 1].page)
             /\ pieces[k].page < page' /\ ~Continues(k + 1)' => pieces[k].to = pages[pieces[k].page].text
             /\ pieces[k].page = page' => start' > 0
  <2>1. /\ pieces[k].page \in 1..page
        /\ pieces[k].to - pieces[k].from < ChunkSize + MinChunkSize
        /\ IF Continues(k)
           THEN pieces[k].from > pieces[k - 1].from /\ pieces[k].from <= pieces[k - 1].to
           ELSE pieces[k].from = 0 /\ (k > 1 => pieces[k].page > pieces[k - 1].page)
        /\ pieces[k].page < page /\ (k = n \/ ~Continues(k + 1)) =>
                pieces[k].to = pages[pieces[k].page].text
    BY <1>1 DEF CutInv
  <2>2. k > 1 => k - 1 \in 1..n /\ pieces'[k - 1] = pieces[k - 1]
    BY <1>1, <1>2
  <2>3. Continues(k) => k > 1
    BY DEF Continues
  <2>4. ASSUME pieces[k].page < page', ~Continues(k + 1)'
        PROVE  pieces[k].to = pages[pieces[k].page].text
    <3>1. CASE k = n
      <4>1. pieces[k].page # page
        <5>1. n # 0 /\ ~Continues(n + 1)'
          BY <1>1, <2>4, <3>1
        <5>. QED
          BY <1>6, <3>1, <5>1
      <4>. QED
        BY <1>1, <1>3, <2>1, <2>4, <3>1, <4>1
    <3>2. CASE k # n
      <4>1. k + 1 \in 1..n /\ (k + 1) - 1 = k /\ k + 1 > 1
        BY <1>1, <3>2
      <4>2. ~Continues(k + 1)
        BY <1>5, <2>4, <4>1
      <4>3. pieces[k + 1].page > pieces[k].page /\ pieces[k + 1].page <= page
        BY <1>1, <1>4, <4>1, <4>2 DEF CutInv
      <4>. QED
        BY <1>1, <1>4, <2>1, <4>1, <4>2, <4>3
    <3>. QED
      BY <3>1, <3>2
  <2>5. pieces[k].page = page' => start' > 0
    BY <1>1, <1>4
  <2>6. pieces[k].page \in 1..page'
    BY <1>1, <1>3, <2>1
  <2>. QED
    BY <1>5, <2>1, <2>2, <2>3, <2>4, <2>5, <2>6
<1>10. /\ new.page \in 1..page'
       /\ new.to - new.from < ChunkSize + MinChunkSize
       /\ IF Continues(n + 1)'
          THEN new.from > pieces'[n].from /\ new.from <= pieces'[n].to
          ELSE new.from = 0 /\ (n + 1 > 1 => new.page > pieces'[n].page)
       /\ new.page < page' => new.to = pages[new.page].text
       /\ new.page = page' => start' > 0
  <2>1. new.page = page /\ new.from = start /\ new.to = to
    BY DEF new
  <2>2. n # 0 => n \in 1..n /\ pieces'[n] = pieces[n] /\ pieces[n].page <= page /\ pieces[n].page \in Nat
    BY <1>1, <1>2, <1>4
  <2>3. start > 0 => pieces[n].from < start /\ start <= pieces[n].to
    BY DEF CutInv
  <2>4. CASE Continues(n + 1)'
    BY <1>1, <1>3, <1>6, <1>7, <2>1, <2>2, <2>3, <2>4
  <2>5. CASE ~Continues(n + 1)'
    <3>1. start = 0 /\ (n + 1 > 1 => page > pieces'[n].page)
      BY <1>1, <1>6, <1>7, <2>2, <2>5
    <3>. QED
      BY <1>1, <1>3, <2>1, <2>5, <3>1
  <2>. QED
    BY <2>4, <2>5
<1>11. ASSUME NEW k \in DOMAIN pieces'
       PROVE  LET c == pieces'[k] IN
              /\ c.page \in 1..page'
              /\ c.to - c.from < ChunkSize + MinChunkSize
              /\ IF Continues(k)'
                 THEN c.from > pieces'[k - 1].from /\ c.from <= pieces'[k - 1].to
                 ELSE c.from = 0 /\ (k > 1 => c.page > pieces'[k - 1].page)
              /\ c.page < page' /\ (k = Len(pieces') \/ ~Continues(k + 1)') => c.to = pages[c.page].text
              /\ c.page = page' => start' > 0
  <2>1. CASE k = n + 1
    <3>1. pieces'[k] = new /\ k - 1 = n
      BY <1>1, <1>2, <2>1
    <3>2. (k > 1 <=> n + 1 > 1) /\ (Continues(k)' <=> Continues(n + 1)')
      BY <2>1
    <3>. QED
      BY <1>10, <2>1, <3>1, <3>2
  <2>2. CASE k # n + 1
    <3>1. k \in 1..n /\ k # Len(pieces')
      BY <1>1, <1>2, <2>2
    <3>2. pieces'[k] = pieces[k]
      BY <1>2, <3>1
    <3>. QED
      BY <1>9, <3>1, <3>2
  <2>. QED
    BY <2>1, <2>2
<1>12. start' > 0 =>
        /\ page' <= Len(pages') /\ pages'[page'].text > 0
        /\ pieces' # <<>>
        /\ LET c == pieces'[Len(pieces')] IN c.page = page' /\ c.from < start' /\ start' <= c.to
  BY <1>1, <1>2 DEF new
<1>. QED
  BY <1>2, <1>3, <1>8, <1>11, <1>12 DEF CutInv, Piecewise

\* A blank page is passed over.
LEMMA BlankKeepsCut ==
    ASSUME CutInv, pages \in Seq(Page), page <= Len(pages), pages[page].text = 0,
           page' = page + 1, start' = 0, UNCHANGED <<pages, pieces>>
    PROVE  CutInv'
<1>1. /\ page \in Nat \ {0} /\ Len(pages) \in Nat /\ start = 0
      /\ pieces \in Seq(Piecewise) /\ page' \in 1..(Len(pages) + 1)
  BY DEF CutInv
<1>2. \A k \in DOMAIN pieces : Continues(k)' <=> Continues(k)
  BY DEF Continues
<1>3. \A k \in DOMAIN pieces : Continues(k + 1)' <=> Continues(k + 1)
  BY DEF Continues
<1>4. \A k \in DOMAIN pieces : pieces[k].page \in 1..page /\ pieces[k].page # page
  BY <1>1 DEF CutInv
<1>5. ASSUME NEW p, p \in 1..(page' - 1)
      PROVE  pages[p].text > 0 <=> \E k \in DOMAIN pieces : pieces[k].page = p
  <2>1. CASE p = page
    BY <1>4, <2>1
  <2>2. CASE p # page
    <3>1. p \in 1..(page - 1)
      BY <1>1, <1>5, <2>2
    <3>. QED
      BY <3>1 DEF CutInv
  <2>. QED
    BY <2>1, <2>2
<1>6. ASSUME NEW k, k \in DOMAIN pieces
      PROVE  /\ pieces[k].page \in 1..page'
             /\ pieces[k].to - pieces[k].from < ChunkSize + MinChunkSize
             /\ IF Continues(k)'
                THEN pieces[k].from > pieces[k - 1].from /\ pieces[k].from <= pieces[k - 1].to
                ELSE pieces[k].from = 0 /\ (k > 1 => pieces[k].page > pieces[k - 1].page)
             /\ (k = Len(pieces) \/ ~Continues(k + 1)') => pieces[k].to = pages[pieces[k].page].text
             /\ pieces[k].page # page'
  <2>1. pieces[k].page \in 1..page'
    BY <1>1, <1>4, <1>6
  <2>2. pieces[k].page < page /\ pieces[k].page # page'
    BY <1>1, <1>4, <1>6
  <2>3. /\ pieces[k].to - pieces[k].from < ChunkSize + MinChunkSize
        /\ IF Continues(k)
           THEN pieces[k].from > pieces[k - 1].from /\ pieces[k].from <= pieces[k - 1].to
           ELSE pieces[k].from = 0 /\ (k > 1 => pieces[k].page > pieces[k - 1].page)
        /\ (k = Len(pieces) \/ ~Continues(k + 1)) => pieces[k].to = pages[pieces[k].page].text
    BY <1>6, <2>2 DEF CutInv
  <2>. QED
    BY <1>2, <1>3, <1>6, <2>1, <2>2, <2>3
<1>7. pieces' = pieces /\ pages' = pages /\ start' \in Nat /\ ~(start' > 0)
  OBVIOUS
<1>8. ASSUME NEW k, k \in DOMAIN pieces'
      PROVE  LET c == pieces'[k] IN
             /\ c.page \in 1..page'
             /\ c.to - c.from < ChunkSize + MinChunkSize
             /\ IF Continues(k)'
                THEN c.from > pieces'[k - 1].from /\ c.from <= pieces'[k - 1].to
                ELSE c.from = 0 /\ (k > 1 => c.page > pieces'[k - 1].page)
             /\ c.page < page' /\ (k = Len(pieces') \/ ~Continues(k + 1)') => c.to = pages'[c.page].text
             /\ c.page = page' => start' > 0
  BY <1>6, <1>7, <1>8
<1>. QED
  BY <1>1, <1>5, <1>7, <1>8 DEF CutInv

LEMMA CutKeeps ==
    ASSUME ReadInv, CutChunk PROVE CutInv'
<1>1. /\ CutInv /\ pages \in Seq(Page) /\ page \in 1..Len(pages) /\ start \in Nat
      /\ UNCHANGED pages /\ page <= Len(pages)
  BY DEF ReadInv, FileInv, OfFile, CutInv, CutChunk
<1>. DEFINE n == pages[page].text
<1>2. n \in Nat
  <2>1. pages[page] \in Page
    BY <1>1
  <2>. QED
    BY <2>1, ReadingAssumption DEF Page
<1>3. /\ ChunkSize \in Nat /\ MinChunkSize \in Nat \ {0} /\ ChunkOverlap \in Nat
  BY ReadingAssumption
<1>4. CASE n = 0
  <2>1. page' = page + 1 /\ start' = 0 /\ pieces' = pieces
    BY <1>4 DEF CutChunk, NextPage
  <2>. QED
    BY <1>1, <1>4, <2>1, BlankKeepsCut
<1>5. CASE n # 0 /\ start + ChunkSize >= n
  <2>1. Emit(n) /\ page' = page + 1 /\ start' = 0
    BY <1>5 DEF CutChunk, NextPage
  <2>2. n > 0 /\ n - start < ChunkSize + MinChunkSize /\ n \in Int
    BY <1>1, <1>2, <1>3, <1>5
  <2>. QED
    BY <1>1, <2>1, <2>2, EmitKeepsCut
<1>6. CASE n # 0 /\ ~(start + ChunkSize >= n)
  <2>1. PICK split \in SplitPoints :
            IF n - split < MinChunkSize THEN MergeTail(split)
            ELSE Emit(split) /\ start' = NextStart(split) /\ UNCHANGED page
    BY <1>6 DEF CutChunk
  <2>2. split \in Int /\ split >= start + 2 /\ split <= start + ChunkSize /\ n > 0
    BY <1>1, <1>2, <1>3, <1>6 DEF SplitPoints
  <2>3. CASE n - split < MinChunkSize
    <3>1. Emit(n) /\ page' = page + 1 /\ start' = 0
      BY <2>1, <2>3 DEF MergeTail, NextPage
    <3>2. n - start < ChunkSize + MinChunkSize /\ n \in Int
      BY <1>1, <1>2, <1>3, <2>2, <2>3
    <3>. QED
      BY <1>1, <2>2, <3>1, <3>2, EmitKeepsCut
  <2>4. CASE ~(n - split < MinChunkSize)
    <3>1. Emit(split) /\ start' = NextStart(split) /\ page' = page
      BY <2>1, <2>4
    <3>2. start' \in Nat /\ start' > start /\ start' <= split
      BY <1>1, <1>3, <2>2, <3>1 DEF NextStart
    <3>3. split - start < ChunkSize + MinChunkSize
      BY <1>1, <1>3, <2>2
    <3>. QED
      BY <1>1, <2>2, <3>1, <3>2, <3>3, EmitKeepsCut
  <2>. QED
    BY <2>3, <2>4
<1>. QED
  BY <1>4, <1>5, <1>6

LEMMA FreshCut ==
    ASSUME pages' \in Seq(Page), page' = 1, start' = 0, pieces' = <<>>
    PROVE  CutInv'
<1>1. page' \in 1..(Len(pages') + 1) /\ start' \in Nat /\ pieces' \in Seq(Piecewise)
  BY EmptySeq
<1>2. DOMAIN pieces' = {} /\ 1..(page' - 1) = {} /\ ~(start' > 0)
  OBVIOUS
<1>. QED
  BY <1>1, <1>2 DEF CutInv

\* While a file is read, nothing is said of it yet.
LEMMA QuietKeeps ==
    ASSUME ListsInv, ClaimsInv, spc \in OfFile \ {"collect"}, spc' \in OfFile,
           UNCHANGED <<ofJob, file, resultVars, matrix>>
    PROVE  ListsInv' /\ ClaimsInv' /\ MatrixInv'
<1>1. Read' = Read
  BY DEF Read, resultVars
<1>2. ListsInv'
  BY <1>1 DEF ListsInv, OfFile, resultVars
<1>3. \A k \in DOMAIN found : Backed(found[k])'
  BY DEF ClaimsInv, Backed, OfFile, resultVars
<1>4. ClaimsInv'
  BY <1>3 DEF ClaimsInv, resultVars
<1>. QED
  BY <1>2, <1>4 DEF MatrixInv, OfFile

\* The next file is taken up, or there is none.
LEMMA OnToTheNext ==
    ASSUME FileInv, ReadingAssumption, NEW a, NEW b, NextFile(a, b)
    PROVE  /\ FileInv'
           /\ spc' \in {"fetch", "nothing", "matrix"} /\ ofJob' = ofJob
           /\ spc' = "fetch" => file' - 1 = file
           /\ spc' # "fetch" => file = Uploads
<1>1. file \in 1..Uploads /\ Uploads \in Nat
  BY DEF FileInv, ReadingAssumption
<1>2. file' \in 1..Uploads
  BY <1>1 DEF NextFile
<1>3. pieces' = <<>> /\ start' = 0 /\ pages' \in Seq(Page)
  BY EmptySeq DEF NextFile
<1>4. /\ spc' \in {"fetch", "nothing", "matrix"} /\ ofJob' = ofJob
      /\ spc' = "fetch" => file' - 1 = file
      /\ spc' # "fetch" => file = Uploads
  BY <1>1 DEF NextFile
<1>. QED
  BY <1>2, <1>3, <1>4 DEF FileInv

LEMMA DropKeeps ==
    ASSUME ReadInv, NEW s \in OfFile \ {"collect"}, Drop(s)
    PROVE  ReadInv'
<1>1. /\ FileInv /\ ListsInv /\ ClaimsInv /\ spc = s /\ ofJob \in BOOLEAN
      /\ file \in 1..Uploads /\ Uploads \in Nat
  BY ReadingAssumption DEF ReadInv, Drop, FileInv
<1>2. /\ FileInv'
      /\ spc' \in {"fetch", "nothing", "matrix"} /\ ofJob' = ofJob
      /\ spc' = "fetch" => file' - 1 = file
      /\ spc' # "fetch" => file = Uploads
  <2>1. NextFile(kept, found)
    BY DEF Drop
  <2>. QED
    BY <1>1, <2>1, ReadingAssumption, OnToTheNext
<1>3. Read' = Read /\ failures' = failures \cup {file} /\ UNCHANGED <<found, kept, metas, ids>>
  BY DEF Read, Drop
<1>4. Read \cup failures = 1..(file - 1)
  BY <1>1 DEF ListsInv
<1>5. Read' \cup failures' = 1..file /\ Read' \cap failures' = {}
  <2>1. 1..file = (1..(file - 1)) \cup {file} /\ file \notin 1..(file - 1)
    BY <1>1
  <2>2. Read \cap failures = {}
    BY <1>1 DEF ListsInv
  <2>. QED
    BY <1>3, <1>4, <2>1, <2>2
<1>6. ListsInv'
  <2>1. spc' \in OfFile => Read' \cup failures' = 1..(file' - 1)
    BY <1>2, <1>5 DEF OfFile
  <2>2. spc' \in {"matrix", "done", "nothing"} => Read' \cup failures' = 1..Uploads
    BY <1>2, <1>5
  <2>. QED
    BY <1>1, <1>3, <1>5, <2>1, <2>2 DEF ListsInv
<1>7. ClaimsInv'
  <2>1. \A k \in DOMAIN found : Backed(found[k])'
    BY <1>1, <1>3 DEF ClaimsInv, Backed, OfFile
  <2>. QED
    BY <1>1, <1>2, <1>3, <2>1 DEF ClaimsInv
<1>8. spc' \in ReadingStages /\ spc' \notin {"done", "cut", "extract", "collect"}
  BY <1>2 DEF ReadingStages, ReadingOver
<1>. QED
  BY <1>1, <1>2, <1>6, <1>7, <1>8 DEF ReadInv, MatrixInv

LEMMA PagesParsed ==
    ASSUME FileInv, ParseSource PROVE pages' \in Seq(Page)
<1>1. /\ file \in 1..Uploads /\ MaxPages[file] \in Nat /\ 0 \in Lengths
  BY ReadingAssumption DEF FileInv
<1>2. ASSUME NEW dense \in BOOLEAN, NEW q \in EmbeddedPages(dense) PROVE q \in Seq(Page)
  <2>1. PICK n \in 1..MaxPages[file] : q \in [1..n -> {EmbeddedPage(t, dense) : t \in Lengths}]
    BY <1>2 DEF EmbeddedPages
  <2>2. n \in Nat
    BY <1>1
  <2>3. \A t \in Lengths : EmbeddedPage(t, dense) \in Page
    BY <1>2, ReadingAssumption DEF EmbeddedPage, Page
  <2>4. q \in [1..n -> Page]
    BY <2>1, <2>3
  <2>. QED
    BY <2>2, <2>4
<1>3. EmptyPage \in Page /\ [text |-> 0, needsOcr |-> TRUE, isOcr |-> FALSE] \in Page
  BY <1>1, ReadingAssumption DEF EmptyPage, EmbeddedPage, Page
<1>4. <<EmptyPage>> \in Seq(Page) /\ <<>> \in Seq(Page)
  BY <1>3, EmptySeq
<1>5. EmbeddedPages(TRUE) \subseteq Seq(Page) /\ EmbeddedPages(FALSE) \subseteq Seq(Page)
  BY <1>2
<1>6. <<[text |-> 0, needsOcr |-> TRUE, isOcr |-> FALSE]>> \in Seq(Page)
  BY <1>3
<1>7. ParsePdf \/ ParsePptx \/ ParseDocx \/ ParseXlsx \/ ParseText \/ ParseImage
  BY DEF ParseSource
<1>. QED
  BY <1>4, <1>5, <1>6, <1>7
  DEF ParsePdf, ParsePptx, ParseDocx, ParseXlsx, ParseText, ParseImage

LEMMA ReadingStep ==
    ASSUME ReadInv,
           FetchSource \/ ValidateSource \/ ParseSource \/ KeepPage \/ RecognisePage \/ Recognised
              \/ CutChunk \/ CutDone
    PROVE  ReadInv'
<1>1. /\ FileInv /\ ListsInv /\ ClaimsInv /\ ofJob \in BOOLEAN /\ spc \in OfFile \ {"collect"}
      /\ pages \in Seq(Page)
  BY DEF ReadInv, FileInv, OfFile, FetchSource, ValidateSource, ParseSource, KeepPage,
         RecognisePage, Recognised, CutChunk, CutDone
<1>2. /\ spc' \in OfFile /\ UNCHANGED <<ofJob, file, resultVars, matrix>>
  BY DEF OfFile, FetchSource, ValidateSource, ParseSource, KeepPage,
         RecognisePage, Recognised, CutChunk, CutDone, ReadOn
<1>3. ListsInv' /\ ClaimsInv' /\ MatrixInv' /\ ofJob' \in BOOLEAN /\ file' = file
      /\ spc' \in ReadingStages
  BY <1>1, <1>2, QuietKeeps DEF OfFile, ReadingStages
<1>4. CASE FetchSource \/ ValidateSource
  <2>1. spc' \in {"validate", "parse"} /\ UNCHANGED documentVars /\ spc \in {"fetch", "validate"}
    BY <1>4 DEF FetchSource, ValidateSource, ReadOn
  <2>. QED
    BY <1>1, <1>3, <2>1 DEF ReadInv, FileInv, documentVars
<1>5. CASE ParseSource
  <2>1. /\ spc = "parse" /\ spc' \in {"recognise", "cut"} /\ page' = 1
        /\ UNCHANGED <<start, pieces>>
    BY <1>5 DEF ParseSource, ReadOn
  <2>2. pages' \in Seq(Page)
    BY <1>1, <1>5, PagesParsed
  <2>3. pieces' = <<>> /\ start' = 0
    BY <1>1, <2>1 DEF FileInv
  <2>4. CutInv'
    BY <2>1, <2>2, <2>3, FreshCut
  <2>. QED
    BY <1>1, <1>3, <2>1, <2>2, <2>3, <2>4 DEF ReadInv, FileInv
<1>6. CASE KeepPage \/ RecognisePage
  <2>1. /\ spc = "recognise" /\ spc' = "recognise" /\ page' = page + 1 /\ page <= Len(pages)
        /\ UNCHANGED <<start, pieces>>
    BY <1>6 DEF KeepPage, RecognisePage, ReadOn
  <2>2. page \in 1..Len(pages) /\ page' \in Nat \ {0}
    BY <1>1, <2>1 DEF FileInv
  <2>3. pages' \in Seq(Page)
    <3>1. CASE KeepPage
      BY <1>1, <3>1 DEF KeepPage
    <3>2. CASE RecognisePage
      <4>1. PICK t \in Lengths :
                pages' = [pages EXCEPT ![page] = [text |-> t, needsOcr |-> FALSE, isOcr |-> TRUE]]
        BY <3>2 DEF RecognisePage
      <4>2. [text |-> t, needsOcr |-> FALSE, isOcr |-> TRUE] \in Page
        BY DEF Page
      <4>. QED
        BY <1>1, <2>2, <4>1, <4>2
    <3>. QED
      BY <1>6, <3>1, <3>2
  <2>. QED
    BY <1>1, <1>3, <2>1, <2>2, <2>3 DEF ReadInv, FileInv
<1>7. CASE Recognised
  <2>1. /\ spc = "recognise" /\ spc' = "cut" /\ page' = 1
        /\ UNCHANGED <<pages, start, pieces>>
    BY <1>7 DEF Recognised, ReadOn
  <2>2. pieces' = <<>> /\ start' = 0
    BY <1>1, <2>1 DEF FileInv
  <2>3. CutInv'
    BY <1>1, <2>1, <2>2, FreshCut
  <2>. QED
    BY <1>1, <1>3, <2>1, <2>2, <2>3 DEF ReadInv, FileInv
<1>8. CASE CutChunk
  <2>1. CutInv' /\ spc' = "cut" /\ UNCHANGED pages
    BY <1>8, CutKeeps DEF CutChunk, ReadOn
  <2>. QED
    BY <1>1, <1>3, <2>1 DEF ReadInv, FileInv
<1>9. CASE CutDone
  <2>1. /\ spc = "cut" /\ spc' \in {"collect", "extract"} /\ page > Len(pages)
        /\ UNCHANGED documentVars
    BY <1>9 DEF CutDone, ReadOn
  <2>2. CutInv
    BY <2>1 DEF ReadInv
  <2>3. CutInv'
    BY <2>1, <2>2 DEF CutInv, Continues, documentVars
  <2>4. page \in 1..(Len(pages) + 1) /\ Len(pages) \in Nat /\ pieces \in Seq(Piecewise)
    BY <1>1, <2>2 DEF CutInv
  <2>5. page' = Len(pages') + 1 /\ pieces' \in Seq(Piecewise)
    BY <2>1, <2>4 DEF documentVars
  <2>. QED
    BY <1>1, <1>3, <2>1, <2>3, <2>5 DEF ReadInv, FileInv, documentVars
<1>. QED
  BY <1>4, <1>5, <1>6, <1>7, <1>8, <1>9

\* The claims of a file name its chunks.
OfThese == {c \in Claim : /\ c.file = file /\ c.index + 1 \in DOMAIN pieces
                          /\ ~ofJob => c.key = <<c.index, 0>>}

LEMMA ClaimsNameChunks ==
    ASSUME FileInv, pieces \in Seq(Piecewise), ofJob \in BOOLEAN,
           NEW answer \in [DOMAIN pieces -> 0..MaxClaims]
    PROVE  ClaimsOf(answer) \in Seq(OfThese)
<1>. DEFINE n == Len(pieces)
            claim(i) == [file |-> file, index |-> i - 1, key |-> ClaimKey(i)]
            seqs == [i \in DOMAIN answer |-> [k \in 1..answer[i] |-> claim(i)]]
<1>1. /\ n \in Nat /\ DOMAIN answer = 1..n /\ DOMAIN pieces = 1..n /\ file \in 1..Uploads
      /\ Uploads \in Nat /\ \A i \in 1..n : answer[i] \in Nat
  BY ReadingAssumption DEF FileInv
<1>2. ASSUME NEW i \in 1..n PROVE claim(i) \in OfThese
  <2>1. i - 1 \in Nat /\ (i - 1) + 1 = i
    BY <1>1
  <2>2. ClaimKey(i) \in Nat \X (0..Uploads) /\ (~ofJob => ClaimKey(i) = <<i - 1, 0>>)
    BY <1>1, <2>1 DEF ClaimKey, SourceRow
  <2>3. claim(i) \in Claim
    BY <1>1, <2>1, <2>2 DEF Claim
  <2>. QED
    BY <1>1, <2>1, <2>2, <2>3 DEF OfThese
<1>3. ASSUME NEW i \in 1..n PROVE seqs[i] \in Seq(OfThese)
  <2>1. seqs[i] = [k \in 1..answer[i] |-> claim(i)] /\ answer[i] \in Nat
    BY <1>1
  <2>2. claim(i) \in OfThese
    BY <1>2
  <2>. HIDE DEF claim
  <2>3. \A m \in Nat : [k \in 1..m |-> claim(i)] \in Seq(OfThese)
    BY <2>2
  <2>. QED
    BY <2>1, <2>3
<1>4. seqs \in Seq(Seq(OfThese)) /\ Len(seqs) \in Nat
  <2>1. seqs \in [1..n -> Seq(OfThese)]
    BY <1>1, <1>3
  <2>. QED
    BY <1>1, <2>1
<1>5. ClaimsOf(answer) = FlattenSeq(seqs)
  BY DEF ClaimsOf
<1>. HIDE DEF seqs
<1>6. PICK g \in [0..Len(seqs) -> Seq(OfThese)] : FlattenSeq(seqs) = g[Len(seqs)]
  BY <1>4, Flattened
<1>. QED
  BY <1>4, <1>5, <1>6

LEMMA ExtractKeeps ==
    ASSUME ReadInv, ExtractClaims PROVE ReadInv'
<1>1. /\ FileInv /\ ListsInv /\ ClaimsInv /\ ofJob \in BOOLEAN /\ pieces \in Seq(Piecewise)
      /\ spc = "extract" /\ pages \in Seq(Page) /\ file \in 1..Uploads
  BY DEF ReadInv, FileInv, OfFile, ExtractClaims
<1>2. /\ spc' = "collect"
      /\ UNCHANGED <<ofJob, file, documentVars, kept, metas, ids, failures, registered, matrix>>
  BY DEF ExtractClaims, ReadOn
<1>3. PICK answer \in [DOMAIN pieces -> 0..MaxClaims] : found' = found \o ClaimsOf(answer)
  BY DEF ExtractClaims
<1>. DEFINE more == ClaimsOf(answer)
<1>4. more \in Seq(OfThese)
  BY <1>1, ClaimsNameChunks
<1>. HIDE DEF more
<1>5. OfThese \subseteq Claim
  BY DEF OfThese
<1>6. found \in Seq(Claim) /\ more \in Seq(Claim) /\ found' = found \o more
  BY <1>1, <1>3, <1>4, <1>5 DEF ClaimsInv, more
<1>7. ASSUME NEW k, k \in DOMAIN found'
      PROVE  Backed(found[k])' /\ (~ofJob => found'[k].key = <<found'[k].index, 0>>)
  <2>1. k \in DOMAIN found \/ k - Len(found) \in DOMAIN more
    BY <1>6, <1>7
  <2>2. CASE k \in DOMAIN found
    <3>1. found'[k] = found[k]
      BY <1>6, <2>2
    <3>2. Backed(found[k]) /\ (~ofJob => found[k].key = <<found[k].index, 0>>)
      BY <1>1, <2>2 DEF ClaimsInv
    <3>. QED
      BY <1>1, <1>2, <3>1, <3>2 DEF Backed
  <2>3. CASE k \notin DOMAIN found
    <3>1. found'[k] = more[k - Len(found)] /\ k - Len(found) \in DOMAIN more
      BY <1>6, <1>7, <2>1, <2>3
    <3>2. found'[k] \in OfThese
      BY <1>4, <3>1
    <3>. QED
      BY <1>2, <3>2 DEF OfThese, Backed, documentVars
  <2>. QED
    BY <2>2, <2>3
<1>8. found' \in Seq(Claim)
  BY <1>6
<1>9. ClaimsInv'
  BY <1>2, <1>7, <1>8 DEF ClaimsInv
<1>10. ListsInv'
  <2>1. Read' = Read
    BY <1>2 DEF Read
  <2>. QED
    BY <1>1, <1>2, <2>1 DEF ListsInv, OfFile
<1>. QED
  BY <1>1, <1>2, <1>9, <1>10 DEF ReadInv, FileInv, MatrixInv, ReadingStages, documentVars

LEMMA CollectKeeps ==
    ASSUME ReadInv, CollectSource PROVE ReadInv'
<1>1. /\ FileInv /\ ListsInv /\ ClaimsInv /\ ofJob \in BOOLEAN /\ pieces \in Seq(Piecewise)
      /\ spc = "collect" /\ file \in 1..Uploads /\ Uploads \in Nat
  BY ReadingAssumption DEF ReadInv, FileInv, CollectSource
<1>2. /\ kept' = kept \o ChunksOf /\ metas' = Append(metas, file) /\ ids' = Append(ids, file)
      /\ NextFile(kept', found) /\ UNCHANGED <<found, failures>>
  BY DEF CollectSource
<1>3. /\ FileInv'
      /\ spc' \in {"fetch", "nothing", "matrix"} /\ ofJob' = ofJob
      /\ spc' = "fetch" => file' - 1 = file
      /\ spc' # "fetch" => file = Uploads
  <2>. DEFINE a == kept'
  <2>1. NextFile(a, found)
    BY <1>2
  <2>. HIDE DEF a
  <2>. QED
    BY <1>1, <2>1, ReadingAssumption, OnToTheNext
<1>4. /\ ids \in Seq(1..Uploads) /\ metas = ids /\ IsFiniteSet(Read) /\ Cardinality(Read) = Len(ids)
      /\ Read \cup failures = 1..(file - 1) /\ Read \cap failures = {}
      /\ kept \in Seq(Chunk) /\ (\A k \in DOMAIN kept : kept[k].file \in Read)
  BY <1>1 DEF ListsInv, OfFile
<1>5. Read' = Read \cup {file}
  <2>1. DOMAIN ids' = DOMAIN ids \cup {Len(ids) + 1} /\ ids'[Len(ids) + 1] = file
    BY <1>1, <1>2, <1>4
  <2>2. \A k \in DOMAIN ids : ids'[k] = ids[k]
    BY <1>1, <1>2, <1>4
  <2>. QED
    BY <2>1, <2>2 DEF Read
<1>6. file \notin Read /\ file \notin failures /\ 1..file = (1..(file - 1)) \cup {file}
  BY <1>1, <1>4
<1>7. IsFiniteSet(Read') /\ Cardinality(Read') = Len(ids')
  <2>1. Cardinality(Read \cup {file}) = Cardinality(Read) + 1 /\ IsFiniteSet(Read \cup {file})
    BY <1>4, <1>6, FS_AddElement
  <2>2. Len(ids') = Len(ids) + 1
    BY <1>1, <1>2, <1>4
  <2>. QED
    BY <1>4, <1>5, <2>1, <2>2
<1>8. ChunksOf \in Seq(Chunk) /\ Len(ChunksOf) = Len(pieces)
      /\ \A i \in 1..Len(pieces) : ChunksOf[i].file = file /\ ChunksOf[i].index = i - 1
  <2>1. DOMAIN pieces = 1..Len(pieces) /\ Len(pieces) \in Nat
    BY <1>1
  <2>2. SourceRow \in 0..Uploads
    BY <1>1 DEF SourceRow
  <2>3. \A i \in 1..Len(pieces) : [file |-> file, index |-> i - 1, source |-> SourceRow] \in Chunk
    BY <1>1, <2>1, <2>2 DEF Chunk
  <2>4. ChunksOf \in [1..Len(pieces) -> Chunk]
    BY <2>1, <2>3 DEF ChunksOf
  <2>5. \A i \in 1..Len(pieces) : ChunksOf[i].file = file /\ ChunksOf[i].index = i - 1
    BY <2>1 DEF ChunksOf
  <2>. QED
    BY <2>1, <2>4, <2>5
<1>9. /\ kept' \in Seq(Chunk) /\ DOMAIN kept' = 1..(Len(kept) + Len(pieces))
      /\ Len(kept) \in Nat /\ Len(pieces) \in Nat /\ DOMAIN kept = 1..Len(kept)
      /\ \A k \in DOMAIN kept : k \in DOMAIN kept' /\ kept'[k] = kept[k]
      /\ \A i \in 1..Len(pieces) :
            Len(kept) + i \in DOMAIN kept' /\ kept'[Len(kept) + i] = ChunksOf[i]
  <2>. DEFINE more == ChunksOf
  <2>1. more \in Seq(Chunk) /\ Len(more) = Len(pieces) /\ kept \in Seq(Chunk) /\ kept' = kept \o more
    BY <1>2, <1>4, <1>8
  <2>. HIDE DEF more
  <2>2. Len(pieces) \in Nat /\ Len(kept) \in Nat
    BY <1>1, <1>4
  <2>3. /\ kept' \in Seq(Chunk) /\ DOMAIN kept' = 1..(Len(kept) + Len(pieces)) /\ DOMAIN kept = 1..Len(kept)
        /\ \A k \in 1..Len(kept) : kept'[k] = kept[k]
        /\ \A i \in 1..Len(pieces) : kept'[Len(kept) + i] = more[i]
    <3>1. \A p, q \in Seq(Chunk) :
            /\ p \o q \in Seq(Chunk) /\ Len(p \o q) = Len(p) + Len(q)
            /\ \A k \in 1..Len(p) : (p \o q)[k] = p[k]
            /\ \A i \in 1..Len(q) : (p \o q)[Len(p) + i] = q[i]
      OBVIOUS
    <3>2. DOMAIN kept = 1..Len(kept)
      BY <2>1
    <3>3. kept' \in Seq(Chunk) /\ Len(kept') = Len(kept) + Len(pieces)
      BY <2>1, <3>1
    <3>4. DOMAIN kept' = 1..Len(kept')
      BY <3>3
    <3>. QED
      BY <2>1, <3>1, <3>2, <3>3, <3>4
  <2>. QED
    BY <2>2, <2>3 DEF more
<1>10. ASSUME NEW k, k \in DOMAIN kept' PROVE kept'[k].file \in Read'
  <2>1. CASE k \in DOMAIN kept
    BY <1>4, <1>5, <1>9, <2>1
  <2>2. CASE k \notin DOMAIN kept
    <3>1. k - Len(kept) \in 1..Len(pieces) /\ Len(kept) + (k - Len(kept)) = k
      BY <1>9, <1>10, <2>2
    <3>. QED
      BY <1>5, <1>8, <1>9, <3>1
  <2>. QED
    BY <2>1, <2>2
<1>11. ListsInv'
  <2>1. ids' \in Seq(1..Uploads) /\ metas' = ids'
    BY <1>1, <1>2, <1>4
  <2>2. Read' \cap failures' = {}
    BY <1>2, <1>4, <1>5, <1>6
  <2>3. Read' \cup failures' = 1..file
    BY <1>2, <1>4, <1>5, <1>6
  <2>4. spc' \in OfFile => Read' \cup failures' = 1..(file' - 1)
    BY <1>3, <2>3 DEF OfFile
  <2>5. spc' \in {"matrix", "done", "nothing"} => Read' \cup failures' = 1..Uploads
    BY <1>3, <2>3
  <2>. QED
    BY <1>7, <1>9, <1>10, <2>1, <2>2, <2>4, <2>5 DEF ListsInv
<1>12. ASSUME NEW k, k \in DOMAIN found
       PROVE  Backed(found[k])'
  <2>1. Backed(found[k]) /\ found[k] \in Claim
    BY <1>1, <1>12 DEF ClaimsInv
  <2>2. CASE \E j \in DOMAIN kept : kept[j].file = found[k].file /\ kept[j].index = found[k].index
    BY <1>2, <1>9, <2>2 DEF Backed
  <2>3. CASE found[k].file = file /\ found[k].index + 1 \in DOMAIN pieces
    <3>. DEFINE i == found[k].index + 1
    <3>1. i \in 1..Len(pieces) /\ i - 1 = found[k].index
      BY <1>1, <2>1, <2>3 DEF Claim
    <3>2. /\ Len(kept) + i \in DOMAIN kept'
          /\ kept'[Len(kept) + i].file = file /\ kept'[Len(kept) + i].index = i - 1
      BY <1>8, <1>9, <3>1
    <3>. QED
      BY <1>2, <2>3, <3>1, <3>2 DEF Backed
  <2>. QED
    BY <2>1, <2>2, <2>3 DEF Backed
<1>13. ClaimsInv'
  BY <1>1, <1>2, <1>3, <1>12 DEF ClaimsInv
<1>14. spc' \in ReadingStages /\ spc' \notin {"done", "cut", "extract", "collect"}
  BY <1>3 DEF ReadingStages, ReadingOver
<1>. QED
  BY <1>1, <1>3, <1>11, <1>13, <1>14 DEF ReadInv, MatrixInv

\* FlattenSeq of singletons is the sequence of their elements.
LEMMA FlattenedSingletons ==
    ASSUME NEW S, NEW n \in Nat, NEW a \in [1..n -> S]
    PROVE  LET f == FlattenSeq([k \in 1..n |-> <<a[k]>>]) IN
           f \in Seq(S) /\ Len(f) = n /\ \A k \in 1..n : f[k] = a[k]
<1>. DEFINE seqs == [k \in 1..n |-> <<a[k]>>]
<1>1. seqs \in Seq(Seq(S)) /\ Len(seqs) = n /\ \A k \in 1..n : seqs[k] = <<a[k]>>
  <2>1. seqs \in [1..n -> Seq(S)]
    OBVIOUS
  <2>. QED
    BY <2>1
<1>. HIDE DEF seqs
<1>2. PICK g \in [0..n -> Seq(S)] :
        /\ g[0] = <<>> /\ FlattenSeq(seqs) = g[n]
        /\ \A i \in 1..n : g[i] = g[i - 1] \o seqs[i]
  BY <1>1, Flattened
<1>. DEFINE T == {i \in 0..n : Len(g[i]) = i /\ \A k \in 1..i : g[i][k] = a[k]}
<1>3. 0 \in T
  BY <1>2
<1>4. ASSUME NEW i \in 0..(n - 1), i \in T PROVE i + 1 \in T
  <2>1. i + 1 \in 1..n /\ i + 1 \in 0..n /\ (i + 1) - 1 = i /\ i \in 0..n
    OBVIOUS
  <2>2. g[i + 1] = g[(i + 1) - 1] \o seqs[i + 1] /\ seqs[i + 1] = <<a[i + 1]>>
    BY <1>1, <1>2, <2>1
  <2>3. g[i + 1] = g[i] \o <<a[i + 1]>> /\ a[i + 1] \in S
    BY <2>1, <2>2
  <2>4. g[i] \in Seq(S) /\ Len(g[i]) = i /\ \A k \in 1..i : g[i][k] = a[k]
    BY <1>2, <1>4, <2>1
  <2>5. Len(g[i + 1]) = i + 1 /\ g[i + 1][i + 1] = a[i + 1] /\ \A k \in 1..i : g[i + 1][k] = g[i][k]

    <3>. DEFINE p == g[i]
                e == a[i + 1]
                q == g[i + 1]
    <3>2. p \in Seq(S) /\ e \in S /\ g[i + 1] = p \o <<e>> /\ Len(p) = i
      BY <2>3, <2>4
    <3>. HIDE DEF p, e, q
    <3>3. q = p \o <<e>>
      BY <3>2 DEF q
    <3>4. Len(q) = Len(p) + 1 /\ q[Len(p) + 1] = e /\ \A k \in 1..Len(p) : q[k] = p[k]
      <4>1. p \in Seq(S) /\ <<e>> \in Seq(S) /\ Len(<<e>>) = 1 /\ <<e>>[1] = e /\ Len(p) \in Nat
        BY <3>2
      <4>2. Len(q) = Len(p) + 1
        BY <3>3, <4>1, ConcatProperties
      <4>3. q[Len(p) + 1] = e
        BY <3>3, <4>1, <4>2, ConcatProperties
      <4>4. \A k \in 1..Len(p) : q[k] = p[k]
        BY <3>3, <4>1, <4>2, ConcatProperties
      <4>. QED
        BY <4>2, <4>3, <4>4
    <3>. QED
      BY <3>2, <3>4 DEF p, e, q
  <2>6. \A k \in 1..(i + 1) : k = i + 1 \/ k \in 1..i
    OBVIOUS
  <2>. QED
    BY <2>1, <2>4, <2>5, <2>6
<1>. HIDE DEF T
<1>6. n \in 0..n
  OBVIOUS
<1>7. n \in T
  <2>1. \A i \in 0..n : i \in T
    BY <1>3, <1>4, Counting
  <2>. QED
    BY <1>6, <2>1
<1>. QED
  BY <1>2, <1>6, <1>7 DEF T, seqs

LEMMA MatrixKeeps ==
    ASSUME ReadInv, BuildMatrix PROVE ReadInv'
<1>1. /\ FileInv /\ ListsInv /\ ClaimsInv /\ ofJob \in BOOLEAN /\ spc = "matrix"
      /\ spc' = "done" /\ UNCHANGED <<ofJob, file, documentVars, resultVars>>
  BY DEF ReadInv, BuildMatrix, ReadOn
<1>2. /\ UNCHANGED <<found, kept, metas, ids, failures>> /\ Read' = Read
  BY <1>1 DEF resultVars, Read
<1>3. ListsInv'
  BY <1>1, <1>2 DEF ListsInv, OfFile
<1>4. \A k \in DOMAIN found : Backed(found[k])'
  BY <1>1, <1>2 DEF ClaimsInv, Backed
<1>5. ClaimsInv'
  BY <1>1, <1>2, <1>4 DEF ClaimsInv
<1>6. ASSUME ~ofJob, Len(ids) = 1
      PROVE  /\ Len(matrix') = Len(found)
             /\ \A k \in DOMAIN matrix' :
                matrix'[k].file = found[k].file /\ matrix'[k].index = found[k].index
  <2>1. /\ ids \in Seq(1..Uploads) /\ found \in Seq(Claim) /\ kept \in Seq(Chunk)
        /\ \A k \in DOMAIN kept : kept[k].file \in Read
    BY <1>1 DEF ListsInv, ClaimsInv
  <2>2. Read = {ids[1]}
    <3>1. DOMAIN ids = {1}
      BY <1>6, <2>1
    <3>. QED
      BY <3>1 DEF Read
  <2>. DEFINE n == Len(found)
              a == [k \in 1..n |-> ChunkUnder(found[k].key)]
  <2>3. n \in Nat /\ DOMAIN found = 1..n
    BY <2>1
  <2>4. ASSUME NEW k \in 1..n
        PROVE  /\ Resolves(found[k].key)
               /\ ChunkUnder(found[k].key) \in Chunk
               /\ ChunkUnder(found[k].key).file = found[k].file
               /\ ChunkUnder(found[k].key).index = found[k].index
    <3>. DEFINE key == found[k].key
                T == {m \in DOMAIN kept : AnswersTo(kept[m], key)}
    <3>1. found[k] \in Claim /\ key = <<found[k].index, 0>>
      BY <1>1, <1>6, <2>1, <2>3 DEF ClaimsInv
    <3>2. PICK j \in DOMAIN kept : kept[j].file = found[k].file /\ kept[j].index = found[k].index
      BY <1>1, <2>3 DEF ClaimsInv, Backed
    <3>3. j \in T /\ Resolves(key)
      BY <3>1, <3>2 DEF AnswersTo, Resolves
    <3>. HIDE DEF key
    <3>4. \E m \in T : \A l \in T : l <= m
      <4>1. Len(kept) \in Nat /\ T \subseteq 1..Len(kept)
        BY <2>1
      <4>. HIDE DEF T
      <4>. QED
        BY <3>3, <4>1, LastPlace
    <3>. DEFINE m == CHOOSE m \in DOMAIN kept :
                        /\ AnswersTo(kept[m], key)
                        /\ \A l \in DOMAIN kept : AnswersTo(kept[l], key) => l <= m
    <3>5. m \in DOMAIN kept /\ AnswersTo(kept[m], key)
      BY <3>4
    <3>6. ChunkUnder(key) = kept[m]
      BY DEF ChunkUnder
    <3>. HIDE DEF m
    <3>7. kept[m] \in Chunk /\ kept[m].file \in Read /\ kept[j].file \in Read
      BY <2>1, <3>5
    <3>8. kept[m].index = found[k].index
      BY <3>1, <3>5 DEF AnswersTo
    <3>9. kept[m].file = found[k].file
      BY <2>2, <3>2, <3>7
    <3>. QED
      BY <3>3, <3>6, <3>7, <3>8, <3>9 DEF key
  <2>5. matrix' = FlattenSeq([k \in 1..n |-> <<a[k]>>])
    <3>1. [k \in DOMAIN found |-> IF Resolves(found[k].key) THEN <<ChunkUnder(found[k].key)>> ELSE <<>>]
            = [k \in 1..n |-> <<a[k]>>]
      BY <2>3, <2>4
    <3>. QED
      BY <3>1 DEF BuildMatrix
  <2>6. a \in [1..n -> Chunk] /\ \A k \in 1..n : a[k].file = found[k].file /\ a[k].index = found[k].index
    BY <2>4
  <2>. HIDE DEF a, n
  <2>7. matrix' \in Seq(Chunk) /\ Len(matrix') = n /\ \A k \in 1..n : matrix'[k] = a[k]
    BY <2>3, <2>5, <2>6, FlattenedSingletons
  <2>8. DOMAIN matrix' = 1..n
    BY <2>7
  <2>. QED
    BY <2>6, <2>7, <2>8 DEF n
<1>7. MatrixInv'
  BY <1>1, <1>2, <1>6 DEF MatrixInv
<1>. QED
  BY <1>1, <1>3, <1>5, <1>7 DEF ReadInv, FileInv, OfFile, ReadingStages, ReadingOver

LEMMA ReadStart == ReadingInit => ReadInv
<1>. SUFFICES ASSUME ReadingInit PROVE ReadInv
  OBVIOUS
<1>1. /\ spc = "fetch" /\ ofJob \in BOOLEAN /\ file = 1 /\ pieces = <<>> /\ start = 0 /\ pages = <<>>
      /\ found = <<>> /\ kept = <<>> /\ metas = <<>> /\ ids = <<>> /\ failures = {}
      /\ Uploads \in Nat \ {0}
  BY ReadingAssumption DEF ReadingInit
<1>2. FileInv
  BY <1>1 DEF FileInv
<1>3. ListsInv
  <2>1. Read = {} /\ 1..(file - 1) = {}
    BY <1>1 DEF Read
  <2>2. IsFiniteSet(Read) /\ Cardinality(Read) = 0
    BY <2>1, FS_EmptySet
  <2>. QED
    BY <1>1, <2>1, <2>2 DEF ListsInv
<1>4. ClaimsInv
  BY <1>1 DEF ClaimsInv
<1>. QED
  BY <1>1, <1>2, <1>3, <1>4 DEF ReadInv, MatrixInv, ReadingStages

LEMMA ReadKept ==
    ReadInv /\ [ReadingNext]_readingVars => ReadInv'
<1>. SUFFICES ASSUME ReadInv, [ReadingNext]_readingVars PROVE ReadInv'
  OBVIOUS
<1>1. CASE FetchSource \/ ValidateSource \/ ParseSource \/ KeepPage \/ RecognisePage \/ Recognised
              \/ CutChunk \/ CutDone
  BY <1>1, ReadingStep
<1>2. CASE FetchFails \/ SourceRejected \/ ParseRaises \/ ExtractRaises
  <2>1. PICK s \in {"fetch", "validate", "parse", "extract"} : Drop(s)
    BY <1>2 DEF FetchFails, SourceRejected, ParseRaises, ExtractRaises
  <2>2. s \in OfFile \ {"collect"}
    BY DEF OfFile
  <2>. QED
    BY <2>1, <2>2, DropKeeps
<1>3. CASE ExtractClaims
  BY <1>3, ExtractKeeps
<1>4. CASE CollectSource
  BY <1>4, CollectKeeps
<1>5. CASE BuildMatrix
  BY <1>5, MatrixKeeps
<1>6. CASE CollectRaises
  <2>1. /\ spc = "collect" /\ spc' = "raised"
        /\ UNCHANGED <<ofJob, file, documentVars, resultVars, matrix>>
    BY <1>6 DEF CollectRaises, ReadOn
  <2>2. Read' = Read
    BY <2>1 DEF Read, resultVars
  <2>3. ListsInv'
    BY <2>1, <2>2 DEF ReadInv, ListsInv, OfFile, resultVars
  <2>4. ClaimsInv'
    BY <2>1 DEF ReadInv, ClaimsInv, resultVars
  <2>. QED
    BY <2>1, <2>3, <2>4
    DEF ReadInv, FileInv, MatrixInv, OfFile, ReadingStages, ReadingOver
<1>7. CASE UNCHANGED readingVars
  <2>1. UNCHANGED <<spc, ofJob, file, matrix, pages, page, start, pieces>>
        /\ UNCHANGED <<found, kept, metas, ids, failures>>
    BY <1>7 DEF readingVars, documentVars, resultVars
  <2>2. Read' = Read
    BY <2>1 DEF Read
  <2>3. FileInv' /\ ListsInv' /\ MatrixInv'
    BY <2>1, <2>2 DEF ReadInv, FileInv, ListsInv, MatrixInv
  <2>4. \A k \in DOMAIN found : Backed(found[k])' <=> Backed(found[k])
    BY <2>1 DEF Backed
  <2>5. ClaimsInv'
    BY <2>1, <2>4 DEF ReadInv, ClaimsInv
  <2>6. spc \in {"cut", "extract"} => CutInv'
    BY <2>1 DEF ReadInv, CutInv, Continues
  <2>. QED
    BY <2>1, <2>3, <2>5, <2>6 DEF ReadInv
<1>. QED
  BY <1>1, <1>2, <1>3, <1>4, <1>5, <1>6, <1>7 DEF ReadingNext, ReadingWork

LEMMA CutInvKeepsTheText ==
    ASSUME ReadInv PROVE CutsKeepTheText
<1>. SUFFICES ASSUME spc = "extract" PROVE CutsKeepTheText
  BY DEF CutsKeepTheText
<1>1. CutInv /\ page = Len(pages) + 1 /\ pages \in Seq(Page) /\ pieces \in Seq(Piecewise)
  BY DEF ReadInv, FileInv, OfFile
<1>2. Len(pages) \in Nat /\ DOMAIN pages = 1..(page - 1) /\ ~(start > 0)
  BY <1>1 DEF CutInv
<1>3. ASSUME NEW k \in DOMAIN pieces PROVE pieces[k].page < page
  <2>1. pieces[k].page \in 1..page /\ pieces[k].page # page
    BY <1>2, <1>1 DEF CutInv
  <2>. QED
    BY <1>1, <1>2, <2>1
<1>. QED
  BY <1>1, <1>2, <1>3 DEF CutInv, CutsKeepTheText, Continues

LEMMA ReadingIsTraceable ==
    ReadInv => EvidenceIsTraceable
<1>. SUFFICES ASSUME ReadInv PROVE EvidenceIsTraceable
  OBVIOUS
<1>1. CutsKeepTheText
  BY CutInvKeepsTheText
<1>2. ListsInv /\ ClaimsInv /\ MatrixInv
  BY DEF ReadInv
<1>3. spc \in {"matrix", "done", "nothing"} =>
        \A k \in DOMAIN found : \E c \in DOMAIN kept :
            kept[c].file = found[k].file /\ kept[c].index = found[k].index
  BY <1>2 DEF ClaimsInv, Backed
<1>. QED
  BY <1>1, <1>2, <1>3 DEF EvidenceIsTraceable, ListsInv, MatrixInv, Read

\* The evidence a generation is built on leads back to the files it was read from:
\* SourceChunker's cuts lose no text, each file is in exactly one of the result's
\* lists or named as failed, and a single file's matrix entries name the chunks
\* their claims were extracted from, for any number of files, pages and claims.
THEOREM EvidenceLeadsBack == Spec => []EvidenceIsTraceable
<1>1. Init => ReadInv
  BY ReadStart DEF Init
<1>2. ReadInv /\ [Next]_vars => ReadInv'
  <2>. SUFFICES ASSUME ReadInv, [Next]_vars PROVE ReadInv'
    OBVIOUS
  <2>1. [ReadingNext]_readingVars
    BY DEF Next, vars, InSources, InDeck, InEditorial, InOutputs, InImages, InTurns, InText,
           InInterview, InSuggestions, InArticle
  <2>. QED
    BY <2>1, ReadKept
<1>. QED
  BY <1>1, <1>2, ReadingIsTraceable, PTL DEF Spec

-----------------------------------------------------------------------------
(***************************************************************************)
(* The types of the parts: what their invariants leave open of them.       *)
(***************************************************************************)
\* What ReadInv leaves open of the types of a file at work and of the result.
RestTypes ==
    /\ pages \in Seq(Page) /\ page \in 0..(Len(pages) + 1)
    /\ start \in Nat /\ pieces \in Seq(Piece)
    /\ failures \subseteq 1..Uploads /\ registered \subseteq 1..Uploads
    /\ matrix \in Seq(Chunk)

\* A chunk that starts and ends at characters of its page.
LEMMA EmitType ==
    ASSUME NEW to \in Nat, page \in Nat, start \in Nat, pieces \in Seq(Piece), Emit(to)
    PROVE  pieces' \in Seq(Piece)
<1>1. [page |-> page, from |-> start, to |-> to] \in Piece
  BY DEF Piece
<1>. QED
  BY <1>1 DEF Emit

LEMMA CutTypes ==
    ASSUME ReadInv, RestTypes, CutChunk
    PROVE  page' \in 0..(Len(pages) + 1) /\ start' \in Nat /\ pieces' \in Seq(Piece)
<1>1. /\ pages \in Seq(Page) /\ Len(pages) \in Nat /\ page \in 1..Len(pages) /\ page \in Nat
      /\ start \in Nat /\ pieces \in Seq(Piece)
  BY DEF ReadInv, CutInv, RestTypes, CutChunk
<1>. DEFINE n == pages[page].text
<1>2. n \in Nat
  <2>1. pages[page] \in Page
    BY <1>1
  <2>. QED
    BY <2>1, ReadingAssumption DEF Page
<1>3. ChunkSize \in Nat /\ MinChunkSize \in Nat /\ ChunkOverlap \in Nat
  BY ReadingAssumption
<1>4. page + 1 \in 0..(Len(pages) + 1) /\ page \in 0..(Len(pages) + 1) /\ 0 \in Nat
  BY <1>1
<1>5. \/ NextPage /\ (pieces' = pieces \/ Emit(n))
      \/ \E split \in SplitPoints : Emit(split) /\ start' = NextStart(split) /\ page' = page
  BY DEF CutChunk, MergeTail
<1>6. CASE NextPage /\ (pieces' = pieces \/ Emit(n))
  <2>1. pieces' \in Seq(Piece)
    <3>1. CASE pieces' = pieces
      BY <1>1, <3>1
    <3>2. CASE Emit(n)
      BY <1>1, <1>2, <3>2, EmitType
    <3>. QED
      BY <1>6, <3>1, <3>2
  <2>. QED
    BY <1>4, <1>6, <2>1 DEF NextPage
<1>7. ASSUME NEW split \in SplitPoints, Emit(split), start' = NextStart(split), page' = page
      PROVE  page' \in 0..(Len(pages) + 1) /\ start' \in Nat /\ pieces' \in Seq(Piece)
  <2>1. split \in Nat
    BY <1>1, <1>3, <1>7 DEF SplitPoints
  <2>2. start' \in Nat
    BY <1>1, <1>3, <1>7, <2>1 DEF NextStart
  <2>. QED
    BY <1>1, <1>4, <1>7, <2>1, <2>2, EmitType
<1>. QED
  BY <1>5, <1>6, <1>7

\* A key that is registered is answered by a chunk that is kept.
LEMMA ChunkUnderType ==
    ASSUME kept \in Seq(Chunk), NEW key, Resolves(key)
    PROVE  ChunkUnder(key) \in Chunk
<1>. DEFINE T == {m \in DOMAIN kept : AnswersTo(kept[m], key)}
            last == CHOOSE m \in DOMAIN kept :
                        /\ AnswersTo(kept[m], key)
                        /\ \A l \in DOMAIN kept : AnswersTo(kept[l], key) => l <= m
<1>1. PICK j \in T : TRUE
  BY DEF Resolves
<1>2. \E m \in T : \A l \in T : l <= m
  <2>1. Len(kept) \in Nat /\ T \subseteq 1..Len(kept)
    OBVIOUS
  <2>. HIDE DEF T
  <2>. QED
    BY <1>1, <2>1, LastPlace
<1>3. last \in DOMAIN kept
  BY <1>2
<1>4. ChunkUnder(key) = kept[last]
  BY DEF ChunkUnder
<1>. HIDE DEF last
<1>. QED
  BY <1>3, <1>4

LEMMA MatrixType ==
    ASSUME kept \in Seq(Chunk), found \in Seq(Claim), BuildMatrix
    PROVE  matrix' \in Seq(Chunk)
<1>. DEFINE entry(key) == IF Resolves(key) THEN <<ChunkUnder(key)>> ELSE <<>>
            seqs == [k \in DOMAIN found |-> entry(found[k].key)]
<1>1. ASSUME NEW key PROVE entry(key) \in Seq(Chunk)
  <2>1. CASE Resolves(key)
    <3>1. ChunkUnder(key) \in Chunk
      BY <2>1, ChunkUnderType
    <3>. QED
      BY <2>1, <3>1
  <2>2. CASE ~Resolves(key)
    BY <2>2
  <2>. QED
    BY <2>1, <2>2
<1>2. matrix' = FlattenSeq(seqs)
  BY DEF BuildMatrix
<1>. HIDE DEF entry
<1>3. seqs \in Seq(Seq(Chunk)) /\ Len(seqs) \in Nat
  <2>1. seqs \in [1..Len(found) -> Seq(Chunk)] /\ Len(found) \in Nat
    BY <1>1
  <2>. QED
    BY <2>1
<1>. HIDE DEF seqs
<1>4. PICK g \in [0..Len(seqs) -> Seq(Chunk)] : FlattenSeq(seqs) = g[Len(seqs)]
  BY <1>3, Flattened
<1>. QED
  BY <1>2, <1>3, <1>4

LEMMA RestStep ==
    ASSUME ReadInv, RestTypes, [ReadingNext]_readingVars
    PROVE  RestTypes'
<1>1. /\ pages \in Seq(Page) /\ Len(pages) \in Nat /\ page \in 0..(Len(pages) + 1)
      /\ start \in Nat /\ pieces \in Seq(Piece)
      /\ failures \subseteq 1..Uploads /\ registered \subseteq 1..Uploads /\ matrix \in Seq(Chunk)
      /\ file \in 1..Uploads
  BY DEF ReadInv, FileInv, RestTypes
<1>2. CASE UNCHANGED <<documentVars, failures, registered, matrix>>
  BY <1>2 DEF RestTypes, documentVars
<1>3. CASE ParseSource
  <2>1. pages' \in Seq(Page)
    BY <1>1, <1>3, PagesParsed DEF ReadInv
  <2>2. page' = 1 /\ UNCHANGED <<start, pieces, failures, registered, matrix>>
    BY <1>3 DEF ParseSource, resultVars
  <2>3. 1 \in 0..(Len(pages') + 1)
    BY <2>1
  <2>. QED
    BY <1>1, <2>1, <2>2, <2>3 DEF RestTypes
<1>4. CASE KeepPage \/ RecognisePage
  <2>1. /\ page' = page + 1 /\ page <= Len(pages) /\ page \in Nat \ {0}
        /\ UNCHANGED <<start, pieces, failures, registered, matrix>>
    BY <1>4 DEF KeepPage, RecognisePage, resultVars, ReadInv, FileInv
  <2>2. pages' \in Seq(Page) /\ Len(pages') = Len(pages)
    <3>1. CASE KeepPage
      BY <1>1, <3>1 DEF KeepPage
    <3>2. CASE RecognisePage
      <4>1. PICK t \in Lengths :
                pages' = [pages EXCEPT ![page] = [text |-> t, needsOcr |-> FALSE, isOcr |-> TRUE]]
        BY <3>2 DEF RecognisePage
      <4>2. [text |-> t, needsOcr |-> FALSE, isOcr |-> TRUE] \in Page
        BY DEF Page
      <4>. QED
        BY <1>1, <2>1, <4>1, <4>2
    <3>. QED
      BY <1>4, <3>1, <3>2
  <2>3. page' \in 0..(Len(pages') + 1)
    BY <1>1, <2>1, <2>2
  <2>. QED
    BY <1>1, <2>1, <2>2, <2>3 DEF RestTypes
<1>5. CASE Recognised
  <2>1. page' = 1 /\ UNCHANGED <<pages, start, pieces, failures, registered, matrix>>
    BY <1>5 DEF Recognised, resultVars
  <2>2. page' \in 0..(Len(pages') + 1)
    BY <1>1, <2>1
  <2>. QED
    BY <1>1, <2>1, <2>2 DEF RestTypes
<1>6. CASE CutChunk
  <2>1. UNCHANGED <<pages, failures, registered, matrix>>
    BY <1>6 DEF CutChunk, resultVars
  <2>. QED
    BY <1>1, <1>6, <2>1, CutTypes DEF RestTypes
<1>7. CASE /\ pages' = <<>> /\ page' = 0 /\ start' = 0 /\ pieces' = <<>>
           /\ failures' \in {failures, failures \cup {file}}
           /\ registered' \in {registered, registered \cup {file}} /\ UNCHANGED matrix
  BY <1>1, <1>7 DEF RestTypes
<1>8. CASE BuildMatrix
  <2>1. UNCHANGED <<documentVars, failures, registered>>
    BY <1>8 DEF BuildMatrix, resultVars
  <2>2. matrix' \in Seq(Chunk)
    BY <1>8, MatrixType DEF ReadInv, ListsInv, ClaimsInv
  <2>. QED
    BY <1>1, <2>1, <2>2 DEF RestTypes, documentVars
<1>. QED
  BY <1>2, <1>3, <1>4, <1>5, <1>6, <1>7, <1>8
  DEF ReadingNext, ReadingWork, readingVars, resultVars, FetchSource, FetchFails, ValidateSource,
      SourceRejected, ParseRaises, CutDone, ExtractClaims, ExtractRaises, CollectSource,
      CollectRaises, Drop, NextFile

LEMMA ReadingTypeCorrect == Spec => []ReadingTypeOK
<1>. DEFINE I == ReadInv /\ RestTypes
<1>1. Init => I
  <2>1. ReadingInit => RestTypes
    BY EmptySeq DEF ReadingInit, RestTypes
  <2>. QED
    BY <2>1, ReadStart DEF Init
<1>2. I /\ [Next]_vars => I'
  <2>. SUFFICES ASSUME I, [Next]_vars PROVE I'
    OBVIOUS
  <2>1. [ReadingNext]_readingVars
    BY DEF Next, vars, InSources, InDeck, InEditorial, InOutputs, InImages, InTurns, InText,
           InInterview, InSuggestions, InArticle
  <2>. QED
    BY <2>1, ReadKept, RestStep
<1>3. I => ReadingTypeOK
  BY DEF ReadInv, FileInv, ListsInv, ClaimsInv, RestTypes, ReadingTypeOK
<1>. HIDE DEF I
<1>. QED
  BY <1>1, <1>2, <1>3, PTL DEF Spec

-----------------------------------------------------------------------------
\* The answer that is being worked in is one to a question.
AskedInv ==
    /\ passages \in Sources /\ asked \in 0..MaxQuestions
    /\ judged # Unjudged => asked > 0

LEMMA InterviewTypeCorrect == Spec => []InterviewTypeOK
<1>1. Init => InterviewInv /\ AskedInv
  BY InterviewStart, InterviewAssumption DEF Init, InterviewInit, AskedInv
<1>2. InterviewInv /\ AskedInv /\ [Next]_vars => InterviewInv' /\ AskedInv'
  <2>. SUFFICES ASSUME InterviewInv, AskedInv, [Next]_vars PROVE AskedInv'
    BY InterviewNextKeeps
  <2>1. InterviewStep \/ UNCHANGED interviewVars
    BY DEF Next, vars, textVars, InSources, InEditorial, InOutputs, InImages, InTurns, InDeck,
       InInterview, InSuggestions, InArticle, InText, InterviewNext
  <2>2. MaxQuestions \in Nat /\ asked \in Nat
    BY InterviewAssumption DEF AskedInv
  <2>. QED
    BY <2>1, <2>2 DEF InterviewStep, ScoreAnswer, ScoreByDefault, PassQuestion, UpdateWithAnswer,
       MayAnswer, interviewVars, AskedInv
<1>3. InterviewInv /\ AskedInv => InterviewTypeOK
  BY DEF InterviewInv, AskedInv, InterviewTypeOK
<1>. QED
  BY <1>1, <1>2, <1>3, PTL DEF Spec

-----------------------------------------------------------------------------

\* Who is selected was found, and a drawing is tried no more often than it may be.
DrawnInv ==
    /\ person \in [Sought -> Findable]
    /\ redraws \in [Drawn -> 0..MaxDrawRetries]
    /\ notes \in [Illustrated -> Seq(Sought \cup {Remark})]

LEMMA DrawnStep ==
    ASSUME PortraitInv, DrawnInv, NEW i \in ImageSlots, ImageStep(i)
    PROVE  DrawnInv'
<1>1. CASE UNCHANGED <<person, redraws, notes>>
  BY <1>1 DEF DrawnInv
<1>2. CASE i \in Sought /\ Fetch(i)
  <2>. DEFINE best == {listed[i][k] : k \in Selected(listed[i], Lived[i])}
  <2>1. listed[i] \in Results \cup {<<>>} /\ Selected(listed[i], Lived[i]) \subseteq DOMAIN listed[i]
    BY <1>2 DEF PortraitInv, Selected
  <2>2. best \subseteq Findable
    BY <2>1 DEF Findable, ToSet
  <2>3. PICK c \in (IF best = {} THEN {NobodyFound} ELSE best) :
            person' = [person EXCEPT ![i] = c]
    BY <1>2 DEF Fetch
  <2>. HIDE DEF best
  <2>4. c \in Findable
    BY <2>2, <2>3 DEF Findable
  <2>. QED
    BY <1>2, <2>3, <2>4 DEF Fetch, DrawnInv
<1>3. CASE i \in Drawn /\ (Caption(i) \/ Redraw(i))
  <2>1. MaxDrawRetries \in Nat /\ redraws[i] \in 0..MaxDrawRetries
    BY <1>3, ImagesAssumption DEF DrawnInv
  <2>2. \/ redraws' = [redraws EXCEPT ![i] = 0]
        \/ redraws[i] < MaxDrawRetries /\ redraws' = [redraws EXCEPT ![i] = redraws[i] + 1]
        \/ UNCHANGED redraws
    BY <1>3 DEF Caption, Redraw
  <2>3. 0 \in 0..MaxDrawRetries
        /\ (redraws[i] < MaxDrawRetries => redraws[i] + 1 \in 0..MaxDrawRetries)
    BY <2>1
  <2>4. redraws' \in [Drawn -> 0..MaxDrawRetries]
    BY <2>2, <2>3 DEF DrawnInv
  <2>. QED
    BY <1>3, <2>4 DEF Caption, Redraw, DrawnInv
<1>4. CASE Store(i)
  <2>1. notes' \in [Illustrated -> Seq(Sought \cup {Remark})]
    <3>1. \A s \in Illustrated : notes'[s] \in Seq(Sought \cup {Remark})
      BY <1>4, StoreStep DEF PortraitInv
    <3>2. notes' = [s \in Illustrated |-> notes'[s]]
      BY <1>4 DEF Store, DrawnInv
    <3>. QED
      BY <3>1, <3>2
  <2>. QED
    BY <1>4, <2>1 DEF Store, DrawnInv
<1>. QED
  BY <1>1, <1>2, <1>3, <1>4 DEF ImageStep, Abstain, Search, Inspect, Download, Match, Draw, DrawFails

LEMMA ImagesTypeCorrect == Spec => []ImagesTypeOK
<1>1. Init => PortraitInv /\ DrawnInv
  <2>. SUFFICES ASSUME ImagesInit PROVE DrawnInv
    BY PortraitStart DEF Init
  <2>1. <<>> \in Seq(Sought \cup {Remark}) /\ <<Remark>> \in Seq(Sought \cup {Remark})
    OBVIOUS
  <2>2. notes \in [Illustrated -> {<<>>, <<Remark>>}]
    BY DEF ImagesInit
  <2>3. notes \in [Illustrated -> Seq(Sought \cup {Remark})]
    BY <2>1, <2>2
  <2>. QED
    BY <2>3, ImagesAssumption DEF ImagesInit, DrawnInv, Findable
<1>2. PortraitInv /\ DrawnInv /\ [Next]_vars => PortraitInv' /\ DrawnInv'
  <2>. SUFFICES ASSUME PortraitInv, DrawnInv, [Next]_vars PROVE DrawnInv'
    BY PortraitStep
  <2>1. (\E i \in ImageSlots : ImageStep(i)) \/ UNCHANGED imageVars
    BY DEF Next, vars, deckVars, InSources, InEditorial, InOutputs, InImages, InTurns, InDeck,
       InInterview, InSuggestions, InArticle, InText, ImagesNext, ImageRests
  <2>. QED
    BY <2>1, DrawnStep DEF imageVars, DrawnInv
<1>3. PortraitInv /\ DrawnInv => ImagesTypeOK
  BY DEF PortraitInv, DrawnInv, ImagesTypeOK, Findable
<1>. QED
  BY <1>1, <1>2, <1>3, PTL DEF Spec

-----------------------------------------------------------------------------
LEMMA OutputsTypeCorrect == Spec => []OutputsTypeOK
<1>1. Init => OutputsTypeOK /\ HeldInv
  BY OutputsStart DEF Init, OutputsInv, RunsInv
<1>2. OutputsTypeOK /\ HeldInv /\ [Next]_vars => OutputsTypeOK' /\ HeldInv'
  <2>. SUFFICES ASSUME OutputsTypeOK, HeldInv, [Next]_vars PROVE OutputsTypeOK' /\ HeldInv'
    OBVIOUS
  <2>1. ASSUME NEW o \in Runs, RunStep(o) PROVE OutputsTypeOK' /\ HeldInv'
    <3>1. HeldInv'
      BY <2>1, RunMoves, LeavesNew DEF Others, HeldInv, InProgress, RunAt
    <3>. QED
      BY <2>1, <3>1, OutputsTypeStep
  <2>2. CASE UNCHANGED outputVars
    BY <2>2 DEF outputVars, store, runVars, history, OutputsTypeOK, HeldInv, InProgress, RunAt
  <2>. QED
    BY <2>1, <2>2, OutputsNextMoves
<1>. QED
  BY <1>1, <1>2, PTL DEF Spec

-----------------------------------------------------------------------------
LEMMA BackoffType ==
    ASSUME NEW t \in Turns, throttles[t] \in Nat
    PROVE  NextBackoff(t) \in Nat
<1>. DEFINE n == throttles[t]
            Body(f) == [k \in 0..n |-> IF k = 0 THEN ThrottleBase ELSE 2 * f[k - 1]]
            step == [p \in Nat \X (1..n) |-> 2 * p[1]]
            G == CHOOSE f : f = Body(f)
<1>1. n \in Nat /\ ThrottleBase \in Nat /\ ThrottleCap \in Nat
  BY TurnsAssumption
<1>2. NextBackoff(t) = IF G[n] < ThrottleCap THEN G[n] ELSE ThrottleCap
  BY DEF NextBackoff
<1>. HIDE DEF n
<1>3. PICK g : Iterates(g, Nat, ThrottleBase, step, n)
  <2>1. IsStep(step, Nat, n)
    BY DEF IsStep
  <2>. HIDE DEF step
  <2>. QED
    BY <1>1, <2>1, Recursion
<1>4. g = Body(g)
  <2>1. DOMAIN g = 0..n /\ g[0] = ThrottleBase /\ g \in [0..n -> Nat]
    BY <1>3 DEF Iterates
  <2>2. ASSUME NEW k \in 1..n PROVE g[k] = 2 * g[k - 1]
    <3>1. k - 1 \in 0..n
      BY <1>1
    <3>2. <<g[k - 1], k>> \in Nat \X (1..n)
      BY <2>1, <3>1
    <3>3. g[k] = step[<<g[k - 1], k>>]
      BY <1>3, <2>2 DEF Iterates
    <3>. QED
      BY <3>2, <3>3
  <2>3. ASSUME NEW k \in 0..n PROVE g[k] = IF k = 0 THEN ThrottleBase ELSE 2 * g[k - 1]
    <3>1. k = 0 \/ k \in 1..n
      BY <1>1
    <3>. QED
      BY <2>1, <2>2, <3>1
  <2>. QED
    BY <2>1, <2>3
<1>5. G = Body(G)
  BY <1>4
<1>. HIDE DEF G
<1>. DEFINE T == {k \in 0..n : G[k] \in Nat}
<1>6. 0 \in T
  BY <1>1, <1>5
<1>7. ASSUME NEW k \in 0..(n - 1), k \in T PROVE k + 1 \in T
  <2>1. k + 1 \in 0..n /\ (k + 1) - 1 = k /\ k + 1 # 0
    BY <1>1
  <2>2. G[k + 1] = 2 * G[k]
    BY <1>5, <2>1
  <2>. QED
    BY <1>7, <2>1, <2>2
<1>. HIDE DEF T
<1>8. \A k \in 0..n : k \in T
  BY <1>1, <1>6, <1>7, Counting
<1>9. G[n] \in Nat
  BY <1>1, <1>8 DEF T
<1>. QED
  BY <1>1, <1>2, <1>9

\* The clock and the cache within their bounds.
ClockTypes ==
    /\ clock \in 0..MaxClock /\ sampled \in 0..MaxClock /\ expiresAt \in 0..(MaxClock + Ttl)
    /\ disabled \in BOOLEAN /\ holder \in Turns \cup {Nobody}

\* The counters of a call within their budgets.
RetryTypes ==
    /\ retries \in [Turns -> 0..MaxRetries] /\ throttles \in [Turns -> Nat]
    /\ backoff \in [Turns -> 0..ThrottleBudget]

\* A turn has at most one answer for each of its iterations.
LoopTypes ==
    /\ iterations \in [Turns -> 0..MaxIterations]
    /\ \A t \in Turns : answers[t] <= iterations[t]
    /\ \A counter \in {open, strays, calls} : counter \in [Turns -> 0..MaxCalls]

LEMMA ClockStep ==
    ASSUME TurnsInv, ClockTypes, NEW t \in Turns, TurnStep(t)
    PROVE  ClockTypes'
<1>1. MaxClock \in Nat /\ Ttl \in Nat /\ Margin \in Nat /\ Margin < Ttl
  BY CacheAssumption
<1>2. CASE UNCHANGED cacheVars
  BY <1>2 DEF cacheVars, ClockTypes
<1>3. CASE Creates(t)
  BY <1>3 DEF Creates, Lock, CreateStarts, ClockTypes
<1>4. CASE Created(t)
  <2>1. expiresAt' = sampled + Ttl - Margin /\ holder' = Nobody /\ sampled' = 0
        /\ UNCHANGED <<clock, disabled>>
    BY <1>4 DEF Created, CreateReturns, Unlock
  <2>. QED
    BY <1>1, <2>1 DEF ClockTypes
<1>5. CASE NotCreated(t)
  BY <1>1, <1>5 DEF NotCreated, CreateFails, Unlock, ClockTypes
<1>6. CASE CallFails(t) /\ CallKeeps
  <2>1. expiresAt' \in {expiresAt, 0}
    BY <1>6 DEF CallFails, Fallback, Invalidate
  <2>. QED
    BY <1>1, <1>6, <2>1 DEF CallKeeps, ClockTypes
<1>7. CASE Retries /\ CallKeeps
  BY <1>7 DEF Retries, CallKeeps, ClockTypes
<1>8. CASE Unreachable(t)
  BY <1>8 DEF Unreachable, CallKeeps, ClockTypes
<1>. QED
  BY <1>2, <1>3, <1>4, <1>5, <1>6, <1>7, <1>8 DEF TurnStep, Iterate, GivesUp, TakesHandle, Transient,
     Throttled, Terminal, Degraded, Reply, BadCalls, Fix, AnswersCalls, ServerAnswers

LEMMA RetriesStep ==
    ASSUME RetryTypes, NEW t \in Turns, TurnStep(t)
    PROVE  RetryTypes'
<1>1. /\ MaxRetries \in Nat /\ ThrottleBudget \in Nat
      /\ retries[t] \in 0..MaxRetries /\ throttles[t] \in Nat /\ backoff[t] \in 0..ThrottleBudget
  BY TurnsAssumption DEF RetryTypes
<1>2. CASE UNCHANGED retryVars
  BY <1>2 DEF retryVars, RetryTypes
<1>3. CASE CallOver(t)
  BY <1>1, <1>3 DEF CallOver, RetryTypes
<1>4. CASE /\ retries[t] < MaxRetries /\ retries' = [retries EXCEPT ![t] = @ + 1]
           /\ UNCHANGED <<throttles, backoff>>
  BY <1>1, <1>4 DEF RetryTypes
<1>5. CASE /\ backoff[t] + NextBackoff(t) <= ThrottleBudget
           /\ throttles' = [throttles EXCEPT ![t] = @ + 1]
           /\ backoff' = [backoff EXCEPT ![t] = @ + NextBackoff(t)]
           /\ UNCHANGED retries
  <2>1. backoff[t] + NextBackoff(t) \in 0..ThrottleBudget /\ throttles[t] + 1 \in Nat
    BY <1>1, <1>5, BackoffType
  <2>. QED
    BY <1>5, <2>1 DEF RetryTypes
<1>. QED
  BY <1>2, <1>3, <1>4, <1>5 DEF TurnStep, Iterate, GivesUp, TakesHandle, Creates, Created, NotCreated,
     StartCall, Transient, Throttled, Terminal, Unreachable, Degraded, Reply, BadCalls, Fix, AnswersCalls,
     ServerAnswers, retryVars

LEMMA LoopStep ==
    ASSUME TurnsInv, LoopTypes, NEW t \in Turns, TurnStep(t)
    PROVE  LoopTypes'
<1>1. /\ MaxIterations \in Nat /\ MaxCalls \in Nat
      /\ iterations[t] \in 0..MaxIterations /\ answers[t] \in Nat /\ answers[t] <= iterations[t]
      /\ open[t] \in 0..MaxCalls /\ strays[t] \in 0..MaxCalls /\ calls[t] \in 0..MaxCalls
      /\ DOMAIN answers = Turns
  BY TurnsAssumption DEF LoopTypes, TurnsInv, TurnTypes
<1>2. CASE UNCHANGED <<iterations, answers, open, strays, calls>>
  BY <1>2 DEF LoopTypes
<1>3. ASSUME NEW i \in 0..MaxIterations, NEW a \in Nat, a <= i,
             iterations' = [iterations EXCEPT ![t] = i], answers' = [answers EXCEPT ![t] = a]
      PROVE  iterations' \in [Turns -> 0..MaxIterations] /\ \A u \in Turns : answers'[u] <= iterations'[u]
  BY <1>1, <1>3 DEF LoopTypes
<1>4. CASE Iterate(t)
  <2>1. /\ iterations[t] + 1 \in 0..MaxIterations /\ answers[t] <= iterations[t] + 1
        /\ iterations' = [iterations EXCEPT ![t] = iterations[t] + 1] /\ UNCHANGED <<answers, open, strays, calls>>
    BY <1>1, <1>4 DEF Iterate
  <2>2. answers' = [answers EXCEPT ![t] = answers[t]]
    BY <2>1 DEF TurnsInv, TurnTypes
  <2>. QED
    BY <1>1, <1>3, <2>1, <2>2 DEF LoopTypes
<1>5. ASSUME NEW s, TurnGoes(t, s)
      PROVE  iterations' \in [Turns -> 0..MaxIterations] /\ \A u \in Turns : answers'[u] <= iterations'[u]
  <2>1. 0 \in 0..MaxIterations /\ 0 \in Nat /\ 0 <= 0
    BY <1>1
  <2>2. iterations' = [iterations EXCEPT ![t] = 0] /\ answers' = [answers EXCEPT ![t] = 0]
    BY <1>5 DEF TurnGoes
  <2>. QED
    BY ONLY <1>3, <2>1, <2>2
<1>6. CASE GivesUp(t) \/ Reply(t) \/ Unreachable(t)
  BY <1>5, <1>6 DEF GivesUp, Reply, Unreachable, CallKeeps, LoopTypes
<1>7. CASE TurnAt(t, "call") /\ CallFails(t) /\ CallKeeps
  <2>1. CASE handle[t] = NoHandle
    BY <1>5, <1>7, <2>1 DEF CallFails, CallKeeps, LoopTypes
  <2>2. CASE handle[t] # NoHandle
    <3>1. iterations[t] = answers[t] + 1
      BY <1>7 DEF TurnsInv, CountInv, TurnAt, Waiting
    <3>2. /\ iterations[t] - 1 \in 0..MaxIterations /\ answers[t] <= iterations[t] - 1
          /\ iterations' = [iterations EXCEPT ![t] = iterations[t] - 1] /\ UNCHANGED answers
      BY <1>1, <1>7, <2>2, <3>1 DEF CallFails, Fallback
    <3>3. answers' = [answers EXCEPT ![t] = answers[t]]
      BY <3>2 DEF TurnsInv, TurnTypes
    <3>. QED
      BY <1>1, <1>3, <1>7, <3>2, <3>3 DEF CallKeeps, LoopTypes
  <2>. QED
    BY <2>1, <2>2
<1>8. ASSUME ServerAnswers(t), CountAnswer(t), GoesOn(t)
      PROVE  iterations' \in [Turns -> 0..MaxIterations] /\ \A u \in Turns : answers'[u] <= iterations'[u]
  <2>1. iterations[t] = answers[t] + 1
    BY <1>8, AnswerMoves
  <2>2. answers' = [answers EXCEPT ![t] = answers[t] + 1] /\ UNCHANGED iterations
    BY <1>8 DEF CountAnswer, GoesOn
  <2>3. iterations' = [iterations EXCEPT ![t] = iterations[t]]
    BY <2>2 DEF LoopTypes
  <2>4. answers[t] + 1 \in Nat /\ answers[t] + 1 <= iterations[t] /\ iterations[t] \in 0..MaxIterations
    BY <1>1, <2>1
  <2>. QED
    BY ONLY <1>3, <2>2, <2>3, <2>4
<1>9. CASE Degraded(t)
  BY <1>5, <1>8, <1>9 DEF Degraded, LoopTypes
<1>10. CASE BadCalls(t)
  <2>1. PICK n \in 1..MaxCalls : open' = [open EXCEPT ![t] = n - ErrorResponses(n)]
    BY <1>10 DEF BadCalls
  <2>2. n - ErrorResponses(n) = 0
    BY <1>1 DEF ErrorResponses
  <2>3. open' = [open EXCEPT ![t] = 0] /\ UNCHANGED <<strays, calls>>
    BY <1>10, <2>1, <2>2 DEF BadCalls
  <2>4. 0 \in 0..MaxCalls
    BY <1>1
  <2>. QED
    BY <1>8, <1>10, <2>3, <2>4 DEF BadCalls, LoopTypes
<1>11. CASE Fix(t)
  <2>1. PICK n \in 1..MaxCalls, others \in 0..MaxCalls :
            /\ open' = [open EXCEPT ![t] = n] /\ calls' = [calls EXCEPT ![t] = n]
            /\ strays' = [strays EXCEPT ![t] = others]
    <3>1. \A n \in 1..MaxCalls : 0..(MaxCalls - n) \subseteq 0..MaxCalls
      BY <1>1
    <3>. QED
      BY <1>11, <3>1 DEF Fix
  <2>2. n \in 0..MaxCalls
    BY <1>1
  <2>. QED
    BY <1>5, <1>11, <2>1, <2>2 DEF Fix, LoopTypes
<1>12. CASE AnswersCalls(t)
  <2>1. open[t] - calls[t] = 0
    BY <1>1, <1>12 DEF AnswersCalls, TurnsInv, CountInv, TurnAt
  <2>2. open' = [open EXCEPT ![t] = 0] /\ calls' = [calls EXCEPT ![t] = 0]
        /\ UNCHANGED <<iterations, answers, strays>>
    BY <1>12, <2>1 DEF AnswersCalls
  <2>. QED
    BY <1>1, <2>2 DEF LoopTypes
<1>. QED
  BY <1>2, <1>4, <1>6, <1>7, <1>9, <1>10, <1>11, <1>12 DEF TurnStep, TakesHandle, Creates, Created,
     NotCreated, loopVars, Transient, Throttled, Terminal, Retries, CallKeeps

LEMMA TurnsTypeCorrect == Spec => []TurnsTypeOK
<1>. DEFINE I == TurnsInv /\ ClockTypes /\ RetryTypes /\ LoopTypes
<1>1. Init => I
  <2>1. /\ 0 \in 0..MaxClock /\ 0 \in 0..(MaxClock + Ttl) /\ 0 \in 0..MaxRetries
        /\ 0 \in 0..ThrottleBudget /\ 0 \in 0..MaxIterations /\ 0 \in 0..MaxCalls
    BY CacheAssumption, TurnsAssumption
  <2>2. TurnsInit => ClockTypes
    BY <2>1 DEF TurnsInit, CacheInit, ClockTypes
  <2>3. TurnsInit => RetryTypes
    BY <2>1 DEF TurnsInit, RetryTypes
  <2>4. TurnsInit => LoopTypes
    BY <2>1 DEF TurnsInit, LoopTypes
  <2>. QED
    BY <2>2, <2>3, <2>4, TurnsStart DEF Init
<1>2. I /\ [Next]_vars => I'
  <2>. SUFFICES ASSUME I, [Next]_vars PROVE ClockTypes' /\ RetryTypes' /\ LoopTypes'
    BY TurnsStep
  <2>1. Tick \/ (\E t \in Turns : TurnStep(t)) \/ UNCHANGED brainVars
    BY DEF Next, vars, deckVars, InSources, InEditorial, InOutputs, InImages, InTurns, InDeck,
       InInterview, InSuggestions, InArticle, InText, TurnsNext, TurnsRest
  <2>2. CASE Tick
    BY <2>2, CacheAssumption DEF Tick, turnVars, loopVars, retryVars, ClockTypes, RetryTypes, LoopTypes
  <2>3. CASE UNCHANGED brainVars
    BY <2>3 DEF brainVars, cacheVars, turnVars, loopVars, retryVars, ClockTypes, RetryTypes, LoopTypes
  <2>. QED
    BY <2>1, <2>2, <2>3, ClockStep, RetriesStep, LoopStep
<1>3. I => TurnsTypeOK
  <2>1. ASSUME I, NEW t \in Turns PROVE answers[t] \in 0..MaxIterations
    BY <2>1, TurnsAssumption DEF TurnsInv, TurnTypes, LoopTypes
  <2>. QED
    BY <2>1 DEF TurnsInv, TurnTypes, ClockTypes, RetryTypes, LoopTypes, TurnsTypeOK, CacheTypeOK
<1>. HIDE DEF I
<1>. QED
  BY <1>1, <1>2, <1>3, PTL DEF Spec
=============================================================================
