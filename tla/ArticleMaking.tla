---------------------------- MODULE ArticleMaking ---------------------------
(***************************************************************************)
(* An article from its outline to its files: the outline generator, the    *)
(* drafter, the citation verifier and the exporters, as ArticleOrchestrator*)
(* runs them.  The evidence matrix is not a variable: generate_outline     *)
(* drops what assign_to_sections returns, so no entry has a section, every *)
(* section is drafted without evidence, and whatever the model cites it    *)
(* made up.  A text is the markers it prints and the number of citations   *)
(* it declares, which are two answers of the model.  The style is a        *)
(* numbered one: GOST, which every language but English gets.              *)
(***************************************************************************)
EXTENDS Integers, Sequences, FiniteSets, SequencesExt

CONSTANTS
    Template,           \* for each section: is it an abstract, its max_subsections
    SourceClaims,       \* the claims the outline is made from
    OutlineAnswers,     \* what the model may propose
    Texts,              \* what it may write
    MaxQuality,         \* of a text; below it, a revision is asked for
    Bibliographies      \* the numbers of the sources whose metadata could be used

NoText == [marks |-> <<>>, refs |-> 0]
Markers == UNION {Range(t.marks) : t \in Texts}

\* A proposal names sections by their id; each has subsections, with a title and
\* claims.
Subsection == [titled : BOOLEAN, uses : SUBSET SourceClaims]

ASSUME ArticleAssumption ==
    /\ Template \in Seq([abstract : BOOLEAN, subs : Nat \ {0}]) /\ Template # <<>>
    /\ \A a \in OutlineAnswers :
        DOMAIN a \subseteq DOMAIN Template /\ \A i \in DOMAIN a : a[i] \in Seq(Subsection)
    /\ NoText \in Texts /\ \A t \in Texts : t.marks \in Seq(Markers) /\ t.refs \in Nat
    /\ MaxQuality \in Nat
    /\ \A b \in Bibliographies : b \in Seq(Nat) /\ IsInjective(b)

VARIABLES
    apc,                \* the stage the article is at
    proposal,           \* an outline that lacks required sections
    outline,            \* its sections
    rough,              \* a weak text, before its revision
    written,            \* the drafts, in the order they were written
    article,            \* the same, in the order of the outline
    report,             \* the citations the verifier has judged
    bibliography,       \* the numbers of its entries
    printed,            \* the number each marker is printed as
    exported, uploaded  \* the files written, and those stored

articleVars == <<apc, proposal, outline, rough, written, article, report, bibliography,
                 printed, exported, uploaded>>

ArticleStages == {"outline", "repair", "draft", "verify", "export", "convert", "upload"}
ArticleOver == {"delivered", "failed"}

\* A section of the outline: the one of the template it belongs to, whether its
\* title reads like an abstract's, and the claims it is to use.
OutlineSection == [of : DOMAIN Template, titled : BOOLEAN, uses : SUBSET SourceClaims]

\* A draft: where it belongs, its text and the sections its prompt showed.
SectionDraft == [at : Nat, text : Texts, previous : SUBSET Nat]

NoProposal == [i \in {0} |-> <<>>]
NothingRough == [quality |-> MaxQuality, text |-> NoText]

ArticleTypeOK ==
    /\ apc \in ArticleStages \cup ArticleOver
    /\ proposal \in OutlineAnswers \cup {NoProposal}
    /\ outline \in Seq(OutlineSection)
    /\ rough \in [quality : 0..MaxQuality, text : Texts]
    /\ written \in Seq(SectionDraft) /\ article \in Seq(SectionDraft)
    /\ report \in Seq(Nat \X Nat)
    /\ bibliography \in Bibliographies
    /\ \A m \in DOMAIN printed : printed[m] \in Nat
    /\ exported \subseteq {"docx", "pdf"} /\ uploaded \subseteq exported

ArticleInit ==
    /\ apc = "outline"
    /\ proposal = NoProposal /\ outline = <<>>
    /\ rough = NothingRough /\ written = <<>> /\ article = <<>>
    /\ report = <<>>
    /\ bibliography \in Bibliographies
    /\ printed = <<>>
    /\ exported = {} /\ uploaded = {}

outlining == <<proposal, outline>>
drafting == <<rough, written, article>>
exporting == <<report, bibliography, printed, exported, uploaded>>

-----------------------------------------------------------------------------
(***************************************************************************)
(* OutlineGenerator                                                        *)
(***************************************************************************)

\* The section as the template has it.
TemplateOnly(i) == <<[of |-> i, titled |-> FALSE, uses |-> {}]>>

\* _expand_subsections: without any there is one, and no more than are allowed.
Expand(i, subs) ==
    IF subs = <<>> THEN TemplateOnly(i)
    ELSE [k \in 1..(IF Len(subs) < Template[i].subs THEN Len(subs) ELSE Template[i].subs) |->
            [of |-> i, titled |-> subs[k].titled, uses |-> subs[k].uses]]

\* _materialise_outline, in the order of the template.
OutlineOf(a) ==
    FlattenSeq([i \in DOMAIN Template |->
        IF i \in DOMAIN a THEN Expand(i, a[i]) ELSE TemplateOnly(i)])

FallbackOutline == FlattenSeq([i \in DOMAIN Template |-> TemplateOnly(i)])

\* A section without claims of its own resembles none.
Homes(sections) == {k \in DOMAIN sections : sections[k].uses # {}}

\* ClaimLinker: a claim the model ignored goes to the one home it resembles most, or
\* to none.
Linked(sections, homes) ==
    LET ignored == SourceClaims \ UNION {sections[k].uses : k \in DOMAIN sections}
    IN {[k \in DOMAIN sections |->
            [sections[k] EXCEPT !.uses = @ \cup {c \in ignored : home[c] = k}]] :
        home \in [ignored -> homes \cup {0}]}

\* Every section of a template is required.
Complete(a) == DOMAIN a = DOMAIN Template

Settle(sections, homes) ==
    /\ outline' \in Linked(sections, homes)
    /\ apc' = "draft"
    /\ proposal' = NoProposal

OutlineProposed ==
    /\ apc = "outline"
    /\ \E a \in OutlineAnswers :
        IF Complete(a) THEN Settle(OutlineOf(a), Homes(OutlineOf(a)))
        ELSE apc' = "repair" /\ proposal' = a /\ UNCHANGED outline
    /\ UNCHANGED <<drafting, exporting>>

\* Neither of two calls gave an object, or one raised.  Each section is given its own
\* name for a claim, which claims may resemble.
NoOutlineProposed ==
    /\ apc = "outline"
    /\ Settle(FallbackOutline, DOMAIN FallbackOutline)
    /\ UNCHANGED <<drafting, exporting>>

\* What the second prompt gives is taken as it is, or else what the first gave.
OutlineRepaired ==
    /\ apc = "repair"
    /\ \E a \in OutlineAnswers \cup {proposal} : Settle(OutlineOf(a), Homes(OutlineOf(a)))
    /\ UNCHANGED <<drafting, exporting>>

-----------------------------------------------------------------------------
(***************************************************************************)
(* ArticleDrafter                                                          *)
(***************************************************************************)

Blank(text) == text = NoText

\* _find_abstract_index takes the first section that reads like one.
ReadsLikeAbstract(s) == s.titled \/ Template[s.of].abstract
AbstractAt ==
    LET found == {k \in DOMAIN outline : ReadsLikeAbstract(outline[k])} IN
    IF found = {} THEN 0 ELSE CHOOSE k \in found : \A l \in found : k <= l

\* The abstract is written when everything it can summarise is there, and what stands
\* behind it one earlier.
DraftOrder ==
    [n \in DOMAIN outline |->
        IF AbstractAt = 0 \/ n < AbstractAt THEN n
        ELSE IF n = Len(outline) THEN AbstractAt
        ELSE n + 1]

\* A prompt shows the sections that came out with any text.
Previous == {written[k].at : k \in {l \in DOMAIN written : ~Blank(written[l].text)}}

Assembled(drafts) ==
    [i \in DOMAIN outline |->
        drafts[CHOOSE k \in DOMAIN drafts :
                  drafts[k].at = i /\ \A l \in DOMAIN drafts : drafts[l].at = i => l <= k]]

Write(text) ==
    /\ written' = Append(written,
            [at |-> DraftOrder[Len(written) + 1], text |-> text, previous |-> Previous])
    /\ rough' = NothingRough
    /\ IF Len(written') < Len(DraftOrder) THEN UNCHANGED <<apc, article>>
       ELSE article' = Assembled(written') /\ apc' = "verify"

\* draft_section; the quality is what the checklist says of the text.
DraftSection ==
    /\ apc = "draft" /\ rough = NothingRough
    /\ \E text \in Texts, quality \in 0..MaxQuality :
        IF quality = MaxQuality THEN Write(text)
        ELSE /\ rough' = [quality |-> quality, text |-> text]
             /\ UNCHANGED <<apc, written, article>>
    /\ UNCHANGED <<outlining, exporting>>

\* The calls raised, or gave no object twice: the section is left empty.
SectionFails ==
    /\ apc = "draft" /\ rough = NothingRough
    /\ Write(NoText)
    /\ UNCHANGED <<outlining, exporting>>

\* A revision replaces the draft only if it is better.
ReviseSection ==
    /\ apc = "draft" /\ rough # NothingRough
    /\ \E text \in Texts, quality \in 0..MaxQuality :
        Write(IF quality > rough.quality THEN text ELSE rough.text)
    /\ UNCHANGED <<outlining, exporting>>

-----------------------------------------------------------------------------
(***************************************************************************)
(* CitationVerifier and the exporters                                      *)
(***************************************************************************)

\* No citation names an entry of the matrix: each is SOURCE_NOT_FOUND, and no
\* model is asked.
VerifyCitations ==
    /\ apc = "verify"
    /\ report' = FlattenSeq([i \in DOMAIN article |->
                    [k \in 1..article[i].text.refs |-> <<i, k>>]])
    /\ apc' = "export"
    /\ UNCHANGED <<outlining, drafting, bibliography, printed, exported, uploaded>>

\* The markers of the document, in the order they first appear.
Appearance ==
    LET marks == FlattenSeq([i \in DOMAIN article |-> article[i].text.marks])
    IN  FlattenSeq([k \in DOMAIN marks |->
            IF \E l \in 1..(k - 1) : marks[l] = marks[k] THEN <<>> ELSE <<marks[k]>>])

\* Mutant: the markers are counted, whatever the entries' own numbers.
EntryNumber_Counted(k) == k

\* The number its metadata was given among all sources.
EntryNumber(k) == bibliography[k]

\* _build_marker_map: no entry has a source's id, so the markers are given the
\* entries one by one; those left over are printed as they are.
MarkerMap ==
    LET known == {k \in DOMAIN Appearance : k <= Len(bibliography)}
    IN [m \in {Appearance[k] : k \in known} |->
            EntryNumber(CHOOSE k \in known : Appearance[k] = m)]

ExportDocx ==
    /\ apc = "export"
    /\ printed' = MarkerMap
    /\ exported' = {"docx"}
    /\ apc' = "convert"
    /\ UNCHANGED <<outlining, drafting, report, bibliography, uploaded>>

\* LibreOffice may be missing, time out or fail: there is no PDF then.
ConvertToPdf ==
    /\ apc = "convert"
    /\ exported' \in {exported, exported \cup {"pdf"}}
    /\ apc' = "upload"
    /\ UNCHANGED <<outlining, drafting, report, bibliography, printed, uploaded>>

\* Each upload may fail, and storage may not be configured.
UploadExports ==
    /\ apc = "upload"
    /\ uploaded' \in SUBSET exported
    /\ apc' = "delivered"
    /\ UNCHANGED <<outlining, drafting, report, bibliography, printed, exported>>

\* Anything else a stage raises ends the article (and its price is refunded).
StageRaises ==
    /\ apc \in ArticleStages
    /\ apc' = "failed"
    /\ UNCHANGED <<outlining, drafting, exporting>>

ArticleWork ==
    \/ OutlineProposed \/ NoOutlineProposed \/ OutlineRepaired
    \/ DraftSection \/ SectionFails \/ ReviseSection
    \/ VerifyCitations \/ ExportDocx \/ ConvertToPdf \/ UploadExports
    \/ StageRaises

ArticleNext == ArticleWork \/ (apc \in ArticleOver /\ UNCHANGED articleVars)

-----------------------------------------------------------------------------
(***************************************************************************)
(* Properties                                                              *)
(***************************************************************************)

\* Whatever the model proposes, omits or retitles: every section of the template
\* is in the outline, in its order and no wider than allowed.  And whatever order
\* the sections are written in, and however many fail: each draft stands where
\* the outline has it, its prompt showed the non-empty drafts before it, and an
\* abstract's all others.
DraftsFollowTheOutline ==
    LET has(i) == {k \in DOMAIN outline : outline[k].of = i}
        nonEmpty == {k \in DOMAIN article : ~Blank(article[k].text)}
    IN apc \in {"verify", "export", "convert", "upload", "delivered"} =>
        /\ \A i \in DOMAIN Template :
            has(i) # {} /\ Cardinality(has(i)) <= Template[i].subs
        /\ \A k, l \in DOMAIN outline : k < l => outline[k].of <= outline[l].of
        /\ Len(article) = Len(outline) /\ Len(written) = Len(outline)
        /\ \A k \in DOMAIN article :
            /\ article[k].at = k
            /\ article[k].previous =
                (IF k = AbstractAt THEN nonEmpty \ {k}
                 ELSE {l \in nonEmpty : l < k /\ l # AbstractAt})

\* A draft follows its outline, its report covers every declared citation once; and
\* what is printed can be looked up: every number a marker is printed as is one of
\* the bibliography's, no two markers share one, the entries are used from the first,
\* and a marker is left as the model wrote it only when no entry is left for it.
ArticleHoldsTogether ==
    LET marks == UNION {Range(article[i].text.marks) : i \in DOMAIN article}
        refs == UNION {{i} \X (1..article[i].text.refs) : i \in DOMAIN article}
    IN
    /\ DraftsFollowTheOutline
    /\ apc \in {"convert", "upload", "delivered"} =>
        /\ Len(report) = Cardinality(refs) /\ Range(report) = refs
        /\ DOMAIN printed \subseteq marks
        /\ \A m \in DOMAIN printed : printed[m] \in Range(bibliography)
        /\ \A m, n \in DOMAIN printed : m # n => printed[m] # printed[n]
        /\ DOMAIN printed # marks => Cardinality(DOMAIN printed) = Len(bibliography)
=============================================================================
