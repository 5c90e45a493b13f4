---------------------------- MODULE ImageFinding ----------------------------
(***************************************************************************)
(* One image stage from inside (ImagePass.resolve_deck): portraits of the   *)
(* people a deck names are looked up on Wikidata and taken from Commons,    *)
(* everything else is drawn by a model.  All slots are resolved at once,    *)
(* and each may abstain at every step.                                      *)
(***************************************************************************)
EXTENDS Integers, Sequences, SequencesExt, FiniteSetsExt

CONSTANTS
    Sought,             \* the empty portrait slots
    Drawn,              \* the slots to be drawn, within the budget
    ShownOn,            \* ShownOn[i]: the slide of slot i
    Lived,              \* Lived[i]: the years the slide gives, each of them or Unknown
    Unknown,
    Results,            \* what a search may find: sequences of candidates
    Overlaps,           \* Overlaps[i]: the words each figure of the sources shares with i
    MinOverlap,         \* GROUNDING_MIN_OVERLAP
    MaxDrawRetries,     \* DEFAULT_LLM_MAX_RETRIES
    NoteSpace,          \* how many remarks fit into a slide's speaker notes
    NobodyFound,
    Remark              \* what the notes of a slide said before

\* What decides about a file, and about its licence.
Marks == {"restricted", "sharealike", "noncommercial", "noderivatives", "pd", "by"}
Pictures ==
    [portrait : BOOLEAN, raster : BOOLEAN, large : BOOLEAN, marks : SUBSET Marks]

Years == [born : Int \cup {Unknown}, died : Int \cup {Unknown}]

\* An entity as a search and its claims show it: how its label compares with the
\* name, how many words its description shares with the slide.
Candidates ==
    [human : BOOLEAN, label : {"exact", "loose", "empty", "none"},
     lived : Years, words : Nat, image : Pictures \cup {Unknown}]

ASSUME ImagesAssumption ==
    /\ Results \subseteq Seq(Candidates)
    /\ Sought \cap Drawn = {}
    /\ Lived \in [Sought -> Years]
    /\ Overlaps \in [Drawn -> Seq(Nat)]
    /\ {MinOverlap, MaxDrawRetries} \subseteq Nat /\ NoteSpace \in Nat \ {0}

ImageSlots == Sought \cup Drawn

VARIABLES
    ipc,                \* where the task of a slot is
    listed,             \* the candidates of a search
    person,             \* the one selected
    redraws,            \* attempts of _run_with_retry
    shown,              \* the slots whose _url is written
    notes               \* speaker_notes: the slots credited there, in order

imageVars == <<ipc, listed, person, redraws, shown, notes>>

Illustrated == {ShownOn[i] : i \in ImageSlots}
Steps == {"search", "fetch", "inspect", "download", "match", "caption", "draw", "store"}
ImageOver == {"written", "abstained"}
Findable == (UNION {ToSet(r) : r \in Results}) \cup {NobodyFound}

ImagesTypeOK ==
    /\ ipc \in [ImageSlots -> Steps \cup ImageOver]
    /\ listed \in [Sought -> Results \cup {<<>>}]
    /\ person \in [Sought -> Findable]
    /\ redraws \in [Drawn -> 0..MaxDrawRetries]
    /\ shown \subseteq ImageSlots
    /\ notes \in [Illustrated -> Seq(Sought \cup {Remark})]
    /\ \A s \in Illustrated : Len(notes[s]) <= NoteSpace

ImagesInit ==
    /\ ipc = [i \in ImageSlots |-> IF i \in Sought THEN "search" ELSE "match"]
    /\ listed = [i \in Sought |-> <<>>]
    /\ person = [i \in Sought |-> NobodyFound]
    /\ redraws = [i \in Drawn |-> 0]
    /\ shown = {}
    /\ notes \in [Illustrated -> {<<>>, <<Remark>>}]

SlotGoes(i, from, to) == ipc[i] = from /\ ipc' = [ipc EXCEPT ![i] = to]

\* A request fails, its answer is no use, or the image is not to be had: "any
\* failure or low-confidence result abstains", whatever the others do.
Abstain(i) ==
    /\ ipc[i] \in {"search", "fetch", "inspect", "download", "store"}
    /\ ipc' = [ipc EXCEPT ![i] = "abstained"]
    /\ UNCHANGED <<listed, person, redraws, shown, notes>>

-----------------------------------------------------------------------------
(***************************************************************************)
(* A portrait                                                              *)
(***************************************************************************)

Search(i) ==
    /\ SlotGoes(i, "search", "fetch")
    /\ \E r \in Results : r # <<>> /\ listed' = [listed EXCEPT ![i] = r]
    /\ UNCHANGED <<person, redraws, shown, notes>>

\* A year that is not given never conflicts, and one off by one is let pass.
DateConflicts(given, year) ==
    Unknown \notin {given, year} /\ given - year \notin -1..1

Conflicts(c, lived) ==
    DateConflicts(lived.born, c.lived.born) \/ DateConflicts(lived.died, c.lived.died)

\* The years that agree.
DateMatches(c, lived) ==
    {y \in {"born", "died"} : lived[y] # Unknown /\ lived[y] = c.lived[y]}

\* An empty label is part of every name.
NameMatches(c) == c.label \in {"exact", "loose", "empty"}

Eligible(c, lived) ==
    /\ c.human /\ c.image # Unknown
    /\ ~Conflicts(c, lived)
    /\ NameMatches(c) \/ DateMatches(c, lived) # {}

\* In tenths.  The words a description shares with the slide count for two at most.
Score(c, lived, rank) ==
    (CASE c.label = "exact" -> 30
       [] c.label \in {"loose", "empty"} -> 10
       [] OTHER -> 0)
        + (IF "born" \in DateMatches(c, lived) THEN 30 ELSE 0)
        + (IF "died" \in DateMatches(c, lived) THEN 20 ELSE 0)
        + (IF c.words < 2 THEN 10 * c.words ELSE 20)
        - (rank - 1)

\* The first of the best.
Selected(r, lived) ==
    LET fit == {k \in DOMAIN r : Eligible(r[k], lived)}
        Points(k) == Score(r[k], lived, k)
        Beats(k, n) == Points(k) > Points(n) \/ (Points(k) = Points(n) /\ k <= n)
    IN  {k \in fit : \A n \in fit : Beats(k, n)}

\* The entities of all candidates in one request, the choice, and the look at
\* the file's name.
Fetch(i) ==
    LET best == {listed[i][k] : k \in Selected(listed[i], Lived[i])} IN
    /\ ipc[i] = "fetch"
    /\ \E c \in (IF best = {} THEN {NobodyFound} ELSE best) :
        /\ person' = [person EXCEPT ![i] = c]
        /\ ipc' = [ipc EXCEPT ![i] =
                      IF c # NobodyFound /\ c.image.portrait THEN "inspect" ELSE "abstained"]
    /\ listed' = [listed EXCEPT ![i] = <<>>]
    /\ UNCHANGED <<redraws, shown, notes>>

Rejected == {"restricted", "sharealike", "noncommercial", "noderivatives"}

\* classify_license: what forbids is looked for before what allows, for the
\* name of a forbidden licence contains an allowed one's.
Allowed(marks) == marks \cap Rejected = {} /\ marks \cap {"pd", "by"} # {}
NeedsCredit(marks) == "pd" \notin marks

Inspect(i) ==
    LET picture == person[i].image IN
    /\ SlotGoes(i, "inspect", "download")
    /\ picture.raster /\ picture.large /\ Allowed(picture.marks)
    /\ UNCHANGED <<listed, person, redraws, shown, notes>>

Download(i) ==
    /\ SlotGoes(i, "download", "store")
    /\ UNCHANGED <<listed, person, redraws, shown, notes>>

-----------------------------------------------------------------------------
(***************************************************************************)
(* A drawing                                                               *)
(***************************************************************************)

\* find_relevant_figure: the figure that shares most words with the slot.
Relevant(i) == {k \in DOMAIN Overlaps[i] : Overlaps[i][k] >= MinOverlap}

Match(i) ==
    /\ SlotGoes(i, "match", IF Relevant(i) = {} THEN "draw" ELSE "caption")
    /\ UNCHANGED <<listed, person, redraws, shown, notes>>

\* Called like a drawing, with as many attempts; when all fail the extracted
\* caption serves.
Caption(i) ==
    /\ ipc[i] = "caption"
    /\ \/ ipc' = [ipc EXCEPT ![i] = "draw"] /\ redraws' = [redraws EXCEPT ![i] = 0]
       \/ /\ redraws[i] < MaxDrawRetries
          /\ redraws' = [redraws EXCEPT ![i] = @ + 1]
          /\ UNCHANGED ipc
    /\ UNCHANGED <<listed, person, shown, notes>>

Draw(i) ==
    /\ SlotGoes(i, "draw", "store")
    /\ UNCHANGED <<listed, person, redraws, shown, notes>>

\* A time-out or an API error, after a pause.
Redraw(i) ==
    /\ ipc[i] = "draw" /\ redraws[i] < MaxDrawRetries
    /\ redraws' = [redraws EXCEPT ![i] = @ + 1]
    /\ UNCHANGED <<ipc, listed, person, shown, notes>>

\* The last attempt failed, the key is refused, or the answer has no image.
DrawFails(i) ==
    /\ SlotGoes(i, "draw", "abstained")
    /\ UNCHANGED <<listed, person, redraws, shown, notes>>

-----------------------------------------------------------------------------

\* Mutant: the credit replaces the notes.
Noted_Replaced(remarks, i) == <<i>>

\* _append_attribution: behind the notes, as far as they have room.
Noted(remarks, i) ==
    IF Len(remarks) < NoteSpace THEN Append(remarks, i) ELSE remarks

\* The bytes are uploaded and a signed url is written to the slot.
Store(i) ==
    LET s == ShownOn[i] IN
    /\ SlotGoes(i, "store", "written")
    /\ shown' = shown \cup {i}
    /\ notes' = IF i \in Sought /\ NeedsCredit(person[i].image.marks)
                THEN [notes EXCEPT ![s] = Noted(@, i)] ELSE notes
    /\ UNCHANGED <<listed, person, redraws>>

ImageStep(i) ==
    \/ Abstain(i) \/ Store(i)
    \/ i \in Sought /\ (Search(i) \/ Fetch(i) \/ Inspect(i) \/ Download(i))
    \/ i \in Drawn /\ (Match(i) \/ Caption(i) \/ Draw(i) \/ Redraw(i) \/ DrawFails(i))

ImagesDone == \A i \in ImageSlots : ipc[i] \in ImageOver

ImageRests == ImagesDone /\ UNCHANGED imageVars

ImagesNext == (\E i \in ImageSlots : ImageStep(i)) \/ ImageRests

-----------------------------------------------------------------------------
(***************************************************************************)
(* Properties                                                              *)
(***************************************************************************)

\* "a portrait of the actual person, sourced from Commons under a license we are
\* allowed to use": a face that is shown belongs to a human whose name or a year is
\* the slide's (or who has no label to compare) and whose years do not speak
\* against it; nothing about its licence forbids it; and, however the slots of a
\* slide overtake each other, its credit stands in that slide's notes, unless they
\* are full.
PortraitsAreRightAndCredited ==
    \A i \in shown \cap Sought :
        LET c == person[i] IN
        /\ c.human
        /\ c.label = "none" => \E y \in {"born", "died"} : c.lived[y] = Lived[i][y]
        /\ \A y \in {"born", "died"} :
            Unknown \in {c.lived[y], Lived[i][y]} \/ c.lived[y] - Lived[i][y] \in -1..1
        /\ c.image.marks \cap Rejected = {}
        /\ "pd" \in c.image.marks \/ i \in ToSet(notes[ShownOn[i]])
            \/ Len(notes[ShownOn[i]]) = NoteSpace
=============================================================================
