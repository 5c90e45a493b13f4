---------------------------- MODULE CreationPage ----------------------------
(***************************************************************************)
(* The web's creation page (packages/web/app/new/page.tsx): files are      *)
(* attached to a prompt, the page is sent, and an order is confirmed on a   *)
(* card.  The first attach or the send creates the project; React renders   *)
(* between any two handlers, and a handler goes on with the values of the   *)
(* render it came from.  The composer is never locked: chips can be added   *)
(* and removed while requests run and while the card is up.                 *)
(***************************************************************************)
EXTENDS Naturals, Sequences, FiniteSets

CONSTANTS
    Files,              \* the files a user may attach, each once
    FileName,           \* their names
    Attaches, Batch,    \* uses of the file picker, and what each picks
    Sends,              \* uses of the send button
    Confirms            \* presses of the card's only option, or of "retry"

ASSUME CreationAssumption ==
    /\ Batch \in [Attaches -> Seq(Files)]
    /\ \A a \in Attaches : Batch[a] # <<>>

VARIABLES
    chip,               \* uploads: a row's state
    attached,           \* registered: the files an order would name
    storedIn,           \* the project a file's sources row names, 0 if none
    pageProject,        \* projectId
    created,            \* how many projects the page created
    pick, into,         \* an attach: where it stands, its project
    sending,            \* a send
    busy, confirming,
    enqueuing,          \* the ref that guards onConfirm
    press, names, under, \* a confirm: where it stands, its files, its project
    seen,               \* the files that were shown as ready when it was pressed
    left,               \* the user is taken to the workspace
    crossed             \* was a project requested while a request for one ran?

creationVars == <<chip, attached, storedIn, pageProject, created, pick, into, sending, busy,
                  confirming, enqueuing, press, names, under, seen, left, crossed>>
chipVars == <<chip, attached, storedIn>>
confirmVars == <<confirming, enqueuing, press, names, under, seen, left>>

CreationTypeOK ==
    /\ chip \in [Files -> {"absent", "pending", "done", "failed", "removed"}]
    /\ attached \subseteq Files
    /\ storedIn \in [Files -> Nat]
    /\ pageProject \in Nat /\ created \in Nat
    /\ pick \in [Attaches -> {"idle", "creating", "uploading", "over"}]
    /\ into \in [Attaches -> Nat]
    /\ sending \in [Sends -> {"idle", "creating", "over"}]
    /\ {busy, confirming, enqueuing, left, crossed} \subseteq BOOLEAN
    /\ press \in [Confirms -> {"idle", "timer", "sent", "over"}]
    /\ names \in [Confirms -> SUBSET Files] /\ seen \in [Confirms -> SUBSET Files]
    /\ under \in [Confirms -> Nat]

CreationInit ==
    /\ chip = [f \in Files |-> "absent"]
    /\ attached = {} /\ storedIn = [f \in Files |-> 0]
    /\ pageProject = 0 /\ created = 0
    /\ pick = [a \in Attaches |-> "idle"] /\ into = [a \in Attaches |-> 0]
    /\ sending = [s \in Sends |-> "idle"]
    /\ busy = FALSE /\ confirming = FALSE /\ enqueuing = FALSE
    /\ press = [c \in Confirms |-> "idle"]
    /\ names = [c \in Confirms |-> {}] /\ seen = [c \in Confirms |-> {}]
    /\ under = [c \in Confirms |-> 0]
    /\ left = FALSE /\ crossed = FALSE

-----------------------------------------------------------------------------

Chips(states) == {f \in Files : chip[f] \in states}
Uploading == Chips({"pending"}) # {}
AllFailed == Chips({"done", "failed"}) # {} /\ attached = {}

Creating ==
    (\E a \in Attaches : pick[a] = "creating") \/ (\E s \in Sends : sending[s] = "creating")

\* Mutant: the project is created anew by every caller.
EnsureProject_Anew == TRUE

\* ensureProject, in the render the handler came from: is there none yet?
EnsureProject == pageProject = 0

\* Presses of a button are alike: which of them is first says nothing.
IsNext(p, S) == p = CHOOSE q \in S : TRUE

NotesCrossing == crossed' = (crossed \/ (EnsureProject /\ Creating))

\* The answer of POST /projects, for whoever asked.
ProjectCreated == created' = created + 1 /\ pageProject' = created + 1

-----------------------------------------------------------------------------
(* onAttach                                                                *)

BatchFiles(a) == {Batch[a][i] : i \in DOMAIN Batch[a]}

Attach(a) ==
    /\ pick[a] = "idle" /\ ~left
    /\ BatchFiles(a) \subseteq Chips({"absent"})
    /\ chip' = [f \in Files |-> IF f \in BatchFiles(a) THEN "pending" ELSE chip[f]]
    /\ busy' = TRUE
    /\ NotesCrossing
    /\ pick' = [pick EXCEPT ![a] = IF EnsureProject THEN "creating" ELSE "uploading"]
    /\ into' = [into EXCEPT ![a] = IF EnsureProject THEN 0 ELSE pageProject]
    /\ UNCHANGED <<attached, storedIn, pageProject, created, sending, confirmVars>>

AttachCreates(a) ==
    /\ pick[a] = "creating"
    /\ ProjectCreated
    /\ pick' = [pick EXCEPT ![a] = "uploading"]
    /\ into' = [into EXCEPT ![a] = created + 1]
    /\ UNCHANGED <<chipVars, sending, busy, confirmVars, crossed>>

AttachFails(a) ==
    /\ pick[a] = "creating"
    /\ pick' = [pick EXCEPT ![a] = "over"]
    /\ chip' = [f \in Files |-> IF f \in BatchFiles(a) THEN "failed" ELSE chip[f]]
    /\ busy' = FALSE
    /\ UNCHANGED <<attached, storedIn, pageProject, created, into, sending, confirmVars, crossed>>

\* The files go up one after another: presign, PUT, register.
IsNextFile(a, f) ==
    \E i \in DOMAIN Batch[a] :
        /\ Batch[a][i] = f /\ chip[f] = "pending"
        /\ \A k \in 1..(i - 1) : chip[Batch[a][k]] # "pending"

Uploaded(a, f, state) ==
    /\ pick[a] = "uploading" /\ IsNextFile(a, f)
    /\ chip' = [chip EXCEPT ![f] = state]
    /\ IF \A g \in BatchFiles(a) \ {f} : chip[g] # "pending"
       THEN pick' = [pick EXCEPT ![a] = "over"] /\ busy' = FALSE
       ELSE UNCHANGED <<pick, busy>>
    /\ UNCHANGED <<pageProject, created, into, sending, confirmVars, crossed>>

FileRegistered(a, f) ==
    /\ Uploaded(a, f, "done")
    /\ attached' = attached \cup {f}
    /\ storedIn' = [storedIn EXCEPT ![f] = into[a]]

\* Whichever call failed; the row may have been written and the answer lost.
FileFails(a, f) ==
    /\ Uploaded(a, f, "failed")
    /\ storedIn' \in {storedIn, [storedIn EXCEPT ![f] = into[a]]}
    /\ UNCHANGED attached

-----------------------------------------------------------------------------

\* onRemoveAttachment drops by name what an order would name.
RemoveAttachment(f) ==
    /\ chip[f] \in {"done", "failed"} /\ ~left
    /\ chip' = [chip EXCEPT ![f] = "removed"]
    /\ attached' = {g \in attached : FileName[g] # FileName[f]}
    /\ UNCHANGED <<storedIn, pageProject, created, pick, into, sending, busy, confirmVars,
                   crossed>>

\* onSend
Send(s) ==
    /\ sending[s] = "idle" /\ IsNext(s, {t \in Sends : sending[t] = "idle"}) /\ ~left
    /\ ~busy /\ ~confirming /\ ~Uploading /\ ~AllFailed
    /\ NotesCrossing
    /\ IF EnsureProject
       THEN /\ sending' = [sending EXCEPT ![s] = "creating"]
            /\ busy' = TRUE
            /\ UNCHANGED confirming
       ELSE /\ sending' = [sending EXCEPT ![s] = "over"]
            /\ confirming' = TRUE
            /\ UNCHANGED busy
    /\ UNCHANGED <<chipVars, pageProject, created, pick, into, enqueuing, press, names, under,
                   seen, left>>

SendCreates(s) ==
    /\ sending[s] = "creating"
    /\ ProjectCreated
    /\ sending' = [sending EXCEPT ![s] = "over"]
    /\ confirming' = TRUE /\ busy' = FALSE
    /\ UNCHANGED <<chipVars, pick, into, enqueuing, press, names, under, seen, left, crossed>>

SendFails(s) ==
    /\ sending[s] = "creating"
    /\ sending' = [sending EXCEPT ![s] = "over"]
    /\ busy' = FALSE
    /\ UNCHANGED <<chipVars, pageProject, created, pick, into, confirmVars, crossed>>

-----------------------------------------------------------------------------
(***************************************************************************)
(* The card.  An option calls onSubmitted 480 ms after the press, with the  *)
(* closure of the render that was pressed, and whatever happened to the     *)
(* card since.  (That a card which says "sent" offers no option until it is *)
(* shown again is left out.)                                                *)
(***************************************************************************)

Confirm(c) ==
    /\ press[c] = "idle" /\ IsNext(c, {d \in Confirms : press[d] = "idle"}) /\ confirming /\ ~left
    /\ press' = [press EXCEPT ![c] = "timer"]
    /\ names' = [names EXCEPT ![c] = attached]
    /\ under' = [under EXCEPT ![c] = pageProject]
    /\ seen' = [seen EXCEPT ![c] = Chips({"done"})]
    /\ UNCHANGED <<chipVars, pageProject, created, pick, into, sending, busy, confirming,
                   enqueuing, left, crossed>>

Drop(c) ==
    /\ press' = [press EXCEPT ![c] = "over"]
    /\ names' = [names EXCEPT ![c] = {}] /\ seen' = [seen EXCEPT ![c] = {}]
    /\ under' = [under EXCEPT ![c] = 0]

\* onConfirm
OrderIgnored(c) ==
    /\ press[c] = "timer" /\ enqueuing
    /\ Drop(c)
    /\ UNCHANGED <<chipVars, pageProject, created, pick, into, sending, busy, confirming,
                   enqueuing, left, crossed>>

OrderSent(c) ==
    /\ press[c] = "timer" /\ ~enqueuing
    /\ press' = [press EXCEPT ![c] = "sent"] /\ enqueuing' = TRUE
    /\ UNCHANGED <<chipVars, pageProject, created, pick, into, sending, busy, confirming, names,
                   under, seen, left, crossed>>

\* POST /jobs takes sources of its project only.
OrderAccepted(c) ==
    /\ press[c] = "sent"
    /\ \A f \in names[c] : storedIn[f] = under[c]
    /\ Drop(c)
    /\ left' = TRUE
    /\ UNCHANGED <<chipVars, pageProject, created, pick, into, sending, busy, confirming,
                   enqueuing, crossed>>

OrderRefused(c) ==
    /\ press[c] = "sent"
    /\ Drop(c)
    /\ enqueuing' = FALSE
    /\ UNCHANGED <<chipVars, pageProject, created, pick, into, sending, busy, confirming, left,
                   crossed>>

\* The button under the card; an order that was sent, or will be by a timer, is not.
CancelConfirm ==
    /\ confirming /\ ~left
    /\ confirming' = FALSE
    /\ UNCHANGED <<chipVars, pageProject, created, pick, into, sending, busy, enqueuing, press,
                   names, under, seen, left, crossed>>

CreationStep ==
    \/ \E a \in Attaches :
        \/ Attach(a) \/ AttachCreates(a) \/ AttachFails(a)
        \/ \E f \in Files : FileRegistered(a, f) \/ FileFails(a, f)
    \/ \E f \in Files : RemoveAttachment(f)
    \/ \E s \in Sends : Send(s) \/ SendCreates(s) \/ SendFails(s)
    \/ \E c \in Confirms : Confirm(c) \/ OrderIgnored(c) \/ OrderSent(c) \/ OrderAccepted(c) \/ OrderRefused(c)
    \/ CancelConfirm

-----------------------------------------------------------------------------

Ordered == {c \in Confirms : press[c] = "sent"}

\* "it is created at the first attach and reused by the submit; a second call would
\* orphan the sources already registered against the first id": however uploads,
\* removals, sends and confirms interleave, at most one order is at the server or
\* accepted; an order names no file the user had taken away or that had failed when
\* he confirmed, and leaves none out that was shown as ready, unless he removed
\* another of its name; and unless a project was requested twice at once, the page
\* creates one, which the order and every file it names belong to.
OrderIsWhatWasConfirmed ==
    /\ Cardinality(Ordered) + (IF left THEN 1 ELSE 0) <= 1
    /\ \A c \in Ordered :
        /\ names[c] \subseteq seen[c]
        /\ \A f \in seen[c] \ names[c] :
            \E g \in Chips({"removed"}) : g # f /\ FileName[g] = FileName[f]
        /\ ~crossed => \A f \in names[c] : storedIn[f] = under[c]
    /\ ~crossed => created <= 1
=============================================================================
