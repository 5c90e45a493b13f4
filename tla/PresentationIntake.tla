------------------------- MODULE PresentationIntake -------------------------
(***************************************************************************)
(* A presentation's conversation up to its delivery: registration          *)
(* (registration.py), the menu (main_menu.py), sources, tier and payment   *)
(* (presentation_flow.py, payment_flow.py).  A button belongs to a message *)
(* that stays in the chat; what a press does depends on the FSM state and  *)
(* data at that moment, and its handler writes the state after Telegram    *)
(* has shown the answer, when the user may have gone on elsewhere, or      *)
(* pressed another button of the same message (no handler takes a lock).   *)
(***************************************************************************)
EXTENDS Naturals, FiniteSets

CONSTANTS
    Starts,             \* /start commands
    Names,              \* messages that give the user's name
    Documents,          \* documents and photos the user sends
    MaxProjects,
    MaxMoves            \* files sent and presses beside another under a message, together

\* An update, the bot's message that answers it and the handler at work on it or on a
\* press under it have one name; Again names the handler of a second press, beside the
\* first.  A generation shows its progress in a message of its own.
Again(m) == <<"again", m>>
Progress(p) == <<"progress", p>>
Replies == Starts \cup Names \cup Documents
Payers == Documents \cup {Again(d) : d \in Documents}
Messages == Replies \cup {Progress(p) : p \in Payers}
Seconds == {Again(m) : m \in Messages}
Handlers == Messages \cup Seconds

\* The message a handler is at work under.
On(h) == IF h \in Messages THEN h ELSE h[2]

ASSUME IntakeAssumption ==
    /\ MaxProjects \in Nat \ {0} /\ MaxMoves \in Nat
    /\ \A p \in Payers : Progress(p) \notin Replies
    /\ Messages \cap Seconds = {}

Stages == {"none", "language", "level", "name", "uploading", "more", "tier",
           "confirming", "generating", "reviewing"}

\* What a press under a keyboard sends.  (Of languages, levels, tiers, providers and
\* formats one each; the menu's article is ArticleFlow's.)
Buttons ==
    [languages |-> {"lang"}, levels |-> {"cal"}, menu |-> {"create_presentation"},
     upload |-> {"upload_more", "continue_flow"}, tiers |-> {"tier"},
     providers |-> {"pay", "pay_balance"}, link |-> {"cancel_payment"},
     downloads |-> {"download", "done"}]
Keyboards == DOMAIN Buttons \cup {"unsent", "none"}

VARIABLES
    stage,              \* the FSM state
    project,            \* of the FSM data: the project, 0 if none
    sources,            \* and its sources
    registered,         \* is there a users row?
    begun,              \* the projects created
    keyboard,           \* under each message
    step,               \* what a handler has yet to do
    told,               \* the project a file was received for
    order,              \* the generation a handler took a payment for
    stashed,            \* the projects whose files are in the cache
    seconds,            \* how many presses came beside another under their message
    orderly,            \* has none, and no conversation ended while a handler of it ran?
    refused             \* did a balance not suffice?

intakeVars == <<stage, project, sources, registered, begun, keyboard, step, told,
                order, stashed, seconds, orderly, refused>>
dataVars == <<project, sources>>
orderVars == <<seconds, orderly>>
recordVars == <<registered, begun, told, order, stashed, refused>>

Projects == 1..MaxProjects

\* A handler awaits a deduction, a message, the pipeline; then it sets the state.
Step == [at : {"idle", "charge", "confirm", "announce", "make", "show", "set"},
         shows : Keyboards, leads : Stages \cup {"same"},
         project : 0..MaxProjects, files : SUBSET Documents]
Done == [at |-> "idle", shows |-> "none", leads |-> "same", project |-> 0, files |-> {}]

Order == [paid : 0..MaxProjects, promised : SUBSET Documents,
          made : 0..MaxProjects, from : SUBSET Documents]
NoOrder == [paid |-> 0, promised |-> {}, made |-> 0, from |-> {}]

IntakeTypeOK ==
    /\ stage \in Stages
    /\ project \in 0..MaxProjects /\ begun \in 0..MaxProjects
    /\ sources \subseteq Documents
    /\ registered \in BOOLEAN /\ orderly \in BOOLEAN /\ refused \in BOOLEAN
    /\ keyboard \in [Messages -> Keyboards]
    /\ step \in [Handlers -> Step]
    /\ told \in [Documents -> 0..MaxProjects]
    /\ order \in [Payers -> Order]
    /\ stashed \subseteq Projects
    /\ seconds \in Nat

IntakeInit ==
    /\ stage = "none" /\ project = 0 /\ sources = {}
    /\ registered = FALSE
    /\ begun = 0 /\ stashed = {}
    /\ keyboard = [m \in Messages |-> "unsent"]
    /\ step = [h \in Handlers |-> Done]
    /\ told = [d \in Documents |-> 0]
    /\ order = [p \in Payers |-> NoOrder]
    /\ seconds = 0 /\ orderly = TRUE /\ refused = FALSE

-----------------------------------------------------------------------------

Rests(h) == step[h].at = "idle"
Quiet == \A h \in Handlers : Rests(h)

\* The handler shows a keyboard (or none) under its message and then sets the state.
Respond(h, shows, leads) ==
    step' = [step EXCEPT ![h] =
                [Done EXCEPT !.at = "show", !.shows = shows, !.leads = leads]]

ButtonsUnder(m) == IF keyboard[m] \in DOMAIN Buttons THEN Buttons[keyboard[m]] ELSE {}

Unsent(S) == {m \in S : keyboard[m] = "unsent" /\ Rests(m)}
Moves == Cardinality(Documents \ Unsent(Documents)) + seconds

\* A press is handled by a handler of its own, whatever is at work under its message.
Pressed(h, button) ==
    /\ button \in ButtonsUnder(On(h)) /\ Rests(h)
    /\ h \in Seconds => ~Rests(On(h)) /\ Moves < MaxMoves
    /\ seconds' = IF h \in Seconds THEN seconds + 1 ELSE seconds

\* Beside another press of the same message it is out of order.
Counts(h) == orderly' = (orderly /\ h \in Messages)

\* Updates of one kind are alike: which is sent first says nothing.
IsNext(m, S) == m \in Unsent(S) /\ m = CHOOSE n \in Unsent(S) : TRUE

\* h ends or leaves the conversation about a project.
Breaks(h) == orderly' = (orderly /\ \A n \in Handlers \ {h} : Rests(n))

ClearData == project' = 0 /\ sources' = {}
SetStage(s) ==
    /\ stage' = IF s = "same" THEN stage ELSE s
    /\ IF s = "none" THEN ClearData ELSE UNCHANGED dataVars

Shows(h) ==
    /\ step[h].at = "show"
    /\ keyboard' = [keyboard EXCEPT ![On(h)] = step[h].shows]
    /\ step' = [step EXCEPT ![h].at = "set"]
    /\ UNCHANGED <<stage, dataVars, recordVars, orderVars>>

Sets(h) ==
    /\ step[h].at = "set"
    /\ step' = [step EXCEPT ![h] = Done]
    /\ SetStage(step[h].leads)
    /\ IF step[h].leads = "none" THEN Breaks(h) ELSE UNCHANGED orderly
    /\ UNCHANGED <<keyboard, recordVars, seconds>>

-----------------------------------------------------------------------------
(***************************************************************************)
(* Registration and menu                                                   *)
(***************************************************************************)

CmdStart(m) ==
    /\ IsNext(m, Starts)
    /\ IF registered
       THEN Respond(m, "menu", "same") ELSE Respond(m, "languages", "language")
    /\ UNCHANGED <<stage, dataVars, keyboard, recordVars, orderVars>>

ProcessName(m) ==
    /\ stage = "name" /\ IsNext(m, Names)
    /\ Respond(m, "menu", "none")
    /\ registered' = TRUE
    /\ UNCHANGED <<stage, dataVars, keyboard, begun, told, order, stashed, refused,
                   orderVars>>

\* _start_flow: whatever the state was, the data now name a new project without
\* sources, before the message is edited and the state set.
StartPresentation(h) ==
    /\ Pressed(h, "create_presentation") /\ begun < MaxProjects
    /\ begun' = begun + 1
    /\ project' = begun + 1 /\ sources' = {}
    /\ Respond(h, "none", "uploading")
    /\ Breaks(h)
    /\ UNCHANGED <<stage, keyboard, registered, told, order, stashed, refused>>

-----------------------------------------------------------------------------
(***************************************************************************)
(* Sources and tier                                                        *)
(***************************************************************************)

\* receive_document, receive_photo
ReceiveDocument(d) ==
    /\ stage = "uploading" /\ IsNext(d, Documents) /\ Moves < MaxMoves
    /\ sources' = sources \cup {d}
    /\ told' = [told EXCEPT ![d] = project]
    /\ Respond(d, "upload", "more")
    /\ UNCHANGED <<stage, project, keyboard, registered, begun, order, stashed, refused,
                   orderVars>>

\* The state in which a press counts, the keyboard that replaces its own, and the
\* state it leads to.
ProcessLanguage ==
    [press |-> "lang", within |-> "language", shows |-> "levels", leads |-> "level"]
ProcessCalibration ==
    [press |-> "cal", within |-> "level", shows |-> "none", leads |-> "name"]

\* Mutant: asks for the next file and stays where files are ignored.
UploadMore_Stays ==
    [press |-> "upload_more", within |-> "more", shows |-> "none", leads |-> "same"]
UploadMore ==
    [press |-> "upload_more", within |-> "more", shows |-> "none", leads |-> "uploading"]
ChooseTier ==
    [press |-> "tier", within |-> "tier", shows |-> "providers", leads |-> "confirming"]

Turns == {ProcessLanguage, ProcessCalibration, UploadMore, ChooseTier}

Turn(h, t) ==
    /\ Pressed(h, t.press) /\ Counts(h) /\ stage = t.within
    /\ Respond(h, t.shows, t.leads)
    /\ UNCHANGED <<stage, dataVars, keyboard, recordVars>>

\* Without sources the message says so and loses its buttons.
ContinueToQuestionnaire(h) ==
    /\ Pressed(h, "continue_flow") /\ Counts(h) /\ stage = "more"
    /\ IF sources = {} THEN Respond(h, "none", "same") ELSE Respond(h, "tiers", "tier")
    /\ UNCHANGED <<stage, dataVars, keyboard, recordVars>>

-----------------------------------------------------------------------------
(***************************************************************************)
(* Payment and generation                                                  *)
(***************************************************************************)

\* select_provider, in whatever state, for the project the data name.
PayFromBalance(p) ==
    /\ Pressed(p, "pay_balance") /\ Counts(p)
    /\ IF project = 0 THEN Respond(p, "none", "none")
       ELSE step' = [step EXCEPT ![p] =
                [Done EXCEPT !.at = "charge", !.project = project,
                              !.files = {f \in Documents : told[f] = project}]]
    /\ UNCHANGED <<stage, dataVars, keyboard, recordVars>>

PayExternally(p) ==
    /\ Pressed(p, "pay") /\ Counts(p)
    /\ IF project = 0 THEN Respond(p, "none", "none") ELSE Respond(p, "link", "same")
    /\ UNCHANGED <<stage, dataVars, keyboard, recordVars>>

CancelPress(p) ==
    /\ Pressed(p, "cancel_payment") /\ Counts(p)
    /\ Respond(p, "menu", "none")
    /\ UNCHANGED <<stage, dataVars, keyboard, recordVars>>

Refuse(p) ==
    /\ step[p].at = "charge"
    /\ Respond(p, "none", "same")
    /\ refused' = TRUE
    /\ UNCHANGED <<stage, dataVars, keyboard, registered, begun, told, order, stashed,
                   orderVars>>

Charge(p) ==
    /\ step[p].at = "charge"
    /\ step' = [step EXCEPT ![p].at = "confirm"]
    /\ order' = [order EXCEPT ![p] =
            [NoOrder EXCEPT !.paid = step[p].project, !.promised = step[p].files]]
    /\ UNCHANGED <<stage, dataVars, keyboard, registered, begun, told, stashed, refused,
                   orderVars>>

\* The message is edited; then _trigger_generation and start_generation read the
\* data anew.
HandOff(p) ==
    /\ step[p].at = "confirm"
    /\ keyboard' = [keyboard EXCEPT ![On(p)] = "none"]
    /\ step' = [step EXCEPT ![p].at = "announce"]
    /\ order' = [order EXCEPT ![p].made = project, ![p].from = sources]
    /\ SetStage("generating")
    /\ UNCHANGED <<registered, begun, told, stashed, refused, orderVars>>

\* The progress message; the state is set once more.
Announce(p) ==
    /\ step[p].at = "announce"
    /\ keyboard' = [keyboard EXCEPT ![Progress(p)] = "none"]
    /\ step' = [step EXCEPT ![p].at = "make"]
    /\ SetStage("generating")
    /\ UNCHANGED <<recordVars, orderVars>>

\* Mutant: stashes whatever was made, also without a project in the data.
Deliver_AnyProject(p) ==
    /\ step[p].at = "make"
    /\ stashed' = stashed \cup {order[p].made}
    /\ keyboard' = [keyboard EXCEPT ![Progress(p)] = "downloads"]
    /\ step' = [step EXCEPT ![p].at = "set", ![p].leads = "reviewing"]
    /\ UNCHANGED <<stage, dataVars, registered, begun, told, order, refused, orderVars>>
\* The files are stashed and the buttons shown; the state follows.
Deliver(p) ==
    /\ step[p].at = "make" /\ order[p].from # {} /\ order[p].made # 0
    /\ stashed' = stashed \cup {order[p].made}
    /\ keyboard' = [keyboard EXCEPT ![Progress(p)] = "downloads"]
    /\ step' = [step EXCEPT ![p].at = "set", ![p].leads = "reviewing"]
    /\ UNCHANGED <<stage, dataVars, registered, begun, told, order, refused, orderVars>>

\* Sources without content, a step that raises; what was refunded is BotGeneration's.
MakingFails(p) ==
    /\ step[p].at = "make"
    /\ step' = [step EXCEPT ![p] = Done]
    /\ SetStage("none")
    /\ Breaks(p)
    /\ UNCHANGED <<keyboard, recordVars, seconds>>

\* finish drops the slot of the project the data name.
Finish(h) ==
    /\ Pressed(h, "done") /\ Counts(h) /\ stage = "reviewing"
    /\ stashed' = stashed \ {project}
    /\ Respond(h, "menu", "none")
    /\ UNCHANGED <<stage, dataVars, keyboard, registered, begun, told, order, refused>>

-----------------------------------------------------------------------------
IntakeStep ==
    \/ (\E m \in Starts : CmdStart(m)) \/ (\E m \in Names : ProcessName(m))
    \/ (\E d \in Documents : ReceiveDocument(d))
    \/ \E h \in Handlers :
        \/ Shows(h) \/ Sets(h)
        \/ StartPresentation(h)
        \/ (\E t \in Turns : Turn(h, t)) \/ ContinueToQuestionnaire(h)
        \/ Finish(h)
    \/ \E p \in Payers :
        \/ PayFromBalance(p) \/ PayExternally(p) \/ CancelPress(p)
        \/ Refuse(p) \/ Charge(p) \/ HandOff(p) \/ Announce(p)
        \/ Deliver(p) \/ MakingFails(p)

-----------------------------------------------------------------------------
\* Does a press under m lead on in the current state?  pay_* and cancel_payment
\* have no state filter.
Works(m) ==
    \E button \in ButtonsUnder(m) :
        \/ button \in {"pay", "pay_balance", "cancel_payment"}
        \/ button = "continue_flow" /\ stage = "more"
        \/ button = "download" /\ stage = "reviewing"
        \/ \E t \in Turns : button = t.press /\ stage = t.within

LeadsOn ==
    \/ stage \in {"none", "uploading", "name"}
    \/ \E m \in Messages : Works(m)

\* "so the FSM can hang every subsequent decision off its UUID": however presses,
\* files and late answers of one chat interleave, two presses under one message
\* included, a file the user was told is received is a source of that project.  And,
\* unless a conversation ended while a handler of it was at work or a message was
\* pressed while a press under it was being handled (each handler then writes keyboard
\* and state as if it were alone, and the last of each may not belong together), a
\* payment makes the project it was for, from all the files received before it, and
\* whenever the bot rests what is shown for review can be downloaded and some button
\* or message leads on, unless his balance was refused.
ConversationLeadsOn ==
    /\ \A d \in Documents : told[d] = project /\ project # 0 => d \in sources
    /\ orderly =>
        /\ \A p \in Payers :
            order[p].made # 0 =>
                /\ order[p].made = order[p].paid
                /\ order[p].promised \subseteq order[p].from
        /\ Quiet =>
            /\ stage = "reviewing" => project \in stashed
            /\ LeadsOn \/ refused
=============================================================================
