---------------------------- MODULE EditSession ----------------------------
(***************************************************************************)
(* The conversational editor of presentation_flow.py: chat turns, the      *)
(* approval gate and the fix allowance.                                    *)
(*                                                                         *)
(* Turns and button presses of a project are serialized by an asyncio.Lock *)
(* (FIFO).  Under the lock a handler loads the row, works for minutes on   *)
(* its copy, delivers, and writes the copy back; it sets the FSM state     *)
(* after it let the lock go.                                               *)
(*                                                                         *)
(* OwnInitiative are the turns run with user_initiated=False.  The handler *)
(* that is registered today never does so; the tests and the gate script   *)
(* do, and _run_chat_turn, _apply_pending and _reject_pending serve both.  *)
(***************************************************************************)
EXTENDS BrainSessions, Faults, Sequences

CONSTANTS
    OwnInitiative,      \* turns whose change the user did not ask for
    Approvals,          \* approve_redeliver presses
    Rejections,         \* reject_redeliver presses
    Entries,            \* edit_with_ai presses
    Free

Presses == Approvals \cup Rejections
Handlers == Texts \cup Presses

ASSUME EditAssumption ==
    /\ OwnInitiative \subseteq Texts
    /\ Texts \cap Presses = {} /\ Approvals \cap Rejections = {}
    /\ Free \notin Handlers

VARIABLES
    lock,               \* who holds _session_lock(project_id)
    queue,              \* who waits for it
    hpc,                \* where a handler is
    copy,               \* the session it loaded
    epc,                \* where an edit_with_ai press is
    applied,            \* history: how often a change was delivered
    approved,           \* history: the changes an approve press loaded
    discarded           \* history: the changes the user was told are discarded

editVars == <<lock, queue, hpc, copy, epc, applied, approved, discarded>>
historyVars == <<applied, approved, discarded>>

EditTypeOK ==
    /\ lock \in Handlers \cup {Free}
    /\ queue \in Seq(Handlers)
    /\ hpc \in [Handlers -> {"idle", "waiting", "load", "brain", "fix", "persist",
                             "park", "reject", "prompt", "resume", "over"}]
    /\ copy \in [Handlers -> SessionRow]
    /\ epc \in [Entries -> {"idle", "load", "over"}]
    /\ applied \in [Texts -> Nat]
    /\ approved \in SUBSET Texts
    /\ discarded \in SUBSET Texts

EditInit ==
    /\ lock = Free
    /\ queue = <<>>
    /\ hpc = [h \in Handlers |-> "idle"]
    /\ copy = [h \in Handlers |-> NoSession]
    /\ epc = [e \in Entries |-> "idle"]
    /\ applied = [t \in Texts |-> 0]
    /\ approved = {}
    /\ discarded = {}

Goto(h, from, to) ==
    /\ hpc[h] = from
    /\ hpc' = [hpc EXCEPT ![h] = to]

-----------------------------------------------------------------------------
(***************************************************************************)
(* The lock                                                                *)
(***************************************************************************)

\* Take the lock when nobody holds it or waits for it, otherwise queue.
Acquire(h) ==
    IF lock = Free /\ queue = <<>>
    THEN /\ lock' = h
         /\ Goto(h, "idle", "load")
         /\ UNCHANGED queue
    ELSE /\ queue' = Append(queue, h)
         /\ Goto(h, "idle", "waiting")
         /\ UNCHANGED lock

\* The first waiter runs on.
WakeUp(h) ==
    /\ lock = Free /\ queue # <<>> /\ h = Head(queue)
    /\ lock' = h
    /\ queue' = Tail(queue)
    /\ Goto(h, "waiting", "load")
    /\ UNCHANGED <<sessionVars, chatVars, faults, copy, epc, historyVars>>

\* Out of the async-with, towards what the handler does with its result.
Leaves(h, from, to) ==
    /\ Goto(h, from, to)
    /\ lock' = Free
    /\ copy' = [copy EXCEPT ![h] = NoSession]
    /\ UNCHANGED <<queue, epc>>

-----------------------------------------------------------------------------
(***************************************************************************)
(* Updates arrive                                                          *)
(***************************************************************************)

\* Mutant: a message does not look at the lock.
TextArrives_NoLock(t) ==
    /\ fsm = "talking"
    /\ Goto(t, "idle", "load")
    /\ UNCHANGED <<sessionVars, chatVars, faults, lock, queue, copy, epc, historyVars>>

\* chat_turn: a message that finds the lock held is dropped with a notice.
TextArrives(t) ==
    /\ fsm = "talking"
    /\ IF ~linked \/ lock # Free
       THEN Goto(t, "idle", "over") /\ UNCHANGED <<lock, queue>>
       ELSE Acquire(t)
    /\ UNCHANGED <<sessionVars, chatVars, faults, copy, epc, historyVars>>

\* approve_redeliver, reject_redeliver.  Without a project there is no session.
PressArrives(h) ==
    /\ fsm = "awaiting"
    /\ IF linked
       THEN Acquire(h)
       ELSE Goto(h, "idle", "resume") /\ UNCHANGED <<lock, queue>>
    /\ UNCHANGED <<sessionVars, chatVars, faults, copy, epc, historyVars>>

EntryArrives(e) ==
    /\ fsm = "reviewing"
    /\ epc[e] = "idle"
    /\ epc' = [epc EXCEPT ![e] = "load"]
    /\ UNCHANGED <<sessionVars, chatVars, faults, lock, queue, hpc, copy, historyVars>>

\* edit_with_ai loads the session, without the lock, and opens the chat or
\* shows the parked change again.
EntryOpens(e) ==
    /\ epc[e] = "load"
    /\ epc' = [epc EXCEPT ![e] = "over"]
    /\ IF session.exists /\ linked
       THEN SetState(IF session.pending # NoChange THEN "awaiting" ELSE "talking")
       ELSE UNCHANGED chatVars
    /\ UNCHANGED <<sessionVars, faults, lock, queue, hpc, copy, historyVars>>

\* finish and cancel: out of the conversation.
LeaveChat ==
    /\ fsm \in {"reviewing", "talking"}
    /\ ClearState
    /\ UNCHANGED <<sessionVars, faults, editVars>>

-----------------------------------------------------------------------------
(***************************************************************************)
(* Under the lock                                                          *)
(***************************************************************************)

LoadNothing(h) ==
    /\ ~session.exists
    /\ Leaves(h, "load", IF h \in Texts THEN "over" ELSE "resume")
    /\ UNCHANGED <<sessionVars, chatVars, faults, historyVars>>

\* _run_chat_turn: no turn is run while a change is parked.
LoadForTurn(t) ==
    /\ session.exists
    /\ IF session.pending # NoChange
       THEN Leaves(t, "load", "prompt")
       ELSE /\ Goto(t, "load", "brain")
            /\ copy' = [copy EXCEPT ![t] = session]
            /\ UNCHANGED <<lock, queue, epc>>
    /\ UNCHANGED <<sessionVars, chatVars, faults, historyVars>>

\* The brain answers, or raises and apologizes: no change.
BrainReplies(t) ==
    /\ Goto(t, "brain", "persist")
    /\ UNCHANGED <<sessionVars, chatVars, faults, lock, queue, copy, epc, historyVars>>

\* Of a turn that calls edit_slides only its provenance decides.
RequiresApproval(t) == t \in OwnInitiative

\* The history ends in the call of t's change; and the change is parked.
Called(row, t) == [row EXCEPT !.open = t]
CalledAndParked(row, t) == [row EXCEPT !.open = t, !.pending = t]

\* It calls edit_slides: parked behind the buttons, or applied at once when the
\* user asked for it.
BrainProposes(t) ==
    /\ IF RequiresApproval(t)
       THEN /\ Goto(t, "brain", "park")
            /\ copy' = [copy EXCEPT ![t] = CalledAndParked(@, t)]
       ELSE /\ Goto(t, "brain", "fix")
            /\ copy' = [copy EXCEPT ![t] = Called(@, t)]
    /\ UNCHANGED <<sessionVars, chatVars, faults, lock, queue, epc, historyVars>>

\* _apply_pending: the parked change goes to the same dispatch; none, no session.
LoadForApproval(h) ==
    /\ session.exists
    /\ IF session.pending = NoChange
       THEN /\ Leaves(h, "load", "resume")
            /\ UNCHANGED approved
       ELSE /\ Goto(h, "load", "fix")
            /\ copy' = [copy EXCEPT ![h] = session]
            /\ approved' = approved \cup {session.pending}
            /\ UNCHANGED <<lock, queue, epc>>
    /\ UNCHANGED <<sessionVars, chatVars, faults, applied, discarded>>

Settled(row) == [row EXCEPT !.pending = NoChange, !.open = NoChange]

LoadForRejection(h) ==
    /\ session.exists
    /\ Goto(h, "load", "reject")
    /\ copy' = [copy EXCEPT ![h] = session]
    /\ UNCHANGED <<sessionVars, chatVars, faults, lock, queue, epc, historyVars>>

\* _dispatch_fix on the change of a turn, or the one an approval loaded.
Change(h) == IF h \in Texts THEN h ELSE copy[h].pending

\* Mutant: an edit that was not delivered is given back.
FixNotDelivered_GivesBack(h) ==
    /\ Goto(h, "fix", "persist")
    /\ copy' = [copy EXCEPT ![h] = [Settled(@) EXCEPT !.used = @ - 1]]
    /\ UNCHANGED <<sessionVars, chatVars, faults, lock, queue, epc, historyVars>>

\* The allowance is spent, the fix chain raises, or no format renders: the
\* call is answered and nothing is counted.
FixNotDelivered(h) ==
    /\ Goto(h, "fix", "persist")
    /\ copy' = [copy EXCEPT ![h] = Settled(@)]
    /\ UNCHANGED <<sessionVars, chatVars, faults, lock, queue, epc, historyVars>>

\* increment_fix_count
Counted(row) == [row EXCEPT !.used = @ + 1]

\* At least one file was rendered and the downloads serve it; the count is
\* only in the copy yet.
FixDelivered(h) ==
    /\ HasFixesRemaining(copy[h])
    /\ Goto(h, "fix", "persist")
    /\ copy' = [copy EXCEPT ![h] = Counted(Settled(@))]
    /\ applied' = [applied EXCEPT ![Change(h)] = @ + 1]
    /\ delivered' = delivered + 1
    /\ UNCHANGED <<session, deckSaved, chatVars, faults, lock, queue, epc, approved, discarded>>

Persist(h) ==
    /\ PersistSession(copy[h])
    /\ Leaves(h, "persist", IF h \in Texts THEN "over" ELSE "resume")
    /\ UNCHANGED <<chatVars, faults, historyVars>>

Park(t) ==
    /\ PersistSession(copy[t])
    /\ Leaves(t, "park", "prompt")
    /\ UNCHANGED <<chatVars, faults, historyVars>>

\* Mutant: the parked change survives its rejection.
Reject_KeepsPending(h) ==
    /\ PersistSession([copy[h] EXCEPT !.open = NoChange])
    /\ Leaves(h, "reject", "resume")
    /\ discarded' = (discarded \cup {copy[h].pending}) \ {NoChange}
    /\ UNCHANGED <<chatVars, faults, applied, approved>>

\* _reject_pending: the call is answered, the gate cleared, the user told.
Reject(h) ==
    /\ PersistSession(Settled(copy[h]))
    /\ Leaves(h, "reject", "resume")
    /\ discarded' = (discarded \cup {copy[h].pending}) \ {NoChange}
    /\ UNCHANGED <<chatVars, faults, applied, approved>>

-----------------------------------------------------------------------------
(***************************************************************************)
(* After the lock                                                          *)
(***************************************************************************)

\* The answer is sent; a parked change moves the conversation to its buttons.
Prompts(t) ==
    /\ Goto(t, "prompt", "over")
    /\ SetState("awaiting")
    /\ UNCHANGED <<sessionVars, faults, lock, queue, copy, epc, historyVars>>

Resumes(h) ==
    /\ Goto(h, "resume", "over")
    /\ SetState("talking")
    /\ UNCHANGED <<sessionVars, faults, lock, queue, copy, epc, historyVars>>

\* Mutant: the lock is not released by an exception.
HandlerRaises_KeepsLock(h) ==
    /\ hpc[h] \in {"load", "persist", "park", "reject", "prompt", "resume"}
    /\ Goto(h, hpc[h], "over")
    /\ Fault
    /\ UNCHANGED <<sessionVars, chatVars, lock, queue, copy, epc, historyVars>>

\* A database call or a Telegram call raises out of the handler.
HandlerRaises(h) ==
    /\ \/ /\ hpc[h] \in {"load", "persist", "park", "reject"}
          /\ Leaves(h, hpc[h], "over")
       \/ /\ hpc[h] \in {"prompt", "resume"}
          /\ Goto(h, hpc[h], "over")
          /\ UNCHANGED <<lock, queue, copy, epc>>
    /\ Fault
    /\ UNCHANGED <<sessionVars, chatVars, historyVars>>

\* Everything the process had in memory is gone.
EditStops ==
    /\ lock' = Free
    /\ queue' = <<>>
    /\ hpc' = [h \in Handlers |-> IF hpc[h] = "idle" THEN "idle" ELSE "over"]
    /\ copy' = [h \in Handlers |-> NoSession]
    /\ epc' = [e \in Entries |-> IF epc[e] = "idle" THEN "idle" ELSE "over"]
    /\ UNCHANGED historyVars

-----------------------------------------------------------------------------
TextStep(t) ==
    \/ LoadForTurn(t) \/ BrainReplies(t) \/ BrainProposes(t)
    \/ Park(t) \/ Prompts(t)

\* What a handler does of its own accord once its update arrived.
HandlerStep(h) ==
    \/ WakeUp(h) \/ LoadNothing(h)
    \/ h \in Texts /\ TextStep(h)
    \/ h \in Approvals /\ LoadForApproval(h)
    \/ h \in Rejections /\ LoadForRejection(h)
    \/ FixNotDelivered(h) \/ FixDelivered(h) \/ Persist(h) \/ Reject(h)
    \/ h \in Presses /\ Resumes(h)

EditStep ==
    \/ \E t \in Texts : TextArrives(t)
    \/ \E h \in Presses : PressArrives(h)
    \/ \E e \in Entries : EntryArrives(e) \/ EntryOpens(e)
    \/ \E h \in Handlers : HandlerStep(h) \/ HandlerRaises(h)
    \/ LeaveChat
=============================================================================
