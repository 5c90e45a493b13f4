--------------------------- MODULE BrainSessions ---------------------------
(***************************************************************************)
(* The brain_sessions row of one project (migration 004,                   *)
(* packages/bot/sessions/store.py) and whether its decks row exists.       *)
(*                                                                         *)
(* Every write is an upsert of the whole row from somebody's copy of it.   *)
(* A change is named by the chat turn that proposed it.  Of the history    *)
(* only one thing matters: whether it ends in an edit_slides call nobody   *)
(* answered, which the model API refuses.  At the end: the conversation in *)
(* Telegram from which the row is used.                                    *)
(***************************************************************************)
EXTENDS Naturals

CONSTANTS
    Texts,              \* chat turns, and the changes they propose
    FixLimit,           \* session_fix_limit of the package
    NoChange

ASSUME SessionsAssumption ==
    /\ FixLimit \in Nat \ {0}
    /\ NoChange \notin Texts

VARIABLES
    session,            \* the row
    deckSaved,          \* is there a deck in the decks table?
    delivered           \* history: the edits delivered since the row was created

sessionVars == <<session, deckSaved, delivered>>

ChangeOrNone == Texts \cup {NoChange}

SessionRow ==
    [exists  : BOOLEAN,
     used    : Nat,             \* fixes_used
     pending : ChangeOrNone,    \* pending_action_json
     open    : ChangeOrNone]    \* the change whose call the history leaves unanswered

NoSession == [exists |-> FALSE, used |-> 0, pending |-> NoChange, open |-> NoChange]

NewSession == [NoSession EXCEPT !.exists = TRUE]

SessionsTypeOK ==
    /\ session \in SessionRow
    /\ deckSaved \in BOOLEAN
    /\ delivered \in Nat

SessionsInit ==
    /\ session = NoSession
    /\ deckSaved = FALSE
    /\ delivered = 0

-----------------------------------------------------------------------------

\* has_fixes_remaining
HasFixesRemaining(row) == row.used < FixLimit

SaveDeck ==
    /\ deckSaved' = TRUE
    /\ UNCHANGED <<session, delivered>>

\* create_session: refuses when no deck was persisted, and replaces the row
\* that is there.
CreateSession ==
    /\ deckSaved
    /\ session' = NewSession
    /\ delivered' = 0
    /\ UNCHANGED deckSaved

\* persist_session: the row becomes the copy.
PersistSession(copy) ==
    /\ session' = copy
    /\ UNCHANGED <<deckSaved, delivered>>

(***************************************************************************)
(* The Telegram conversation about one project: the FSM state and data     *)
(* aiogram keeps in memory (app.py: MemoryStorage), of PresentationStates  *)
(* what the editing loop and a generation look at.  Updates of one chat    *)
(* are handled concurrently: a filter reads the state when the update      *)
(* arrives, and the handler may write it much later.                       *)
(***************************************************************************)
VARIABLES
    fsm,                \* the FSM state
    linked              \* do the FSM data still hold the project?

chatVars == <<fsm, linked>>

ChatTypeOK ==
    /\ fsm \in {"none", "confirming", "generating", "reviewing", "talking", "awaiting"}
    /\ linked \in BOOLEAN

ChatInit ==
    /\ fsm = "confirming"
    /\ linked = TRUE

SetState(s) ==
    /\ fsm' = s
    /\ UNCHANGED linked

\* state.clear()
ClearState ==
    /\ fsm' = "none"
    /\ linked' = FALSE
=============================================================================
