--------------------------- MODULE IdentityDoors ---------------------------
(***************************************************************************)
(* The handlers that turn the proof of a door into a users row:            *)
(* packages/api/services/identity.py behind packages/api/routes/auth.py,   *)
(* and the bot's registration (handlers/common.py, registration.py).  One  *)
(* action per database call of a handler; a handler that raises answers    *)
(* with an error and leaves what it wrote.                                 *)
(***************************************************************************)
EXTENDS AccountTables, Faults

CONSTANTS
    Requests,           \* records: kind, door, auth (the proven auth user)
    Mixes,              \* which requests and calls arrive in one behaviour
    Overlap             \* may calls about one door or project overlap?

Kinds == {"telegram", "email", "link", "register"}

ASSUME DoorsAssumption ==
    /\ Rows = Requests
    /\ Overlap \in BOOLEAN
    /\ \A r \in Requests :
        /\ r.kind \in Kinds
        /\ r.door \in IF r.kind = "email" THEN Emails ELSE Telegrams
        /\ r.kind = "email" => r.auth \in AuthUsers

VARIABLES
    pc,                 \* where each request stands
    current,            \* link: the session's user
    found,              \* the users row the handler goes on with
    answer              \* the row the minted session names

doorVars == <<pc, current, found, answer>>

Steps == {"absent", "idle", "user", "create", "relook", "upsert", "bind", "identity",
          "merge", "attach", "telegram", "naming", "answered", "refused", "raised"}
Over == {"absent", "answered", "refused", "raised"}

DoorsTypeOK ==
    /\ pc \in [Requests -> Steps]
    /\ current \in [Requests -> RowOrNone]
    /\ found \in [Requests -> RowOrNone]
    /\ answer \in [Requests -> RowOrNone]
    /\ \A r \in Requests :         \* mint_session takes a user id
        pc[r] = "answered" /\ r.kind # "register" => answer[r] # None

DoorsInit(mix) ==
    /\ pc = [r \in Requests |-> IF r \in mix THEN "idle" ELSE "absent"]
    /\ current = [r \in Requests |-> None]
    /\ found = [r \in Requests |-> None]
    /\ answer = [r \in Requests |-> None]

Running(r) == pc[r] \notin Over \cup {"idle"}

\* Without Overlap a link runs beside no other link and no handler about its
\* Telegram account, and logins with one address run one after another.  Logins
\* through Telegram and a registration may always run side by side: that race
\* the code guards against.
Collide(q, r) ==
    \/ q.door = r.door /\ ("link" \in {q.kind, r.kind} \/ q.kind = "email")
    \/ {q.kind, r.kind} = {"link"}

MayArrive(r) == Overlap \/ \A q \in Requests \ {r} : Running(q) => ~Collide(q, r)

\* The users rows that sessions name.
Sessions == {answer[r] : r \in Requests} \ {None}

Goto(r, s) ==
    /\ pc' = [pc EXCEPT ![r] = s]
    /\ UNCHANGED <<current, found, answer>>

GoWith(r, s, u) ==
    /\ pc' = [pc EXCEPT ![r] = s]
    /\ found' = [found EXCEPT ![r] = u]
    /\ UNCHANGED <<current, answer>>

Answer(r, u) ==
    /\ pc' = [pc EXCEPT ![r] = "answered"]
    /\ answer' = [answer EXCEPT ![r] = u]
    /\ UNCHANGED <<current, found>>

At(r, kind, s) == r.kind = kind /\ pc[r] = s

DoorStep == UNCHANGED <<workTables, faults>>    \* of a handler that does not merge

\* A database call of the handler fails before it does anything.
HandlerRaises(r) ==
    /\ Running(r)
    /\ pc[r] # "naming"
    /\ Fault
    /\ IF At(r, "telegram", "create") THEN Goto(r, "relook") ELSE Goto(r, "raised")
    /\ UNCHANGED tableVars

-----------------------------------------------------------------------------
(* The Telegram door: resolve_telegram.                                    *)

TelegramLooksIdentity(r) ==
    /\ At(r, "telegram", "idle")
    /\ MayArrive(r)
    /\ IF identity[r.door] # None THEN Answer(r, identity[r.door]) ELSE Goto(r, "user")
    /\ UNCHANGED doorTables
    /\ DoorStep

TelegramLooksUser(r) ==
    /\ At(r, "telegram", "user")
    /\ IF HasTelegram(r.door) THEN GoWith(r, "upsert", UserByTelegram(r.door))
                              ELSE Goto(r, "create")
    /\ UNCHANGED doorTables
    /\ DoorStep

\* Mutant: the row that beat this one is not looked for.
TelegramCreates_NoRelook(r) ==
    /\ At(r, "telegram", "create")
    /\ users' = users \cup {r}
    /\ telegramOf' = [telegramOf EXCEPT ![r] = IF HasTelegram(r.door) THEN None ELSE r.door]
    /\ GoWith(r, "upsert", r)
    /\ UNCHANGED <<identity, authOf>>
    /\ DoorStep

TelegramCreates(r) ==
    /\ At(r, "telegram", "create")
    /\ \/ InsertUser(r, r.door) /\ GoWith(r, "upsert", r)
       \/ HasTelegram(r.door) /\ Goto(r, "relook") /\ UNCHANGED doorTables
    /\ DoorStep

\* Mutant: the second look is taken to succeed.
TelegramLooksAgain_Unchecked(r) ==
    /\ At(r, "telegram", "relook")
    /\ Answer(r, UserByTelegram(r.door))
    /\ UNCHANGED doorTables
    /\ DoorStep

TelegramLooksAgain(r) ==
    /\ At(r, "telegram", "relook")
    /\ IF HasTelegram(r.door) THEN GoWith(r, "upsert", UserByTelegram(r.door))
                              ELSE Goto(r, "raised")
    /\ UNCHANGED doorTables
    /\ DoorStep

TelegramUpserts(r) ==
    /\ At(r, "telegram", "upsert")
    /\ \/ UpsertIdentity(r.door, found[r], None) /\ Answer(r, found[r])
       \/ ~CanUpsert(r.door, found[r], None) /\ Goto(r, "raised") /\ UNCHANGED doorTables
    /\ DoorStep

-----------------------------------------------------------------------------
(* The e-mail door: resolve_email_exchange.                                *)

EmailLooksIdentity(r) ==
    /\ At(r, "email", "idle")
    /\ MayArrive(r)
    /\ LET u == identity[r.door]
           a == authOf[r.door]
       IN  \/ u = None /\ Goto(r, "create")
           \/ u # None /\ a = None /\ GoWith(r, "bind", u)
           \/ u # None /\ a = r.auth /\ Answer(r, u)
           \/ u # None /\ a \notin {None, r.auth} /\ Goto(r, "refused")
    /\ UNCHANGED doorTables
    /\ DoorStep

\* The address has an identity whose auth user is not recorded, or no identity.
EmailUpserts(r) ==
    /\ r.kind = "email" /\ pc[r] \in {"bind", "upsert"}
    /\ \/ UpsertIdentity(r.door, found[r], r.auth) /\ Answer(r, found[r])
       \/ ~CanUpsert(r.door, found[r], r.auth) /\ Goto(r, "raised") /\ UNCHANGED doorTables
    /\ DoorStep

EmailCreates(r) ==
    /\ At(r, "email", "create")
    /\ InsertUser(r, None)
    /\ GoWith(r, "upsert", r)
    /\ DoorStep

\* The provider deletes an auth user: auth_user_id on delete set null.
AuthUserDeleted(e) ==
    /\ authOf[e] # None
    /\ Fault
    /\ authOf' = [authOf EXCEPT ![e] = None]
    /\ UNCHANGED <<users, telegramOf, identity, workTables, doorVars>>

-----------------------------------------------------------------------------
(* Linking a Telegram account to a session: link_telegram.                 *)

\* The session's user must not have another Telegram account; a user that is
\* gone passes.
LinkChecksCurrent(r) ==
    /\ At(r, "link", "idle")
    /\ MayArrive(r)
    /\ \E u \in Sessions :
        LET t == IF u \in users THEN telegramOf[u] ELSE None
        IN  IF t \notin {None, r.door}
            THEN Goto(r, "refused")
            ELSE /\ pc' = [pc EXCEPT ![r] = "identity"]
                 /\ current' = [current EXCEPT ![r] = u]
                 /\ UNCHANGED <<found, answer>>
    /\ UNCHANGED doorTables
    /\ DoorStep

\* What the account resolves to decides between merging and attaching.
LinkGoesOn(r, u) == GoWith(r, IF u \in {None, current[r]} THEN "attach" ELSE "merge", u)

LinkLooksIdentity(r) ==
    /\ At(r, "link", "identity")
    /\ IF identity[r.door] = None THEN Goto(r, "user") ELSE LinkGoesOn(r, identity[r.door])
    /\ UNCHANGED doorTables
    /\ DoorStep

LinkLooksUser(r) ==
    /\ At(r, "link", "user")
    /\ LinkGoesOn(r, UserByTelegram(r.door))
    /\ UNCHANGED doorTables
    /\ DoorStep

\* merge_users raises unless both rows are there.
LinkMerges(r) ==
    /\ At(r, "link", "merge")
    /\ \/ MergeUsers(current[r], found[r]) /\ Goto(r, "attach")
       \/ /\ ~({current[r], found[r]} \subseteq users)
          /\ Goto(r, "raised")
          /\ UNCHANGED tableVars
    /\ UNCHANGED faults

LinkUpserts(r) ==
    /\ At(r, "link", "attach")
    /\ \/ UpsertIdentity(r.door, current[r], None) /\ Goto(r, "telegram")
       \/ /\ ~CanUpsert(r.door, current[r], None)
          /\ Goto(r, "raised")
          /\ UNCHANGED doorTables
    /\ DoorStep

LinkSetsTelegram(r) ==
    /\ At(r, "link", "telegram")
    /\ \/ SetTelegramIfNull(current[r], r.door) /\ Answer(r, current[r])
       \/ ~CanSetTelegram(current[r], r.door) /\ Goto(r, "raised") /\ UNCHANGED doorTables
    /\ DoorStep

-----------------------------------------------------------------------------
(* The bot: /start, and the name that ends the registration.               *)

BotStarts(r) ==
    /\ At(r, "register", "idle")
    /\ MayArrive(r)
    /\ IF HasTelegram(r.door) THEN Goto(r, "refused") ELSE Goto(r, "naming")
    /\ UNCHANGED doorTables
    /\ DoorStep

BotRegisters(r) ==
    /\ At(r, "register", "naming")
    /\ \/ InsertUser(r, r.door) /\ Goto(r, "answered")
       \/ HasTelegram(r.door) /\ Goto(r, "raised") /\ UNCHANGED doorTables
    /\ DoorStep

-----------------------------------------------------------------------------

DoorsNext ==
    \/ \E r \in Requests :
        \/ TelegramLooksIdentity(r) \/ TelegramLooksUser(r) \/ TelegramCreates(r)
        \/ TelegramLooksAgain(r) \/ TelegramUpserts(r)
        \/ EmailLooksIdentity(r) \/ EmailCreates(r) \/ EmailUpserts(r)
        \/ LinkChecksCurrent(r) \/ LinkLooksIdentity(r) \/ LinkLooksUser(r)
        \/ LinkMerges(r) \/ LinkUpserts(r) \/ LinkSetsTelegram(r)
        \/ BotStarts(r) \/ BotRegisters(r)
        \/ HandlerRaises(r)
    \/ \E e \in Emails : AuthUserDeleted(e)
=============================================================================
