--------------------------- MODULE AccountTables ---------------------------
(***************************************************************************)
(* The rows the doors of the platform share (migrations 001, 005 and 006): *)
(* users and their telegram_id, user_auth_identities, the owner of every   *)
(* project, and what a project's generation job and its charge look like   *)
(* to a merge.  One operator per SQL statement or function; a statement    *)
(* that violates a constraint raises, and its guard says when it does not. *)
(* A users row is named by the request that inserts it.                    *)
(***************************************************************************)
EXTENDS FiniteSets

CONSTANTS
    Rows,               \* the users rows that may ever be inserted
    Emails, Telegrams,  \* external ids of the two doors
    AuthUsers,          \* auth.users rows of the e-mail provider
    Projects,
    None

ASSUME TablesAssumption ==
    /\ Emails \cap Telegrams = {}
    /\ None \notin Rows \cup Emails \cup Telegrams \cup AuthUsers

VARIABLES
    users,              \* the rows that exist
    telegramOf,         \* users.telegram_id, UNIQUE
    identity,           \* user_auth_identities.user_id by external id
    authOf,             \* user_auth_identities.auth_user_id of an e-mail
    owner,              \* projects.user_id, None before the project exists
    job, jobUser,       \* a project's generation_jobs row and its user_id
    charge,             \* the project's charge in the credit ledger
    severed             \* history: the projects whose order a merge cut off

tableVars == <<users, telegramOf, identity, authOf, owner, job, jobUser, charge, severed>>
doorTables == <<users, telegramOf, identity, authOf>>
workTables == <<owner, job, jobUser, charge, severed>>

Doors == Emails \cup Telegrams
RowOrNone == Rows \cup {None}
JobStatus == {"none", "queued", "processing", "completed", "failed"}
ActiveStatus == {"queued", "processing"}

TablesTypeOK ==
    /\ users \subseteq Rows
    /\ telegramOf \in [Rows -> Telegrams \cup {None}]
    /\ identity \in [Doors -> RowOrNone]
    /\ authOf \in [Emails -> AuthUsers \cup {None}]
    /\ owner \in [Projects -> RowOrNone]
    /\ job \in [Projects -> JobStatus]
    /\ jobUser \in [Projects -> RowOrNone]
    /\ charge \in [Projects -> {"none", "held", "earned", "returned"}]
    /\ severed \subseteq Projects

TablesInit ==
    /\ users = {}
    /\ telegramOf = [u \in Rows |-> None]
    /\ identity = [d \in Doors |-> None]
    /\ authOf = [e \in Emails |-> None]
    /\ owner = [p \in Projects |-> None]
    /\ job = [p \in Projects |-> "none"]
    /\ jobUser = [p \in Projects |-> None]
    /\ charge = [p \in Projects |-> "none"]
    /\ severed = {}

-----------------------------------------------------------------------------

HasTelegram(t) == \E u \in users : telegramOf[u] = t

\* get_user_by_telegram_id
UserByTelegram(t) ==
    IF HasTelegram(t) THEN CHOOSE u \in users : telegramOf[u] = t ELSE None

\* create_user, create_email_first_user (t = None): a second row with the
\* telegram_id raises.
InsertUser(u, t) ==
    /\ t = None \/ ~HasTelegram(t)
    /\ users' = users \cup {u}
    /\ telegramOf' = [telegramOf EXCEPT ![u] = t]
    /\ UNCHANGED <<identity, authOf>>

\* upsert_identity: the row that is there is overwritten; raises when the user
\* is gone or the auth user anchors another address.
CanUpsert(d, u, a) ==
    /\ u \in users
    /\ a = None \/ \A e \in Emails \ {d} : authOf[e] # a

UpsertIdentity(d, u, a) ==
    /\ CanUpsert(d, u, a)
    /\ identity' = [identity EXCEPT ![d] = u]
    /\ authOf' = IF a = None THEN authOf ELSE [authOf EXCEPT ![d] = a]
    /\ UNCHANGED <<users, telegramOf>>

\* set_user_telegram_id_if_null: raises when another row has the id.
CanSetTelegram(u, t) ==
    u \in users /\ telegramOf[u] = None => ~HasTelegram(t)

SetTelegramIfNull(u, t) ==
    /\ CanSetTelegram(u, t)
    /\ telegramOf' = IF u \in users /\ telegramOf[u] = None
                     THEN [telegramOf EXCEPT ![u] = t] ELSE telegramOf
    /\ UNCHANGED <<users, identity, authOf>>

\* Mutant: the merge deletes the orphan without repointing anything.
Moved_Stays(u, canonical, orphan) == u

\* What a row that refers to the orphan refers to after the merge.
Moved(u, canonical, orphan) == IF u = orphan THEN canonical ELSE u

\* The orphan's jobs go with its row: generation_jobs.user_id cascades and is
\* not repointed.
DeletedWithUser(u) == {p \in Projects : jobUser[p] = u}

MergeUsers(canonical, orphan) ==
    /\ canonical # orphan
    /\ {canonical, orphan} \subseteq users
    /\ users' = users \ {orphan}
    /\ telegramOf' = [telegramOf EXCEPT
            ![orphan] = None,
            ![canonical] = IF @ = None THEN telegramOf[orphan] ELSE @]
    /\ identity' = [d \in Doors |-> Moved(identity[d], canonical, orphan)]
    /\ owner' = [p \in Projects |-> Moved(owner[p], canonical, orphan)]
    /\ job' = [p \in Projects |-> IF p \in DeletedWithUser(orphan) THEN "none" ELSE job[p]]
    /\ jobUser' = [p \in Projects |-> IF p \in DeletedWithUser(orphan) THEN None ELSE jobUser[p]]
    /\ severed' = severed \cup {p \in DeletedWithUser(orphan) : job[p] \in ActiveStatus}
    /\ UNCHANGED <<authOf, charge>>
=============================================================================
