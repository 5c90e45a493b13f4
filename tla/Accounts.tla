------------------------------ MODULE Accounts ------------------------------
(***************************************************************************)
(* Accounts and what hangs off them: the doors resolve proofs to users     *)
(* rows and fold two rows into one while sessions that name those rows     *)
(* create, share and pay for projects.                                     *)
(***************************************************************************)
EXTENDS ProjectRoutes

vars == <<tableVars, faults, doorVars, routeVars, limitVars>>

Init ==
    /\ TablesInit
    /\ FaultsInit
    /\ LimitsInit
    /\ \E mix \in Mixes : DoorsInit(mix) /\ RoutesInit(mix)

Next ==
    \/ DoorsNext /\ UNCHANGED <<routeVars, limitVars>>
    \/ RoutesNext

Spec == Init /\ [][Next]_vars

-----------------------------------------------------------------------------

\* Types of every variable.
TypeOK ==
    /\ TablesTypeOK
    /\ FaultsTypeOK
    /\ DoorsTypeOK
    /\ RoutesTypeOK
    /\ LimitsTypeOK

\* The row a person reaches through a door: the identity row decides, and
\* without one a Telegram account is looked up in users (resolve_telegram).
ResolvesTo(d, u) ==
    \/ identity[d] = u
    \/ d \in Telegrams /\ identity[d] = None /\ u \in users /\ telegramOf[u] = d

\* Every session that was answered and whose row was not merged away names the
\* row its door resolves to, so that two logins with one proof end in one
\* account (resolve_telegram re-resolves after a lost insert;
\* resolve_email_exchange means "both callers converge on one identity").
LoginsConverge ==
    \A r \in Requests :
        answer[r] # None /\ answer[r] \in users => ResolvesTo(r.door, answer[r])

\* Is a handler at work that may write rows of the Telegram account?
TelegramBusy(t) == \E r \in Requests : r.door = t /\ Running(r)

\* While no call failed half way, the web and the bot take a Telegram account
\* for the same user: whenever no handler about it is at work, its identity and
\* the users row that holds its telegram_id agree (the "bot-split guard" of
\* link_telegram and the carry-over in merge_users).
BotAndWebAgree ==
    faults = 0 =>
        \A t \in Telegrams :
            ~TelegramBusy(t) /\ identity[t] # None => UserByTelegram(t) = identity[t]

\* Whichever door a person comes through, it leads to one account.
OneAccountPerPerson == LoginsConverge /\ BotAndWebAgree

\* No project is stranded: whatever logins, links and merges did, the project a
\* caller was told it created belongs to a users row that exists and that some
\* door still resolves to (merge_users repoints projects and identities).  And no
\* charge is: one that was neither earned nor returned has an active job, or its
\* order is about to insert one, since otherwise the user paid and nobody will ever
\* deliver or refund (routes/jobs.py and worker_run_job.py refund through the row).
\* What the text of merge_users denies is taken out: a merge that deletes the row
\* of an active job, or the user a paid order is about to name, strands its charge.
NothingStranded ==
    /\ \A c \in Calls :
        c.kind = "create" /\ cpc[c] = "answered" =>
            /\ owner[c.project] \in users
            /\ \E d \in Doors : ResolvesTo(d, owner[c.project])
    /\ \A p \in Projects \ severed :
        charge[p] = "held" =>
            \/ job[p] \in ActiveStatus
            \/ \E c \in Calls : c.project = p /\ IsAt(c, "enqueue", "insert")

\* The upload calls a user, or the address, gets past the caps in one day never
\* exceed the limit, although the two counters are bumped by two calls that may
\* fall on two days and many requests are in flight (RateLimiter.check).
Admitted(c) == c.kind = "presign" /\ (cpc[c] = "owned" \/ keyUser[c] # None)

AdmittedWithinLimit ==
    \A d \in Days :
        /\ \A u \in UserKeys :
            Cardinality({c \in Calls : Admitted(c) /\ caller[c] = u /\ counted[c][1] = d})
                <= UserLimit
        /\ Cardinality({c \in Calls : Admitted(c) /\ counted[c][2] = d}) <= AddressLimit

\* A circulating share link dies only by rotating or disabling it: "enable on an
\* already-shared project keeps the current token so a double-click does not
\* silently kill circulating links" (manage_share).  One double-click does: of two
\* first enables that both read a project without a link, the second to write
\* replaces the link of the first.
OnlyRotationRevokes ==
    [][\A p \in Projects :
        token[p] # None /\ token'[p] # token[p] =>
            \E c \in Calls :
                /\ c.project = p /\ cpc[c] = "write" /\ cpc'[c] = "answered"
                /\ \/ c.kind \in {"rotate", "disable"}
                   \/ c.kind = "enable" /\ saw[c] = None /\ token[p].kind = "enable"]_vars
=============================================================================
