-------------------------- MODULE Accounts_proofs --------------------------
(***************************************************************************)
(* Proofs about Accounts, for every number of doors, logins, links,        *)
(* registrations and calls, any limits and any number of failures: types,  *)
(* the caps on uploads, the share link, one account per person, nothing    *)
(* stranded.                                                               *)
(***************************************************************************)
EXTENDS WebSite, FiniteSetTheorems, TLAPS

(***************************************************************************)
(* Types.  A link knows the row of its session from its first check on.    *)
(***************************************************************************)
LinkAtWork == {"identity", "user", "merge", "attach", "telegram"}

CurrentInv ==
    \A r \in Requests : r.kind = "link" /\ pc[r] \in LinkAtWork => current[r] # None

TypeInv == TypeOK /\ CurrentInv

DoorTypes == TablesTypeOK /\ DoorsTypeOK /\ CurrentInv

LEMMA RequestTypes ==
    ASSUME NEW r \in Requests
    PROVE  /\ r \in Rows /\ r # None /\ r \in RowOrNone
           /\ r.kind \in Kinds
           /\ r.kind = "email" => r.door \in Emails /\ r.auth \in AuthUsers
           /\ r.kind # "email" => r.door \in Telegrams
           /\ r.door \in Doors /\ r.door # None
BY TablesAssumption, DoorsAssumption DEF Doors, RowOrNone

LEMMA HolderType ==
    ASSUME TablesTypeOK, NEW t
    PROVE  /\ HasTelegram(t) => UserByTelegram(t) \in users /\ telegramOf[UserByTelegram(t)] = t
           /\ ~HasTelegram(t) => UserByTelegram(t) = None
           /\ UserByTelegram(t) \in RowOrNone
BY DEF HasTelegram, UserByTelegram, TablesTypeOK, RowOrNone

\* The statements.
LEMMA InsertUserType ==
    ASSUME TablesTypeOK, NEW u \in Rows, NEW t \in Telegrams \cup {None},
           InsertUser(u, t), UNCHANGED workTables
    PROVE  TablesTypeOK'
BY DEF TablesTypeOK, InsertUser, workTables

LEMMA UpsertIdentityType ==
    ASSUME TablesTypeOK, NEW d \in Doors, NEW u, NEW a \in AuthUsers \cup {None},
           UpsertIdentity(d, u, a), UNCHANGED workTables
    PROVE  TablesTypeOK' /\ u \in users
<1>1. u \in RowOrNone /\ u \in users
  BY DEF UpsertIdentity, CanUpsert, TablesTypeOK, RowOrNone
<1>2. identity' \in [Doors -> RowOrNone]
  BY <1>1 DEF UpsertIdentity, TablesTypeOK
<1>3. authOf' \in [Emails -> AuthUsers \cup {None}]
  BY DEF UpsertIdentity, TablesTypeOK
<1>. QED
  BY <1>1, <1>2, <1>3 DEF UpsertIdentity, TablesTypeOK, workTables

LEMMA SetTelegramType ==
    ASSUME TablesTypeOK, NEW u, NEW t \in Telegrams, SetTelegramIfNull(u, t), UNCHANGED workTables
    PROVE  TablesTypeOK'
BY DEF TablesTypeOK, SetTelegramIfNull, workTables

LEMMA MergeUsersType ==
    ASSUME TablesTypeOK, NEW u, NEW v, MergeUsers(u, v)
    PROVE  TablesTypeOK'
<1>1. u \in Rows /\ v \in Rows /\ u # v
  BY DEF MergeUsers, TablesTypeOK
<1>2. telegramOf' \in [Rows -> Telegrams \cup {None}]
  <2>1. telegramOf[v] \in Telegrams \cup {None} /\ telegramOf[u] \in Telegrams \cup {None}
    BY <1>1 DEF TablesTypeOK
  <2>. QED
    BY <1>1, <2>1 DEF MergeUsers, TablesTypeOK
<1>3. identity' \in [Doors -> RowOrNone] /\ owner' \in [Projects -> RowOrNone]
  BY <1>1 DEF MergeUsers, TablesTypeOK, Moved, RowOrNone
<1>4. job' \in [Projects -> JobStatus] /\ jobUser' \in [Projects -> RowOrNone]
  BY DEF MergeUsers, TablesTypeOK, JobStatus, RowOrNone
<1>5. severed' \subseteq Projects
  BY DEF MergeUsers, TablesTypeOK, DeletedWithUser
<1>. QED
  BY <1>2, <1>3, <1>4, <1>5 DEF MergeUsers, TablesTypeOK

\* The handlers.
LEMMA GotoType ==
    ASSUME DoorsTypeOK, CurrentInv, NEW r \in Requests, NEW s \in Steps, Goto(r, s),
           s = "answered" => r.kind = "register",
           r.kind = "link" /\ s \in LinkAtWork => pc[r] \in LinkAtWork
    PROVE  DoorsTypeOK' /\ CurrentInv'
<1>1. \A q \in Requests : pc'[q] = IF q = r THEN s ELSE pc[q]
  BY DEF Goto, DoorsTypeOK
<1>2. pc' \in [Requests -> Steps] /\ UNCHANGED <<current, found, answer>>
  BY DEF Goto, DoorsTypeOK
<1>. QED
  BY <1>1, <1>2 DEF DoorsTypeOK, CurrentInv

LEMMA GoWithType ==
    ASSUME DoorsTypeOK, CurrentInv, NEW r \in Requests, NEW s \in Steps, NEW u \in RowOrNone,
           GoWith(r, s, u), s # "answered",
           r.kind = "link" /\ s \in LinkAtWork => pc[r] \in LinkAtWork
    PROVE  DoorsTypeOK' /\ CurrentInv'
<1>1. \A q \in Requests : pc'[q] = IF q = r THEN s ELSE pc[q]
  BY DEF GoWith, DoorsTypeOK
<1>2. pc' \in [Requests -> Steps] /\ found' \in [Requests -> RowOrNone] /\ UNCHANGED <<current, answer>>
  BY DEF GoWith, DoorsTypeOK
<1>. QED
  BY <1>1, <1>2 DEF DoorsTypeOK, CurrentInv

LEMMA AnswerType ==
    ASSUME DoorsTypeOK, CurrentInv, NEW r \in Requests, NEW u \in RowOrNone, u # None, Answer(r, u)
    PROVE  DoorsTypeOK' /\ CurrentInv'
<1>1. \A q \in Requests : pc'[q] = IF q = r THEN "answered" ELSE pc[q]
  BY DEF Answer, DoorsTypeOK
<1>2. \A q \in Requests : answer'[q] = IF q = r THEN u ELSE answer[q]
  BY DEF Answer, DoorsTypeOK
<1>3. /\ pc' \in [Requests -> Steps] /\ answer' \in [Requests -> RowOrNone]
      /\ UNCHANGED <<current, found>>
  BY DEF Answer, DoorsTypeOK, Steps
<1>. QED
  BY <1>1, <1>2, <1>3 DEF DoorsTypeOK, CurrentInv, LinkAtWork

LEMMA DoorTablesKept ==
    ASSUME TablesTypeOK, UNCHANGED doorTables, UNCHANGED workTables
    PROVE  TablesTypeOK'
BY DEF TablesTypeOK, doorTables, workTables

LEMMA TelegramType ==
    ASSUME DoorTypes, NEW r \in Requests,
           \/ TelegramLooksIdentity(r) \/ TelegramLooksUser(r) \/ TelegramCreates(r)
           \/ TelegramLooksAgain(r) \/ TelegramUpserts(r)
    PROVE  DoorTypes' /\ UNCHANGED faults
<1>. USE RequestTypes, HolderType, DoorTablesKept, GotoType, GoWithType, AnswerType, TablesAssumption
     DEF DoorTypes, At, DoorStep, Steps, LinkAtWork
<1>1. CASE TelegramLooksIdentity(r)
  <2>1. identity[r.door] \in RowOrNone
    BY DEF TablesTypeOK
  <2>. QED
    BY <1>1, <2>1 DEF TelegramLooksIdentity
<1>2. CASE TelegramLooksUser(r)
  BY <1>2 DEF TelegramLooksUser
<1>3. CASE TelegramCreates(r)
  <2>1. CASE InsertUser(r, r.door) /\ GoWith(r, "upsert", r)
    <3>1. TablesTypeOK'
      BY <1>3, <2>1, InsertUserType DEF TelegramCreates
    <3>. QED
      BY <1>3, <2>1, <3>1 DEF TelegramCreates
  <2>2. CASE Goto(r, "relook") /\ UNCHANGED doorTables
    BY <1>3, <2>2 DEF TelegramCreates
  <2>. QED
    BY <1>3, <2>1, <2>2 DEF TelegramCreates
<1>4. CASE TelegramLooksAgain(r)
  BY <1>4 DEF TelegramLooksAgain
<1>5. CASE TelegramUpserts(r)
  <2>1. CASE UpsertIdentity(r.door, found[r], None) /\ Answer(r, found[r])
    <3>1. TablesTypeOK' /\ found[r] \in users
      BY <1>5, <2>1, UpsertIdentityType DEF TelegramUpserts
    <3>2. found[r] \in RowOrNone /\ found[r] # None
      BY <3>1 DEF TablesTypeOK, RowOrNone
    <3>. QED
      BY <1>5, <2>1, <3>1, <3>2 DEF TelegramUpserts
  <2>2. CASE Goto(r, "raised") /\ UNCHANGED doorTables
    BY <1>5, <2>2 DEF TelegramUpserts
  <2>. QED
    BY <1>5, <2>1, <2>2 DEF TelegramUpserts
<1>. QED
  BY <1>1, <1>2, <1>3, <1>4, <1>5

LEMMA EmailType ==
    ASSUME DoorTypes, NEW r \in Requests,
           EmailLooksIdentity(r) \/ EmailCreates(r) \/ EmailUpserts(r)
    PROVE  DoorTypes' /\ UNCHANGED faults
<1>. USE RequestTypes, DoorTablesKept, GotoType, GoWithType, AnswerType, TablesAssumption
     DEF DoorTypes, At, DoorStep, Steps, LinkAtWork
<1>1. CASE EmailLooksIdentity(r)
  <2>1. identity[r.door] \in RowOrNone
    BY DEF TablesTypeOK
  <2>2. \/ Goto(r, "create") \/ Goto(r, "refused") \/ GoWith(r, "bind", identity[r.door])
        \/ identity[r.door] # None /\ Answer(r, identity[r.door])
    BY <1>1 DEF EmailLooksIdentity
  <2>. QED
    BY <1>1, <2>1, <2>2 DEF EmailLooksIdentity
<1>2. CASE EmailCreates(r)
  <2>1. TablesTypeOK'
    BY <1>2, InsertUserType DEF EmailCreates
  <2>. QED
    BY <1>2, <2>1 DEF EmailCreates
<1>3. CASE EmailUpserts(r)
  <2>1. CASE UpsertIdentity(r.door, found[r], r.auth) /\ Answer(r, found[r])
    <3>1. TablesTypeOK' /\ found[r] \in users
      BY <1>3, <2>1, UpsertIdentityType DEF EmailUpserts
    <3>2. found[r] \in RowOrNone /\ found[r] # None
      BY <3>1 DEF TablesTypeOK, RowOrNone
    <3>. QED
      BY <1>3, <2>1, <3>1, <3>2 DEF EmailUpserts
  <2>2. CASE Goto(r, "raised") /\ UNCHANGED doorTables
    BY <1>3, <2>2 DEF EmailUpserts
  <2>. QED
    BY <1>3, <2>1, <2>2 DEF EmailUpserts
<1>. QED
  BY <1>1, <1>2, <1>3

LEMMA LinkType ==
    ASSUME DoorTypes, NEW r \in Requests,
           \/ LinkChecksCurrent(r) \/ LinkLooksIdentity(r) \/ LinkLooksUser(r)
           \/ LinkMerges(r) \/ LinkUpserts(r) \/ LinkSetsTelegram(r)
    PROVE  DoorTypes' /\ UNCHANGED faults
<1>. USE RequestTypes, HolderType, DoorTablesKept, GotoType, GoWithType, AnswerType, TablesAssumption
     DEF DoorTypes, At, DoorStep, Steps, LinkAtWork
<1>1. CASE LinkChecksCurrent(r)
  <2>1. CASE Goto(r, "refused")
    BY <1>1, <2>1 DEF LinkChecksCurrent
  <2>2. CASE ~Goto(r, "refused")
    <3>1. PICK u \in Sessions :
             /\ pc' = [pc EXCEPT ![r] = "identity"]
             /\ current' = [current EXCEPT ![r] = u]
             /\ UNCHANGED <<found, answer>>
      BY <1>1, <2>2 DEF LinkChecksCurrent
    <3>2. u \in RowOrNone /\ u # None
      BY DEF Sessions, DoorsTypeOK
    <3>3. /\ pc' \in [Requests -> Steps] /\ current' \in [Requests -> RowOrNone]
          /\ \A q \in Requests : pc'[q] = IF q = r THEN "identity" ELSE pc[q]
          /\ \A q \in Requests : current'[q] = IF q = r THEN u ELSE current[q]
      BY <3>1, <3>2 DEF DoorsTypeOK
    <3>4. DoorsTypeOK' /\ CurrentInv'
      BY <3>1, <3>2, <3>3 DEF DoorsTypeOK, CurrentInv
    <3>. QED
      BY <1>1, <3>4 DEF LinkChecksCurrent
  <2>. QED
    BY <2>1, <2>2
<1>2. CASE LinkLooksIdentity(r)
  <2>1. identity[r.door] \in RowOrNone
    BY DEF TablesTypeOK
  <2>. QED
    BY <1>2, <2>1 DEF LinkLooksIdentity, LinkGoesOn
<1>3. CASE LinkLooksUser(r)
  BY <1>3 DEF LinkLooksUser, LinkGoesOn
<1>4. CASE LinkMerges(r)
  <2>1. CASE MergeUsers(current[r], found[r]) /\ Goto(r, "attach")
    <3>1. TablesTypeOK'
      BY <2>1, MergeUsersType
    <3>. QED
      BY <1>4, <2>1, <3>1 DEF LinkMerges
  <2>2. CASE Goto(r, "raised") /\ UNCHANGED tableVars
    BY <1>4, <2>2 DEF LinkMerges, tableVars, doorTables, workTables
  <2>. QED
    BY <1>4, <2>1, <2>2 DEF LinkMerges
<1>5. CASE LinkUpserts(r)
  <2>1. CASE UpsertIdentity(r.door, current[r], None) /\ Goto(r, "telegram")
    <3>1. TablesTypeOK'
      BY <1>5, <2>1, UpsertIdentityType DEF LinkUpserts
    <3>. QED
      BY <1>5, <2>1, <3>1 DEF LinkUpserts
  <2>2. CASE Goto(r, "raised") /\ UNCHANGED doorTables
    BY <1>5, <2>2 DEF LinkUpserts
  <2>. QED
    BY <1>5, <2>1, <2>2 DEF LinkUpserts
<1>6. CASE LinkSetsTelegram(r)
  <2>1. CASE SetTelegramIfNull(current[r], r.door) /\ Answer(r, current[r])
    <3>1. TablesTypeOK'
      BY <1>6, <2>1, SetTelegramType DEF LinkSetsTelegram
    <3>2. current[r] # None /\ current[r] \in RowOrNone
      BY <1>6 DEF LinkSetsTelegram, CurrentInv, DoorsTypeOK
    <3>. QED
      BY <1>6, <2>1, <3>1, <3>2 DEF LinkSetsTelegram
  <2>2. CASE Goto(r, "raised") /\ UNCHANGED doorTables
    BY <1>6, <2>2 DEF LinkSetsTelegram
  <2>. QED
    BY <1>6, <2>1, <2>2 DEF LinkSetsTelegram
<1>. QED
  BY <1>1, <1>2, <1>3, <1>4, <1>5, <1>6

LEMMA RegistrationType ==
    ASSUME DoorTypes, NEW r \in Requests, BotStarts(r) \/ BotRegisters(r)
    PROVE  DoorTypes' /\ UNCHANGED faults
<1>. USE RequestTypes, DoorTablesKept, GotoType DEF DoorTypes, At, DoorStep, Steps, LinkAtWork
<1>1. CASE BotStarts(r)
  BY <1>1 DEF BotStarts
<1>2. CASE BotRegisters(r)
  <2>1. CASE InsertUser(r, r.door) /\ Goto(r, "answered")
    <3>1. TablesTypeOK'
      BY <1>2, <2>1, InsertUserType DEF BotRegisters
    <3>. QED
      BY <1>2, <2>1, <3>1 DEF BotRegisters
  <2>2. CASE Goto(r, "raised") /\ UNCHANGED doorTables
    BY <1>2, <2>2 DEF BotRegisters
  <2>. QED
    BY <1>2, <2>1, <2>2 DEF BotRegisters
<1>. QED
  BY <1>1, <1>2

LEMMA DoorsNextType ==
    ASSUME DoorTypes, FaultsTypeOK, DoorsNext
    PROVE  DoorTypes' /\ FaultsTypeOK'
<1>. USE MaxFaultsAssumption
<1>1. ASSUME NEW r \in Requests, HandlerRaises(r) PROVE DoorTypes' /\ FaultsTypeOK'
  <2>1. \/ Goto(r, "raised")
        \/ r.kind = "telegram" /\ Goto(r, "relook")
    BY <1>1 DEF HandlerRaises, At
  <2>2. UNCHANGED doorTables /\ UNCHANGED workTables /\ Fault
    BY <1>1 DEF HandlerRaises, tableVars, doorTables, workTables
  <2>3. "raised" \in Steps /\ "relook" \in Steps /\ "raised" \notin LinkAtWork
    BY DEF Steps, LinkAtWork
  <2>4. DoorsTypeOK' /\ CurrentInv'
    BY <2>1, <2>3, GotoType DEF DoorTypes
  <2>. QED
    BY <2>2, <2>4, DoorTablesKept DEF DoorTypes, FaultsTypeOK, Fault
<1>2. ASSUME NEW e \in Emails, AuthUserDeleted(e) PROVE DoorTypes' /\ FaultsTypeOK'
  BY <1>2 DEF DoorTypes, AuthUserDeleted, TablesTypeOK, DoorsTypeOK, CurrentInv, FaultsTypeOK, Fault,
              workTables, doorVars
<1>. QED
  BY <1>1, <1>2, TelegramType, EmailType, LinkType, RegistrationType DEF DoorsNext, FaultsTypeOK

\* The routes.
LEMMA SessionsType ==
    ASSUME DoorsTypeOK
    PROVE  \A u \in Sessions : u \in Rows /\ u # None /\ u \in RowOrNone
BY DEF DoorsTypeOK, Sessions, RowOrNone

LEMMA CallTypes ==
    ASSUME NEW c \in Calls
    PROVE  c.kind \in CallKinds /\ c.project \in Projects /\ c # None /\ c \in CallOrNone
BY RoutesAssumption DEF CallOrNone

LEMMA ConsumeType ==
    ASSUME LimitsTypeOK, NEW k \in Keys, Consume(k), day' = day
    PROVE  LimitsTypeOK'
<1>1. counter[k] \in [Days -> Nat] /\ counter[k][day] + 1 \in Nat
  BY DEF LimitsTypeOK
<1>2. [counter[k] EXCEPT ![day] = counter[k][day] + 1] \in [Days -> Nat]
  BY <1>1 DEF LimitsTypeOK
<1>3. counter' = [counter EXCEPT ![k] = [counter[k] EXCEPT ![day] = counter[k][day] + 1]]
  BY DEF Consume, LimitsTypeOK
<1>. QED
  BY <1>2, <1>3 DEF LimitsTypeOK

RouteTypes == TablesTypeOK /\ RoutesTypeOK /\ LimitsTypeOK

LEMMA ToType ==
    ASSUME RoutesTypeOK, NEW c \in Calls, NEW s \in CallSteps, To(c, s)
    PROVE  cpc' \in [Calls -> CallSteps]
BY DEF RoutesTypeOK, To

EnqueuesJob(c) == EnqueueLooks(c) \/ EnqueueCharges(c) \/ EnqueueInserts(c)

LEMMA ProjectCallType ==
    ASSUME RouteTypes, DoorsTypeOK, NEW c \in Calls, CreateProject(c) \/ EnqueuesJob(c)
    PROVE  RouteTypes'
<1>. USE CallTypes DEF RouteTypes, RouteStep, doorTables, presignVars, registerVars, shareVars, limitVars
<1>1. CASE CreateProject(c)
  <2>1. PICK u \in Sessions :
           /\ caller' = [caller EXCEPT ![c] = u]
           /\ \/ owner' = [owner EXCEPT ![c.project] = u] /\ To(c, "answered")
              \/ UNCHANGED owner /\ To(c, "refused")
    BY <1>1 DEF CreateProject
  <2>2. cpc' \in [Calls -> CallSteps]
    BY <2>1, ToType DEF CallSteps
  <2>3. caller' \in [Calls -> RowOrNone] /\ owner' \in [Projects -> RowOrNone]
    BY <2>1, SessionsType DEF RoutesTypeOK, TablesTypeOK
  <2>. QED
    BY <1>1, <2>2, <2>3 DEF CreateProject, RoutesTypeOK, TablesTypeOK, LimitsTypeOK
<1>2. CASE EnqueueLooks(c)
  <2>1. PICK u \in Sessions, s \in {"charge", "refused"} : caller' = [caller EXCEPT ![c] = u] /\ To(c, s)
    BY <1>2 DEF EnqueueLooks
  <2>2. cpc' \in [Calls -> CallSteps]
    BY <2>1, ToType DEF CallSteps
  <2>3. caller' \in [Calls -> RowOrNone]
    BY <2>1, SessionsType DEF RoutesTypeOK
  <2>. QED
    BY <1>2, <2>2, <2>3 DEF EnqueueLooks, workTables, RoutesTypeOK, TablesTypeOK, LimitsTypeOK
<1>3. CASE EnqueueCharges(c)
  <2>1. cpc' \in [Calls -> CallSteps]
    BY <1>3, ToType DEF EnqueueCharges, CallSteps
  <2>2. charge' \in [Projects -> {"none", "held", "earned", "returned"}]
    BY <1>3 DEF EnqueueCharges, TablesTypeOK
  <2>. QED
    BY <1>3, <2>1, <2>2 DEF EnqueueCharges, RoutesTypeOK, TablesTypeOK, LimitsTypeOK
<1>4. CASE EnqueueInserts(c)
  <2>1. \/ /\ caller[c] \in users
           /\ job' = [job EXCEPT ![c.project] = "queued"]
           /\ jobUser' = [jobUser EXCEPT ![c.project] = caller[c]]
           /\ To(c, "answered") /\ UNCHANGED severed
        \/ /\ severed' = severed \cup {c.project}
           /\ To(c, "refused") /\ UNCHANGED <<job, jobUser>>
    BY <1>4 DEF EnqueueInserts
  <2>2. cpc' \in [Calls -> CallSteps]
    BY <2>1, ToType DEF CallSteps
  <2>3. jobUser' \in [Projects -> RowOrNone] /\ severed' \subseteq Projects
    BY <2>1 DEF RoutesTypeOK, TablesTypeOK
  <2>4. job' \in [Projects -> JobStatus]
    BY <2>1 DEF TablesTypeOK, JobStatus
  <2>. QED
    BY <1>4, <2>2, <2>3, <2>4 DEF EnqueueInserts, RoutesTypeOK, TablesTypeOK, LimitsTypeOK
<1>. QED
  BY <1>1, <1>2, <1>3, <1>4 DEF EnqueuesJob

LEMMA WorkerType ==
    ASSUME RouteTypes, NEW p \in Projects, WorkerClaims(p) \/ WorkerCompletes(p) \/ WorkerFails(p)
    PROVE  RouteTypes'
<1>1. PICK from \in JobStatus, to \in JobStatus, settled \in {"none", "held", "earned", "returned"} :
         WorkerStep(p, from, to, settled)
  BY DEF WorkerClaims, WorkerCompletes, WorkerFails, RouteTypes, TablesTypeOK, JobStatus
<1>. QED
  BY <1>1 DEF WorkerStep, RouteStep, RouteTypes, TablesTypeOK, RoutesTypeOK, LimitsTypeOK, doorTables,
              routeVars, limitVars

LEMMA PresignType ==
    ASSUME RouteTypes, DoorsTypeOK, NEW c \in Calls,
           PresignCountsUser(c) \/ PresignCountsAddress(c) \/ PresignMintsKey(c)
    PROVE  RouteTypes'
<1>. USE CallTypes, RoutesAssumption
     DEF RouteTypes, RouteStep, doorTables, workTables, presignVars, registerVars, shareVars, limitVars
<1>1. CASE PresignCountsUser(c)
  <2>1. PICK u \in Sessions : /\ Consume(u)
                              /\ fits' = [fits EXCEPT ![c] = Within(u)]
                              /\ caller' = [caller EXCEPT ![c] = u]
    BY <1>1 DEF PresignCountsUser
  <2>2. u \in Keys
    BY SessionsType DEF Keys
  <2>3. LimitsTypeOK'
    BY <1>1, <2>1, <2>2, ConsumeType DEF PresignCountsUser
  <2>4. fits' \in [Calls -> BOOLEAN]
    <3>1. Within(u) \in BOOLEAN
      BY DEF Within
    <3>. QED
      BY <2>1, <3>1 DEF RoutesTypeOK
  <2>5. caller' \in [Calls -> RowOrNone]
    BY <2>1, SessionsType DEF RoutesTypeOK
  <2>6. counted' \in [Calls -> Days \X Days]
    BY <1>1 DEF PresignCountsUser, RoutesTypeOK, LimitsTypeOK
  <2>7. cpc' \in [Calls -> CallSteps]
    BY <1>1, ToType DEF PresignCountsUser, CallSteps
  <2>. QED
    BY <1>1, <2>3, <2>4, <2>5, <2>6, <2>7 DEF PresignCountsUser, RoutesTypeOK, TablesTypeOK
<1>2. CASE PresignCountsAddress(c)
  <2>1. LimitsTypeOK'
    BY <1>2, ConsumeType DEF PresignCountsAddress, Keys
  <2>2. counted' \in [Calls -> Days \X Days]
    <3>1. counted[c] \in Days \X Days /\ day \in Days
      BY DEF RoutesTypeOK, LimitsTypeOK
    <3>2. [counted[c] EXCEPT ![2] = day] \in Days \X Days
      BY <3>1
    <3>. QED
      BY <1>2, <3>2 DEF PresignCountsAddress, RoutesTypeOK
  <2>3. cpc' \in [Calls -> CallSteps]
    BY <1>2, ToType DEF PresignCountsAddress, CallSteps
  <2>. QED
    BY <1>2, <2>1, <2>2, <2>3 DEF PresignCountsAddress, RoutesTypeOK, TablesTypeOK
<1>3. CASE PresignMintsKey(c)
  <2>1. cpc' \in [Calls -> CallSteps]
    BY <1>3, ToType DEF PresignMintsKey, CallSteps
  <2>2. keyUser' \in [Calls -> RowOrNone]
    BY <1>3 DEF PresignMintsKey, RoutesTypeOK
  <2>. QED
    BY <1>3, <2>1, <2>2 DEF PresignMintsKey, RoutesTypeOK, TablesTypeOK, LimitsTypeOK
<1>. QED
  BY <1>1, <1>2, <1>3

LEMMA RegisterType ==
    ASSUME RouteTypes, DoorsTypeOK, NEW c \in Calls,
           RegisterChecks(c) \/ RegisterCounts(c) \/ RegisterInserts(c)
    PROVE  RouteTypes'
<1>. USE CallTypes
     DEF RouteTypes, RouteStep, doorTables, workTables, presignVars, registerVars, shareVars, limitVars
<1>1. CASE RegisterChecks(c)
  <2>1. PICK u \in Sessions, k \in Calls :
           /\ caller' = [caller EXCEPT ![c] = u]
           /\ uses' = [uses EXCEPT ![c] = k]
           /\ To(c, "count") \/ To(c, "refused")
    BY <1>1 DEF RegisterChecks
  <2>2. cpc' \in [Calls -> CallSteps]
    BY <2>1, ToType DEF CallSteps
  <2>3. caller' \in [Calls -> RowOrNone] /\ uses' \in [Calls -> CallOrNone]
    BY <2>1, SessionsType DEF RoutesTypeOK, CallOrNone
  <2>. QED
    BY <1>1, <2>2, <2>3 DEF RegisterChecks, RoutesTypeOK, TablesTypeOK, LimitsTypeOK
<1>2. CASE RegisterCounts(c)
  <2>1. cpc' \in [Calls -> CallSteps]
    BY <1>2, ToType DEF RegisterCounts, CallSteps
  <2>. QED
    BY <1>2, <2>1 DEF RegisterCounts, RoutesTypeOK, TablesTypeOK, LimitsTypeOK
<1>3. CASE RegisterInserts(c)
  <2>1. cpc' \in [Calls -> CallSteps]
    BY <1>3, ToType DEF RegisterInserts, CallSteps
  <2>. QED
    BY <1>3, <2>1 DEF RegisterInserts, RoutesTypeOK, TablesTypeOK, LimitsTypeOK
<1>. QED
  BY <1>1, <1>2, <1>3

\* What the read of a share call comes to.
LEMMA ShareLooks ==
    ASSUME NEW c \in Calls, ShareReads(c)
    PROVE  \E u \in Sessions :
              /\ caller' = [caller EXCEPT ![c] = u]
              /\ saw' = [saw EXCEPT ![c] = token[c.project]]
              /\ \/ To(c, "refused") /\ UNCHANGED writes
                 \/ To(c, "answered") /\ UNCHANGED writes
                 \/ /\ c.kind = "enable" => token[c.project] = None
                    /\ writes' = [writes EXCEPT ![c] = IF c.kind = "disable" THEN None ELSE c]
                    /\ To(c, "write")
<1>1. PICK u \in Sessions :
        /\ caller' = [caller EXCEPT ![c] = u]
        /\ saw' = [saw EXCEPT ![c] = token[c.project]]
        /\ CASE ~Owned(c, u) -> To(c, "refused") /\ UNCHANGED writes
             [] Owned(c, u) /\ c.kind = "enable" /\ token[c.project] # None ->
                    To(c, "answered") /\ UNCHANGED writes
             [] OTHER ->
                    /\ writes' = [writes EXCEPT ![c] = IF c.kind = "disable" THEN None ELSE c]
                    /\ To(c, "write")
  BY DEF ShareReads
<1>2. CASE ~Owned(c, u)
  BY <1>1, <1>2
<1>3. CASE Owned(c, u) /\ c.kind = "enable" /\ token[c.project] # None
  BY <1>1, <1>3
<1>4. CASE Owned(c, u) /\ ~(c.kind = "enable" /\ token[c.project] # None)
  BY <1>1, <1>4
<1>. QED
  BY <1>2, <1>3, <1>4

LEMMA ShareType ==
    ASSUME RouteTypes, DoorsTypeOK, NEW c \in Calls, ShareReads(c) \/ ShareWrites(c)
    PROVE  RouteTypes'
<1>. USE CallTypes
     DEF RouteTypes, RouteStep, doorTables, workTables, presignVars, registerVars, shareVars, limitVars
<1>1. CASE ShareReads(c)
  <2>1. PICK u \in Sessions :
           /\ caller' = [caller EXCEPT ![c] = u]
           /\ saw' = [saw EXCEPT ![c] = token[c.project]]
           /\ \E s \in {"refused", "answered", "write"} : To(c, s)
           /\ \/ UNCHANGED writes
              \/ writes' = [writes EXCEPT ![c] = IF c.kind = "disable" THEN None ELSE c]
    BY <1>1, ShareLooks
  <2>2. cpc' \in [Calls -> CallSteps]
    BY <2>1, ToType DEF CallSteps
  <2>3. caller' \in [Calls -> RowOrNone] /\ writes' \in [Calls -> CallOrNone]
    BY <2>1, SessionsType DEF RoutesTypeOK, CallOrNone
  <2>4. saw' \in [Calls -> CallOrNone]
    BY <2>1 DEF RoutesTypeOK, CallOrNone
  <2>. QED
    BY <1>1, <2>2, <2>3, <2>4 DEF ShareReads, RoutesTypeOK, TablesTypeOK, LimitsTypeOK
<1>2. CASE ShareWrites(c)
  <2>1. cpc' \in [Calls -> CallSteps]
    BY <1>2, ToType DEF ShareWrites, CallSteps
  <2>2. token' \in [Projects -> CallOrNone]
    BY <1>2 DEF ShareWrites, RoutesTypeOK
  <2>. QED
    BY <1>2, <2>1, <2>2 DEF ShareWrites, RoutesTypeOK, TablesTypeOK, LimitsTypeOK
<1>. QED
  BY <1>1, <1>2

LEMMA MidnightType ==
    ASSUME RouteTypes, Midnight
    PROVE  RouteTypes'
<1>1. LimitsTypeOK'
  BY LimitsAssumption DEF Midnight, MidnightUTC, RouteTypes, LimitsTypeOK, Days
<1>2. RoutesTypeOK'
  BY DEF Midnight, RouteTypes, RoutesTypeOK, LimitsTypeOK, Days, routeVars
<1>3. TablesTypeOK'
  BY DoorTablesKept DEF Midnight, RouteStep, RouteTypes
<1>. QED
  BY <1>1, <1>2, <1>3 DEF RouteTypes

LEMMA RoutesKeepDoors == RoutesNext => UNCHANGED <<doorTables, doorVars, faults>>
BY DEF RoutesNext, CreateProject, EnqueueLooks, EnqueueCharges, EnqueueInserts, PresignCountsUser, PresignCountsAddress, PresignMintsKey,
       RegisterChecks, RegisterCounts, RegisterInserts, ShareReads, ShareWrites, WorkerClaims,
       WorkerCompletes, WorkerFails, WorkerStep, Midnight, RouteStep

LEMMA RoutesNextType ==
    ASSUME RouteTypes, DoorsTypeOK, RoutesNext
    PROVE  RouteTypes'
BY ProjectCallType, WorkerType, PresignType, RegisterType, ShareType, MidnightType
DEF RoutesNext, EnqueuesJob

LEMMA TypeInit == Init => TypeInv
<1>1. 0 \in Days
  BY LimitsAssumption DEF Days
<1>. QED
  BY <1>1, MaxFaultsAssumption
  DEF Init, TypeInv, TypeOK, TablesInit, FaultsInit, LimitsInit, DoorsInit, RoutesInit, TablesTypeOK,
      FaultsTypeOK, DoorsTypeOK, RoutesTypeOK, LimitsTypeOK, CurrentInv, RowOrNone, CallOrNone,
      JobStatus, Steps, CallSteps, LinkAtWork

LEMMA TypeNext == TypeInv /\ [Next]_vars => TypeInv'
<1>. SUFFICES ASSUME TypeInv, [Next]_vars PROVE TypeInv'
  OBVIOUS
<1>. USE DEF TypeInv, TypeOK
<1>1. CASE DoorsNext /\ UNCHANGED <<routeVars, limitVars>>
  <2>1. DoorTypes' /\ FaultsTypeOK'
    BY <1>1, DoorsNextType DEF DoorTypes
  <2>2. RoutesTypeOK' /\ LimitsTypeOK'
    BY <1>1 DEF routeVars, limitVars, RoutesTypeOK, LimitsTypeOK
  <2>. QED
    BY <2>1, <2>2 DEF DoorTypes
<1>2. CASE RoutesNext
  <2>1. RouteTypes'
    BY <1>2, RoutesNextType DEF RouteTypes
  <2>2. UNCHANGED <<doorVars, faults>>
    BY <1>2, RoutesKeepDoors
  <2>3. DoorsTypeOK' /\ CurrentInv' /\ FaultsTypeOK'
    BY <2>2 DEF doorVars, DoorsTypeOK, CurrentInv, FaultsTypeOK
  <2>. QED
    BY <2>1, <2>3 DEF RouteTypes
<1>3. CASE UNCHANGED vars
  BY <1>3 DEF vars, tableVars, doorVars, routeVars, limitVars, TablesTypeOK, FaultsTypeOK, DoorsTypeOK,
              RoutesTypeOK, LimitsTypeOK, CurrentInv
<1>. QED
  BY <1>1, <1>2, <1>3 DEF Next

\* The accounts of the web are those of Accounts, whatever the pages do.
LEMMA SiteImplements == SiteSpec => Spec
<1>1. SiteInit => Init
  BY DEF SiteInit
<1>2. [SiteNext]_siteVars => [Next]_vars
  BY DEF SiteNext, siteVars, OnAccounts, OnCreation, OnWorkspace
<1>. QED
  BY <1>1, <1>2, PTL DEF SiteSpec, Spec

\* The tables, the handlers of the doors and the calls keep their types, with
\* overlapping calls and merges under an active job as well.
THEOREM TypeCorrect == Spec => [](TypeOK /\ CurrentInv)
<1>. QED
  BY TypeInit, TypeNext, PTL DEF Spec, TypeInv

(***************************************************************************)
(* The share link.                                                         *)
(***************************************************************************)
\* Of the share calls of a project only enables overlap; and an enable that is
\* about to write read no link, and finds none but another enable's.
ShareInv ==
    /\ \A b, c \in Calls :
        b # c /\ InFlight(b) /\ InFlight(c) /\ {b.kind, c.kind} \subseteq ShareKinds
            => b.project # c.project \/ {b.kind, c.kind} = {"enable"}
    /\ \A p \in Projects : token[p] \in CallOrNone
    /\ \A c \in Calls :
        cpc[c] = "write" =>
            /\ writes[c] \in {c, None}
            /\ c.kind = "enable" =>
                /\ saw[c] = None /\ writes[c] = c
                /\ token[c.project] = None \/ token[c.project].kind = "enable"

LEMMA ShareElsewhere ==
    ASSUME RoutesTypeOK, ShareInv, UNCHANGED <<token, saw, writes>>,
           \/ UNCHANGED cpc
           \/ \E c \in Calls : \E s \in CallSteps \ {"write"} : c.kind \notin ShareKinds /\ To(c, s)
    PROVE  ShareInv'
<1>1. CASE UNCHANGED cpc
  BY <1>1 DEF ShareInv, InFlight
<1>2. ASSUME NEW c \in Calls, NEW s \in CallSteps \ {"write"}, c.kind \notin ShareKinds, To(c, s)
      PROVE  ShareInv'
  <2>1. \A b \in Calls : b.kind \in ShareKinds => cpc'[b] = cpc[b]
    BY <1>2 DEF To, RoutesTypeOK
  <2>2. \A b \in Calls : b.kind = "enable" => b.kind \in ShareKinds
    BY DEF ShareKinds
  <2>3. \A b \in Calls : cpc'[b] = "write" => cpc[b] = "write"
    BY <1>2 DEF To, RoutesTypeOK
  <2>. QED
    BY <2>1, <2>2, <2>3 DEF ShareInv, InFlight
<1>. QED
  BY <1>1, <1>2

\* What a step of a route that is no share call does to the calls.
LEMMA OtherCalls ==
    ASSUME RoutesNext
    PROVE  \/ UNCHANGED <<cpc, token, saw, writes>>
           \/ UNCHANGED <<token, saw, writes>> /\ \E c \in Calls : \E s \in CallSteps \ {"write"} : c.kind \notin ShareKinds /\ To(c, s)
           \/ \E c \in Calls : ShareReads(c) \/ ShareWrites(c)
<1>. USE DEF CallSteps, ShareKinds, presignVars, registerVars, shareVars, routeVars, Starts, IsAt
<1>1. ASSUME NEW c \in Calls, CreateProject(c) \/ EnqueuesJob(c)
      PROVE  UNCHANGED <<token, saw, writes>> /\ \E s \in CallSteps \ {"write"} : c.kind \notin ShareKinds /\ To(c, s)
  BY <1>1 DEF CreateProject, EnqueuesJob, EnqueueLooks, EnqueueCharges, EnqueueInserts
<1>2. ASSUME NEW c \in Calls, PresignCountsUser(c) \/ PresignCountsAddress(c) \/ PresignMintsKey(c)
      PROVE  UNCHANGED <<token, saw, writes>> /\ \E s \in CallSteps \ {"write"} : c.kind \notin ShareKinds /\ To(c, s)
  BY <1>2 DEF PresignCountsUser, PresignCountsAddress, PresignMintsKey
<1>3. ASSUME NEW c \in Calls, RegisterChecks(c) \/ RegisterCounts(c)
      PROVE  UNCHANGED <<token, saw, writes>> /\ \E s \in CallSteps \ {"write"} : c.kind \notin ShareKinds /\ To(c, s)
  BY <1>3 DEF RegisterChecks, RegisterCounts
<1>4. ASSUME NEW c \in Calls, RegisterInserts(c)
      PROVE  UNCHANGED <<token, saw, writes>> /\ \E s \in CallSteps \ {"write"} : c.kind \notin ShareKinds /\ To(c, s)
  BY <1>4 DEF RegisterInserts
<1>5. (\E p \in Projects : WorkerClaims(p) \/ WorkerCompletes(p) \/ WorkerFails(p)) \/ Midnight
        => UNCHANGED <<cpc, token, saw, writes>>
  BY DEF WorkerClaims, WorkerCompletes, WorkerFails, WorkerStep, Midnight
<1>. QED
  BY <1>1, <1>2, <1>3, <1>4, <1>5 DEF RoutesNext, EnqueuesJob

\* What replaces a link.
Revokes(c, p) ==
    /\ c.project = p /\ cpc[c] = "write" /\ cpc'[c] = "answered"
    /\ \/ c.kind \in {"rotate", "disable"}
       \/ c.kind = "enable" /\ saw[c] = None /\ token[p].kind = "enable"

LEMMA ShareNext ==
    ASSUME TypeInv, ~Overlap, ShareInv, [Next]_vars
    PROVE  /\ ShareInv'
           /\ \A p \in Projects :
                token[p] # None /\ token'[p] # token[p] => \E c \in Calls : Revokes(c, p)
<1>. USE DEF TypeInv, TypeOK
<1>1. ASSUME NEW c \in Calls, ShareReads(c)
      PROVE  ShareInv' /\ UNCHANGED token
  <2>1. PICK s \in CallSteps :
            /\ To(c, s)
            /\ saw' = [saw EXCEPT ![c] = token[c.project]]
            /\ \/ UNCHANGED writes /\ s # "write"
               \/ writes' = [writes EXCEPT ![c] = IF c.kind = "disable" THEN None ELSE c]
            /\ s = "write" /\ c.kind = "enable" => token[c.project] = None
    BY <1>1, ShareLooks DEF CallSteps
  <2>2. \A b \in Calls : cpc'[b] = IF b = c THEN s ELSE cpc[b]
    BY <2>1 DEF To, RoutesTypeOK
  <2>3. UNCHANGED token /\ c.kind \in ShareKinds /\ cpc[c] = "idle"
    BY <1>1 DEF ShareReads, Starts
  <2>4. \A b \in Calls \ {c} : InFlight(b) /\ b.kind \in ShareKinds
            => b.project # c.project \/ {b.kind, c.kind} = {"enable"}
    BY <1>1, <2>3 DEF ShareReads, Starts, MayCall
  <2>5. /\ \A b \in Calls \ {c} : saw'[b] = saw[b] /\ writes'[b] = writes[b]
        /\ saw'[c] = token[c.project]
        /\ s = "write" => writes'[c] = IF c.kind = "disable" THEN None ELSE c
    BY <2>1 DEF RoutesTypeOK
  <2>6. \A a, b \in Calls :
            a # b /\ InFlight(a)' /\ InFlight(b)' /\ {a.kind, b.kind} \subseteq ShareKinds
                => a.project # b.project \/ {a.kind, b.kind} = {"enable"}
    BY <2>2, <2>4 DEF ShareInv, InFlight
  <2>7. \A b \in Calls :
            cpc'[b] = "write" =>
                /\ writes'[b] \in {b, None}
                /\ b.kind = "enable" =>
                    /\ saw'[b] = None /\ writes'[b] = b
                    /\ token'[b.project] = None \/ token'[b.project].kind = "enable"
    BY <2>1, <2>2, <2>3, <2>5 DEF ShareInv
  <2>. QED
    BY <2>3, <2>6, <2>7 DEF ShareInv
<1>2. ASSUME NEW c \in Calls, ShareWrites(c)
      PROVE  /\ ShareInv'
             /\ \A p \in Projects : p # c.project => token'[p] = token[p]
             /\ token[c.project] # None => Revokes(c, c.project)
  <2>1. \A b \in Calls : cpc'[b] = IF b = c THEN "answered" ELSE cpc[b]
    BY <1>2 DEF ShareWrites, To, RoutesTypeOK
  <2>2. /\ c.kind \in ShareKinds /\ cpc[c] = "write" /\ InFlight(c) /\ c.project \in Projects
        /\ token' = [token EXCEPT ![c.project] = writes[c]] /\ UNCHANGED <<saw, writes>>
    BY <1>2, CallTypes DEF ShareWrites, InFlight
  <2>3. \A b \in Calls \ {c} : b.kind = "enable" /\ cpc[b] = "write"
            => b.project # c.project \/ c.kind = "enable"
    BY <2>2 DEF ShareInv, InFlight, ShareKinds
  <2>4. /\ \A p \in Projects : p # c.project => token'[p] = token[p]
        /\ token'[c.project] = writes[c] /\ writes[c] \in {c, None}
    BY <2>2 DEF RoutesTypeOK, ShareInv
  <2>5. \A b \in Calls : b.project \in Projects
    BY CallTypes
  <2>6. \A a, b \in Calls :
            a # b /\ InFlight(a)' /\ InFlight(b)' /\ {a.kind, b.kind} \subseteq ShareKinds
                => a.project # b.project \/ {a.kind, b.kind} = {"enable"}
    BY <2>1 DEF ShareInv, InFlight
  <2>7. ASSUME NEW b \in Calls, cpc'[b] = "write"
        PROVE  /\ writes'[b] \in {b, None}
               /\ b.kind = "enable" =>
                    /\ saw'[b] = None /\ writes'[b] = b
                    /\ token'[b.project] = None \/ token'[b.project].kind = "enable"
    <3>1. b # c /\ cpc[b] = "write"
      BY <2>1, <2>7
    <3>2. CASE b.project # c.project
      BY <2>2, <2>4, <2>5, <3>1, <3>2 DEF ShareInv
    <3>3. CASE b.project = c.project
      BY <2>2, <2>3, <2>4, <3>1, <3>3 DEF ShareInv
    <3>. QED
      BY <3>2, <3>3
  <2>8. \A p \in Projects : token'[p] \in CallOrNone
    BY <2>4 DEF ShareInv, CallOrNone
  <2>9. token[c.project] # None => Revokes(c, c.project)
    BY <2>1, <2>2 DEF ShareInv, Revokes, ShareKinds
  <2>. QED
    BY <2>4, <2>6, <2>7, <2>8, <2>9 DEF ShareInv
<1>3. CASE UNCHANGED <<cpc, token, saw, writes>>
  BY <1>3, ShareElsewhere
<1>4. CASE /\ UNCHANGED <<token, saw, writes>>
           /\ \E c \in Calls : \E s \in CallSteps \ {"write"} : c.kind \notin ShareKinds /\ To(c, s)
  BY <1>4, ShareElsewhere
<1>5. CASE RoutesNext
  BY <1>1, <1>2, <1>3, <1>4, <1>5, OtherCalls
<1>6. CASE DoorsNext /\ UNCHANGED <<routeVars, limitVars>>
  BY <1>3, <1>6 DEF routeVars
<1>7. CASE UNCHANGED vars
  BY <1>3, <1>7 DEF vars, routeVars
<1>. QED
  BY <1>5, <1>6, <1>7 DEF Next

\* While no share call of a project runs beside another but two enables, a link
\* that is out dies only by a rotate, a disable, or the second of two enables
\* that both read the project without one (manage_share).
THEOREM LinksSurvive == ASSUME ~Overlap PROVE SiteSpec => OnlyRotationRevokes
<1>1. Init => ShareInv
  BY DEF Init, RoutesInit, ShareInv, InFlight, CallOrNone
<1>2. TypeInv /\ ShareInv /\ [Next]_vars => ShareInv'
  BY ShareNext
<1>3. TypeInv /\ ShareInv /\ [Next]_vars =>
        [\A p \in Projects :
            token[p] # None /\ token'[p] # token[p] =>
                \E c \in Calls :
                    /\ c.project = p /\ cpc[c] = "write" /\ cpc'[c] = "answered"
                    /\ \/ c.kind \in {"rotate", "disable"}
                       \/ c.kind = "enable" /\ saw[c] = None /\ token[p].kind = "enable"]_vars
  BY ShareNext DEF Revokes
<1>. QED
  BY <1>1, <1>2, <1>3, SiteImplements, TypeCorrect, PTL DEF Spec, OnlyRotationRevokes, TypeInv

(***************************************************************************)
(* The caps on uploads.                                                    *)
(***************************************************************************)
\* At most limit elements, and no more than were counted.
Covered(S, limit, n) ==
    IsFiniteSet(S) /\ Cardinality(S) <= limit /\ Cardinality(S) <= n

LEMMA CoveredSubset ==
    ASSUME NEW limit \in Nat, NEW n \in Nat, NEW m \in Nat, n <= m,
           NEW S, Covered(S, limit, n), NEW T \in SUBSET S
    PROVE  Covered(T, limit, m)
<1>1. IsFiniteSet(T) /\ Cardinality(T) <= Cardinality(S) /\ Cardinality(T) \in Nat /\ Cardinality(S) \in Nat
  BY FS_Subset, FS_CardinalityType DEF Covered
<1>. QED
  BY <1>1 DEF Covered

LEMMA CoveredAdd ==
    ASSUME NEW limit \in Nat, NEW n \in Nat, n + 1 <= limit,
           NEW S, Covered(S, limit, n), NEW x, NEW T \in SUBSET (S \cup {x})
    PROVE  Covered(T, limit, n + 1)
<1>1. /\ IsFiniteSet(S \cup {x}) /\ Cardinality(S \cup {x}) <= Cardinality(S) + 1
      /\ Cardinality(S) \in Nat /\ Cardinality(S \cup {x}) \in Nat
  BY FS_AddElement, FS_CardinalityType DEF Covered
<1>2. Covered(S \cup {x}, limit, n + 1)
  BY <1>1 DEF Covered
<1>. QED
  BY <1>2, CoveredSubset

\* The presign calls that found the user within the limit, and those that got past
\* the address as well.
FitsOn(u, d) ==
    {c \in Calls : /\ c.kind = "presign" /\ cpc[c] \notin {"absent", "idle"}
                   /\ caller[c] = u /\ counted[c][1] = d /\ fits[c]}

PassedOn(d) == {c \in Calls : Admitted(c) /\ counted[c][2] = d}

CountInv ==
    /\ \A c \in Calls : keyUser[c] # None => c.kind = "presign" /\ cpc[c] = "answered"
    /\ \A c \in Calls : Admitted(c) => fits[c] /\ cpc[c] \notin {"absent", "idle"}
    /\ \A u \in UserKeys, d \in Days : Covered(FitsOn(u, d), UserLimit, counter[u][d])
    /\ \A d \in Days : Covered(PassedOn(d), AddressLimit, counter[Address][d])

\* What has no part in a presign keeps the counts.
LEMMA CountKept ==
    ASSUME CountInv, UNCHANGED <<presignVars, counter>>,
           \A c \in Calls : c.kind = "presign" => cpc'[c] = cpc[c] /\ caller'[c] = caller[c]
    PROVE  CountInv'
<1>1. UNCHANGED <<fits, counted, keyUser, counter>>
  BY DEF presignVars
<1>2. \A c \in Calls : Admitted(c)' <=> Admitted(c)
  BY <1>1 DEF Admitted, CountInv
<1>3. \A u, d : FitsOn(u, d)' = FitsOn(u, d)
  BY <1>1 DEF FitsOn
<1>4. \A d : PassedOn(d)' = PassedOn(d)
  BY <1>1, <1>2 DEF PassedOn
<1>5. \A c \in Calls : keyUser'[c] # None => c.kind = "presign" /\ cpc'[c] = "answered"
  BY <1>1 DEF CountInv
<1>6. \A c \in Calls : Admitted(c)' => fits'[c] /\ cpc'[c] \notin {"absent", "idle"}
  BY <1>1, <1>2, <1>5 DEF CountInv, Admitted
<1>7. \A u \in UserKeys, d \in Days : Covered(FitsOn(u, d)', UserLimit, counter'[u][d])
  BY <1>1, <1>3 DEF CountInv
<1>8. \A d \in Days : Covered(PassedOn(d)', AddressLimit, counter'[Address][d])
  BY <1>1, <1>4 DEF CountInv
<1>. QED
  BY <1>5, <1>6, <1>7, <1>8 DEF CountInv, Covered, FitsOn, PassedOn

\* The counter of k and the day goes up by one, no other moves.
LEMMA CounterType ==
    ASSUME LimitsTypeOK, NEW k \in Keys, Consume(k)
    PROVE  /\ \A j \in Keys, d \in Days : counter[j][d] \in Nat
           /\ counter'[k][day] = counter[k][day] + 1
           /\ \A j \in Keys, d \in Days : j # k \/ d # day => counter'[j][d] = counter[j][d]
BY DEF LimitsTypeOK, Consume

LEMMA LimitTypes ==
    /\ UserLimit \in Nat /\ AddressLimit \in Nat
    /\ UserKeys \subseteq Keys /\ Address \in Keys /\ Address \notin UserKeys
    /\ UserKeys = Rows
BY LimitsAssumption, RoutesAssumption DEF Keys

LEMMA CountNext ==
    ASSUME RouteTypes, DoorsTypeOK, CountInv, NEW c \in Calls,
           PresignCountsUser(c) \/ PresignCountsAddress(c) \/ PresignMintsKey(c)
    PROVE  CountInv'
<1>. USE LimitTypes DEF RouteTypes
<1>1. CASE PresignCountsUser(c)
  <2>1. PICK u \in Sessions : /\ Consume(u)
                              /\ fits' = [fits EXCEPT ![c] = Within(u)]
                              /\ caller' = [caller EXCEPT ![c] = u]
    BY <1>1 DEF PresignCountsUser
  <2>2. u \in UserKeys /\ u \in Keys /\ u # Address /\ LimitOf(u) = UserLimit
    BY SessionsType DEF LimitOf
  <2>3. /\ c.kind = "presign" /\ cpc[c] = "idle" /\ UNCHANGED keyUser
        /\ \A b \in Calls : cpc'[b] = IF b = c THEN "address" ELSE cpc[b]
        /\ \A b \in Calls : counted'[b] = IF b = c THEN <<day, day>> ELSE counted[b]
    BY <1>1 DEF PresignCountsUser, Starts, To, RoutesTypeOK
  <2>4. /\ \A b \in Calls \ {c} : fits'[b] = fits[b] /\ caller'[b] = caller[b]
        /\ fits'[c] = Within(u) /\ caller'[c] = u
    BY <2>1 DEF RoutesTypeOK
  <2>5. keyUser[c] = None
    BY <2>3 DEF CountInv
  <2>6. \A b \in Calls : Admitted(b)' <=> Admitted(b) /\ b # c
    BY <2>3, <2>5 DEF Admitted
  <2>7. \A b \in Calls : keyUser'[b] # None => b.kind = "presign" /\ cpc'[b] = "answered"
    BY <2>3, <2>5 DEF CountInv
  <2>8. \A b \in Calls : Admitted(b)' => fits'[b] /\ cpc'[b] \notin {"absent", "idle"}
    BY <2>3, <2>4, <2>6 DEF CountInv
  <2>9. ASSUME NEW v \in UserKeys, NEW d \in Days
        PROVE  Covered(FitsOn(v, d)', UserLimit, counter'[v][d])
    <3>1. /\ counter[v][d] \in Nat /\ Covered(FitsOn(v, d), UserLimit, counter[v][d])
          /\ counter[u][day] \in Nat
      BY <2>1, <2>2, CounterType DEF CountInv, LimitsTypeOK
    <3>2. CASE v = u /\ d = day /\ Within(u)
      <4>1. FitsOn(v, d)' \subseteq FitsOn(v, d) \cup {c}
        BY <2>3, <2>4 DEF FitsOn
      <4>2. PICK n \in Nat : /\ n = counter[v][d] /\ counter'[v][d] = n + 1
                            /\ n + 1 <= UserLimit
        BY <2>1, <2>2, <3>1, <3>2, CounterType DEF Within
      <4>3. Covered(FitsOn(v, d), UserLimit, n)
        BY <3>1, <4>2
      <4>4. Covered(FitsOn(v, d)', UserLimit, n + 1)
        BY <4>1, <4>2, <4>3, CoveredAdd
      <4>. QED
        BY <4>2, <4>4
    <3>3. CASE ~(v = u /\ d = day /\ Within(u))
      <4>1. FitsOn(v, d)' \subseteq FitsOn(v, d)
        BY <2>3, <2>4, <3>3 DEF FitsOn
      <4>2. PICK m \in Nat : m = counter'[v][d] /\ counter[v][d] <= m
        <5>1. CASE v = u /\ d = day
          BY <2>1, <2>2, <3>1, <5>1, CounterType
        <5>2. CASE ~(v = u /\ d = day)
          BY <2>1, <2>2, <3>1, <5>2, CounterType
        <5>. QED
          BY <5>1, <5>2
      <4>. QED
        BY <3>1, <4>1, <4>2, CoveredSubset
    <3>. QED
      BY <3>2, <3>3
  <2>10. ASSUME NEW d \in Days PROVE Covered(PassedOn(d)', AddressLimit, counter'[Address][d])
    <3>1. PassedOn(d)' \subseteq PassedOn(d)
      BY <2>3, <2>6 DEF PassedOn
    <3>2. counter'[Address][d] = counter[Address][d] /\ counter[Address][d] \in Nat
      BY <2>1, <2>2, CounterType
    <3>. QED
      BY <3>1, <3>2, CoveredSubset DEF CountInv
  <2>. QED
    BY <2>7, <2>8, <2>9, <2>10 DEF CountInv, Covered, FitsOn, PassedOn
<1>2. CASE PresignCountsAddress(c)
  <2>1. /\ c.kind = "presign" /\ cpc[c] = "address" /\ UNCHANGED <<keyUser, fits, caller>>
        /\ Consume(Address)
        /\ \A b \in Calls : cpc'[b] = IF b = c THEN IF fits[c] /\ Within(Address) THEN "owned" ELSE "refused"
                                               ELSE cpc[b]
    BY <1>2 DEF PresignCountsAddress, IsAt, To, RoutesTypeOK
  <2>2. /\ \A b \in Calls \ {c} : counted'[b] = counted[b]
        /\ counted'[c][1] = counted[c][1] /\ counted'[c][2] = day
    <3>1. counted[c] \in Days \X Days /\ day \in Days
      BY DEF RoutesTypeOK, LimitsTypeOK
    <3>. QED
      BY <1>2, <3>1 DEF PresignCountsAddress, RoutesTypeOK
  <2>3. keyUser[c] = None
    BY <2>1 DEF CountInv
  <2>4. /\ \A b \in Calls \ {c} : Admitted(b)' <=> Admitted(b)
        /\ Admitted(c)' => fits[c] /\ Within(Address)
    BY <2>1, <2>3 DEF Admitted
  <2>5. \A b \in Calls : keyUser'[b] # None => b.kind = "presign" /\ cpc'[b] = "answered"
    BY <2>1, <2>3 DEF CountInv
  <2>6. \A b \in Calls : Admitted(b)' => fits'[b] /\ cpc'[b] \notin {"absent", "idle"}
    BY <2>1, <2>4 DEF CountInv
  <2>7. ASSUME NEW u \in UserKeys, NEW d \in Days
        PROVE  Covered(FitsOn(u, d)', UserLimit, counter'[u][d])
    <3>1. FitsOn(u, d)' \subseteq FitsOn(u, d)
      BY <2>1, <2>2 DEF FitsOn
    <3>2. counter'[u][d] = counter[u][d] /\ counter[u][d] \in Nat
      BY <2>1, CounterType
    <3>. QED
      BY <3>1, <3>2, CoveredSubset DEF CountInv
  <2>8. ASSUME NEW d \in Days PROVE Covered(PassedOn(d)', AddressLimit, counter'[Address][d])
    <3>1. /\ counter[Address][d] \in Nat /\ Covered(PassedOn(d), AddressLimit, counter[Address][d])
      BY <2>1, CounterType DEF CountInv
    <3>2. CASE d = day /\ Within(Address)
      <4>1. PassedOn(d)' \subseteq PassedOn(d) \cup {c}
        BY <2>2, <2>4 DEF PassedOn
      <4>2. PICK n \in Nat : /\ n = counter[Address][d] /\ counter'[Address][d] = n + 1
                            /\ n + 1 <= AddressLimit
        BY <2>1, <3>1, <3>2, CounterType DEF Within, LimitOf
      <4>3. Covered(PassedOn(d), AddressLimit, n)
        BY <3>1, <4>2
      <4>4. Covered(PassedOn(d)', AddressLimit, n + 1)
        BY <4>1, <4>2, <4>3, CoveredAdd
      <4>. QED
        BY <4>2, <4>4
    <3>3. CASE ~(d = day /\ Within(Address))
      <4>1. PassedOn(d)' \subseteq PassedOn(d)
        BY <2>2, <2>4, <3>3 DEF PassedOn
      <4>2. PICK m \in Nat : m = counter'[Address][d] /\ counter[Address][d] <= m
        <5>1. CASE d = day
          BY <2>1, <3>1, <5>1, CounterType
        <5>2. CASE d # day
          BY <2>1, <3>1, <5>2, CounterType
        <5>. QED
          BY <5>1, <5>2
      <4>. QED
        BY <3>1, <4>1, <4>2, CoveredSubset
    <3>. QED
      BY <3>2, <3>3
  <2>. QED
    BY <2>5, <2>6, <2>7, <2>8 DEF CountInv, Covered, FitsOn, PassedOn
<1>3. CASE PresignMintsKey(c)
  <2>1. /\ c.kind = "presign" /\ cpc[c] = "owned" /\ UNCHANGED <<fits, caller, counted, counter>>
        /\ \A b \in Calls \ {c} : keyUser'[b] = keyUser[b] /\ cpc'[b] = cpc[b]
        /\ cpc'[c] \in {"answered", "refused"}
        /\ keyUser'[c] # None => cpc'[c] = "answered"
    <3>1. keyUser[c] = None
      BY <1>3 DEF PresignMintsKey, IsAt, CountInv
    <3>. QED
      BY <1>3, <3>1 DEF PresignMintsKey, IsAt, To, RoutesTypeOK, limitVars
  <2>2. Admitted(c) /\ \A b \in Calls : Admitted(b)' => Admitted(b)
    BY <2>1 DEF Admitted
  <2>3. \A b \in Calls : keyUser'[b] # None => b.kind = "presign" /\ cpc'[b] = "answered"
    BY <2>1 DEF CountInv
  <2>4. \A b \in Calls : Admitted(b)' => fits'[b] /\ cpc'[b] \notin {"absent", "idle"}
    BY <2>1, <2>2 DEF CountInv
  <2>5. ASSUME NEW u \in UserKeys, NEW d \in Days
        PROVE  Covered(FitsOn(u, d)', UserLimit, counter'[u][d])
    <3>1. FitsOn(u, d)' \subseteq FitsOn(u, d)
      BY <2>1 DEF FitsOn
    <3>2. counter'[u][d] = counter[u][d] /\ counter[u][d] \in Nat
      BY <2>1 DEF LimitsTypeOK
    <3>. QED
      BY <3>1, <3>2, CoveredSubset DEF CountInv
  <2>6. ASSUME NEW d \in Days PROVE Covered(PassedOn(d)', AddressLimit, counter'[Address][d])
    <3>1. PassedOn(d)' \subseteq PassedOn(d)
      BY <2>1, <2>2 DEF PassedOn
    <3>2. counter'[Address][d] = counter[Address][d] /\ counter[Address][d] \in Nat
      BY <2>1 DEF LimitsTypeOK
    <3>. QED
      BY <3>1, <3>2, CoveredSubset DEF CountInv
  <2>. QED
    BY <2>3, <2>4, <2>5, <2>6 DEF CountInv, Covered, FitsOn, PassedOn
<1>. QED
  BY <1>1, <1>2, <1>3

\* What a step of a route that is no presign leaves alone.
LEMMA OtherThanPresigns ==
    ASSUME RoutesTypeOK, RoutesNext
    PROVE  \/ \E c \in Calls : PresignCountsUser(c) \/ PresignCountsAddress(c) \/ PresignMintsKey(c)
           \/ /\ UNCHANGED <<presignVars, counter>>
              /\ \A c \in Calls : c.kind = "presign" => cpc'[c] = cpc[c] /\ caller'[c] = caller[c]
<1>. USE DEF RoutesTypeOK, presignVars, limitVars, To, Starts, IsAt
<1>. DEFINE Kept == /\ UNCHANGED <<presignVars, counter>>
                    /\ \A c \in Calls : c.kind = "presign" => cpc'[c] = cpc[c] /\ caller'[c] = caller[c]
<1>1. ASSUME NEW c \in Calls, CreateProject(c) PROVE Kept
  BY <1>1 DEF CreateProject
<1>2. ASSUME NEW c \in Calls, EnqueueLooks(c) \/ EnqueueCharges(c) \/ EnqueueInserts(c) PROVE Kept
  BY <1>2 DEF EnqueueLooks, EnqueueCharges, EnqueueInserts
<1>3. ASSUME NEW c \in Calls, RegisterChecks(c) PROVE Kept
  BY <1>3 DEF RegisterChecks
<1>4. ASSUME NEW c \in Calls, RegisterCounts(c) PROVE Kept
  BY <1>4 DEF RegisterCounts
<1>5. ASSUME NEW c \in Calls, RegisterInserts(c) PROVE Kept
  BY <1>5 DEF RegisterInserts
<1>6. ASSUME NEW c \in Calls, ShareReads(c) PROVE Kept
  <2>1. PICK u \in Sessions, s \in CallSteps : caller' = [caller EXCEPT ![c] = u] /\ To(c, s)
    BY <1>6, ShareLooks DEF CallSteps
  <2>. QED
    BY <1>6, <2>1 DEF ShareReads, ShareKinds
<1>7. ASSUME NEW c \in Calls, ShareWrites(c) PROVE Kept
  BY <1>7 DEF ShareWrites, ShareKinds
<1>8. ASSUME NEW p \in Projects, WorkerClaims(p) \/ WorkerCompletes(p) \/ WorkerFails(p) PROVE Kept
  BY <1>8 DEF WorkerClaims, WorkerCompletes, WorkerFails, WorkerStep, routeVars
<1>9. ASSUME Midnight PROVE Kept
  BY <1>9 DEF Midnight, MidnightUTC, routeVars
<1>. QED
  BY <1>1, <1>2, <1>3, <1>4, <1>5, <1>6, <1>7, <1>8, <1>9 DEF RoutesNext

LEMMA CountInit == Init => CountInv
<1>. SUFFICES ASSUME Init PROVE CountInv
  OBVIOUS
<1>1. \A c \in Calls : cpc[c] \in {"absent", "idle"} /\ keyUser[c] = None
  BY DEF Init, RoutesInit
<1>2. /\ \A u, d : FitsOn(u, d) = {}
      /\ \A d : PassedOn(d) = {}
      /\ \A c \in Calls : ~Admitted(c)
  BY <1>1 DEF FitsOn, PassedOn, Admitted
<1>3. \A k \in Keys, d \in Days : counter[k][d] = 0
  BY DEF Init, LimitsInit
<1>4. \A k \in Keys, d \in Days : \A l \in Nat : Covered({}, l, counter[k][d])
  BY <1>3, FS_EmptySet DEF Covered
<1>. QED
  BY <1>1, <1>2, <1>4, LimitTypes DEF CountInv

\* No user, and no address, gets more upload calls admitted in a day than the caps
\* allow, however the calls and the day's end interleave (RateLimiter.check).
THEOREM UploadsWithinCaps == SiteSpec => []AdmittedWithinLimit
<1>1. TypeInv /\ CountInv /\ [Next]_vars => CountInv'
  <2>. SUFFICES ASSUME TypeInv, CountInv, [Next]_vars PROVE CountInv'
    OBVIOUS
  <2>. USE DEF TypeInv, TypeOK, RouteTypes
  <2>1. CASE RoutesNext
    BY <2>1, CountNext, CountKept, OtherThanPresigns
  <2>2. CASE (DoorsNext /\ UNCHANGED <<routeVars, limitVars>>) \/ UNCHANGED vars
    BY <2>2, CountKept DEF routeVars, limitVars, presignVars, vars
  <2>. QED
    BY <2>1, <2>2 DEF Next
<1>2. TypeInv /\ CountInv => AdmittedWithinLimit
  <2>. SUFFICES ASSUME TypeInv, CountInv, NEW d \in Days
                PROVE  /\ \A u \in UserKeys :
                            Cardinality({c \in Calls : Admitted(c) /\ caller[c] = u /\ counted[c][1] = d})
                                <= UserLimit
                       /\ Cardinality({c \in Calls : Admitted(c) /\ counted[c][2] = d}) <= AddressLimit
    BY DEF AdmittedWithinLimit
  <2>1. \A k \in Keys : counter[k][d] \in Nat
    BY DEF TypeInv, TypeOK, LimitsTypeOK
  <2>2. ASSUME NEW u \in UserKeys
        PROVE  Cardinality({c \in Calls : Admitted(c) /\ caller[c] = u /\ counted[c][1] = d}) <= UserLimit
    <3>. DEFINE S == {c \in Calls : Admitted(c) /\ caller[c] = u /\ counted[c][1] = d}
    <3>1. S \in SUBSET FitsOn(u, d)
      BY DEF CountInv, FitsOn, Admitted
    <3>2. Covered(S, UserLimit, counter[u][d])
      BY <2>1, <3>1, CoveredSubset, LimitTypes DEF CountInv
    <3>. QED
      BY <3>2 DEF Covered
  <2>3. Cardinality({c \in Calls : Admitted(c) /\ counted[c][2] = d}) <= AddressLimit
    BY DEF CountInv, PassedOn, Covered
  <2>. QED
    BY <2>2, <2>3
<1>. QED
  BY <1>1, <1>2, CountInit, SiteImplements, TypeCorrect, PTL DEF Spec, TypeInv

(***************************************************************************)
(* One account per person.                                                 *)
(***************************************************************************)
\* Rows that an identity, a session or a handler names.
Named(u) ==
    \/ \E d \in Doors : identity[d] = u
    \/ \E r \in Requests : u \in {answer[r], current[r], found[r]}

\* A login or a registration that has not inserted its row; a link inserts none.
NotInserted(r) ==
    r.kind = "link" \/ pc[r] \in {"absent", "idle", "user", "create", "naming"}

\* telegram_id is unique, and an identity names a row that is there.
TablesInv ==
    /\ \A u, x \in users : telegramOf[u] # None /\ telegramOf[u] = telegramOf[x] => u = x
    /\ \A d \in Doors : identity[d] # None => identity[d] \in users

\* No other row is the identity of a Telegram account that a named row has.
NamedInv ==
    /\ \A r \in Requests : NotInserted(r) => r \notin users /\ ~Named(r)
    /\ \A u \in users : Named(u) /\ telegramOf[u] # None => identity[telegramOf[u]] \in {None, u}

AloneInv ==
    \A q, r \in Requests : q # r /\ Running(q) /\ Running(r) => ~Collide(q, r)

\* Before a login writes the identity, the account's row is the one it goes on with.
TelegramInv(r) ==
    r.kind = "telegram" =>
        /\ pc[r] \in {"user", "create", "relook", "upsert"} /\ identity[r.door] # None
            => telegramOf[identity[r.door]] = r.door
        /\ pc[r] = "upsert" /\ found[r] \in users => telegramOf[found[r]] = r.door

EmailInv(r) ==
    r.kind = "email" =>
        /\ pc[r] \in {"create", "upsert"} => identity[r.door] = None
        /\ pc[r] = "bind" /\ found[r] \in users => identity[r.door] = found[r]

\* No row but that of the session has the Telegram account.
OnlyCurrent(r) == \A x \in users \ {current[r]} : telegramOf[x] # r.door

\* The session's user has no other Telegram account; the one to merge is the one
\* the account resolves to; what is attached resolves to nobody else.
LinkInv(r) ==
    r.kind = "link" =>
        /\ /\ pc[r] \in LinkAtWork /\ current[r] \in users
           /\ pc[r] \in {"attach", "telegram"} => faults = 0
           => telegramOf[current[r]] \in {None, r.door}
        /\ pc[r] = "user" => identity[r.door] = None
        /\ pc[r] = "merge" =>
            /\ found[r] \notin {None, current[r]} /\ found[r] \in users
            /\ \/ identity[r.door] = found[r]
               \/ identity[r.door] = None /\ telegramOf[found[r]] = r.door
        /\ pc[r] = "attach" /\ current[r] \in users =>
            \/ identity[r.door] = current[r]
            \/ identity[r.door] = None /\ OnlyCurrent(r)
        /\ pc[r] = "telegram" =>
            /\ current[r] \in users /\ identity[r.door] = current[r]
            /\ faults = 0 => OnlyCurrent(r)

Converges(r) == answer[r] # None /\ answer[r] \in users => ResolvesTo(r.door, answer[r])

\* Between writing the identity and the telegram_id of a link, they may disagree.
AgreeInv ==
    faults = 0 =>
        \A t \in Telegrams :
            /\ identity[t] # None
            /\ \A r \in Requests : r.kind = "link" /\ r.door = t => pc[r] # "telegram"
            => telegramOf[identity[t]] = t

HandlerInv(r) == TelegramInv(r) /\ EmailInv(r) /\ LinkInv(r) /\ Converges(r)

DoorInv ==
    /\ TablesInv
    /\ NamedInv
    /\ AloneInv
    /\ AgreeInv
    /\ \A r \in Requests : HandlerInv(r)

\* A step of one handler.
Moves(r) ==
    \A q \in Requests \ {r} :
        /\ pc'[q] = pc[q] /\ current'[q] = current[q]
        /\ found'[q] = found[q] /\ answer'[q] = answer[q]

\* Whoever a door leads to and is still there, it leads to.
ResolutionKept ==
    \A d \in Doors, w \in users : w \in users' /\ ResolvesTo(d, w) => ResolvesTo(d, w)'

LEMMA GotoMoves ==
    ASSUME DoorsTypeOK, NEW r \in Requests, NEW s, Goto(r, s)
    PROVE  /\ Moves(r) /\ pc'[r] = s
           /\ current'[r] = current[r] /\ found'[r] = found[r] /\ answer'[r] = answer[r]
BY DEF DoorsTypeOK, Goto, Moves

LEMMA GoWithMoves ==
    ASSUME DoorsTypeOK, NEW r \in Requests, NEW s, NEW u, GoWith(r, s, u)
    PROVE  /\ Moves(r) /\ pc'[r] = s
           /\ current'[r] = current[r] /\ found'[r] = u /\ answer'[r] = answer[r]
BY DEF DoorsTypeOK, GoWith, Moves

LEMMA AnswerMoves ==
    ASSUME DoorsTypeOK, NEW r \in Requests, NEW u, Answer(r, u)
    PROVE  /\ Moves(r) /\ pc'[r] = "answered"
           /\ current'[r] = current[r] /\ found'[r] = found[r] /\ answer'[r] = u
BY DEF DoorsTypeOK, Answer, Moves

LEMMA AloneKept ==
    ASSUME AloneInv, ~Overlap, NEW r \in Requests, Moves(r),
           Running(r)' => Running(r) \/ MayArrive(r)
    PROVE  AloneInv'
<1>1. \A p, q \in Requests : Collide(p, q) => Collide(q, p)
  BY RequestTypes, TablesAssumption DEF Collide
<1>2. \A q \in Requests \ {r} : Running(q)' <=> Running(q)
  BY DEF Moves, Running
<1>3. ASSUME NEW q \in Requests \ {r}, Running(q)', Running(r)'
      PROVE  ~Collide(q, r) /\ ~Collide(r, q)
  BY <1>1, <1>2, <1>3 DEF AloneInv, MayArrive
<1>. QED
  BY <1>2, <1>3 DEF AloneInv

LEMMA NamedGrows ==
    ASSUME NEW r \in Requests, NEW x, Moves(r),
           {answer'[r], current'[r], found'[r]} \subseteq {answer[r], current[r], found[r], x},
           \A d \in Doors : identity'[d] = identity[d] \/ Named(identity'[d])
    PROVE  \A u : Named(u)' => Named(u) \/ u = x
BY DEF Named, Moves

\* A handler that writes none of the tables.
LEMMA QuietStep ==
    ASSUME DoorTypes, DoorInv, ~Overlap, NEW r \in Requests, NEW x,
           Moves(r), UNCHANGED doorTables, faults' = 0 => faults = 0,
           NotInserted(r)' => NotInserted(r),
           Running(r)' => Running(r) \/ MayArrive(r),
           r.kind = "link" /\ pc[r] = "telegram" => faults' # 0,
           {answer'[r], current'[r], found'[r]} \subseteq {answer[r], current[r], found[r], x},
           \/ Named(x)
           \/ x \in users /\ (telegramOf[x] # None => identity[telegramOf[x]] \in {None, x}),
           HandlerInv(r)'
    PROVE  DoorInv' /\ ResolutionKept
<1>1. UNCHANGED <<users, telegramOf, identity>>
  BY DEF doorTables
<1>2. TablesInv'
  BY <1>1 DEF DoorInv, TablesInv
<1>3. \A u : Named(u)' => Named(u) \/ u = x
  BY <1>1, NamedGrows
<1>4. NamedInv'
  <2>1. ASSUME NEW q \in Requests, NotInserted(q)' PROVE q \notin users /\ ~Named(q)'
    <3>1. NotInserted(q)
      BY <2>1 DEF Moves, NotInserted
    <3>. QED
      BY <1>3, <3>1 DEF DoorInv, NamedInv
  <2>2. ASSUME NEW u \in users, Named(u)', telegramOf[u] # None PROVE identity[telegramOf[u]] \in {None, u}
    BY <1>3, <2>2 DEF DoorInv, NamedInv
  <2>. QED
    BY <1>1, <2>1, <2>2 DEF NamedInv
<1>5. AloneInv'
  BY AloneKept DEF DoorInv
<1>6. AgreeInv'
  BY <1>1 DEF DoorInv, AgreeInv, Moves
<1>7. ASSUME NEW q \in Requests \ {r} PROVE HandlerInv(q)'
  <2>1. HandlerInv(q) /\ pc'[q] = pc[q] /\ current'[q] = current[q] /\ found'[q] = found[q] /\ answer'[q] = answer[q]
    BY DEF DoorInv, Moves
  <2>. QED
    BY <1>1, <2>1 DEF HandlerInv, TelegramInv, EmailInv, LinkInv, OnlyCurrent, Converges, ResolvesTo
<1>. QED
  BY <1>1, <1>2, <1>4, <1>5, <1>6, <1>7 DEF DoorInv, ResolutionKept, ResolvesTo

\* A row is inserted for the handler's request.
LEMMA InsertStep ==
    ASSUME DoorTypes, DoorInv, ~Overlap, NEW r \in Requests, NEW t, NEW x \in {r, None},
           InsertUser(r, t), pc[r] \in {"create", "naming"}, r.kind # "link",
           t = None \/ (t = r.door /\ t \in Telegrams),
           x = None \/ t = None \/ identity[t] = None,
           Moves(r), faults' = faults, ~NotInserted(r)',
           {answer'[r], current'[r], found'[r]} \subseteq {answer[r], current[r], found[r], x},
           HandlerInv(r)'
    PROVE  DoorInv' /\ ResolutionKept
<1>1. /\ users' = users \cup {r} /\ UNCHANGED identity
      /\ telegramOf'[r] = t
      /\ \A u \in users : telegramOf'[u] = telegramOf[u]
      /\ t # None => \A u \in users : telegramOf[u] # t
      /\ r \notin users /\ ~Named(r)
  <2>1. r \in Rows /\ r \notin users /\ ~Named(r)
    BY RequestTypes DEF DoorInv, NamedInv, NotInserted
  <2>. QED
    BY <2>1 DEF InsertUser, HasTelegram, DoorTypes, TablesTypeOK
<1>2. TablesInv'
  BY <1>1 DEF DoorInv, TablesInv
<1>3. \A u : Named(u)' => Named(u) \/ u = x
  BY <1>1, NamedGrows
<1>4. r # None /\ \A u \in users : u # r /\ u # None
  BY <1>1, RequestTypes, TablesAssumption DEF DoorTypes, TablesTypeOK
<1>5. NamedInv'
  <2>1. ASSUME NEW q \in Requests, NotInserted(q)' PROVE q \notin users' /\ ~Named(q)'
    <3>1. NotInserted(q) /\ q # r /\ q # None
      BY <2>1, RequestTypes DEF Moves, NotInserted
    <3>. QED
      BY <1>1, <1>3, <3>1 DEF DoorInv, NamedInv
  <2>2. ASSUME NEW u \in users', Named(u)', telegramOf'[u] # None PROVE identity[telegramOf'[u]] \in {None, u}
    <3>1. CASE u \in users
      <4>1. Named(u) /\ telegramOf[u] # None
        BY <1>1, <1>3, <1>4, <2>2, <3>1
      <4>. QED
        BY <1>1, <3>1, <4>1 DEF DoorInv, NamedInv
    <3>2. CASE u = r
      <4>1. x = r /\ t # None
        BY <1>1, <1>3, <2>2, <3>2
      <4>. QED
        BY <1>1, <1>4, <3>2, <4>1
    <3>. QED
      BY <1>1, <3>1, <3>2
  <2>. QED
    BY <1>1, <2>1, <2>2 DEF NamedInv
<1>6. AloneInv'
  BY AloneKept DEF DoorInv, Running, Over
<1>7. AgreeInv'
  <2>1. \A q \in Requests : q.kind = "link" => pc'[q] = pc[q]
    BY DEF Moves
  <2>2. \A d \in Telegrams : identity[d] # None => telegramOf'[identity[d]] = telegramOf[identity[d]]
    BY <1>1 DEF DoorInv, TablesInv, Doors
  <2>. QED
    BY <1>1, <2>1, <2>2 DEF DoorInv, AgreeInv
<1>8. ResolutionKept
  BY <1>1 DEF ResolutionKept, ResolvesTo
<1>9. ASSUME NEW q \in Requests \ {r} PROVE HandlerInv(q)'
  <2>1. /\ HandlerInv(q) /\ pc'[q] = pc[q] /\ current'[q] = current[q]
        /\ found'[q] = found[q] /\ answer'[q] = answer[q]
    BY DEF DoorInv, Moves
  <2>2. current[q] # r /\ found[q] # r /\ answer[q] # r /\ \A d \in Doors : identity[d] # r
    BY <1>1 DEF Named
  <2>3. q.door \in Doors /\ (identity[q.door] # None => identity[q.door] \in users)
    BY RequestTypes DEF DoorInv, TablesInv
  <2>4. TelegramInv(q)' /\ EmailInv(q)'
    BY <1>1, <2>1, <2>2, <2>3 DEF HandlerInv, TelegramInv, EmailInv
  <2>5. LinkInv(q)'
    <3>. SUFFICES ASSUME q.kind = "link" PROVE LinkInv(q)'
      BY DEF LinkInv
    <3>1. pc[q] \in LinkAtWork => t # q.door
      <4>1. pc[q] \in LinkAtWork => Running(q)
        BY DEF LinkAtWork, Running, Over
      <4>2. Running(r)
        BY DEF Running, Over
      <4>. QED
        BY <4>1, <4>2, RequestTypes DEF DoorInv, AloneInv, Collide
    <3>2. pc[q] \in LinkAtWork /\ OnlyCurrent(q) => OnlyCurrent(q)'
      BY <1>1, <2>1, <3>1 DEF OnlyCurrent
    <3>. QED
      BY <1>1, <2>1, <2>2, <3>2 DEF HandlerInv, LinkInv, LinkAtWork
  <2>6. Converges(q)'
    <3>1. answer[q] # None /\ answer[q] \in users' => answer[q] \in users
      BY <1>1, <2>2
    <3>. QED
      BY <1>1, <1>8, <2>1, <2>3, <3>1 DEF HandlerInv, Converges, ResolutionKept
  <2>. QED
    BY <2>4, <2>5, <2>6 DEF HandlerInv
<1>. QED
  BY <1>2, <1>5, <1>6, <1>7, <1>8, <1>9 DEF DoorInv

\* The identity of the handler's door is written.
LEMMA UpsertStep ==
    ASSUME DoorTypes, DoorInv, ~Overlap, NEW r \in Requests, NEW u, NEW a,
           UpsertIdentity(r.door, u, a), u \in {current[r], found[r]}, Running(r),
           r.kind # "register",
           \A w \in users : ResolvesTo(r.door, w) => w = u,
           r.kind = "telegram" => telegramOf[u] = r.door,
           r.kind = "link" => pc[r] # "telegram" /\ pc'[r] = "telegram",
           Moves(r), faults' = faults, NotInserted(r)' => NotInserted(r),
           {answer'[r], current'[r], found'[r]} \subseteq {answer[r], current[r], found[r]},
           HandlerInv(r)'
    PROVE  DoorInv' /\ ResolutionKept
<1>. DEFINE d == r.door
<1>1. /\ u \in users /\ UNCHANGED <<users, telegramOf>>
      /\ identity'[d] = u /\ d \in Doors
      /\ \A e \in Doors \ {d} : identity'[e] = identity[e]
  <2>1. d \in Doors
    BY RequestTypes
  <2>. QED
    BY <2>1 DEF UpsertIdentity, CanUpsert, DoorTypes, TablesTypeOK
<1>2. TablesInv'
  BY <1>1 DEF DoorInv, TablesInv
<1>3. u # None /\ Named(u)
  BY <1>1, TablesAssumption DEF DoorTypes, TablesTypeOK, Named
<1>4. \A v : Named(v)' => Named(v)
  <2>1. \A e \in Doors : identity'[e] = identity[e] \/ Named(identity'[e])
    BY <1>1, <1>3
  <2>2. \A v : Named(v)' => Named(v) \/ v = u
    BY <2>1, NamedGrows
  <2>. QED
    BY <1>3, <2>2
<1>5. NamedInv'
  <2>1. ASSUME NEW q \in Requests, NotInserted(q)' PROVE q \notin users' /\ ~Named(q)'
    <3>1. NotInserted(q)
      BY <2>1 DEF Moves, NotInserted
    <3>. QED
      BY <1>1, <1>4, <3>1 DEF DoorInv, NamedInv
  <2>2. ASSUME NEW v \in users, Named(v)', telegramOf[v] # None
        PROVE identity'[telegramOf[v]] \in {None, v}
    <3>1. identity[telegramOf[v]] \in {None, v} /\ telegramOf[v] \in Telegrams
      BY <1>4, <2>2 DEF DoorInv, NamedInv, DoorTypes, TablesTypeOK
    <3>2. CASE telegramOf[v] = d
      <4>1. ResolvesTo(d, v)
        BY <3>1, <3>2 DEF ResolvesTo
      <4>. QED
        BY <1>1, <3>2, <4>1
    <3>3. CASE telegramOf[v] # d
      BY <1>1, <3>1, <3>3 DEF Doors
    <3>. QED
      BY <3>2, <3>3
  <2>. QED
    BY <1>1, <2>1, <2>2 DEF NamedInv
<1>6. AloneInv'
  BY AloneKept DEF DoorInv
<1>7. AgreeInv'
  <2>. SUFFICES ASSUME faults = 0, NEW t \in Telegrams, identity'[t] # None,
                       \A q \in Requests : q.kind = "link" /\ q.door = t => pc'[q] # "telegram"
                PROVE  telegramOf[identity'[t]] = t
    BY <1>1 DEF AgreeInv
  <2>1. CASE t = d
    <3>1. r.kind = "telegram"
      BY <2>1, RequestTypes, TablesAssumption DEF Kinds
    <3>. QED
      BY <1>1, <2>1, <3>1
  <2>2. CASE t # d
    <3>1. identity'[t] = identity[t]
      BY <1>1, <2>2 DEF Doors
    <3>2. \A q \in Requests : q.kind = "link" /\ q.door = t => pc[q] # "telegram"
      BY <2>2 DEF Moves
    <3>. QED
      BY <3>1, <3>2 DEF DoorInv, AgreeInv
  <2>. QED
    BY <2>1, <2>2
<1>8. ResolutionKept
  <2>1. ASSUME NEW e \in Doors, NEW w \in users, ResolvesTo(e, w) PROVE ResolvesTo(e, w)'
    <3>1. CASE e = d
      BY <1>1, <2>1, <3>1 DEF ResolvesTo
    <3>2. CASE e # d
      BY <1>1, <2>1, <3>2 DEF ResolvesTo
    <3>. QED
      BY <3>1, <3>2
  <2>. QED
    BY <2>1 DEF ResolutionKept
<1>9. ASSUME NEW q \in Requests \ {r} PROVE HandlerInv(q)'
  <2>1. /\ HandlerInv(q) /\ pc'[q] = pc[q] /\ current'[q] = current[q]
        /\ found'[q] = found[q] /\ answer'[q] = answer[q]
    BY DEF DoorInv, Moves
  <2>2. q.door \in Doors
    BY RequestTypes
  <2>3. Running(q) => ~Collide(q, r)
    BY DEF DoorInv, AloneInv
  <2>4. TelegramInv(q)'
    <3>. SUFFICES ASSUME q.kind = "telegram" PROVE TelegramInv(q)'
      BY DEF TelegramInv
    <3>1. CASE pc[q] \in {"user", "create", "relook", "upsert"} /\ q.door = d
      <4>1. Running(q)
        BY <3>1 DEF Running, Over
      <4>2. r.kind = "telegram"
        BY <2>3, <3>1, <4>1, RequestTypes, TablesAssumption DEF Collide, Kinds
      <4>. QED
        BY <1>1, <2>1, <3>1, <4>2 DEF HandlerInv, TelegramInv
    <3>2. CASE ~(pc[q] \in {"user", "create", "relook", "upsert"} /\ q.door = d)
      BY <1>1, <2>1, <2>2, <3>2 DEF HandlerInv, TelegramInv
    <3>. QED
      BY <3>1, <3>2
  <2>5. EmailInv(q)'
    <3>. SUFFICES ASSUME q.kind = "email" PROVE EmailInv(q)'
      BY DEF EmailInv
    <3>1. pc[q] \in {"create", "upsert", "bind"} => q.door # d
      BY <2>3 DEF Running, Over, Collide
    <3>. QED
      BY <1>1, <2>1, <2>2, <3>1 DEF HandlerInv, EmailInv
  <2>6. LinkInv(q)'
    <3>. SUFFICES ASSUME q.kind = "link" PROVE LinkInv(q)'
      BY DEF LinkInv
    <3>1. pc[q] \in LinkAtWork => q.door # d
      BY <2>3 DEF Running, Over, Collide, LinkAtWork
    <3>2. OnlyCurrent(q) <=> OnlyCurrent(q)'
      BY <1>1, <2>1 DEF OnlyCurrent
    <3>. QED
      BY <1>1, <2>1, <2>2, <3>1, <3>2 DEF HandlerInv, LinkInv, LinkAtWork
  <2>7. Converges(q)'
    BY <1>1, <1>8, <2>1, <2>2 DEF HandlerInv, Converges, ResolutionKept
  <2>. QED
    BY <2>4, <2>5, <2>6, <2>7 DEF HandlerInv
<1>. QED
  BY <1>2, <1>5, <1>6, <1>7, <1>8, <1>9 DEF DoorInv

\* The session's user gets the Telegram account whose identity it has.
LEMMA SetTelegramStep ==
    ASSUME DoorTypes, DoorInv, ~Overlap, NEW r \in Requests,
           At(r, "link", "telegram"), SetTelegramIfNull(current[r], r.door),
           Answer(r, current[r]), DoorStep
    PROVE  DoorInv' /\ ResolutionKept
<1>. DEFINE t == r.door
            u == current[r]
<1>1. /\ u \in users /\ identity[t] = u /\ u # None
      /\ faults = 0 => OnlyCurrent(r) /\ telegramOf[u] \in {None, t}
      /\ r.kind = "link" /\ pc[r] = "telegram" /\ t \in Telegrams /\ t \in Doors /\ t # None
  <2>1. HandlerInv(r) /\ r.kind = "link" /\ pc[r] = "telegram"
    BY DEF DoorInv, At
  <2>. QED
    BY <2>1, RequestTypes, TablesAssumption DEF HandlerInv, LinkInv, LinkAtWork, DoorTypes, TablesTypeOK
<1>2. /\ UNCHANGED <<users, identity, faults>>
      /\ \A x \in users \ {u} : telegramOf'[x] = telegramOf[x]
      /\ telegramOf'[u] = IF telegramOf[u] = None THEN t ELSE telegramOf[u]
      /\ telegramOf[u] = None => \A x \in users : telegramOf[x] # t
  BY <1>1 DEF SetTelegramIfNull, CanSetTelegram, HasTelegram, DoorTypes, TablesTypeOK, DoorStep
<1>3. Moves(r) /\ pc'[r] = "answered" /\ current'[r] = u /\ found'[r] = found[r] /\ answer'[r] = u
  BY AnswerMoves DEF DoorTypes
<1>4. TablesInv'
  <2>1. ASSUME NEW x \in users, NEW y \in users, telegramOf'[x] # None, telegramOf'[x] = telegramOf'[y]
        PROVE  x = y
    <3>1. CASE x # u /\ y # u
      BY <1>2, <2>1, <3>1 DEF DoorInv, TablesInv
    <3>2. CASE x = u \/ y = u
      BY <1>1, <1>2, <2>1, <3>2 DEF DoorInv, TablesInv
    <3>. QED
      BY <3>1, <3>2
  <2>2. \A d \in Doors : identity'[d] # None => identity'[d] \in users'
    BY <1>2 DEF DoorInv, TablesInv
  <2>. QED
    BY <1>2, <2>1, <2>2 DEF TablesInv
<1>5. \A v : Named(v)' => Named(v)
  <2>1. \A v : Named(v)' => Named(v) \/ v = u
    <3>1. {answer'[r], current'[r], found'[r]} \subseteq {answer[r], current[r], found[r], u}
      BY <1>3
    <3>2. Moves(r) /\ \A d \in Doors : identity'[d] = identity[d]
      BY <1>2, <1>3
    <3>. HIDE DEF u
    <3>. QED
      BY <3>1, <3>2, NamedGrows
  <2>. QED
    BY <2>1 DEF Named
<1>6. NamedInv'
  <2>1. ASSUME NEW q \in Requests, NotInserted(q)' PROVE q \notin users' /\ ~Named(q)'
    <3>1. NotInserted(q)
      BY <1>3, <2>1 DEF Moves, NotInserted
    <3>. QED
      BY <1>2, <1>5, <3>1 DEF DoorInv, NamedInv
  <2>2. ASSUME NEW v \in users, Named(v)', telegramOf'[v] # None
        PROVE identity[telegramOf'[v]] \in {None, v}
    BY <1>1, <1>2, <1>5, <2>2 DEF DoorInv, NamedInv
  <2>. QED
    BY <1>2, <2>1, <2>2 DEF NamedInv
<1>7. AloneInv'
  BY <1>3, AloneKept DEF DoorInv, Running, Over
<1>8. AgreeInv'
  <2>. SUFFICES ASSUME faults = 0, NEW s \in Telegrams, identity[s] # None,
                       \A q \in Requests : q.kind = "link" /\ q.door = s => pc'[q] # "telegram"
                PROVE  telegramOf'[identity[s]] = s
    BY <1>2 DEF AgreeInv
  <2>1. CASE s = t
    BY <1>1, <1>2, <2>1
  <2>2. CASE s # t
    <3>1. \A q \in Requests : q.kind = "link" /\ q.door = s => pc[q] # "telegram"
      BY <1>3, <2>2 DEF Moves
    <3>2. telegramOf[identity[s]] = s /\ identity[s] \in users /\ s # None
      BY <3>1, TablesAssumption DEF DoorInv, AgreeInv, TablesInv, Doors
    <3>. QED
      BY <1>1, <1>2, <3>2
  <2>. QED
    BY <2>1, <2>2
<1>9. ResolutionKept
  <2>1. ASSUME NEW e \in Doors, NEW w \in users, ResolvesTo(e, w) PROVE ResolvesTo(e, w)'
    BY <1>1, <1>2, <2>1, TablesAssumption DEF ResolvesTo
  <2>. QED
    BY <2>1 DEF ResolutionKept
<1>10. ASSUME NEW q \in Requests \ {r} PROVE HandlerInv(q)'
  <2>1. /\ HandlerInv(q) /\ pc'[q] = pc[q] /\ current'[q] = current[q]
        /\ found'[q] = found[q] /\ answer'[q] = answer[q]
    BY <1>3 DEF DoorInv, Moves
  <2>2. /\ q.door \in Doors /\ q.door # None
        /\ identity[q.door] # None => identity[q.door] \in users
    BY RequestTypes DEF DoorInv, TablesInv
  <2>3. \A x \in users : telegramOf[x] = q.door => telegramOf'[x] = q.door
    BY <1>2, <2>2
  <2>4. TelegramInv(q)' /\ EmailInv(q)'
    BY <1>2, <2>1, <2>2, <2>3 DEF HandlerInv, TelegramInv, EmailInv
  <2>5. LinkInv(q)'
    <3>1. q.kind = "link" => pc[q] \notin LinkAtWork
      <4>1. Running(r) /\ (q.kind = "link" /\ pc[q] \in LinkAtWork => Running(q))
        BY <1>1 DEF Running, Over, LinkAtWork
      <4>2. q.kind = "link" => Collide(q, r)
        BY <1>1 DEF Collide
      <4>. QED
        BY <4>1, <4>2 DEF DoorInv, AloneInv
    <3>. QED
      BY <2>1, <3>1 DEF LinkInv, LinkAtWork
  <2>6. Converges(q)'
    BY <1>2, <1>9, <2>1, <2>2 DEF HandlerInv, Converges, ResolutionKept
  <2>. QED
    BY <2>4, <2>5, <2>6 DEF HandlerInv
<1>11. HandlerInv(r)'
  BY <1>1, <1>2, <1>3 DEF HandlerInv, TelegramInv, EmailInv, LinkInv, LinkAtWork, Converges, ResolvesTo
<1>. QED
  BY <1>4, <1>6, <1>7, <1>8, <1>9, <1>10, <1>11 DEF DoorInv

\* Who is resolved to the orphan is resolved to the session's user afterwards.
LEMMA MergeStep ==
    ASSUME DoorTypes, DoorInv, ~Overlap, NEW r \in Requests,
           At(r, "link", "merge"), MergeUsers(current[r], found[r]), Goto(r, "attach"),
           faults' = faults
    PROVE  /\ DoorInv' /\ ResolutionKept
           /\ {current[r], found[r]} \subseteq users /\ current[r] # found[r]
           /\ \A d \in Doors : ResolvesTo(d, found[r]) => ResolvesTo(d, current[r])'
<1>. DEFINE t == r.door
            c == current[r]
            o == found[r]
<1>1. /\ r.kind = "link" /\ pc[r] = "merge" /\ HandlerInv(r)
      /\ t \in Telegrams /\ t \in Doors /\ t # None
  BY RequestTypes DEF DoorInv, At
<1>2. /\ c \in users /\ o \in users /\ c # o /\ c # None /\ o # None
      /\ telegramOf[c] \in {None, t}
      /\ identity[t] = o \/ (identity[t] = None /\ telegramOf[o] = t)
  <2>1. c \in users /\ o \in users /\ c # o
    BY DEF MergeUsers
  <2>2. c # None /\ o # None
    BY <2>1, TablesAssumption DEF DoorTypes, TablesTypeOK
  <2>3. LinkInv(r)
    BY <1>1 DEF HandlerInv
  <2>. QED
    BY <1>1, <2>1, <2>2, <2>3 DEF LinkInv, LinkAtWork
<1>3. Named(c) /\ Named(o)
  BY DEF Named
<1>4. telegramOf[c] = None
  BY <1>1, <1>2, <1>3 DEF DoorInv, NamedInv, TablesInv
<1>5. /\ users' = users \ {o}
      /\ \A x \in users \ {c, o} : telegramOf'[x] = telegramOf[x]
      /\ telegramOf'[c] = telegramOf[o]
      /\ \A d \in Doors : identity'[d] = IF identity[d] = o THEN c ELSE identity[d]
  <2>1. c \in Rows /\ o \in Rows /\ telegramOf \in [Rows -> Telegrams \cup {None}] /\ users \subseteq Rows
    BY <1>2 DEF DoorTypes, TablesTypeOK
  <2>. QED
    BY <1>2, <1>4, <2>1 DEF MergeUsers, Moved
<1>6. Moves(r) /\ pc'[r] = "attach" /\ current'[r] = c /\ found'[r] = o /\ answer'[r] = answer[r]
  BY GotoMoves DEF DoorTypes
<1>7. TablesInv'
  BY <1>2, <1>5 DEF DoorInv, TablesInv
<1>8. \A v : Named(v)' => Named(v)
  <2>1. \A d \in Doors : identity'[d] = identity[d] \/ Named(identity'[d])
    BY <1>3, <1>5
  <2>2. \A v : Named(v)' => Named(v) \/ v = c
    BY <1>6, <2>1, NamedGrows
  <2>. QED
    BY <1>3, <2>2
<1>9. NamedInv'
  <2>1. ASSUME NEW q \in Requests, NotInserted(q)' PROVE q \notin users' /\ ~Named(q)'
    <3>1. NotInserted(q)
      BY <1>6, <2>1 DEF Moves, NotInserted
    <3>. QED
      BY <1>5, <1>8, <3>1 DEF DoorInv, NamedInv
  <2>2. ASSUME NEW v \in users', Named(v)', telegramOf'[v] # None
        PROVE identity'[telegramOf'[v]] \in {None, v}
    <3>1. v \in users /\ Named(v) /\ v # o
      BY <1>5, <1>8, <2>2
    <3>2. CASE v = c
      <4>1. identity[telegramOf[o]] \in {None, o} /\ telegramOf[o] \in Doors
        BY <1>2, <1>3, <1>5, <2>2, <3>2 DEF DoorInv, NamedInv, DoorTypes, TablesTypeOK, Doors
      <4>. QED
        BY <1>2, <1>5, <3>2, <4>1
    <3>3. CASE v # c
      <4>1. identity[telegramOf[v]] \in {None, v} /\ telegramOf[v] \in Doors
        BY <1>5, <2>2, <3>1, <3>3 DEF DoorInv, NamedInv, DoorTypes, TablesTypeOK, Doors
      <4>. QED
        BY <1>2, <1>5, <3>1, <3>3, <4>1
    <3>. QED
      BY <3>2, <3>3
  <2>. QED
    BY <2>1, <2>2 DEF NamedInv
<1>10. AloneInv'
  BY <1>1, <1>6, AloneKept DEF DoorInv, Running, Over
<1>11. \A q \in Requests : q.kind = "link" /\ pc[q] \in LinkAtWork => q = r
  <2>1. Running(r) /\ \A q \in Requests : pc[q] \in LinkAtWork => Running(q)
    BY <1>1 DEF Running, Over, LinkAtWork
  <2>. QED
    BY <1>1, <2>1 DEF DoorInv, AloneInv, Collide
<1>12. faults = 0 => \A s \in Telegrams : identity[s] # None => telegramOf[identity[s]] = s
  BY <1>1, <1>11 DEF DoorInv, AgreeInv, LinkAtWork
<1>13. AgreeInv'
  <2>. SUFFICES ASSUME faults = 0, NEW s \in Telegrams, identity'[s] # None
                PROVE  telegramOf'[identity'[s]] = s
    BY DEF AgreeInv
  <2>1. /\ s \in Doors /\ s # None
        /\ identity[s] # None /\ telegramOf[identity[s]] = s /\ identity[s] \in users
    BY <1>2, <1>5, <1>12, TablesAssumption DEF DoorInv, TablesInv, Doors
  <2>. QED
    BY <1>4, <1>5, <2>1
<1>14. ResolutionKept
  <2>1. ASSUME NEW e \in Doors, NEW w \in users, w # o, ResolvesTo(e, w) PROVE ResolvesTo(e, w)'
    <3>1. e \in Telegrams => e # None
      BY TablesAssumption
    <3>. QED
      BY <1>2, <1>4, <1>5, <2>1, <3>1 DEF ResolvesTo
  <2>. QED
    BY <1>5, <2>1 DEF ResolutionKept
<1>15. ASSUME NEW d \in Doors, ResolvesTo(d, o) PROVE ResolvesTo(d, c)'
  BY <1>2, <1>5, <1>6, <1>15 DEF ResolvesTo
<1>16. ASSUME NEW q \in Requests \ {r} PROVE HandlerInv(q)'
  <2>1. /\ HandlerInv(q) /\ pc'[q] = pc[q] /\ current'[q] = current[q]
        /\ found'[q] = found[q] /\ answer'[q] = answer[q]
    BY <1>6 DEF DoorInv, Moves
  <2>2. /\ q.door \in Doors /\ q.door # None
        /\ identity[q.door] # None => identity[q.door] \in users
    BY RequestTypes DEF DoorInv, TablesInv
  <2>3. TelegramInv(q)'
    <3>1. \A x \in users \ {o} : telegramOf[x] = q.door => telegramOf'[x] = q.door
      BY <1>4, <1>5, <2>2
    <3>2. identity[q.door] = o => identity'[q.door] = c
      BY <1>5, <2>2
    <3>3. identity[q.door] # o => identity'[q.door] = identity[q.door]
      BY <1>5, <2>2
    <3>. SUFFICES ASSUME q.kind = "telegram" PROVE TelegramInv(q)'
      BY DEF TelegramInv
    <3>4. TelegramInv(q)
      BY <2>1 DEF HandlerInv
    <3>5. ASSUME pc[q] \in {"user", "create", "relook", "upsert"}, identity'[q.door] # None
          PROVE  telegramOf'[identity'[q.door]] = q.door
      <4>1. identity[q.door] # None
        BY <1>2, <3>2, <3>3, <3>5
      <4>2. telegramOf[identity[q.door]] = q.door /\ identity[q.door] \in users
        BY <2>2, <3>4, <3>5, <4>1 DEF TelegramInv
      <4>. QED
        BY <1>5, <3>1, <3>2, <3>3, <4>2
    <3>6. pc[q] = "upsert" /\ found[q] \in users' => telegramOf'[found[q]] = q.door
      BY <1>5, <3>1, <3>4 DEF TelegramInv
    <3>. QED
      BY <2>1, <3>5, <3>6 DEF TelegramInv
  <2>4. EmailInv(q)'
    BY <1>2, <1>5, <2>1, <2>2 DEF HandlerInv, EmailInv
  <2>5. LinkInv(q)'
    BY <1>11, <2>1 DEF LinkInv, LinkAtWork
  <2>6. Converges(q)'
    BY <1>5, <1>14, <2>1, <2>2 DEF HandlerInv, Converges, ResolutionKept
  <2>. QED
    BY <2>3, <2>4, <2>5, <2>6 DEF HandlerInv
<1>17. HandlerInv(r)'
  <2>1. faults = 0 => telegramOf[o] = t
    BY <1>1, <1>2, <1>12
  <2>2. identity'[t] = c \/ (identity'[t] = None /\ OnlyCurrent(r)')
    BY <1>1, <1>2, <1>5, <1>6 DEF OnlyCurrent, DoorInv, TablesInv
  <2>3. LinkInv(r)'
    BY <1>1, <1>5, <1>6, <2>1, <2>2 DEF LinkInv, LinkAtWork
  <2>4. Converges(r)'
    BY <1>1, <1>5, <1>6, <1>14 DEF HandlerInv, Converges, ResolutionKept
  <2>. QED
    BY <1>1, <2>3, <2>4 DEF HandlerInv, TelegramInv, EmailInv
<1>. QED
  BY <1>2, <1>7, <1>9, <1>10, <1>13, <1>14, <1>15, <1>16, <1>17 DEF DoorInv

\* Where the answer stays what it was and nobody resolves elsewhere, it converges.
LEMMA ConvergesKept ==
    ASSUME DoorInv, NEW r \in Requests, answer'[r] = answer[r], UNCHANGED doorTables
    PROVE  Converges(r)'
BY DEF DoorInv, HandlerInv, Converges, ResolvesTo, doorTables

\* Before the row is inserted nobody resolves to it.
LEMMA UnansweredYet ==
    ASSUME DoorTypes, DoorInv, NEW r \in Requests, NotInserted(r)
    PROVE  answer[r] # r /\ found[r] # r /\ current[r] # r
BY DEF DoorInv, NamedInv, Named

\* A handler that ends without an answer.
LEMMA EndsStep ==
    ASSUME DoorTypes, DoorInv, ~Overlap, NEW r \in Requests, NEW s \in {"raised", "refused"},
           Goto(r, s), UNCHANGED doorTables, faults' = 0 => faults = 0,
           r.kind = "link" /\ pc[r] = "telegram" => faults' # 0
    PROVE  DoorInv' /\ ResolutionKept
<1>1. /\ Moves(r) /\ pc'[r] = s
      /\ current'[r] = current[r] /\ found'[r] = found[r] /\ answer'[r] = answer[r]
  BY GotoMoves DEF DoorTypes
<1>2. HandlerInv(r)'
  BY <1>1, ConvergesKept DEF HandlerInv, TelegramInv, EmailInv, LinkInv, LinkAtWork
<1>3. Named(answer[r])
  BY DEF Named
<1>. QED
  BY <1>1, <1>2, <1>3, QuietStep DEF NotInserted, Running, Over

LEMMA TelegramDoor ==
    ASSUME DoorTypes, DoorInv, ~Overlap, NEW r \in Requests,
           \/ TelegramLooksIdentity(r) \/ TelegramLooksUser(r) \/ TelegramCreates(r)
           \/ TelegramLooksAgain(r) \/ TelegramUpserts(r)
    PROVE  DoorInv' /\ ResolutionKept
<1>. DEFINE d == r.door
<1>1. r.kind = "telegram" /\ d \in Telegrams /\ d \in Doors /\ d # None
  BY RequestTypes, TablesAssumption
     DEF TelegramLooksIdentity, TelegramLooksUser, TelegramCreates, TelegramLooksAgain, TelegramUpserts, At
<1>2. faults' = faults
  BY DEF DoorStep, TelegramLooksIdentity, TelegramLooksUser, TelegramCreates, TelegramLooksAgain,
         TelegramUpserts
<1>3. TelegramInv(r) /\ Converges(r) /\ (identity[d] # None => identity[d] \in users)
  BY <1>1 DEF DoorInv, HandlerInv, TablesInv
<1>4. \A w \in users : telegramOf[w] = d => UserByTelegram(d) = w
  BY <1>1, HolderType DEF DoorInv, TablesInv, HasTelegram, DoorTypes
<1>5. TelegramInv(r)' /\ Converges(r)' => HandlerInv(r)'
  BY <1>1 DEF HandlerInv, EmailInv, LinkInv
<1>6. CASE TelegramLooksIdentity(r)
  <2>1. pc[r] = "idle" /\ MayArrive(r) /\ UNCHANGED doorTables
    BY <1>6 DEF TelegramLooksIdentity, At
  <2>2. CASE Answer(r, identity[d]) /\ identity[d] # None
    <3>1. Moves(r) /\ pc'[r] = "answered"
          /\ current'[r] = current[r] /\ found'[r] = found[r] /\ answer'[r] = identity[d]
      BY <2>2, AnswerMoves DEF DoorTypes
    <3>2. HandlerInv(r)'
      BY <1>5, <2>1, <3>1 DEF TelegramInv, Converges, ResolvesTo, doorTables
    <3>3. Named(identity[d])
      BY <1>1 DEF Named
    <3>. QED
      BY <1>1, <1>2, <2>1, <3>1, <3>2, <3>3, QuietStep DEF NotInserted
  <2>3. CASE Goto(r, "user") /\ identity[d] = None
    <3>1. Moves(r) /\ pc'[r] = "user"
          /\ current'[r] = current[r] /\ found'[r] = found[r] /\ answer'[r] = answer[r]
      BY <2>3, GotoMoves DEF DoorTypes
    <3>2. HandlerInv(r)'
      BY <1>5, <2>1, <2>3, <3>1, ConvergesKept DEF TelegramInv, doorTables
    <3>3. Named(answer[r])
      BY DEF Named
    <3>. QED
      BY <1>1, <1>2, <2>1, <3>1, <3>2, <3>3, QuietStep DEF NotInserted
  <2>. QED
    BY <1>6, <2>2, <2>3 DEF TelegramLooksIdentity
<1>7. CASE /\ TelegramLooksUser(r) \/ TelegramLooksAgain(r)
           /\ HasTelegram(d) /\ GoWith(r, "upsert", UserByTelegram(d))
  <2>1. pc[r] \in {"user", "relook"} /\ UNCHANGED doorTables
    BY <1>7 DEF TelegramLooksUser, TelegramLooksAgain, At
  <2>2. PICK u \in users : u = UserByTelegram(d) /\ telegramOf[u] = d
    BY <1>7, HolderType DEF DoorTypes
  <2>3. Moves(r) /\ pc'[r] = "upsert"
        /\ current'[r] = current[r] /\ found'[r] = u /\ answer'[r] = answer[r]
    BY <1>7, <2>2, GoWithMoves DEF DoorTypes
  <2>4. identity[d] \in {None, u}
    BY <1>1, <1>3, <1>4, <2>1, <2>2 DEF TelegramInv
  <2>5. HandlerInv(r)'
    BY <1>3, <1>5, <2>1, <2>2, <2>3, ConvergesKept DEF TelegramInv, doorTables
  <2>. QED
    BY <1>1, <1>2, <2>1, <2>2, <2>3, <2>4, <2>5, QuietStep DEF NotInserted, Running, Over
<1>8. CASE TelegramLooksUser(r) /\ Goto(r, "create")
  <2>1. pc[r] = "user" /\ UNCHANGED doorTables
    BY <1>8 DEF TelegramLooksUser, At
  <2>2. Moves(r) /\ pc'[r] = "create"
        /\ current'[r] = current[r] /\ found'[r] = found[r] /\ answer'[r] = answer[r]
    BY <1>8, GotoMoves DEF DoorTypes
  <2>3. HandlerInv(r)'
    BY <1>3, <1>5, <2>1, <2>2, ConvergesKept DEF TelegramInv, doorTables
  <2>4. Named(answer[r])
    BY DEF Named
  <2>. QED
    BY <1>1, <1>2, <2>1, <2>2, <2>3, <2>4, QuietStep DEF NotInserted, Running, Over
<1>9. CASE TelegramLooksAgain(r) /\ Goto(r, "raised")
  BY <1>1, <1>2, <1>9, EndsStep DEF TelegramLooksAgain
<1>10. CASE TelegramCreates(r) /\ InsertUser(r, d) /\ GoWith(r, "upsert", r)
  <2>1. pc[r] = "create"
    BY <1>10 DEF TelegramCreates, At
  <2>2. Moves(r) /\ pc'[r] = "upsert"
        /\ current'[r] = current[r] /\ found'[r] = r /\ answer'[r] = answer[r]
    BY <1>10, GoWithMoves DEF DoorTypes
  <2>3. identity[d] = None
    BY <1>1, <1>3, <1>10, <2>1 DEF TelegramInv, InsertUser, HasTelegram
  <2>4. /\ telegramOf'[r] = d /\ identity'[d] = None
        /\ users' = users \cup {r} /\ \A u \in users \ {r} : telegramOf'[u] = telegramOf[u]
    BY <1>10, <2>3, RequestTypes DEF InsertUser, DoorTypes, TablesTypeOK
  <2>5. Converges(r)'
    <3>1. answer[r] # r /\ r \notin users
      BY <2>1, UnansweredYet DEF DoorInv, NamedInv, NotInserted
    <3>. QED
      BY <1>3, <2>2, <2>3, <2>4, <3>1 DEF Converges, ResolvesTo
  <2>6. HandlerInv(r)'
    BY <1>5, <2>2, <2>4, <2>5 DEF TelegramInv
  <2>. QED
    BY <1>1, <1>2, <1>10, <2>1, <2>2, <2>3, <2>6, InsertStep DEF NotInserted
<1>11. CASE TelegramCreates(r) /\ Goto(r, "relook") /\ UNCHANGED doorTables
  <2>1. pc[r] = "create" /\ UNCHANGED doorTables
    BY <1>11 DEF TelegramCreates, At
  <2>2. Moves(r) /\ pc'[r] = "relook"
        /\ current'[r] = current[r] /\ found'[r] = found[r] /\ answer'[r] = answer[r]
    BY <1>11, GotoMoves DEF DoorTypes
  <2>3. HandlerInv(r)'
    BY <1>3, <1>5, <2>1, <2>2, ConvergesKept DEF TelegramInv, doorTables
  <2>4. Named(answer[r])
    BY DEF Named
  <2>. QED
    BY <1>1, <1>2, <2>1, <2>2, <2>3, <2>4, QuietStep DEF NotInserted, Running, Over
<1>12. CASE TelegramUpserts(r) /\ UpsertIdentity(d, found[r], None) /\ Answer(r, found[r])
  <2>1. pc[r] = "upsert" /\ found[r] \in users /\ telegramOf[found[r]] = d
    BY <1>1, <1>3, <1>12 DEF TelegramUpserts, At, TelegramInv, UpsertIdentity, CanUpsert
  <2>2. Moves(r) /\ pc'[r] = "answered"
        /\ current'[r] = current[r] /\ found'[r] = found[r] /\ answer'[r] = found[r]
    BY <1>12, AnswerMoves DEF DoorTypes
  <2>3. ASSUME NEW w \in users, ResolvesTo(d, w) PROVE w = found[r]
    <3>1. telegramOf[w] = d
      BY <1>1, <1>3, <2>1, <2>3, TablesAssumption DEF ResolvesTo, TelegramInv, DoorTypes, TablesTypeOK
    <3>. QED
      BY <1>1, <2>1, <3>1 DEF DoorInv, TablesInv
  <2>4. identity'[d] = found[r]
    BY <1>1, <1>12 DEF UpsertIdentity, DoorTypes, TablesTypeOK
  <2>5. HandlerInv(r)'
    BY <1>5, <2>2, <2>4 DEF TelegramInv, Converges, ResolvesTo
  <2>. QED
    BY <1>1, <1>2, <1>12, <2>1, <2>2, <2>3, <2>5, UpsertStep DEF NotInserted, Running, Over
<1>13. CASE TelegramUpserts(r) /\ Goto(r, "raised") /\ UNCHANGED doorTables
  BY <1>1, <1>2, <1>13, EndsStep
<1>. QED
  BY <1>6, <1>7, <1>8, <1>9, <1>10, <1>11, <1>12, <1>13
     DEF TelegramLooksUser, TelegramLooksAgain, TelegramCreates, TelegramUpserts

LEMMA EmailDoor ==
    ASSUME DoorTypes, DoorInv, ~Overlap, NEW r \in Requests,
           EmailLooksIdentity(r) \/ EmailCreates(r) \/ EmailUpserts(r)
    PROVE  DoorInv' /\ ResolutionKept
<1>. DEFINE d == r.door
<1>1. r.kind = "email" /\ d \notin Telegrams /\ d \in Doors
  BY RequestTypes, TablesAssumption DEF EmailLooksIdentity, EmailCreates, EmailUpserts, At
<1>2. faults' = faults
  BY DEF DoorStep, EmailLooksIdentity, EmailCreates, EmailUpserts
<1>3. EmailInv(r) /\ Converges(r)
  BY DEF DoorInv, HandlerInv
<1>4. EmailInv(r)' /\ Converges(r)' => HandlerInv(r)'
  BY <1>1 DEF HandlerInv, TelegramInv, LinkInv
<1>5. CASE EmailLooksIdentity(r)
  <2>1. pc[r] = "idle" /\ MayArrive(r) /\ UNCHANGED doorTables
    BY <1>5 DEF EmailLooksIdentity, At
  <2>2. CASE Answer(r, identity[d])
    <3>1. Moves(r) /\ pc'[r] = "answered"
          /\ current'[r] = current[r] /\ found'[r] = found[r] /\ answer'[r] = identity[d]
      BY <2>2, AnswerMoves DEF DoorTypes
    <3>2. HandlerInv(r)'
      BY <1>4, <2>1, <3>1 DEF EmailInv, Converges, ResolvesTo, doorTables
    <3>3. Named(identity[d])
      BY <1>1 DEF Named
    <3>. QED
      BY <1>1, <1>2, <2>1, <3>1, <3>2, <3>3, QuietStep DEF NotInserted
  <2>3. CASE GoWith(r, "bind", identity[d])
    <3>1. Moves(r) /\ pc'[r] = "bind"
          /\ current'[r] = current[r] /\ found'[r] = identity[d] /\ answer'[r] = answer[r]
      BY <2>3, GoWithMoves DEF DoorTypes
    <3>2. HandlerInv(r)'
      BY <1>4, <2>1, <3>1, ConvergesKept DEF EmailInv, doorTables
    <3>3. Named(identity[d])
      BY <1>1 DEF Named
    <3>. QED
      BY <1>1, <1>2, <2>1, <3>1, <3>2, <3>3, QuietStep DEF NotInserted
  <2>4. CASE Goto(r, "create") /\ identity[d] = None
    <3>1. Moves(r) /\ pc'[r] = "create"
          /\ current'[r] = current[r] /\ found'[r] = found[r] /\ answer'[r] = answer[r]
      BY <2>4, GotoMoves DEF DoorTypes
    <3>2. HandlerInv(r)'
      BY <1>4, <2>1, <2>4, <3>1, ConvergesKept DEF EmailInv, doorTables
    <3>3. Named(answer[r])
      BY DEF Named
    <3>. QED
      BY <1>1, <1>2, <2>1, <3>1, <3>2, <3>3, QuietStep DEF NotInserted
  <2>5. CASE Goto(r, "refused")
    BY <1>1, <1>2, <2>1, <2>5, EndsStep
  <2>. QED
    BY <1>5, <2>2, <2>3, <2>4, <2>5 DEF EmailLooksIdentity
<1>6. CASE EmailCreates(r)
  <2>1. pc[r] = "create" /\ InsertUser(r, None)
    BY <1>6 DEF EmailCreates, At
  <2>2. Moves(r) /\ pc'[r] = "upsert"
        /\ current'[r] = current[r] /\ found'[r] = r /\ answer'[r] = answer[r]
    BY <1>6, GoWithMoves DEF EmailCreates, DoorTypes
  <2>3. identity' = identity /\ users' = users \cup {r} /\ identity[d] = None
    BY <1>1, <1>3, <2>1 DEF InsertUser, EmailInv
  <2>4. Converges(r)'
    <3>1. answer[r] # r
      BY <2>1, UnansweredYet DEF NotInserted
    <3>. QED
      BY <1>1, <1>3, <2>2, <2>3, <3>1 DEF Converges, ResolvesTo
  <2>5. HandlerInv(r)'
    BY <1>4, <2>2, <2>3, <2>4 DEF EmailInv
  <2>. QED
    BY <1>1, <1>2, <2>1, <2>2, <2>5, InsertStep DEF NotInserted
<1>7. CASE EmailUpserts(r) /\ UpsertIdentity(d, found[r], r.auth) /\ Answer(r, found[r])
  <2>1. pc[r] \in {"bind", "upsert"} /\ found[r] \in users
    BY <1>7 DEF EmailUpserts, UpsertIdentity, CanUpsert
  <2>2. Moves(r) /\ pc'[r] = "answered"
        /\ current'[r] = current[r] /\ found'[r] = found[r] /\ answer'[r] = found[r]
    BY <1>7, AnswerMoves DEF DoorTypes
  <2>3. ASSUME NEW w \in users, ResolvesTo(d, w) PROVE w = found[r]
    BY <1>1, <1>3, <2>1, <2>3, TablesAssumption DEF ResolvesTo, EmailInv, DoorTypes, TablesTypeOK
  <2>4. identity'[d] = found[r]
    BY <1>1, <1>7 DEF UpsertIdentity, DoorTypes, TablesTypeOK
  <2>5. HandlerInv(r)'
    BY <1>4, <2>2, <2>4 DEF EmailInv, Converges, ResolvesTo
  <2>. QED
    BY <1>1, <1>2, <1>7, <2>1, <2>2, <2>3, <2>5, UpsertStep DEF NotInserted, Running, Over
<1>8. CASE Goto(r, "raised") /\ UNCHANGED doorTables
  BY <1>1, <1>2, <1>8, EndsStep
<1>. QED
  BY <1>5, <1>6, <1>7, <1>8 DEF EmailUpserts

LEMMA RegistrationDoor ==
    ASSUME DoorTypes, DoorInv, ~Overlap, NEW r \in Requests, BotStarts(r) \/ BotRegisters(r)
    PROVE  DoorInv' /\ ResolutionKept
<1>1. r.kind = "register" /\ r.door \in Telegrams
  BY RequestTypes DEF BotStarts, BotRegisters, At
<1>2. faults' = faults
  BY DEF DoorStep, BotStarts, BotRegisters
<1>3. Converges(r)' => HandlerInv(r)'
  BY <1>1 DEF HandlerInv, TelegramInv, EmailInv, LinkInv
<1>4. CASE BotStarts(r) /\ Goto(r, "naming")
  <2>1. pc[r] = "idle" /\ MayArrive(r) /\ UNCHANGED doorTables
    BY <1>4 DEF BotStarts, At
  <2>2. Moves(r) /\ pc'[r] = "naming"
        /\ current'[r] = current[r] /\ found'[r] = found[r] /\ answer'[r] = answer[r]
    BY <1>4, GotoMoves DEF DoorTypes
  <2>3. HandlerInv(r)' /\ Named(answer[r])
    BY <1>3, <2>1, <2>2, ConvergesKept DEF Named
  <2>. QED
    BY <1>1, <1>2, <2>1, <2>2, <2>3, QuietStep DEF NotInserted
<1>5. CASE BotRegisters(r) /\ InsertUser(r, r.door) /\ Goto(r, "answered")
  <2>1. pc[r] = "naming"
    BY <1>5 DEF BotRegisters, At
  <2>2. Moves(r) /\ pc'[r] = "answered"
        /\ current'[r] = current[r] /\ found'[r] = found[r] /\ answer'[r] = answer[r]
    BY <1>5, GotoMoves DEF DoorTypes
  <2>3. answer[r] # r /\ Converges(r)
    BY <2>1, UnansweredYet DEF NotInserted, DoorInv, HandlerInv
  <2>4. /\ identity' = identity /\ users' = users \cup {r}
        /\ \A u \in users \ {r} : telegramOf'[u] = telegramOf[u]
    BY <1>5 DEF InsertUser, DoorTypes, TablesTypeOK
  <2>5. HandlerInv(r)'
    BY <1>3, <2>2, <2>3, <2>4 DEF Converges, ResolvesTo
  <2>. QED
    BY <1>1, <1>2, <1>5, <2>1, <2>2, <2>5, InsertStep DEF NotInserted
<1>6. CASE Goto(r, "raised") \/ Goto(r, "refused")
  <2>1. UNCHANGED doorTables
    BY <1>6, GotoMoves DEF BotStarts, BotRegisters, DoorTypes, Goto, DoorsTypeOK
  <2>. QED
    BY <1>1, <1>2, <1>6, <2>1, EndsStep
<1>. QED
  BY <1>4, <1>5, <1>6 DEF BotStarts, BotRegisters

\* While a link is at work, no other is, nor a handler about its account.
LEMMA LinkAlone ==
    ASSUME DoorInv, NEW r \in Requests, r.kind = "link", pc[r] \in LinkAtWork
    PROVE  /\ \A q \in Requests : q.kind = "link" /\ pc[q] = "telegram" => q = r
           /\ Running(r)
<1>1. Running(r) /\ \A q \in Requests : pc[q] = "telegram" => Running(q)
  BY DEF Running, Over, LinkAtWork
<1>2. \A q \in Requests : q.kind = "link" => Collide(q, r)
  BY DEF Collide
<1>. QED
  BY <1>1, <1>2 DEF DoorInv, AloneInv

LEMMA LinkGoesOnStep ==
    ASSUME DoorTypes, DoorInv, ~Overlap, NEW r \in Requests, NEW u,
           r.kind = "link", pc[r] \in {"identity", "user"}, LinkGoesOn(r, u),
           UNCHANGED doorTables, faults' = faults,
           \/ u # None /\ u = identity[r.door]
           \/ identity[r.door] = None /\ u = UserByTelegram(r.door)
    PROVE  DoorInv' /\ ResolutionKept
<1>. DEFINE d == r.door
            c == current[r]
<1>1. /\ d \in Telegrams /\ d \in Doors /\ d # None /\ LinkInv(r) /\ c # None
      /\ identity[d] # None => identity[d] \in users
      /\ pc[r] \in LinkAtWork
  BY RequestTypes, TablesAssumption DEF DoorInv, HandlerInv, TablesInv, DoorTypes, CurrentInv, LinkAtWork
<1>2. \/ u = None /\ identity[d] = None /\ \A x \in users : telegramOf[x] # d
      \/ u \in users /\ u # None /\ identity[d] = u
      \/ u \in users /\ u # None /\ identity[d] = None /\ telegramOf[u] = d
  <2>1. CASE u # None /\ u = identity[d]
    BY <1>1, <2>1
  <2>2. CASE identity[d] = None /\ u = UserByTelegram(d) /\ HasTelegram(d)
    BY <2>2, HolderType, TablesAssumption DEF DoorTypes, TablesTypeOK
  <2>3. CASE identity[d] = None /\ u = UserByTelegram(d) /\ ~HasTelegram(d)
    BY <2>3, HolderType DEF HasTelegram, DoorTypes
  <2>. QED
    BY <2>1, <2>2, <2>3
<1>3. /\ Moves(r) /\ pc'[r] = IF u \in {None, c} THEN "attach" ELSE "merge"
      /\ current'[r] = c /\ found'[r] = u /\ answer'[r] = answer[r]
  BY GoWithMoves DEF LinkGoesOn, DoorTypes
<1>4. LinkInv(r)'
  <2>1. CASE u \in {None, c}
    <3>1. c \in users => \/ identity[d] = c
                         \/ identity[d] = None /\ OnlyCurrent(r)
      BY <1>1, <1>2, <2>1 DEF OnlyCurrent, DoorInv, TablesInv
    <3>. QED
      BY <1>1, <1>3, <2>1, <3>1 DEF LinkInv, LinkAtWork, OnlyCurrent, doorTables
  <2>2. CASE u \notin {None, c}
    BY <1>1, <1>2, <1>3, <2>2 DEF LinkInv, LinkAtWork, doorTables
  <2>. QED
    BY <2>1, <2>2
<1>5. HandlerInv(r)'
  BY <1>3, <1>4, ConvergesKept DEF HandlerInv, TelegramInv, EmailInv
<1>6. \E x : /\ {answer'[r], current'[r], found'[r]} \subseteq {answer[r], current[r], found[r], x}
             /\ \/ Named(x)
                \/ x \in users /\ (telegramOf[x] # None => identity[telegramOf[x]] \in {None, x})
             /\ x = u
  <2>1. CASE u \in users /\ identity[d] = u
    BY <1>1, <1>3, <2>1 DEF Named
  <2>2. CASE u \in users /\ identity[d] = None /\ telegramOf[u] = d
    BY <1>3, <2>2
  <2>3. CASE u = None /\ identity[d] = None
    BY <1>1, <1>3, <2>3 DEF Named
  <2>. QED
    BY <1>2, <2>1, <2>2, <2>3
<1>. QED
  BY <1>3, <1>5, <1>6, LinkAlone, QuietStep DEF NotInserted, LinkAtWork

LEMMA LinkDoor ==
    ASSUME DoorTypes, DoorInv, ~Overlap, NEW r \in Requests,
           \/ LinkChecksCurrent(r) \/ LinkLooksIdentity(r) \/ LinkLooksUser(r)
           \/ LinkUpserts(r) \/ LinkSetsTelegram(r)
    PROVE  DoorInv' /\ ResolutionKept
<1>. DEFINE d == r.door
            c == current[r]
<1>1. r.kind = "link" /\ d \in Telegrams /\ d \in Doors /\ d # None
  BY RequestTypes, TablesAssumption
     DEF LinkChecksCurrent, LinkLooksIdentity, LinkLooksUser, LinkUpserts, LinkSetsTelegram, At
<1>2. faults' = faults
  BY DEF DoorStep, LinkChecksCurrent, LinkLooksIdentity, LinkLooksUser, LinkUpserts, LinkSetsTelegram
<1>3. LinkInv(r) /\ Converges(r) /\ (identity[d] # None => identity[d] \in users)
  BY <1>1 DEF DoorInv, HandlerInv, TablesInv
<1>4. LinkInv(r)' /\ Converges(r)' => HandlerInv(r)'
  BY <1>1 DEF HandlerInv, TelegramInv, EmailInv
<1>5. CASE LinkChecksCurrent(r)
  <2>1. pc[r] = "idle" /\ MayArrive(r) /\ UNCHANGED doorTables
    BY <1>5 DEF LinkChecksCurrent, At
  <2>2. CASE Goto(r, "refused")
    BY <1>1, <1>2, <2>1, <2>2, EndsStep
  <2>3. CASE ~Goto(r, "refused")
    <3>1. PICK u \in Sessions :
             /\ u \in users => telegramOf[u] \in {None, d}
             /\ pc' = [pc EXCEPT ![r] = "identity"]
             /\ current' = [current EXCEPT ![r] = u]
             /\ UNCHANGED <<found, answer>>
      BY <1>5, <2>3 DEF LinkChecksCurrent
    <3>2. /\ Moves(r) /\ pc'[r] = "identity"
          /\ current'[r] = u /\ found'[r] = found[r] /\ answer'[r] = answer[r]
      BY <3>1 DEF Moves, DoorTypes, DoorsTypeOK
    <3>3. Named(u)
      BY DEF Named, Sessions
    <3>4. HandlerInv(r)'
      BY <1>4, <2>1, <3>1, <3>2, ConvergesKept DEF LinkInv, LinkAtWork, doorTables
    <3>. QED
      BY <1>1, <1>2, <2>1, <3>2, <3>3, <3>4, QuietStep DEF NotInserted
  <2>. QED
    BY <2>2, <2>3
<1>6. CASE LinkLooksIdentity(r)
  <2>1. pc[r] = "identity" /\ UNCHANGED doorTables
    BY <1>6 DEF LinkLooksIdentity, At
  <2>2. CASE identity[d] = None
    <3>1. /\ Moves(r) /\ pc'[r] = "user"
          /\ current'[r] = c /\ found'[r] = found[r] /\ answer'[r] = answer[r]
      BY <1>6, <2>2, GotoMoves DEF LinkLooksIdentity, DoorTypes
    <3>2. HandlerInv(r)' /\ Named(answer[r])
      BY <1>3, <1>4, <2>1, <2>2, <3>1, ConvergesKept DEF LinkInv, LinkAtWork, doorTables, Named
    <3>3. Running(r)
      BY <2>1 DEF Running, Over
    <3>. QED
      BY <1>1, <1>2, <2>1, <3>1, <3>2, <3>3, QuietStep DEF NotInserted
  <2>3. CASE identity[d] # None
    BY <1>1, <1>2, <1>6, <2>1, <2>3, LinkGoesOnStep DEF LinkLooksIdentity
  <2>. QED
    BY <2>2, <2>3
<1>7. CASE LinkLooksUser(r)
  <2>1. pc[r] = "user" /\ UNCHANGED doorTables /\ identity[d] = None
    BY <1>1, <1>3, <1>7 DEF LinkLooksUser, At, LinkInv
  <2>. QED
    BY <1>1, <1>2, <1>7, <2>1, LinkGoesOnStep DEF LinkLooksUser
<1>8. CASE LinkUpserts(r) /\ UpsertIdentity(d, c, None) /\ Goto(r, "telegram")
  <2>1. pc[r] = "attach" /\ pc[r] \in LinkAtWork /\ c \in users
    BY <1>8 DEF LinkUpserts, At, UpsertIdentity, CanUpsert, LinkAtWork
  <2>2. /\ Moves(r) /\ pc'[r] = "telegram"
        /\ current'[r] = c /\ found'[r] = found[r] /\ answer'[r] = answer[r]
    BY <1>8, GotoMoves DEF DoorTypes
  <2>3. identity[d] = c \/ (identity[d] = None /\ OnlyCurrent(r))
    BY <1>1, <1>3, <2>1 DEF LinkInv
  <2>4. ASSUME NEW w \in users, ResolvesTo(d, w) PROVE w = c
    BY <1>1, <2>1, <2>3, <2>4, TablesAssumption DEF ResolvesTo, OnlyCurrent, DoorTypes, TablesTypeOK
  <2>5. faults = 0 => OnlyCurrent(r) /\ telegramOf[c] \in {None, d}
    <3>1. faults = 0 /\ identity[d] = c => telegramOf[c] = d
      <4>1. c # None
        BY <2>1, TablesAssumption DEF DoorTypes, TablesTypeOK
      <4>2. \A q \in Requests : q.kind = "link" => pc[q] # "telegram"
        BY <1>1, <2>1, LinkAlone
      <4>. QED
        BY <1>1, <4>1, <4>2 DEF DoorInv, AgreeInv
    <3>2. telegramOf[c] = d => OnlyCurrent(r)
      BY <1>1, <2>1 DEF OnlyCurrent, DoorInv, TablesInv
    <3>3. faults = 0 => telegramOf[c] \in {None, d}
      BY <1>1, <1>3, <2>1 DEF LinkInv
    <3>. QED
      BY <2>3, <3>1, <3>2, <3>3
  <2>6. identity'[d] = c /\ UNCHANGED <<users, telegramOf>>
    BY <1>1, <1>8 DEF UpsertIdentity, DoorTypes, TablesTypeOK
  <2>7. LinkInv(r)'
    BY <1>2, <2>1, <2>2, <2>5, <2>6 DEF LinkInv, LinkAtWork, OnlyCurrent
  <2>8. Converges(r)'
    <3>1. answer[r] # None /\ answer[r] \in users => answer[r] = c
      BY <1>3, <2>4 DEF Converges
    <3>. QED
      BY <2>2, <2>6, <3>1 DEF Converges, ResolvesTo
  <2>9. HandlerInv(r)' /\ Running(r)
    BY <1>1, <1>4, <2>1, <2>7, <2>8, LinkAlone
  <2>. QED
    BY <1>1, <1>2, <1>8, <2>1, <2>2, <2>4, <2>9, UpsertStep DEF NotInserted
<1>9. CASE LinkUpserts(r) /\ Goto(r, "raised") /\ UNCHANGED doorTables
  <2>1. pc[r] = "attach"
    BY <1>9 DEF LinkUpserts, At
  <2>. QED
    BY <1>2, <1>9, <2>1, EndsStep
<1>10. CASE LinkSetsTelegram(r) /\ SetTelegramIfNull(c, d) /\ Answer(r, c)
  BY <1>10, SetTelegramStep DEF LinkSetsTelegram
<1>11. CASE LinkSetsTelegram(r) /\ ~CanSetTelegram(c, d) /\ Goto(r, "raised") /\ UNCHANGED doorTables
  <2>1. pc[r] = "telegram" /\ c \in users /\ telegramOf[c] = None /\ HasTelegram(d)
    BY <1>11 DEF LinkSetsTelegram, At, CanSetTelegram
  <2>2. faults # 0
    BY <1>1, <1>3, <2>1 DEF LinkInv, OnlyCurrent, HasTelegram
  <2>. QED
    BY <1>2, <1>11, <2>2, EndsStep
<1>. QED
  BY <1>5, <1>6, <1>7, <1>8, <1>9, <1>10, <1>11 DEF LinkUpserts, LinkSetsTelegram

\* Whoever the steps of a handler, or of the e-mail provider, do not merge stays.
Stays == ResolutionKept /\ users \subseteq users' /\ UNCHANGED workTables

LEMMA RaisesStep ==
    ASSUME DoorTypes, FaultsTypeOK, DoorInv, ~Overlap, NEW r \in Requests, HandlerRaises(r)
    PROVE  DoorInv' /\ Stays
<1>1. UNCHANGED <<doorTables, workTables, users>> /\ faults' # 0
  BY DEF HandlerRaises, Fault, FaultsTypeOK, tableVars, doorTables, workTables
<1>2. CASE Goto(r, "raised")
  BY <1>1, <1>2, EndsStep DEF Stays
<1>3. CASE At(r, "telegram", "create") /\ Goto(r, "relook")
  <2>1. /\ Moves(r) /\ pc'[r] = "relook" /\ pc[r] = "create" /\ r.kind = "telegram"
        /\ current'[r] = current[r] /\ found'[r] = found[r] /\ answer'[r] = answer[r]
    BY <1>3, GotoMoves DEF DoorTypes, At
  <2>2. TelegramInv(r)'
    BY <1>1, <2>1 DEF TelegramInv, DoorInv, HandlerInv, doorTables
  <2>3. HandlerInv(r)' /\ Named(answer[r]) /\ Running(r)
    BY <1>1, <2>1, <2>2, ConvergesKept DEF HandlerInv, EmailInv, LinkInv, Named, Running, Over
  <2>. QED
    BY <1>1, <2>1, <2>3, QuietStep DEF Stays, NotInserted
<1>. QED
  BY <1>2, <1>3 DEF HandlerRaises

LEMMA AuthDeletedStep ==
    ASSUME FaultsTypeOK, DoorInv, NEW e \in Emails, AuthUserDeleted(e)
    PROVE  DoorInv' /\ Stays
<1>1. UNCHANGED <<users, telegramOf, identity, workTables, pc, current, found, answer>> /\ faults' # 0
  BY DEF AuthUserDeleted, Fault, FaultsTypeOK, doorVars
<1>2. \A u : Named(u)' <=> Named(u)
  BY <1>1 DEF Named
<1>3. TablesInv' /\ NamedInv'
  BY <1>1, <1>2 DEF DoorInv, TablesInv, NamedInv, NotInserted
<1>4. AloneInv' /\ AgreeInv'
  BY <1>1 DEF DoorInv, AloneInv, AgreeInv, Running
<1>5. ASSUME NEW q \in Requests PROVE HandlerInv(q)'
  <2>1. HandlerInv(q)
    BY DEF DoorInv
  <2>2. TelegramInv(q)' /\ EmailInv(q)' /\ Converges(q)'
    BY <1>1, <2>1 DEF HandlerInv, TelegramInv, EmailInv, Converges, ResolvesTo
  <2>3. LinkInv(q)'
    BY <1>1, <2>1 DEF HandlerInv, LinkInv, OnlyCurrent
  <2>. QED
    BY <2>2, <2>3 DEF HandlerInv
<1>6. Stays
  BY <1>1 DEF Stays, ResolutionKept, ResolvesTo
<1>. QED
  BY <1>3, <1>4, <1>5, <1>6 DEF DoorInv

\* The rows a handler's steps other than a merge leave.
LEMMA DoorsKeepRows ==
    ASSUME NEW r \in Requests,
           \/ TelegramLooksIdentity(r) \/ TelegramLooksUser(r) \/ TelegramCreates(r)
           \/ TelegramLooksAgain(r) \/ TelegramUpserts(r)
           \/ EmailLooksIdentity(r) \/ EmailCreates(r) \/ EmailUpserts(r)
           \/ LinkChecksCurrent(r) \/ LinkLooksIdentity(r) \/ LinkLooksUser(r)
           \/ LinkUpserts(r) \/ LinkSetsTelegram(r) \/ BotStarts(r) \/ BotRegisters(r)
    PROVE  users \subseteq users' /\ UNCHANGED workTables
BY DEF DoorStep, doorTables, InsertUser, UpsertIdentity, SetTelegramIfNull,
       TelegramLooksIdentity, TelegramLooksUser, TelegramCreates, TelegramLooksAgain, TelegramUpserts,
       EmailLooksIdentity, EmailCreates, EmailUpserts, LinkChecksCurrent, LinkLooksIdentity,
       LinkLooksUser, LinkUpserts, LinkSetsTelegram, BotStarts, BotRegisters

\* A merge takes the rows of the account that goes to the one that stays.
Merges(r) ==
    /\ r.kind = "link" /\ LinkMerges(r) /\ MergeUsers(current[r], found[r])
    /\ {current[r], found[r]} \subseteq users /\ current[r] # found[r]
    /\ current'[r] = current[r] /\ ResolutionKept
    /\ \A d \in Doors : ResolvesTo(d, found[r]) => ResolvesTo(d, current[r])'

LEMMA DoorsStep ==
    ASSUME DoorTypes, FaultsTypeOK, DoorInv, ~Overlap, DoorsNext
    PROVE  DoorInv' /\ (Stays \/ \E r \in Requests : Merges(r))
<1>1. ASSUME NEW r \in Requests, LinkMerges(r) PROVE DoorInv' /\ (Stays \/ Merges(r))
  <2>1. At(r, "link", "merge") /\ r.kind = "link" /\ pc[r] = "merge" /\ faults' = faults
    BY <1>1 DEF LinkMerges, At
  <2>2. CASE MergeUsers(current[r], found[r]) /\ Goto(r, "attach")
    BY <1>1, <2>1, <2>2, MergeStep, GotoMoves DEF Merges, DoorTypes
  <2>3. CASE Goto(r, "raised") /\ UNCHANGED tableVars
    <3>1. UNCHANGED <<doorTables, workTables, users>>
      BY <2>3 DEF tableVars, doorTables, workTables
    <3>. QED
      BY <2>1, <2>3, <3>1, EndsStep DEF Stays
  <2>. QED
    BY <1>1, <2>2, <2>3 DEF LinkMerges
<1>. QED
  BY <1>1, TelegramDoor, EmailDoor, LinkDoor, RegistrationDoor, RaisesStep, AuthDeletedStep, DoorsKeepRows
     DEF DoorsNext, Stays

LEMMA DoorsKept ==
    ASSUME DoorInv, UNCHANGED <<doorTables, doorVars, faults>>
    PROVE  DoorInv' /\ ResolutionKept
<1>1. UNCHANGED <<users, telegramOf, identity, pc, current, found, answer, faults>>
  BY DEF doorTables, doorVars
<1>2. \A u : Named(u)' <=> Named(u)
  BY <1>1 DEF Named
<1>3. TablesInv' /\ NamedInv'
  BY <1>1, <1>2 DEF DoorInv, TablesInv, NamedInv, NotInserted
<1>4. AloneInv' /\ AgreeInv'
  BY <1>1 DEF DoorInv, AloneInv, AgreeInv, Running
<1>5. ASSUME NEW q \in Requests PROVE HandlerInv(q)'
  <2>1. HandlerInv(q)
    BY DEF DoorInv
  <2>2. TelegramInv(q)' /\ EmailInv(q)' /\ Converges(q)'
    BY <1>1, <2>1 DEF HandlerInv, TelegramInv, EmailInv, Converges, ResolvesTo
  <2>3. LinkInv(q)'
    BY <1>1, <2>1 DEF HandlerInv, LinkInv, OnlyCurrent
  <2>. QED
    BY <2>2, <2>3 DEF HandlerInv
<1>6. ResolutionKept
  BY <1>1 DEF ResolutionKept, ResolvesTo
<1>. QED
  BY <1>3, <1>4, <1>5, <1>6 DEF DoorInv

LEMMA DoorInit == Init => DoorInv
<1>. SUFFICES ASSUME Init PROVE DoorInv
  OBVIOUS
<1>1. /\ users = {}
      /\ \A r \in Requests : pc[r] \in {"absent", "idle"} /\ answer[r] = None /\ current[r] = None /\ found[r] = None
      /\ \A d \in Doors : identity[d] = None
  BY DEF Init, TablesInit, DoorsInit
<1>2. TablesInv
  BY <1>1 DEF TablesInv
<1>3. \A u : Named(u) => u = None
  BY <1>1 DEF Named
<1>4. NamedInv
  BY <1>1, <1>3, RequestTypes DEF NamedInv
<1>5. AloneInv
  BY <1>1 DEF AloneInv, Running, Over
<1>6. AgreeInv
  BY <1>1 DEF AgreeInv, Doors
<1>7. \A r \in Requests : HandlerInv(r)
  BY <1>1 DEF HandlerInv, TelegramInv, EmailInv, LinkInv, LinkAtWork, Converges
<1>. QED
  BY <1>2, <1>4, <1>5, <1>6, <1>7 DEF DoorInv

LEMMA DoorNext == TypeInv /\ DoorInv /\ ~Overlap /\ [Next]_vars => DoorInv'
<1>. SUFFICES ASSUME TypeInv, DoorInv, ~Overlap, [Next]_vars PROVE DoorInv'
  OBVIOUS
<1>. USE DEF TypeInv, TypeOK, DoorTypes
<1>1. CASE DoorsNext
  BY <1>1, DoorsStep
<1>2. CASE RoutesNext
  BY <1>2, RoutesKeepDoors, DoorsKept
<1>3. CASE UNCHANGED vars
  BY <1>3, DoorsKept DEF vars, tableVars, doorTables
<1>. QED
  BY <1>1, <1>2, <1>3 DEF Next

\* While links do not overlap each other or a handler of their account, nor logins
\* with one address each other, two logins with one proof end in one account,
\* whatever raises half way; while nothing did, the web and the bot agree on it
\* (resolve_telegram, resolve_email_exchange, link_telegram, merge_users).
THEOREM OneAccount == ASSUME ~Overlap PROVE SiteSpec => []OneAccountPerPerson
<1>1. DoorInv => OneAccountPerPerson
  <2>. SUFFICES ASSUME DoorInv PROVE OneAccountPerPerson
    OBVIOUS
  <2>1. LoginsConverge
    BY DEF DoorInv, HandlerInv, Converges, LoginsConverge
  <2>2. BotAndWebAgree
    <3>. SUFFICES ASSUME faults = 0, NEW t \in Telegrams, ~TelegramBusy(t), identity[t] # None
                  PROVE  UserByTelegram(t) = identity[t]
      BY DEF BotAndWebAgree
    <3>1. \A r \in Requests : r.kind = "link" /\ r.door = t => pc[r] # "telegram"
      BY DEF TelegramBusy, Running, Over
    <3>2. telegramOf[identity[t]] = t /\ identity[t] \in users /\ t # None
      BY <3>1, TablesAssumption DEF DoorInv, AgreeInv, TablesInv, Doors
    <3>3. \A u \in users : telegramOf[u] = t => u = identity[t]
      BY <3>2 DEF DoorInv, TablesInv
    <3>. QED
      BY <3>2, <3>3 DEF UserByTelegram, HasTelegram
  <2>. QED
    BY <2>1, <2>2 DEF OneAccountPerPerson
<1>. QED
  BY <1>1, DoorInit, DoorNext, SiteImplements, TypeCorrect, PTL DEF Spec, TypeInv

(***************************************************************************)
(* Projects and charges.                                                   *)
(***************************************************************************)
\* Every charge is on its way to a deck or a refund.
Inserting(p) == \E c \in Calls : c.project = p /\ IsAt(c, "enqueue", "insert")

Accounted ==
    \A p \in Projects \ severed :
        charge[p] = "held" => job[p] \in ActiveStatus \/ Inserting(p)

Reached(u) == u \in users /\ \E d \in Doors : ResolvesTo(d, u)

OwnerInv ==
    /\ \A p \in Projects : owner[p] # None => Reached(owner[p])
    /\ \A c \in Calls : c.kind = "create" /\ cpc[c] = "answered" => owner[c.project] # None
    /\ Accounted

LEMMA ReachedKept ==
    ASSUME ResolutionKept
    PROVE  \A u \in users' : Reached(u) => Reached(u)'
BY DEF Reached, ResolutionKept

\* The owner of each project stays, and the calls have answered nothing new.
LEMMA OwnersKept ==
    ASSUME OwnerInv, ResolutionKept, users \subseteq users', UNCHANGED owner,
           Accounted',
           \A c \in Calls : c.kind = "create" /\ cpc'[c] = "answered" => cpc[c] = "answered"
    PROVE  OwnerInv'
<1>1. \A c \in Calls : c.project \in Projects
  BY CallTypes
<1>2. ASSUME NEW p \in Projects, owner'[p] # None PROVE Reached(owner[p])'
  <2>1. PICK w \in users : w = owner[p] /\ w = owner'[p] /\ Reached(w) /\ Reached(w)'
    BY <1>2, ReachedKept DEF OwnerInv, Reached
  <2>. QED
    BY <2>1 DEF Reached, ResolvesTo
<1>. QED
  BY <1>1, <1>2 DEF OwnerInv

LEMMA MergeOwners ==
    ASSUME TablesTypeOK, OwnerInv, NEW r \in Requests, Merges(r), UNCHANGED cpc
    PROVE  OwnerInv'
<1>. DEFINE c == current[r]
            o == found[r]
<1>1. /\ c # o /\ c \in users /\ o \in users /\ users' = users \ {o} /\ c \in users'
      /\ \A p \in Projects : owner'[p] = IF owner[p] = o THEN c ELSE owner[p]
      /\ \A p \in Projects : job'[p] = IF jobUser[p] = o THEN "none" ELSE job[p]
      /\ severed' = severed \cup {p \in Projects : jobUser[p] = o /\ job[p] \in ActiveStatus}
      /\ UNCHANGED charge
  BY DEF Merges, MergeUsers, Moved, DeletedWithUser, TablesTypeOK
<1>3. c # None /\ o # None
  BY <1>1, TablesAssumption DEF TablesTypeOK
<1>4. \A v \in users' : Reached(v) => Reached(v)'
  BY ReachedKept DEF Merges
<1>5. ASSUME NEW p \in Projects, owner'[p] # None PROVE Reached(owner[p])'
  <2>1. owner[p] # None /\ Reached(owner[p])
    BY <1>1, <1>3, <1>5 DEF OwnerInv
  <2>2. PICK v : v = owner'[p] /\ Reached(v)'
    <3>1. CASE owner[p] = o
      <4>1. PICK d \in Doors : ResolvesTo(d, o)
        BY <2>1, <3>1 DEF Reached
      <4>2. PICK v \in users' : v = c /\ v = current'[r] /\ v = owner'[p]
        BY <1>1, <3>1 DEF Merges
      <4>3. ResolvesTo(d, v)'
        BY <4>1, <4>2 DEF Merges, ResolvesTo
      <4>. QED
        BY <4>2, <4>3 DEF Reached
    <3>2. CASE owner[p] # o
      <4>1. PICK v \in users' : v = owner[p] /\ v = owner'[p] /\ Reached(v)
        BY <1>1, <2>1, <3>2 DEF Reached
      <4>. QED
        BY <1>4, <4>1
    <3>. QED
      BY <3>1, <3>2
  <2>. QED
    BY <2>2 DEF Reached, ResolvesTo
<1>6. \A k \in Calls : k.kind = "create" /\ cpc[k] = "answered" => owner'[k.project] # None
  BY <1>1, <1>3, CallTypes DEF OwnerInv
<1>7. Accounted'
  BY <1>1 DEF OwnerInv, Accounted, Inserting, IsAt
<1>. QED
  BY <1>5, <1>6, <1>7 DEF OwnerInv

\* A project that is created belongs to the user of a session whose row is there.
LEMMA CreateOwners ==
    ASSUME TablesTypeOK, RoutesTypeOK, DoorInv, OwnerInv, NEW c \in Calls, CreateProject(c)
    PROVE  OwnerInv'
<1>1. PICK u \in Sessions :
        \/ u \in users /\ owner' = [owner EXCEPT ![c.project] = u] /\ To(c, "answered")
        \/ UNCHANGED owner /\ To(c, "refused")
  BY DEF CreateProject
<1>2. /\ UNCHANGED <<users, telegramOf, identity>>
      /\ c.kind = "create" /\ c.project \in Projects
  BY CallTypes DEF CreateProject, RouteStep, doorTables, Starts
<1>0. Accounted'
  <2>1. UNCHANGED <<job, charge, severed>> /\ cpc[c] = "idle" /\ c.kind # "enqueue"
    BY DEF CreateProject, Starts
  <2>2. \A k \in Calls \ {c} : cpc'[k] = cpc[k]
    BY <1>1 DEF To, RoutesTypeOK
  <2>. QED
    BY <2>1, <2>2 DEF OwnerInv, Accounted, Inserting, IsAt
<1>3. \A v : Reached(v)' <=> Reached(v)
  BY <1>2 DEF Reached, ResolvesTo
<1>4. CASE u \in users /\ owner' = [owner EXCEPT ![c.project] = u] /\ To(c, "answered")
  <2>1. u # None /\ Reached(u)
    <3>1. PICK r \in Requests : answer[r] = u /\ u # None
      BY DEF Sessions
    <3>2. ResolvesTo(r.door, u) /\ r.door \in Doors
      BY <1>4, <3>1, RequestTypes DEF DoorInv, HandlerInv, Converges
    <3>. QED
      BY <1>4, <3>1, <3>2 DEF Reached
  <2>2. /\ \A p \in Projects : owner'[p] = IF p = c.project THEN u ELSE owner[p]
        /\ \A k \in Calls \ {c} : cpc'[k] = cpc[k]
    BY <1>2, <1>4 DEF To, TablesTypeOK, RoutesTypeOK
  <2>3. ASSUME NEW p \in Projects, owner'[p] # None PROVE Reached(owner[p])'
    <3>1. PICK v : v = owner'[p] /\ Reached(v)'
      BY <1>3, <2>1, <2>2, <2>3 DEF OwnerInv
    <3>. QED
      BY <3>1 DEF Reached, ResolvesTo
  <2>4. \A k \in Calls : k.kind = "create" /\ cpc'[k] = "answered" => owner'[k.project] # None
    BY <2>1, <2>2, CallTypes DEF OwnerInv
  <2>. QED
    BY <1>0, <2>3, <2>4 DEF OwnerInv
<1>5. CASE UNCHANGED owner /\ To(c, "refused")
  <2>1. \A k \in Calls : cpc'[k] = "answered" => cpc[k] = "answered"
    BY <1>5 DEF To, RoutesTypeOK
  <2>. QED
    BY <1>0, <1>2, <1>5, <2>1, OwnersKept DEF ResolutionKept, ResolvesTo, OwnerInv
<1>. QED
  BY <1>1, <1>4, <1>5

\* The other calls and the worker: no owner changes, and every charge stays
\* accounted for.
LEMMA OtherOwners ==
    ASSUME TablesTypeOK, RoutesTypeOK, OwnerInv, RoutesNext
    PROVE  \/ \E c \in Calls : CreateProject(c)
           \/ /\ UNCHANGED owner
              /\ Accounted'
              /\ \A c \in Calls : c.kind = "create" /\ cpc'[c] = "answered" => cpc[c] = "answered"
<1>. DEFINE Kept == /\ UNCHANGED owner
                    /\ Accounted'
                    /\ \A c \in Calls : c.kind = "create" /\ cpc'[c] = "answered" => cpc[c] = "answered"
<1>1. ASSUME UNCHANGED <<owner, job, charge, severed>>,
             \/ UNCHANGED cpc
             \/ \E c \in Calls : \E s \in CallSteps : c.kind \notin {"create", "enqueue"} /\ To(c, s)
      PROVE  Kept
  <2>1. \A k \in Calls : k.kind \in {"create", "enqueue"} => cpc'[k] = cpc[k]
    BY <1>1 DEF To, RoutesTypeOK
  <2>2. \A p \in Projects : Inserting(p) => Inserting(p)'
    BY <2>1 DEF Inserting, IsAt
  <2>. QED
    BY <1>1, <2>1, <2>2 DEF OwnerInv, Accounted
<1>2. ASSUME NEW c \in Calls, EnqueuesJob(c) PROVE Kept
  <2>1. UNCHANGED owner /\ c.kind = "enqueue" /\ c.project \in Projects
    BY <1>2, CallTypes DEF EnqueuesJob, EnqueueLooks, EnqueueCharges, EnqueueInserts, Starts, IsAt, workTables
  <2>2. \A k \in Calls \ {c} : cpc'[k] = cpc[k]
    BY <1>2 DEF EnqueuesJob, EnqueueLooks, EnqueueCharges, EnqueueInserts, To, RoutesTypeOK
  <2>3. \A p \in Projects \ {c.project} : Inserting(p) => Inserting(p)'
    BY <2>2 DEF Inserting, IsAt
  <2>4. CASE EnqueueLooks(c)
    <3>1. UNCHANGED <<job, charge, severed>> /\ cpc[c] = "idle"
      BY <2>4 DEF EnqueueLooks, Starts, workTables
    <3>2. \A p \in Projects : Inserting(p) => Inserting(p)'
      BY <2>2, <3>1 DEF Inserting, IsAt
    <3>3. Accounted'
      BY <3>1, <3>2 DEF OwnerInv, Accounted
    <3>. QED
      BY <2>1, <2>2, <3>3
  <2>5. CASE EnqueueCharges(c)
    <3>1. /\ UNCHANGED <<job, severed>> /\ cpc[c] = "charge"
          /\ \/ UNCHANGED charge
             \/ charge' = [charge EXCEPT ![c.project] = "held"] /\ cpc'[c] = "insert"
      BY <2>5 DEF EnqueueCharges, IsAt, To, RoutesTypeOK
    <3>2. \A p \in Projects : Inserting(p) => Inserting(p)'
      BY <2>2, <3>1 DEF Inserting, IsAt
    <3>3. charge' = charge \/ Inserting(c.project)'
      BY <2>1, <3>1 DEF Inserting, IsAt
    <3>4. Accounted'
      BY <2>1, <3>1, <3>2, <3>3 DEF OwnerInv, Accounted, TablesTypeOK
    <3>. QED
      BY <2>1, <2>2, <3>4
  <2>6. CASE EnqueueInserts(c)
    <3>1. /\ UNCHANGED charge
          /\ \/ job' = [job EXCEPT ![c.project] = "queued"] /\ UNCHANGED severed
             \/ severed' = severed \cup {c.project} /\ UNCHANGED job
      BY <2>6 DEF EnqueueInserts
    <3>2. Accounted'
      BY <2>1, <2>3, <3>1 DEF OwnerInv, Accounted, TablesTypeOK, ActiveStatus
    <3>. QED
      BY <2>1, <2>2, <3>2
  <2>. QED
    BY <1>2, <2>4, <2>5, <2>6 DEF EnqueuesJob
<1>3. ASSUME NEW c \in Calls,
             PresignCountsUser(c) \/ PresignCountsAddress(c) \/ PresignMintsKey(c)
      PROVE  Kept
  BY <1>1, <1>3 DEF PresignCountsUser, PresignCountsAddress, PresignMintsKey, Starts, IsAt, workTables,
                    CallSteps
<1>4. ASSUME NEW c \in Calls, RegisterChecks(c) \/ RegisterCounts(c) \/ RegisterInserts(c) PROVE Kept
  BY <1>1, <1>4 DEF RegisterChecks, RegisterCounts, RegisterInserts, Starts, IsAt, workTables, CallSteps
<1>5. ASSUME NEW c \in Calls, ShareReads(c) \/ ShareWrites(c) PROVE Kept
  <2>1. \E s \in CallSteps : To(c, s)
    BY <1>5, ShareLooks DEF ShareWrites, CallSteps
  <2>2. c.kind \notin {"create", "enqueue"} /\ UNCHANGED <<owner, job, charge, severed>>
    BY <1>5 DEF ShareReads, ShareWrites, ShareKinds, workTables
  <2>. QED
    BY <1>1, <2>1, <2>2
<1>6. ASSUME NEW p \in Projects, WorkerClaims(p) \/ WorkerCompletes(p) \/ WorkerFails(p) PROVE Kept
  <2>1. /\ UNCHANGED <<owner, severed, cpc>>
        /\ \/ job' = [job EXCEPT ![p] = "processing"] /\ charge' = [charge EXCEPT ![p] = charge[p]]
           \/ /\ \E s \in JobStatus : job' = [job EXCEPT ![p] = s]
              /\ \E s \in {"earned", "returned"} : charge' = [charge EXCEPT ![p] = s]
    BY <1>6 DEF WorkerClaims, WorkerCompletes, WorkerFails, WorkerStep, routeVars, JobStatus
  <2>2. \A q \in Projects : Inserting(q)' <=> Inserting(q)
    BY <2>1 DEF Inserting, IsAt
  <2>. QED
    BY <2>1, <2>2 DEF OwnerInv, Accounted, TablesTypeOK, ActiveStatus
<1>7. ASSUME Midnight PROVE Kept
  BY <1>1, <1>7 DEF Midnight, workTables, routeVars
<1>. QED
  BY <1>2, <1>3, <1>4, <1>5, <1>6, <1>7 DEF RoutesNext, EnqueuesJob

LEMMA OwnerNext ==
    TypeInv /\ DoorInv /\ OwnerInv /\ ~Overlap /\ [Next]_vars => OwnerInv'
<1>. SUFFICES ASSUME TypeInv, DoorInv, OwnerInv, ~Overlap, [Next]_vars PROVE OwnerInv'
  OBVIOUS
<1>. USE DEF TypeInv, TypeOK, DoorTypes
<1>1. CASE DoorsNext /\ UNCHANGED <<routeVars, limitVars>>
  <2>1. UNCHANGED cpc
    BY <1>1 DEF routeVars
  <2>2. CASE Stays
    <3>1. ResolutionKept /\ users \subseteq users' /\ UNCHANGED <<owner, job, charge, severed>>
      BY <2>2 DEF Stays, workTables
    <3>2. Accounted'
      BY <2>1, <3>1 DEF OwnerInv, Accounted, Inserting, IsAt
    <3>. QED
      BY <2>1, <3>1, <3>2, OwnersKept
  <2>3. ASSUME NEW r \in Requests, Merges(r) PROVE OwnerInv'
    BY <2>1, <2>3, MergeOwners
  <2>. QED
    BY <1>1, <2>2, <2>3, DoorsStep
<1>2. CASE RoutesNext
  <2>1. ResolutionKept /\ UNCHANGED users
    BY <1>2, RoutesKeepDoors, DoorsKept DEF doorTables
  <2>. QED
    BY <1>2, <2>1, OtherOwners, CreateOwners, OwnersKept
<1>3. CASE UNCHANGED vars
  <2>1. ResolutionKept /\ UNCHANGED <<users, owner, job, charge, severed, cpc>>
    BY <1>3, DoorsKept DEF vars, tableVars, doorTables, routeVars
  <2>2. Accounted'
    BY <2>1 DEF OwnerInv, Accounted, Inserting, IsAt
  <2>. QED
    BY <2>1, <2>2, OwnersKept
<1>. QED
  BY <1>1, <1>2, <1>3 DEF Next

\* Whatever logins, links and merges did, the project a caller was told it created
\* belongs to a row some door leads to, and a charge that is neither earned nor
\* returned has a job under way or about to be inserted, except where a merge
\* deleted that job, or the user of that insert (merge_users, routes/jobs.py,
\* worker_run_job.py).
THEOREM NobodyStranded == ASSUME ~Overlap PROVE SiteSpec => []NothingStranded
<1>1. Init => OwnerInv
  BY CallTypes DEF Init, TablesInit, RoutesInit, OwnerInv, Accounted
<1>2. OwnerInv => NothingStranded
  <2>. SUFFICES ASSUME OwnerInv PROVE NothingStranded
    OBVIOUS
  <2>1. \A c \in Calls : c.kind = "create" /\ cpc[c] = "answered" => Reached(owner[c.project])
    BY CallTypes DEF OwnerInv
  <2>. QED
    BY <2>1 DEF NothingStranded, Reached, OwnerInv, Accounted, Inserting
<1>. QED
  BY <1>1, <1>2, OwnerNext, DoorInit, DoorNext, SiteImplements, TypeCorrect, PTL DEF Spec, TypeInv
=============================================================================
