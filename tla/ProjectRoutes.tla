--------------------------- MODULE ProjectRoutes ---------------------------
(***************************************************************************)
(* What a session can do with projects: packages/api/routes/projects.py,   *)
(* sources.py, and the part of routes/jobs.py and the worker that a merge  *)
(* of accounts can touch.  A call carries the session of some login; each  *)
(* route first compares the project's user_id with the session's user.     *)
(* An upload key and a share token are named by the call that mints them.  *)
(***************************************************************************)
EXTENDS IdentityDoors

-----------------------------------------------------------------------------
(***************************************************************************)
(* The persisted abuse caps (packages/platform/rate_limit.py, migration    *)
(* 006): one counter per key and UTC day, bumped by one atomic statement   *)
(* which returns the new count.  A request bumps the counter of its user   *)
(* and then that of its address, each in the day of its own call, and is   *)
(* admitted when both are within their limits.                             *)
(***************************************************************************)
CONSTANTS
    UserKeys, Addresses,
    UserLimit, AddressLimit,
    MaxDay                  \* bound on the days a behaviour spans

ASSUME LimitsAssumption ==
    /\ {UserLimit, AddressLimit} \subseteq Nat \ {0}
    /\ MaxDay \in Nat
    /\ UserKeys \cap Addresses = {}

VARIABLES day, counter

limitVars == <<day, counter>>

Keys == UserKeys \cup Addresses
Days == 0 .. MaxDay

LimitOf(k) == IF k \in UserKeys THEN UserLimit ELSE AddressLimit

LimitsTypeOK ==
    /\ day \in Days
    /\ counter \in [Keys -> [Days -> Nat]]

LimitsInit ==
    /\ day = 0
    /\ counter = [k \in Keys |-> [d \in Days |-> 0]]

\* consume_rate_limit: an attempt counts, admitted or not.
Consume(k) == counter' = [counter EXCEPT ![k][day] = @ + 1]

\* Is the attempt that Consume(k) counts within the limit?
Within(k) == counter[k][day] + 1 <= LimitOf(k)

MidnightUTC ==
    /\ day < MaxDay
    /\ day' = day + 1
    /\ UNCHANGED counter

-----------------------------------------------------------------------------
(***************************************************************************)
(* The calls.                                                              *)
(***************************************************************************)

CONSTANTS
    Calls,              \* records: kind, project
    Address,            \* the address all calls come from
    MaxFiles            \* MAX_FILES_PER_PROJECT

CallKinds == {"create", "enqueue", "presign", "register", "enable", "rotate", "disable"}
ShareKinds == {"enable", "rotate", "disable"}

ASSUME RoutesAssumption ==
    /\ \A c \in Calls : c.kind \in CallKinds /\ c.project \in Projects
    /\ None \notin Calls
    /\ Calls \cap Requests = {}
    /\ MaxFiles \in Nat \ {0}
    /\ UserKeys = Rows /\ Addresses = {Address}

VARIABLES
    cpc,                \* where each call stands
    caller,             \* the user its session names
    fits,               \* presign: was the user within the limit?
    counted,            \* presign, history: the days of its two counts
    keyUser,            \* presign: the user id in the prefix of the key
    uses,               \* register: the presign whose key it carries
    sources,            \* the register calls whose sources row is inserted
    token,              \* projects.share_token
    saw,                \* the token a share call read
    writes              \* and the one it goes on to write

routeVars == <<cpc, caller, fits, counted, keyUser, uses, sources, token, saw, writes>>
presignVars == <<fits, counted, keyUser>>
registerVars == <<uses, sources>>
shareVars == <<token, saw, writes>>

CallSteps == {"absent", "idle", "address", "owned", "count", "charge", "insert", "write",
              "answered", "refused"}
CallOrNone == Calls \cup {None}

RoutesTypeOK ==
    /\ cpc \in [Calls -> CallSteps]
    /\ caller \in [Calls -> RowOrNone]
    /\ fits \in [Calls -> BOOLEAN]
    /\ counted \in [Calls -> Days \X Days]
    /\ keyUser \in [Calls -> RowOrNone]
    /\ uses \in [Calls -> CallOrNone]
    /\ sources \subseteq Calls
    /\ token \in [Projects -> CallOrNone]
    /\ saw \in [Calls -> CallOrNone]
    /\ writes \in [Calls -> CallOrNone]

RoutesInit(mix) ==
    /\ cpc = [c \in Calls |-> IF c \in mix THEN "idle" ELSE "absent"]
    /\ caller = [c \in Calls |-> None]
    /\ fits = [c \in Calls |-> FALSE]
    /\ counted = [c \in Calls |-> <<0, 0>>]
    /\ keyUser = [c \in Calls |-> None]
    /\ uses = [c \in Calls |-> None]
    /\ sources = {}
    /\ token = [p \in Projects |-> None]
    /\ saw = [c \in Calls |-> None]
    /\ writes = [c \in Calls |-> None]

InFlight(c) == cpc[c] \notin {"absent", "idle", "answered", "refused"}

\* Without Overlap the registrations, and the share calls, about one project
\* come one after another: but a double-click enables twice at once.
MayCall(c) ==
    Overlap \/ \A b \in Calls \ {c} :
        InFlight(b) /\ b.project = c.project =>
            \/ {b.kind, c.kind} = {"enable"}
            \/ ~(b.kind = c.kind \/ {b.kind, c.kind} \subseteq ShareKinds)

To(c, s) == cpc' = [cpc EXCEPT ![c] = s]

Starts(c, kind) == c.kind = kind /\ cpc[c] = "idle" /\ MayCall(c)

IsAt(c, kind, s) == c.kind = kind /\ cpc[c] = s

\* _owned_project
Owned(c, u) == owner[c.project] # None /\ owner[c.project] = u

SourcesOf(p) == {c \in sources : c.project = p}

RouteStep == UNCHANGED <<doorTables, doorVars, faults>>

-----------------------------------------------------------------------------
(* Projects and their jobs.                                                *)

\* create_project: raises when the session's user was merged away.
CreateProject(c) ==
    /\ Starts(c, "create")
    /\ owner[c.project] = None
    /\ \E u \in Sessions :
        /\ caller' = [caller EXCEPT ![c] = u]
        /\ IF u \in users
           THEN owner' = [owner EXCEPT ![c.project] = u] /\ To(c, "answered")
           ELSE UNCHANGED owner /\ To(c, "refused")
    /\ UNCHANGED <<job, jobUser, charge, severed, presignVars, registerVars, shareVars, limitVars>>
    /\ RouteStep

\* POST /jobs as a merge sees it, of a project's first job: the look at the
\* project, the charge, and the row.  Ledger and row refer to the caller.
EnqueueLooks(c) ==
    /\ Starts(c, "enqueue")
    /\ \E u \in Sessions :
        /\ caller' = [caller EXCEPT ![c] = u]
        /\ To(c, IF Owned(c, u) /\ job[c.project] = "none" THEN "charge" ELSE "refused")
    /\ UNCHANGED <<presignVars, registerVars, shareVars, workTables, limitVars>>
    /\ RouteStep

\* The balance may not suffice.
EnqueueCharges(c) ==
    /\ IsAt(c, "enqueue", "charge")
    /\ \/ /\ caller[c] \in users /\ charge[c.project] = "none"
          /\ charge' = [charge EXCEPT ![c.project] = "held"]
          /\ To(c, "insert")
       \/ To(c, "refused") /\ UNCHANGED charge
    /\ UNCHANGED <<caller, owner, job, jobUser, severed, presignVars, registerVars, shareVars, limitVars>>
    /\ RouteStep

\* Only a row that is already there is refunded: an insert whose caller was
\* merged away raises, and the charge stays.
EnqueueInserts(c) ==
    /\ IsAt(c, "enqueue", "insert")
    /\ IF caller[c] \in users
       THEN /\ job' = [job EXCEPT ![c.project] = "queued"]
            /\ jobUser' = [jobUser EXCEPT ![c.project] = caller[c]]
            /\ To(c, "answered") /\ UNCHANGED severed
       ELSE /\ severed' = severed \cup {c.project}
            /\ To(c, "refused") /\ UNCHANGED <<job, jobUser>>
    /\ UNCHANGED <<caller, owner, charge, presignVars, registerVars, shareVars, limitVars>>
    /\ RouteStep

\* What the worker does to the row; a row that is gone is never written.
WorkerStep(p, from, to, settled) ==
    /\ job[p] = from
    /\ job' = [job EXCEPT ![p] = to]
    /\ charge' = [charge EXCEPT ![p] = settled]
    /\ UNCHANGED <<owner, jobUser, severed, routeVars, limitVars>>
    /\ RouteStep

WorkerClaims(p) == WorkerStep(p, "queued", "processing", charge[p])

WorkerCompletes(p) == WorkerStep(p, "processing", "completed", "earned")

WorkerFails(p) == WorkerStep(p, "processing", "failed", "returned")

-----------------------------------------------------------------------------
(* Uploads: an URL for a key, then the object's registration.              *)

\* RateLimiter.check bumps the user's counter first.
PresignCountsUser(c) ==
    /\ Starts(c, "presign")
    /\ \E u \in Sessions :
        /\ Consume(u)
        /\ fits' = [fits EXCEPT ![c] = Within(u)]
        /\ caller' = [caller EXCEPT ![c] = u]
    /\ counted' = [counted EXCEPT ![c] = <<day, day>>]
    /\ To(c, "address")
    /\ UNCHANGED <<day, keyUser, workTables, registerVars, shareVars>>
    /\ RouteStep

\* Mutant: the user's verdict is forgotten once the address has been counted.
PresignCountsAddress_Only(c) ==
    /\ IsAt(c, "presign", "address")
    /\ Consume(Address)
    /\ counted' = [counted EXCEPT ![c][2] = day]
    /\ To(c, IF Within(Address) THEN "owned" ELSE "refused")
    /\ UNCHANGED <<day, caller, fits, keyUser, workTables, registerVars, shareVars>>
    /\ RouteStep

PresignCountsAddress(c) ==
    /\ IsAt(c, "presign", "address")
    /\ Consume(Address)
    /\ counted' = [counted EXCEPT ![c][2] = day]
    /\ To(c, IF fits[c] /\ Within(Address) THEN "owned" ELSE "refused")
    /\ UNCHANGED <<day, caller, fits, keyUser, workTables, registerVars, shareVars>>
    /\ RouteStep

PresignMintsKey(c) ==
    /\ IsAt(c, "presign", "owned")
    /\ IF Owned(c, caller[c])
       THEN keyUser' = [keyUser EXCEPT ![c] = caller[c]] /\ To(c, "answered")
       ELSE UNCHANGED keyUser /\ To(c, "refused")
    /\ UNCHANGED <<caller, fits, counted, workTables, registerVars, shareVars, limitVars>>
    /\ RouteStep

\* The project and the prefix of the key must be the caller's.
RegisterChecks(c) ==
    /\ Starts(c, "register")
    /\ \E u \in Sessions, k \in {k \in Calls : keyUser[k] # None} :
        /\ caller' = [caller EXCEPT ![c] = u]
        /\ uses' = [uses EXCEPT ![c] = k]
        /\ To(c, IF Owned(c, u) /\ keyUser[k] = u THEN "count" ELSE "refused")
    /\ UNCHANGED <<presignVars, sources, shareVars, workTables, limitVars>>
    /\ RouteStep

\* get_project_sources, then object_size, which touches nothing here: the
\* object may be missing or too large.
RegisterCounts(c) ==
    /\ IsAt(c, "register", "count")
    /\ \/ /\ Cardinality(SourcesOf(c.project)) < MaxFiles
          /\ \A b \in SourcesOf(c.project) : uses[b] # uses[c]
          /\ To(c, "insert")
       \/ To(c, "refused")
    /\ UNCHANGED <<caller, presignVars, registerVars, shareVars, workTables, limitVars>>
    /\ RouteStep

RegisterInserts(c) ==
    /\ IsAt(c, "register", "insert")
    /\ sources' = sources \cup {c}
    /\ To(c, "answered")
    /\ UNCHANGED <<caller, presignVars, uses, shareVars, workTables, limitVars>>
    /\ RouteStep

-----------------------------------------------------------------------------
(* The share link: manage_share.                                           *)

\* Mutant: enabling a shared project mints a new token.
ShareReads_Mints(c) ==
    /\ Starts(c, c.kind) /\ c.kind \in ShareKinds
    /\ \E u \in Sessions :
        /\ caller' = [caller EXCEPT ![c] = u]
        /\ saw' = [saw EXCEPT ![c] = token[c.project]]
        /\ IF ~Owned(c, u)
           THEN To(c, "refused") /\ UNCHANGED writes
           ELSE /\ writes' = [writes EXCEPT ![c] = IF c.kind = "disable" THEN None ELSE c]
                /\ To(c, "write")
    /\ UNCHANGED <<token, presignVars, registerVars, workTables, limitVars>>
    /\ RouteStep

\* The project row is read once: enabling a shared project answers with the
\* token it has; every other call goes on to write.
ShareReads(c) ==
    /\ Starts(c, c.kind) /\ c.kind \in ShareKinds
    /\ \E u \in Sessions :
        /\ caller' = [caller EXCEPT ![c] = u]
        /\ saw' = [saw EXCEPT ![c] = token[c.project]]
        /\ CASE ~Owned(c, u) -> To(c, "refused") /\ UNCHANGED writes
             [] Owned(c, u) /\ c.kind = "enable" /\ token[c.project] # None ->
                    To(c, "answered") /\ UNCHANGED writes
             [] OTHER ->
                    /\ writes' = [writes EXCEPT ![c] = IF c.kind = "disable" THEN None ELSE c]
                    /\ To(c, "write")
    /\ UNCHANGED <<token, presignVars, registerVars, workTables, limitVars>>
    /\ RouteStep

\* set_project_share_token, whatever the row holds by now.
ShareWrites(c) ==
    /\ c.kind \in ShareKinds /\ cpc[c] = "write"
    /\ token' = [token EXCEPT ![c.project] = writes[c]]
    /\ To(c, "answered")
    /\ UNCHANGED <<saw, writes, caller, presignVars, registerVars, workTables, limitVars>>
    /\ RouteStep

-----------------------------------------------------------------------------

\* Midnight matters to a presign that is in flight or still to come.
Midnight ==
    /\ \E c \in Calls : c.kind = "presign" /\ (cpc[c] = "idle" \/ InFlight(c))
    /\ MidnightUTC
    /\ UNCHANGED <<workTables, routeVars>>
    /\ RouteStep

RoutesNext ==
    \/ \E c \in Calls :
        \/ CreateProject(c)
        \/ EnqueueLooks(c) \/ EnqueueCharges(c) \/ EnqueueInserts(c)
        \/ PresignCountsUser(c) \/ PresignCountsAddress(c) \/ PresignMintsKey(c)
        \/ RegisterChecks(c) \/ RegisterCounts(c) \/ RegisterInserts(c)
        \/ ShareReads(c) \/ ShareWrites(c)
    \/ \E p \in Projects : WorkerClaims(p) \/ WorkerCompletes(p) \/ WorkerFails(p)
    \/ Midnight
=============================================================================
