--------------------------- MODULE GenerationJobs ---------------------------
(***************************************************************************)
(* The generation_jobs table (supabase/migrations/006) and the JobQueue    *)
(* client over it (packages/platform/jobs.py).  Every operator below is    *)
(* one SQL statement or one SQL function: one atomic step of the database. *)
(*                                                                         *)
(* A request inserts at most one row, so a row is named by the request     *)
(* that pays for it (payload.deducted_amount).  The enqueue route accepts  *)
(* one job_type only (presentation_generation), so the unique index over   *)
(* active rows is an index over projects.  Time is abstracted to whether   *)
(* the last heartbeat is younger than the reaper's stale_seconds.          *)
(***************************************************************************)
EXTENDS CreditLedger, Sequences

CONSTANTS
    Workers,            \* worker slots: loop services and --job-id processes
    MaxAttempts,        \* generation_jobs.max_attempts
    NoWorker            \* the SQL null of worker_id

\* A worker id names one incarnation of a slot: every process start draws a
\* new one (host, pid, random suffix).
WorkerIds == Workers \X Nat

ASSUME JobsAssumption ==
    /\ MaxAttempts \in Nat \ {0}
    /\ NoWorker \notin WorkerIds

VARIABLES
    jobs,               \* the table, by row
    arrival             \* the rows in created_at order

jobVars == <<jobs, arrival>>

Statuses == {"absent", "queued", "processing", "completed", "failed"}

JobRow ==
    [status   : Statuses,
     worker   : WorkerIds \cup {NoWorker},
     attempts : Nat,
     fresh    : BOOLEAN,        \* processing, and beaten in the last stale_seconds
     \* History, which no statement reads: how often a worker took the row, and how
     \* many of those times claim_job's second write has not counted.
     claims   : Nat,
     uncounted : Int]

JobsTypeOK ==
    /\ jobs \in [Requests -> JobRow]
    /\ arrival \in Seq(Requests)
    /\ \A j \in Requests :        \* nobody holds a row that waits
        jobs[j].status \in {"absent", "queued"} => jobs[j].worker = NoWorker

NoRow == [status |-> "absent", worker |-> NoWorker, attempts |-> 0, fresh |-> FALSE,
          claims |-> 0, uncounted |-> 0]

JobsInit ==
    /\ jobs = [r \in Requests |-> NoRow]
    /\ arrival = <<>>

-----------------------------------------------------------------------------

IsActive(j) == jobs[j].status \in {"queued", "processing"}

\* Mutant: the unique index covers queued rows only.
ActiveJobs_QueuedOnly(p) ==
    {j \in Requests : ProjectOf[j] = p /\ jobs[j].status = "queued"}

\* get_active_job: the rows of project p the unique index covers.
ActiveJobs(p) == {j \in Requests : ProjectOf[j] = p /\ IsActive(j)}

\* The insert the partial unique index lets through.
InsertJob(r) ==
    /\ ActiveJobs(ProjectOf[r]) = {}
    /\ jobs' = [jobs EXCEPT ![r] = [NoRow EXCEPT !.status = "queued"]]
    /\ arrival' = Append(arrival, r)

\* claim_next_job: the oldest queued row; SKIP LOCKED makes concurrent calls
\* take different rows, as if one came after the other.
IsOldestQueued(j) ==
    \E i \in DOMAIN arrival :
        /\ arrival[i] = j
        /\ jobs[j].status = "queued"
        /\ \A k \in 1 .. i - 1 : jobs[arrival[k]].status # "queued"

ClaimNextJob(j, id) ==
    /\ IsOldestQueued(j)
    /\ jobs' = [jobs EXCEPT ![j] = [@ EXCEPT !.status   = "processing",
                                             !.worker   = id,
                                             !.attempts = jobs[j].attempts + 1,
                                             !.fresh    = TRUE,
                                             !.claims   = jobs[j].claims + 1]]
    /\ UNCHANGED arrival

\* JobQueue.claim_job, its status compare-and-set.  The attempts it writes
\* come later, in a statement of their own.
ClaimJob(j, id) ==
    /\ jobs[j].status = "queued"
    /\ jobs' = [jobs EXCEPT ![j] = [@ EXCEPT !.status    = "processing",
                                             !.worker    = id,
                                             !.fresh     = TRUE,
                                             !.claims    = jobs[j].claims + 1,
                                             !.uncounted = jobs[j].uncounted + 1]]
    /\ UNCHANGED arrival

\* The follow-up write of claim_job: attempts is what the claim read, plus
\* one; guarded by the worker's identity alone.
BumpAttempts(j, id, n) ==
    /\ IF jobs[j].worker = id
       THEN jobs' = [jobs EXCEPT ![j] = [@ EXCEPT !.attempts  = n + 1,
                                                  !.uncounted = jobs[j].uncounted - 1]]
       ELSE UNCHANGED jobs
    /\ UNCHANGED arrival

\* Mutant: the guarded writes compare the worker and forget the status.
IsOwnedBy_AnyStatus(j, id) == jobs[j].worker = id

\* The guard heartbeat_job, set_progress and _finish share.
IsOwnedBy(j, id) ==
    /\ jobs[j].worker = id
    /\ jobs[j].status = "processing"

HeartbeatJob(j, id) ==
    /\ IsOwnedBy(j, id)
    /\ jobs' = [jobs EXCEPT ![j].fresh = TRUE]
    /\ UNCHANGED arrival

\* JobQueue._finish: complete and fail.
Finish(j, id, status) ==
    /\ IsOwnedBy(j, id)
    /\ jobs' = [jobs EXCEPT ![j] = [@ EXCEPT !.status = status, !.fresh = FALSE]]
    /\ UNCHANGED arrival

\* No heartbeat reached the row for stale_seconds.
HeartbeatLapses(j) ==
    /\ jobs[j].status = "processing"
    /\ jobs[j].fresh
    /\ jobs' = [jobs EXCEPT ![j].fresh = FALSE]
    /\ UNCHANGED arrival

\* Mutant: the reaper looks at heartbeat_at only.
IsStale_AnyStatus(j) == jobs[j].worker # NoWorker /\ ~jobs[j].fresh

IsStale(j) == jobs[j].status = "processing" /\ ~jobs[j].fresh

\* Mutant: one retry too many.
MayRetry_OneMore(j) == jobs[j].attempts <= MaxAttempts

MayRetry(j) == jobs[j].attempts < MaxAttempts

\* Mutant: the caller gets back every reaped row, the queued ones too.
Exhausted_AllStale == {j \in Requests : IsStale(j)}

\* reap_stale_jobs: one transaction over the whole table.  A stale row with
\* attempts left is queued again, one without is failed (and keeps its
\* worker_id); the failed ones are what the caller gets back.
Exhausted == {j \in Requests : IsStale(j) /\ ~MayRetry(j)}

\* Mutant: worker_id survives the requeue.
Reaped_KeepsWorker(j) ==
    IF ~IsStale(j) THEN jobs[j]
    ELSE [jobs[j] EXCEPT !.status = IF MayRetry(j) THEN "queued" ELSE "failed"]

Reaped(j) ==
    IF ~IsStale(j) THEN jobs[j]
    ELSE IF MayRetry(j)
         THEN [jobs[j] EXCEPT !.status = "queued", !.worker = NoWorker]
         ELSE [jobs[j] EXCEPT !.status = "failed"]

ReapStaleJobs ==
    /\ jobs' = [j \in Requests |-> Reaped(j)]
    /\ UNCHANGED arrival
=============================================================================
