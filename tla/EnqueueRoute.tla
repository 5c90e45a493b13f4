---------------------------- MODULE EnqueueRoute ----------------------------
(***************************************************************************)
(* POST /jobs (packages/api/routes/jobs.py): a request passes its gates,   *)
(* is charged, and only then inserts its row.  Every await of the handler  *)
(* is a point where other requests, workers and the reaper run.            *)
(***************************************************************************)
EXTENDS GenerationJobs, Faults

CONSTANT InsertReplyLoss    \* may the reply to a committed insert be lost?

ASSUME ReplyLossAssumption == InsertReplyLoss \in BOOLEAN

VARIABLE rpc                \* where each request's handler is

RouteStates ==
    {"idle",        \* not received yet
     "entitle",     \* no active job was found: the first balance check
     "deduct",      \* entitled: deduct_for_generation's own balance check
     "charge",      \* that passed: the deduction row is about to be inserted
     "insert",      \* charged: the job row is about to be inserted
     "lookup",      \* the insert raised: look for the job that won
     "undo",        \* it was found: refund, then return it
     "enqueued",    \* answered with the new job
     "existing",    \* answered with a job that was there already
     "rejected",    \* 429, 422, 404 or 402
     "error"}       \* the handler raised or died

RouteTypeOK == rpc \in [Requests -> RouteStates]

RouteInit == rpc = [r \in Requests |-> "idle"]

Goto(r, from, to) ==
    /\ rpc[r] = from
    /\ rpc' = [rpc EXCEPT ![r] = to]

-----------------------------------------------------------------------------

\* The gates that read nothing modelled here (rate limit, package, ownership,
\* unregistered sources) turned the request away.
Reject(r) ==
    /\ Goto(r, "idle", "rejected")
    /\ UNCHANGED <<jobVars, ledgerVars, faults>>

\* Mutant: every answer with an existing job goes through the refund.
ReturnExisting_Refunds(r) ==
    /\ ActiveJobs(ProjectOf[r]) # {}
    /\ Goto(r, "idle", "undo")
    /\ UNCHANGED <<jobVars, ledgerVars, faults>>

\* The gates let it through and an active job of the project is returned.
ReturnExisting(r) ==
    /\ ActiveJobs(ProjectOf[r]) # {}
    /\ Goto(r, "idle", "existing")
    /\ UNCHANGED <<jobVars, ledgerVars, faults>>

\* The gates let it through and the project has no active job at this moment.
FindNoActive(r) ==
    /\ ActiveJobs(ProjectOf[r]) = {}
    /\ Goto(r, "idle", "entitle")
    /\ UNCHANGED <<jobVars, ledgerVars, faults>>

\* has_sufficient_credits: go on, or answer 402.
CheckEntitlement(r) ==
    /\ Goto(r, "entitle", IF HasSufficientCredits(r) THEN "deduct" ELSE "rejected")
    /\ UNCHANGED <<jobVars, ledgerVars, faults>>

\* deduct_for_generation reads the balance again; when it no longer covers the
\* price InsufficientCreditsError leaves the handler.
CheckBalance(r) ==
    /\ Goto(r, "deduct", IF HasSufficientCredits(r) THEN "charge" ELSE "error")
    /\ UNCHANGED <<jobVars, ledgerVars, faults>>

\* ... and inserts the deduction row, a round trip later.
Deduct(r) ==
    /\ Goto(r, "charge", "insert")
    /\ InsertDeduction(r)
    /\ UNCHANGED <<jobVars, faults>>

Enqueue(r) ==
    /\ Goto(r, "insert", "enqueued")
    /\ InsertJob(r)
    /\ UNCHANGED <<ledgerVars, faults>>

\* The unique index refuses the row: another job of the project is active.
EnqueueConflicts(r) ==
    /\ Goto(r, "insert", "lookup")
    /\ ActiveJobs(ProjectOf[r]) # {}
    /\ UNCHANGED <<jobVars, ledgerVars, faults>>

\* The insert raises for a reason of its own, and nothing was written.
EnqueueRaises(r) ==
    /\ Goto(r, "insert", "lookup")
    /\ Fault
    /\ UNCHANGED <<jobVars, ledgerVars>>

\* The row is committed and the reply is lost: the client raises all the same.
EnqueueReplyLost(r) ==
    /\ InsertReplyLoss
    /\ Goto(r, "insert", "lookup")
    /\ InsertJob(r)
    /\ Fault
    /\ UNCHANGED ledgerVars

\* JobQueue.enqueue after an exception: with an active job in the table it is
\* DuplicateActiveJobError, whatever the exception was; without one the
\* exception leaves the handler.
LookupWinner(r) ==
    /\ Goto(r, "lookup", IF ActiveJobs(ProjectOf[r]) # {} THEN "undo" ELSE "error")
    /\ UNCHANGED <<jobVars, ledgerVars, faults>>

UndoDeduction(r) ==
    /\ Goto(r, "undo", "existing")
    /\ Refund(r)
    /\ UNCHANGED <<jobVars, faults>>

\* The API process dies, or a call with no handler of its own raises.
RouteDies(r) ==
    /\ rpc[r] \in {"entitle", "deduct", "charge", "insert", "lookup", "undo"}
    /\ rpc' = [rpc EXCEPT ![r] = "error"]
    /\ Fault
    /\ UNCHANGED <<jobVars, ledgerVars>>

RouteStep(r) ==
    \/ Reject(r) \/ ReturnExisting(r) \/ FindNoActive(r)
    \/ CheckEntitlement(r) \/ CheckBalance(r) \/ Deduct(r)
    \/ Enqueue(r) \/ EnqueueConflicts(r)
    \/ EnqueueRaises(r) \/ EnqueueReplyLost(r)
    \/ LookupWinner(r) \/ UndoDeduction(r)
    \/ RouteDies(r)
=============================================================================
