----------------------------- MODULE JobWorker -----------------------------
(***************************************************************************)
(* scripts/worker_run_job.py: the loop service (reap, refund what was      *)
(* reaped, claim, run, land the row) and the one-shot --job-id process.    *)
(*                                                                         *)
(* A worker that lost its row to the reaper does not know it: it runs the  *)
(* pipeline to the end and finds out when its guarded write lands on       *)
(* nothing.                                                                *)
(***************************************************************************)
EXTENDS GenerationJobs, Faults

CONSTANTS
    OneShots,           \* the slots that run worker_run_job.py --job-id
    NoJob               \* a worker that holds no job

LoopWorkers == Workers \ OneShots

ASSUME WorkersAssumption ==
    /\ OneShots \subseteq Workers
    /\ NoJob \notin Requests

VARIABLES
    wpc,                \* where each worker process is
    incarnation,        \* which start of the slot's process this is
    held,               \* the job a worker claimed and runs
    readAttempts,       \* the attempts claim_job read, for its follow-up write
    owed                \* the failed rows reap_stale returned, not yet refunded

workerVars == <<wpc, incarnation, held, readAttempts, owed>>

WorkerStates ==
    {"reap", "refundReaped", "claim",       \* the loop
     "cas", "bump",                         \* the --job-id claim
     "run", "complete", "fail", "refund",   \* JobRunner
     "down", "exited"}                      \* no process

WorkerTypeOK ==
    /\ wpc \in [Workers -> WorkerStates]
    /\ incarnation \in [Workers -> Nat]
    /\ held \in [Workers -> Requests \cup {NoJob}]
    /\ readAttempts \in [Workers -> Nat]
    /\ owed \in [Workers -> SUBSET Requests]

WorkerInit ==
    /\ wpc = [w \in Workers |-> IF w \in OneShots THEN "cas" ELSE "reap"]
    /\ incarnation = [w \in Workers |-> 0]
    /\ held = [w \in Workers |-> NoJob]
    /\ readAttempts = [w \in Workers |-> 0]
    /\ owed = [w \in Workers |-> {}]

\* _worker_id()
Id(w) == <<w, incarnation[w]>>

\* Where a worker goes when it is done with a job.
AfterJob(w) == IF w \in OneShots THEN "exited" ELSE "reap"

Moves(w, from, to) ==
    /\ wpc[w] = from
    /\ wpc' = [wpc EXCEPT ![w] = to]

\* The end of JobRunner.run: the job is let go of and the heartbeat cancelled.
LetsGo(w, from) ==
    /\ Moves(w, from, AfterJob(w))
    /\ held' = [held EXCEPT ![w] = NoJob]

-----------------------------------------------------------------------------
(***************************************************************************)
(* The loop.                                                               *)
(***************************************************************************)

\* Mutant: the rows reap_stale returns are dropped.
Reap_ForgetsRows(w) ==
    /\ Moves(w, "reap", "claim")
    /\ ReapStaleJobs
    /\ UNCHANGED <<ledgerVars, incarnation, held, readAttempts, owed, faults>>

\* _reap: one call of reap_stale_jobs; the rows it failed are ours to refund.
Reap(w) ==
    /\ Moves(w, "reap", IF Exhausted = {} THEN "claim" ELSE "refundReaped")
    /\ ReapStaleJobs
    /\ owed' = [owed EXCEPT ![w] = Exhausted]
    /\ UNCHANGED <<ledgerVars, incarnation, held, readAttempts, faults>>

\* The call raises, before or after the database acted: _reap returns.
ReapRaises(w) ==
    /\ Moves(w, "reap", "claim")
    /\ ReapStaleJobs \/ UNCHANGED jobVars
    /\ Fault
    /\ UNCHANGED <<ledgerVars, incarnation, held, readAttempts, owed>>

\* One turn of _reap's loop over those rows; after the last one, the claim.
RefundReaped(w) ==
    /\ \E j \in owed[w] :
        /\ Refund(j)
        /\ owed' = [owed EXCEPT ![w] = @ \ {j}]
        /\ Moves(w, "refundReaped", IF owed[w] = {j} THEN "claim" ELSE "refundReaped")
    /\ UNCHANGED <<jobVars, incarnation, held, readAttempts, faults>>

ClaimNext(w) ==
    /\ Moves(w, "claim", "run")
    /\ \E j \in Requests :
        /\ ClaimNextJob(j, Id(w))
        /\ held' = [held EXCEPT ![w] = j]
    /\ UNCHANGED <<ledgerVars, incarnation, readAttempts, owed, faults>>

\* Nothing is queued: sleep, then the next tick.
ClaimNothing(w) ==
    /\ \A j \in Requests : jobs[j].status # "queued"
    /\ Moves(w, "claim", "reap")
    /\ UNCHANGED <<jobVars, ledgerVars, incarnation, held, readAttempts, owed, faults>>

\* claim_next raises, before or after the row was claimed: the loop takes it
\* for an empty queue.
ClaimRaises(w) ==
    /\ Moves(w, "claim", "reap")
    /\ (\E j \in Requests : ClaimNextJob(j, Id(w))) \/ UNCHANGED jobVars
    /\ Fault
    /\ UNCHANGED <<ledgerVars, incarnation, held, readAttempts, owed>>

-----------------------------------------------------------------------------
(***************************************************************************)
(* --job-id                                                                *)
(***************************************************************************)

OneShotClaims(w) ==
    /\ Moves(w, "cas", "bump")
    /\ \E j \in Requests :
        /\ ClaimJob(j, Id(w))
        /\ held' = [held EXCEPT ![w] = j]
        /\ readAttempts' = [readAttempts EXCEPT ![w] = jobs[j].attempts]
    /\ UNCHANGED <<ledgerVars, incarnation, owed, faults>>

\* The job named is not there or not queued any more.
OneShotGivesUp(w) ==
    /\ Moves(w, "cas", "exited")
    /\ \E j \in Requests : jobs[j].status # "queued"
    /\ UNCHANGED <<jobVars, ledgerVars, incarnation, held, readAttempts, owed, faults>>

OneShotBumps(w) ==
    /\ Moves(w, "bump", "run")
    /\ BumpAttempts(held[w], Id(w), readAttempts[w])
    /\ readAttempts' = [readAttempts EXCEPT ![w] = 0]
    /\ UNCHANGED <<ledgerVars, incarnation, held, owed, faults>>

-----------------------------------------------------------------------------
(***************************************************************************)
(* JobRunner                                                               *)
(***************************************************************************)

\* One beat of _heartbeat_forever.  A beat that finds the row gone is logged
\* and changes nothing.
Heartbeat(w) ==
    /\ wpc[w] \in {"run", "complete", "fail", "refund"}
    /\ HeartbeatJob(held[w], Id(w))
    /\ UNCHANGED <<ledgerVars, workerVars, faults>>

\* run_full_pipeline returned; the session row, best-effort, follows it.
PipelineSucceeds(w) ==
    /\ Moves(w, "run", "complete")
    /\ UNCHANGED <<jobVars, ledgerVars, incarnation, held, readAttempts, owed, faults>>

\* It raised, or the job type has no executor.
PipelineFails(w) ==
    /\ Moves(w, "run", "fail")
    /\ UNCHANGED <<jobVars, ledgerVars, incarnation, held, readAttempts, owed, faults>>

\* queue.complete: the guarded write lands, or the row is not ours any more.
Complete(w) ==
    /\ LetsGo(w, "complete")
    /\ \/ Finish(held[w], Id(w), "completed")
       \/ ~IsOwnedBy(held[w], Id(w)) /\ UNCHANGED jobVars
    /\ UNCHANGED <<ledgerVars, incarnation, readAttempts, owed, faults>>

\* queue.complete raises, before or after it landed: _execute's except clause
\* takes it for a failed pipeline.
CompleteRaises(w) ==
    /\ Moves(w, "complete", "fail")
    /\ Finish(held[w], Id(w), "completed") \/ UNCHANGED jobVars
    /\ Fault
    /\ UNCHANGED <<ledgerVars, incarnation, held, readAttempts, owed>>

\* Mutant: a failed pipeline lands its row and refunds nothing.
Fail_NoRefund(w) ==
    /\ LetsGo(w, "fail")
    /\ Finish(held[w], Id(w), "failed")
    /\ UNCHANGED <<ledgerVars, incarnation, readAttempts, owed, faults>>

\* queue.fail lands: the refund is ours.
Fail(w) ==
    /\ Moves(w, "fail", "refund")
    /\ Finish(held[w], Id(w), "failed")
    /\ UNCHANGED <<ledgerVars, incarnation, held, readAttempts, owed, faults>>

\* Mutant: the refund is not gated on the row being ours.
FailSuppressed_Refunds(w) ==
    /\ LetsGo(w, "fail")
    /\ ~IsOwnedBy(held[w], Id(w))
    /\ Refund(held[w])
    /\ UNCHANGED <<jobVars, incarnation, readAttempts, owed, faults>>

\* queue.fail lands on nothing: whoever took the row owns the refund.
FailSuppressed(w) ==
    /\ LetsGo(w, "fail")
    /\ ~IsOwnedBy(held[w], Id(w))
    /\ UNCHANGED <<jobVars, ledgerVars, incarnation, readAttempts, owed, faults>>

RefundOwn(w) ==
    /\ LetsGo(w, "refund")
    /\ Refund(held[w])
    /\ UNCHANGED <<jobVars, incarnation, readAttempts, owed, faults>>

-----------------------------------------------------------------------------

\* The process dies anywhere, with everything it only had in memory.  An
\* exception out of queue.fail or out of a refund ends it the same way.
Crash(w) ==
    /\ wpc[w] \notin {"down", "exited"}
    /\ wpc' = [wpc EXCEPT ![w] = IF w \in OneShots THEN "exited" ELSE "down"]
    /\ held' = [held EXCEPT ![w] = NoJob]
    /\ owed' = [owed EXCEPT ![w] = {}]
    /\ readAttempts' = [readAttempts EXCEPT ![w] = 0]
    /\ Fault
    /\ UNCHANGED <<jobVars, ledgerVars, incarnation>>

\* docker-compose: restart: unless-stopped.  The new process has a new id.
Restart(w) ==
    /\ Moves(w, "down", "reap")
    /\ incarnation' = [incarnation EXCEPT ![w] = @ + 1]
    /\ UNCHANGED <<jobVars, ledgerVars, held, readAttempts, owed, faults>>

\* What a process does of its own accord; it stops only by crashing.
LoopStep(w) ==
    \/ Reap(w) \/ RefundReaped(w)
    \/ ClaimNext(w) \/ ClaimNothing(w)

RunnerStep(w) ==
    \/ PipelineSucceeds(w) \/ PipelineFails(w)
    \/ Complete(w) \/ Fail(w) \/ FailSuppressed(w) \/ RefundOwn(w)

OneShotStep(w) ==
    \/ OneShotClaims(w) \/ OneShotGivesUp(w) \/ OneShotBumps(w)

WorkerFault(w) ==
    \/ ReapRaises(w) \/ ClaimRaises(w) \/ CompleteRaises(w) \/ Crash(w)

WorkerStep(w) ==
    \/ LoopStep(w) \/ OneShotStep(w) \/ RunnerStep(w)
    \/ Heartbeat(w) \/ WorkerFault(w) \/ Restart(w)
=============================================================================
