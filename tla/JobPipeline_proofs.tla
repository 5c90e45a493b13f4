------------------------- MODULE JobPipeline_proofs -------------------------
(***************************************************************************)
(* Proofs about JobPipeline, for every number of requests, workers,        *)
(* retries and failures.                                                   *)
(***************************************************************************)
EXTENDS JobPipeline, TLAPS

(***************************************************************************)
(* The job table: each statement keeps the table well typed.               *)
(***************************************************************************)
LEMMA InsertJobType ==
    ASSUME JobsTypeOK, NEW r \in Requests, InsertJob(r)
    PROVE  JobsTypeOK'
<1>. DEFINE row == [NoRow EXCEPT !.status = "queued"]
<1>1. row \in JobRow /\ row.worker = NoWorker
  <2>1. NoRow \in JobRow /\ NoRow.worker = NoWorker
    BY DEF NoRow, JobRow, Statuses
  <2>. QED
    BY <2>1 DEF JobRow, Statuses
<1>2. jobs' = [jobs EXCEPT ![r] = row] /\ arrival' = Append(arrival, r)
  BY DEF InsertJob
<1>. QED
  BY <1>1, <1>2 DEF JobsTypeOK

\* The rows the claims and the bump write.
LEMMA WrittenRowsType ==
    ASSUME NEW old \in JobRow, NEW id \in WorkerIds,
           NEW a \in Nat, NEW c \in Nat, NEW d \in Int
    PROVE  /\ [old EXCEPT !.status = "processing", !.worker = id, !.attempts = a,
                          !.fresh = TRUE, !.claims = c] \in JobRow
           /\ [old EXCEPT !.status = "processing", !.worker = id,
                          !.fresh = TRUE, !.claims = c, !.uncounted = d] \in JobRow
           /\ [old EXCEPT !.attempts = a, !.uncounted = d] \in JobRow
BY DEF JobRow, Statuses

LEMMA ClaimNextJobType ==
    ASSUME JobsTypeOK, NEW j \in Requests, NEW id \in WorkerIds, ClaimNextJob(j, id)
    PROVE  JobsTypeOK'
<1>. DEFINE old == jobs[j]
            row == [old EXCEPT !.status = "processing", !.worker = id,
                               !.attempts = old.attempts + 1, !.fresh = TRUE,
                               !.claims = old.claims + 1]
<1>1. old \in JobRow
  BY DEF JobsTypeOK
<1>2. row \in JobRow /\ row.status = "processing"
  <2>1. old.attempts + 1 \in Nat /\ old.claims + 1 \in Nat /\ old.uncounted + 1 \in Int
    BY <1>1 DEF JobRow
  <2>2. row \in JobRow
    BY ONLY <1>1, <2>1, id \in WorkerIds, WrittenRowsType
  <2>3. row.status = "processing"
    BY <1>1 DEF JobRow
  <2>. QED
    BY <2>2, <2>3
<1>3. jobs' = [jobs EXCEPT ![j] = row] /\ arrival' = arrival
  BY DEF ClaimNextJob
<1>. QED
  BY <1>2, <1>3 DEF JobsTypeOK

LEMMA ClaimJobType ==
    ASSUME JobsTypeOK, NEW j \in Requests, NEW id \in WorkerIds, ClaimJob(j, id)
    PROVE  JobsTypeOK'
<1>. DEFINE old == jobs[j]
            row == [old EXCEPT !.status = "processing", !.worker = id, !.fresh = TRUE,
                               !.claims = old.claims + 1,
                               !.uncounted = old.uncounted + 1]
<1>1. old \in JobRow
  BY DEF JobsTypeOK
<1>2. row \in JobRow /\ row.status = "processing"
  <2>1. old.attempts + 1 \in Nat /\ old.claims + 1 \in Nat /\ old.uncounted + 1 \in Int
    BY <1>1 DEF JobRow
  <2>2. row \in JobRow
    BY ONLY <1>1, <2>1, id \in WorkerIds, WrittenRowsType
  <2>3. row.status = "processing"
    BY <1>1 DEF JobRow
  <2>. QED
    BY <2>2, <2>3
<1>3. jobs' = [jobs EXCEPT ![j] = row] /\ arrival' = arrival
  BY DEF ClaimJob
<1>. QED
  BY <1>2, <1>3 DEF JobsTypeOK

LEMMA BumpAttemptsType ==
    ASSUME JobsTypeOK, NEW j, NEW id, NEW n \in Nat, BumpAttempts(j, id, n)
    PROVE  JobsTypeOK'
<1>1. CASE j \notin Requests
  <2>1. jobs' = jobs /\ arrival' = arrival
    BY <1>1 DEF BumpAttempts, JobsTypeOK
  <2>. QED
    BY <2>1 DEF JobsTypeOK
<1>2. CASE j \in Requests
  <2>. DEFINE old == jobs[j]
              row == [old EXCEPT !.attempts = n + 1, !.uncounted = old.uncounted - 1]
  <2>1. old \in JobRow
    BY <1>2 DEF JobsTypeOK
  <2>2. row \in JobRow /\ row.status = old.status /\ row.worker = old.worker
    <3>1. n + 1 \in Nat /\ old.uncounted - 1 \in Int
      BY <2>1 DEF JobRow
    <3>2. row \in JobRow
      BY <2>1, <3>1 DEF JobRow
    <3>. QED
      BY <2>1, <3>2 DEF JobRow
  <2>3. /\ jobs' = [jobs EXCEPT ![j] = row] \/ jobs' = jobs
        /\ arrival' = arrival
    BY DEF BumpAttempts
  <2>. QED
    BY <1>2, <2>2, <2>3 DEF JobsTypeOK
<1>. QED
  BY <1>1, <1>2

\* What the bump leaves alone: every other row, and the row's status and worker.
LEMMA BumpKeeps ==
    ASSUME JobsTypeOK, NEW j, NEW id, NEW n, BumpAttempts(j, id, n), NEW i \in Requests
    PROVE  /\ jobs'[i].status = jobs[i].status
           /\ jobs'[i].worker = jobs[i].worker
<1>. DEFINE old == jobs[j]
            row == [old EXCEPT !.attempts = n + 1, !.uncounted = old.uncounted - 1]
<1>1. jobs' = [jobs EXCEPT ![j] = row] \/ jobs' = jobs
  BY DEF BumpAttempts
<1>2. CASE i = j
  <2>1. old \in JobRow
    BY <1>2 DEF JobsTypeOK
  <2>2. row.status = old.status /\ row.worker = old.worker
    BY <2>1 DEF JobRow
  <2>3. jobs'[i] = row \/ jobs'[i] = jobs[i]
    BY <1>1, <1>2 DEF JobsTypeOK
  <2>. QED
    BY <1>2, <2>2, <2>3
<1>3. CASE i # j
  BY <1>1, <1>3 DEF JobsTypeOK
<1>. QED
  BY <1>2, <1>3

LEMMA HeartbeatJobType ==
    ASSUME JobsTypeOK, NEW j, NEW id, HeartbeatJob(j, id)
    PROVE  JobsTypeOK'
BY DEF JobsTypeOK, HeartbeatJob, JobRow, Statuses

LEMMA FinishType ==
    ASSUME JobsTypeOK, NEW j, NEW id, NEW s \in {"completed", "failed"}, Finish(j, id, s)
    PROVE  JobsTypeOK'
BY DEF JobsTypeOK, Finish, JobRow, Statuses

LEMMA HeartbeatLapsesType ==
    ASSUME JobsTypeOK, NEW j \in Requests, HeartbeatLapses(j)
    PROVE  JobsTypeOK'
BY DEF JobsTypeOK, HeartbeatLapses, JobRow, Statuses

LEMMA ReapStaleJobsType ==
    ASSUME JobsTypeOK, ReapStaleJobs
    PROVE  JobsTypeOK'
BY DEF JobsTypeOK, ReapStaleJobs, Reaped, IsStale, JobRow, Statuses

(***************************************************************************)
(* Type correctness: what a request's handler, a worker and a lapse of     *)
(* heartbeats write is well typed.                                         *)
(***************************************************************************)
LEMMA RefundType ==
    ASSUME LedgerTypeOK, NEW r, Refund(r)
    PROVE  LedgerTypeOK'
<1>1. CASE r \in Requests
  BY <1>1 DEF LedgerTypeOK, Refund
<1>2. CASE r \notin Requests
  BY <1>2 DEF LedgerTypeOK, Refund
<1>. QED
  BY <1>1, <1>2

LEMMA FaultType ==
    ASSUME FaultsTypeOK, Fault
    PROVE  FaultsTypeOK'
BY MaxFaultsAssumption DEF FaultsTypeOK, Fault

LEMMA RouteStepType ==
    ASSUME TypeOK, NEW r \in Requests, RouteStep(r), UNCHANGED workerVars
    PROVE  TypeOK'
<1>1. JobsTypeOK'
  <2>1. InsertJob(r) \/ UNCHANGED jobVars
    BY DEF RouteStep, Reject, ReturnExisting, FindNoActive, CheckEntitlement,
           CheckBalance, Deduct, Enqueue, EnqueueConflicts, EnqueueRaises,
           EnqueueReplyLost, LookupWinner, UndoDeduction, RouteDies
  <2>. QED
    BY <2>1, InsertJobType DEF TypeOK, jobVars, JobsTypeOK
<1>2. LedgerTypeOK'
  <2>1. InsertDeduction(r) \/ Refund(r) \/ UNCHANGED ledgerVars
    BY DEF RouteStep, Reject, ReturnExisting, FindNoActive, CheckEntitlement,
           CheckBalance, Deduct, Enqueue, EnqueueConflicts, EnqueueRaises,
           EnqueueReplyLost, LookupWinner, UndoDeduction, RouteDies
  <2>. QED
    BY <2>1, RefundType DEF TypeOK, ledgerVars, LedgerTypeOK, InsertDeduction
<1>3. RouteTypeOK'
  BY DEF TypeOK, RouteTypeOK, RouteStates, Goto,
         RouteStep, Reject, ReturnExisting, FindNoActive, CheckEntitlement,
         CheckBalance, Deduct, Enqueue, EnqueueConflicts, EnqueueRaises,
         EnqueueReplyLost, LookupWinner, UndoDeduction, RouteDies
<1>4. WorkerTypeOK'
  BY DEF TypeOK, WorkerTypeOK, workerVars
<1>5. FaultsTypeOK'
  <2>1. Fault \/ UNCHANGED faults
    BY DEF RouteStep, Reject, ReturnExisting, FindNoActive, CheckEntitlement,
           CheckBalance, Deduct, Enqueue, EnqueueConflicts, EnqueueRaises,
           EnqueueReplyLost, LookupWinner, UndoDeduction, RouteDies
  <2>. QED
    BY <2>1, FaultType DEF TypeOK, FaultsTypeOK
<1>. QED
  BY <1>1, <1>2, <1>3, <1>4, <1>5 DEF TypeOK

(* The statement a worker step executes on the job table, if any. *)
WorkerStatement(w) ==
    \/ ReapStaleJobs
    \/ \E j \in Requests : ClaimNextJob(j, Id(w)) \/ ClaimJob(j, Id(w))
    \/ wpc[w] = "bump" /\ BumpAttempts(held[w], Id(w), readAttempts[w])
    \/ HeartbeatJob(held[w], Id(w))
    \/ \E s \in {"completed", "failed"} : Finish(held[w], Id(w), s)
    \/ UNCHANGED jobVars

LEMMA WorkerStepStatement ==
    ASSUME NEW w \in Workers, WorkerStep(w)
    PROVE  WorkerStatement(w)
BY DEF WorkerStatement, Moves, RunnerStep, LoopStep, OneShotStep, WorkerFault, WorkerStep,
           Reap, ReapRaises, RefundReaped, ClaimNext, ClaimNothing, ClaimRaises,
           OneShotClaims, OneShotGivesUp, OneShotBumps, Heartbeat,
           PipelineSucceeds, PipelineFails, Complete, CompleteRaises,
           Fail, FailSuppressed, RefundOwn, Crash, Restart

LEMMA WorkerStepType ==
    ASSUME TypeOK, NEW w \in Workers, WorkerStep(w), UNCHANGED rpc
    PROVE  TypeOK'
<1>1. JobsTypeOK'
  <2>1. WorkerStatement(w)
    BY WorkerStepStatement
  <2>2. Id(w) \in WorkerIds /\ readAttempts[w] \in Nat
    BY DEF TypeOK, WorkerTypeOK, Id, WorkerIds
  <2>. QED
    BY <2>1, <2>2, ReapStaleJobsType, ClaimNextJobType, ClaimJobType,
       BumpAttemptsType, HeartbeatJobType, FinishType
       DEF TypeOK, WorkerStatement, jobVars, JobsTypeOK
<1>2. LedgerTypeOK'
  <2>1. (\E j : Refund(j)) \/ UNCHANGED ledgerVars
    BY DEF RunnerStep, LoopStep, OneShotStep, WorkerFault, WorkerStep,
           Reap, ReapRaises, RefundReaped, ClaimNext, ClaimNothing, ClaimRaises,
           OneShotClaims, OneShotGivesUp, OneShotBumps, Heartbeat,
           PipelineSucceeds, PipelineFails, Complete, CompleteRaises,
           Fail, FailSuppressed, RefundOwn, Crash, Restart
  <2>. QED
    BY <2>1, RefundType DEF TypeOK, ledgerVars, LedgerTypeOK
<1>3. RouteTypeOK'
  BY DEF TypeOK, RouteTypeOK
<1>4. WorkerTypeOK'
  <2>1. wpc' \in [Workers -> WorkerStates]
    BY DEF TypeOK, WorkerTypeOK, WorkerStates, workerVars, Moves, LetsGo, AfterJob,
           RunnerStep, LoopStep, OneShotStep, WorkerFault, WorkerStep,
           Reap, ReapRaises, RefundReaped, ClaimNext, ClaimNothing, ClaimRaises,
           OneShotClaims, OneShotGivesUp, OneShotBumps, Heartbeat,
           PipelineSucceeds, PipelineFails, Complete, CompleteRaises,
           Fail, FailSuppressed, RefundOwn, Crash, Restart
  <2>2. incarnation' \in [Workers -> Nat]
    BY DEF TypeOK, WorkerTypeOK, workerVars, RunnerStep, LoopStep, OneShotStep, WorkerFault, WorkerStep,
           Reap, ReapRaises, RefundReaped, ClaimNext, ClaimNothing, ClaimRaises,
           OneShotClaims, OneShotGivesUp, OneShotBumps, Heartbeat,
           PipelineSucceeds, PipelineFails, Complete, CompleteRaises,
           Fail, FailSuppressed, RefundOwn, Crash, Restart
  <2>3. held' \in [Workers -> Requests \cup {NoJob}]
    BY DEF TypeOK, WorkerTypeOK, workerVars, LetsGo, RunnerStep, LoopStep, OneShotStep, WorkerFault, WorkerStep,
           Reap, ReapRaises, RefundReaped, ClaimNext, ClaimNothing, ClaimRaises,
           OneShotClaims, OneShotGivesUp, OneShotBumps, Heartbeat,
           PipelineSucceeds, PipelineFails, Complete, CompleteRaises,
           Fail, FailSuppressed, RefundOwn, Crash, Restart
  <2>4. readAttempts' \in [Workers -> Nat]
    BY DEF TypeOK, WorkerTypeOK, JobsTypeOK, JobRow, workerVars, RunnerStep, LoopStep, OneShotStep, WorkerFault, WorkerStep,
           Reap, ReapRaises, RefundReaped, ClaimNext, ClaimNothing, ClaimRaises,
           OneShotClaims, OneShotGivesUp, OneShotBumps, Heartbeat,
           PipelineSucceeds, PipelineFails, Complete, CompleteRaises,
           Fail, FailSuppressed, RefundOwn, Crash, Restart
  <2>5. owed' \in [Workers -> SUBSET Requests]
    BY DEF TypeOK, WorkerTypeOK, workerVars, Exhausted, RunnerStep, LoopStep, OneShotStep, WorkerFault, WorkerStep,
           Reap, ReapRaises, RefundReaped, ClaimNext, ClaimNothing, ClaimRaises,
           OneShotClaims, OneShotGivesUp, OneShotBumps, Heartbeat,
           PipelineSucceeds, PipelineFails, Complete, CompleteRaises,
           Fail, FailSuppressed, RefundOwn, Crash, Restart
  <2>. QED
    BY <2>1, <2>2, <2>3, <2>4, <2>5 DEF WorkerTypeOK
<1>5. FaultsTypeOK'
  <2>1. Fault \/ UNCHANGED faults
    BY DEF RunnerStep, LoopStep, OneShotStep, WorkerFault, WorkerStep,
           Reap, ReapRaises, RefundReaped, ClaimNext, ClaimNothing, ClaimRaises,
           OneShotClaims, OneShotGivesUp, OneShotBumps, Heartbeat,
           PipelineSucceeds, PipelineFails, Complete, CompleteRaises,
           Fail, FailSuppressed, RefundOwn, Crash, Restart
  <2>. QED
    BY <2>1, FaultType DEF TypeOK, FaultsTypeOK
<1>. QED
  BY <1>1, <1>2, <1>3, <1>4, <1>5 DEF TypeOK

LEMMA LapseType ==
    ASSUME TypeOK, NEW j \in Requests, Lapse(j)
    PROVE  TypeOK'
BY HeartbeatLapsesType
   DEF TypeOK, Lapse, LedgerTypeOK, RouteTypeOK, WorkerTypeOK, FaultsTypeOK,
       ledgerVars, workerVars

LEMMA TypeInit == Init => TypeOK
<1>. SUFFICES ASSUME Init PROVE TypeOK
  OBVIOUS
<1>1. JobsTypeOK
  BY DEF Init, JobsInit, JobsTypeOK, NoRow, JobRow, Statuses
<1>2. LedgerTypeOK /\ RouteTypeOK
  BY DEF Init, LedgerInit, LedgerTypeOK, RouteInit, RouteTypeOK, RouteStates
<1>3. WorkerTypeOK
  BY DEF Init, WorkerInit, WorkerTypeOK, WorkerStates
<1>4. FaultsTypeOK
  BY MaxFaultsAssumption DEF Init, FaultsInit, FaultsTypeOK
<1>. QED
  BY <1>1, <1>2, <1>3, <1>4 DEF TypeOK

LEMMA TypeNext == TypeOK /\ [Next]_vars => TypeOK'
<1>. SUFFICES ASSUME TypeOK, [Next]_vars PROVE TypeOK'
  OBVIOUS
<1>1. CASE \E r \in Requests : RouteStep(r) /\ UNCHANGED workerVars
  BY <1>1, RouteStepType
<1>2. CASE \E w \in Workers : WorkerStep(w) /\ UNCHANGED rpc
  BY <1>2, WorkerStepType
<1>3. CASE \E j \in Requests : Lapse(j)
  BY <1>3, LapseType
<1>4. CASE UNCHANGED vars
  BY <1>4 DEF vars, jobVars, ledgerVars, workerVars, TypeOK, JobsTypeOK,
              LedgerTypeOK, RouteTypeOK, WorkerTypeOK, FaultsTypeOK
<1>. QED
  BY <1>1, <1>2, <1>3, <1>4 DEF Next

(* Every variable of the pipeline keeps its type, whatever the interleaving *)
(* of handlers, workers and failures (jobs.py, credits.py, worker_run_job.py). *)
THEOREM TypeCorrect == Spec => []TypeOK
BY TypeInit, TypeNext, PTL DEF Spec

(***************************************************************************)
(* The job table under every interleaving of handlers, workers, reapers    *)
(* and failures: terminal rows stay as they are, a project has one active  *)
(* job, and no job is attempted more often than max_attempts allows.       *)
(* Nothing here depends on how the insert's reply travels.                 *)
(***************************************************************************)

\* A step of the pipeline executes one statement on the table.  Which one is
\* all the theorems below look at; the insert comes from a handler about to
\* insert, the bump from a one-shot worker about to bump.
TableStep ==
    \/ \E r \in Requests :
        /\ rpc[r] = "insert"
        /\ rpc'[r] \in {"enqueued", "lookup"}
        /\ InsertJob(r)
    \/ \E j \in Requests, id \in WorkerIds : ClaimNextJob(j, id) \/ ClaimJob(j, id)
    \/ \E w \in Workers :
        wpc[w] = "bump" /\ BumpAttempts(held[w], Id(w), readAttempts[w])
    \/ \E j, id : HeartbeatJob(j, id)
    \/ \E j, id : \E s \in {"completed", "failed"} : Finish(j, id, s)
    \/ \E j \in Requests : HeartbeatLapses(j)
    \/ ReapStaleJobs
    \/ UNCHANGED jobVars

LEMMA NextIsTableStep ==
    ASSUME TypeOK, [Next]_vars
    PROVE  TableStep
<1>1. ASSUME NEW r \in Requests, RouteStep(r) PROVE TableStep
  BY <1>1 DEF TableStep, TypeOK, RouteTypeOK, Goto, RouteStep, Reject, ReturnExisting, FindNoActive,
         CheckEntitlement, CheckBalance, Deduct, Enqueue, EnqueueConflicts,
         EnqueueRaises, EnqueueReplyLost, LookupWinner, UndoDeduction, RouteDies
<1>2. ASSUME NEW w \in Workers, WorkerStep(w) PROVE TableStep
  <2>1. Id(w) \in WorkerIds
    BY DEF TypeOK, WorkerTypeOK, Id, WorkerIds
  <2>. QED
    BY <1>2, <2>1, WorkerStepStatement DEF WorkerStatement, TableStep
<1>3. ASSUME NEW j \in Requests, Lapse(j) PROVE TableStep
  BY <1>3 DEF TableStep, Lapse
<1>4. CASE UNCHANGED vars
  BY <1>4 DEF TableStep, vars, jobVars
<1>. QED
  BY <1>1, <1>2, <1>3, <1>4 DEF Next

(***************************************************************************)
(* A handler that has not inserted yet has no row, so an insert never      *)
(* overwrites one.                                                         *)
(***************************************************************************)
NoRowYet ==
    \A r \in Requests :
        rpc[r] \in {"idle", "entitle", "deduct", "charge", "insert"} =>
            jobs[r].status = "absent"

RowInv == TypeOK /\ NoRowYet

\* No statement but the insert brings a row into being.
LEMMA OnlyInsertCreates ==
    ASSUME JobsTypeOK, TableStep, NEW i \in Requests, jobs[i].status = "absent",
           rpc'[i] \notin {"enqueued", "lookup"}
    PROVE  jobs'[i].status = "absent"
<1>1. ASSUME NEW r \in Requests, rpc'[r] \in {"enqueued", "lookup"}, InsertJob(r)
      PROVE  jobs'[i].status = "absent"
  BY <1>1 DEF InsertJob, JobsTypeOK
<1>2. ASSUME NEW j \in Requests, NEW id, ClaimNextJob(j, id) \/ ClaimJob(j, id)
      PROVE  jobs'[i].status = "absent"
  <2>1. CASE ClaimNextJob(j, id)
    BY <2>1 DEF ClaimNextJob, IsOldestQueued, JobsTypeOK
  <2>2. CASE ClaimJob(j, id)
    BY <2>2 DEF ClaimJob, JobsTypeOK
  <2>. QED
    BY <1>2, <2>1, <2>2
<1>3. ASSUME NEW j, NEW id, NEW n, BumpAttempts(j, id, n)
      PROVE  jobs'[i].status = "absent"
  BY <1>3, BumpKeeps DEF IsActive
<1>4. ASSUME NEW j, NEW id, HeartbeatJob(j, id)
      PROVE  jobs'[i].status = "absent"
  BY <1>4 DEF HeartbeatJob, IsOwnedBy, JobsTypeOK, JobRow
<1>5. ASSUME NEW j, NEW id, NEW s, Finish(j, id, s)
      PROVE  jobs'[i].status = "absent"
  BY <1>5 DEF Finish, IsOwnedBy, JobsTypeOK, JobRow
<1>6. ASSUME NEW j \in Requests, HeartbeatLapses(j)
      PROVE  jobs'[i].status = "absent"
  BY <1>6 DEF HeartbeatLapses, JobsTypeOK, JobRow
<1>7. CASE ReapStaleJobs
  BY <1>7 DEF ReapStaleJobs, Reaped, IsStale, JobsTypeOK
<1>. QED
  BY <1>1, <1>2, <1>3, <1>4, <1>5, <1>6, <1>7 DEF TableStep, jobVars

LEMMA RowNext == RowInv /\ [Next]_vars => RowInv'
<1>. SUFFICES ASSUME RowInv, [Next]_vars, NEW i \in Requests,
                     rpc'[i] \in {"idle", "entitle", "deduct", "charge", "insert"}
              PROVE  jobs'[i].status = "absent"
  BY TypeNext DEF RowInv, NoRowYet
<1>1. rpc[i] \in {"idle", "entitle", "deduct", "charge"} \/ UNCHANGED rpc \/ rpc'[i] = rpc[i]
  <2>1. ASSUME NEW r \in Requests, RouteStep(r)
        PROVE  rpc[i] \in {"idle", "entitle", "deduct", "charge"} \/ rpc'[i] = rpc[i]
    BY <2>1 DEF RowInv, TypeOK, RouteTypeOK, Goto, RouteStep, Reject, ReturnExisting,
           FindNoActive, CheckEntitlement, CheckBalance, Deduct, Enqueue,
           EnqueueConflicts, EnqueueRaises, EnqueueReplyLost, LookupWinner,
           UndoDeduction, RouteDies
  <2>. QED
    BY <2>1 DEF Next, Lapse, vars
<1>. QED
  BY <1>1, NextIsTableStep, OnlyInsertCreates DEF RowInv, NoRowYet, TypeOK

(***************************************************************************)
(* Terminal rows.                                                          *)
(***************************************************************************)
RowKept(j) ==
    jobs[j].status \in {"completed", "failed"} =>
        /\ jobs'[j].status = jobs[j].status
        /\ jobs'[j].worker = jobs[j].worker

LEMMA TableStepKeepsTerminalRows ==
    ASSUME RowInv, TableStep, NEW j \in Requests
    PROVE  RowKept(j)
<1>1. ASSUME NEW r \in Requests, rpc[r] = "insert", InsertJob(r) PROVE RowKept(j)
  BY <1>1 DEF InsertJob, RowInv, NoRowYet, TypeOK, JobsTypeOK, RowKept
<1>2. ASSUME NEW i \in Requests, NEW id, ClaimNextJob(i, id) \/ ClaimJob(i, id)
      PROVE  RowKept(j)
  <2>1. CASE ClaimNextJob(i, id)
    BY <2>1 DEF ClaimNextJob, IsOldestQueued, RowInv, TypeOK, JobsTypeOK, RowKept
  <2>2. CASE ClaimJob(i, id)
    BY <2>2 DEF ClaimJob, RowInv, TypeOK, JobsTypeOK, RowKept
  <2>. QED
    BY <1>2, <2>1, <2>2
<1>3. ASSUME NEW i, NEW id, NEW n, BumpAttempts(i, id, n) PROVE RowKept(j)
  BY <1>3, BumpKeeps DEF RowInv, TypeOK, RowKept
<1>4. ASSUME NEW i, NEW id, HeartbeatJob(i, id) PROVE RowKept(j)
  BY <1>4 DEF HeartbeatJob, RowInv, TypeOK, JobsTypeOK, JobRow, RowKept
<1>5. ASSUME NEW i, NEW id, NEW s, Finish(i, id, s) PROVE RowKept(j)
  BY <1>5 DEF Finish, IsOwnedBy, RowInv, TypeOK, JobsTypeOK, JobRow, RowKept
<1>6. ASSUME NEW i \in Requests, HeartbeatLapses(i) PROVE RowKept(j)
  BY <1>6 DEF HeartbeatLapses, RowInv, TypeOK, JobsTypeOK, JobRow, RowKept
<1>7. CASE ReapStaleJobs
  BY <1>7 DEF ReapStaleJobs, Reaped, IsStale, RowInv, TypeOK, JobsTypeOK, RowKept
<1>8. CASE UNCHANGED jobVars
  BY <1>8 DEF jobVars, RowKept
<1>. QED
  BY <1>1, <1>2, <1>3, <1>4, <1>5, <1>6, <1>7, <1>8 DEF TableStep

\* A row that completed or failed is final: no late worker, no reaper and no
\* second enqueue changes its status or its owner (jobs.py, _finish and
\* claim_job; reap_stale_jobs; the insert of enqueue).
THEOREM TerminalRowsAreFinal == Spec => TerminalIsFinal
<1>1. Init => RowInv
  <2>1. Init => NoRowYet
    BY DEF Init, JobsInit, NoRow, NoRowYet
  <2>. QED
    BY <2>1, TypeInit DEF RowInv
<1>2. RowInv /\ [Next]_vars => RowInv'
  BY RowNext
<1>3. RowInv /\ [Next]_vars => [\A j \in Requests : RowKept(j)]_jobs
  BY NextIsTableStep, TableStepKeepsTerminalRows DEF RowInv
<1>4. [\A j \in Requests : RowKept(j)]_jobs
      <=> [\A j \in Requests : jobs[j].status \in {"completed", "failed"} =>
             /\ jobs'[j].status = jobs[j].status
             /\ jobs'[j].worker = jobs[j].worker]_jobs
  BY DEF RowKept
<1>. QED
  BY <1>1, <1>2, <1>3, <1>4, PTL DEF Spec, TerminalIsFinal

(***************************************************************************)
(* One active job for a project.                                           *)
(***************************************************************************)
LEMMA OnlyInsertActivates ==
    ASSUME JobsTypeOK, TableStep, NEW i \in Requests, ~ IsActive(i), ~ InsertJob(i)
    PROVE  ~ IsActive(i)'
<1>. USE DEF IsActive
<1>1. ASSUME NEW r \in Requests, InsertJob(r), r # i PROVE ~ IsActive(i)'
  BY <1>1 DEF InsertJob, JobsTypeOK
<1>2. ASSUME NEW j \in Requests, NEW id, ClaimNextJob(j, id) \/ ClaimJob(j, id)
      PROVE  ~ IsActive(i)'
  <2>1. CASE ClaimNextJob(j, id)
    BY <2>1 DEF ClaimNextJob, IsOldestQueued, JobsTypeOK
  <2>2. CASE ClaimJob(j, id)
    BY <2>2 DEF ClaimJob, JobsTypeOK
  <2>. QED
    BY <1>2, <2>1, <2>2
<1>3. ASSUME NEW j, NEW id, NEW n, BumpAttempts(j, id, n) PROVE ~ IsActive(i)'
  BY <1>3, BumpKeeps DEF IsActive
<1>4. ASSUME NEW j, NEW id, HeartbeatJob(j, id) PROVE ~ IsActive(i)'
  BY <1>4 DEF HeartbeatJob, JobsTypeOK, JobRow
<1>5. ASSUME NEW j, NEW id, NEW s, Finish(j, id, s) PROVE ~ IsActive(i)'
  BY <1>5 DEF Finish, IsOwnedBy, JobsTypeOK, JobRow
<1>6. ASSUME NEW j \in Requests, HeartbeatLapses(j) PROVE ~ IsActive(i)'
  BY <1>6 DEF HeartbeatLapses, JobsTypeOK, JobRow
<1>7. CASE ReapStaleJobs
  BY <1>7 DEF ReapStaleJobs, Reaped, IsStale, JobsTypeOK
<1>. QED
  BY <1>1, <1>2, <1>3, <1>4, <1>5, <1>6, <1>7 DEF TableStep, jobVars

LEMMA OneActiveNext ==
    TypeOK /\ OneActiveJobPerProject /\ [Next]_vars => OneActiveJobPerProject'
<1>. SUFFICES ASSUME TypeOK, OneActiveJobPerProject, TableStep
              PROVE  OneActiveJobPerProject'
  BY NextIsTableStep
<1>1. CASE \E r \in Requests : InsertJob(r)
  <2>1. PICK r \in Requests : InsertJob(r)
    BY <1>1
  <2>2. \A i \in Requests : i # r => (IsActive(i)' <=> IsActive(i))
    BY <2>1 DEF InsertJob, IsActive, TypeOK, JobsTypeOK
  <2>3. \A i \in Requests : ProjectOf[i] = ProjectOf[r] => ~ IsActive(i)
    BY <2>1 DEF InsertJob, ActiveJobs
  <2>. QED
    BY <2>2, <2>3 DEF OneActiveJobPerProject
<1>2. CASE \A r \in Requests : ~ InsertJob(r)
  <2>1. \A i \in Requests : IsActive(i)' => IsActive(i)
    BY <1>2, OnlyInsertActivates DEF TypeOK
  <2>. QED
    BY <2>1 DEF OneActiveJobPerProject
<1>. QED
  BY <1>1, <1>2

\* uq_generation_jobs_active is kept by everything that is not an insert: no
\* claim, reap or late write makes a second job of a project active again.
THEOREM OneActiveJob == Spec => []OneActiveJobPerProject
<1>1. Init => OneActiveJobPerProject
  BY DEF Init, JobsInit, NoRow, OneActiveJobPerProject, IsActive
<1>. QED
  BY <1>1, OneActiveNext, TypeCorrect, PTL DEF Spec

(***************************************************************************)
(* Attempts.  claim_job writes the attempts it read a statement earlier;   *)
(* in between the reaper may requeue the row and another worker claim it.  *)
(* The write then finds another worker_id, and what it would have written  *)
(* is within the limit in any case: a queued row has an attempt left.      *)
(***************************************************************************)
RowWithinLimit(row) ==
    /\ row.attempts <= MaxAttempts
    /\ row.status = "queued" => row.attempts < MaxAttempts
    /\ row.claims <= row.attempts + row.uncounted

\* A one-shot worker that is about to count its claim, on a row still its own:
\* nobody else counted anything there since it read the attempts.
ReadIsCurrent(w) ==
    wpc[w] = "bump" =>
        /\ readAttempts[w] < MaxAttempts
        /\ held[w] \in Requests
        /\ jobs[held[w]].worker = Id(w) => jobs[held[w]].attempts = readAttempts[w]

AttemptsInv ==
    /\ TypeOK
    /\ \A j \in Requests : RowWithinLimit(jobs[j])
    /\ \A w \in Workers : ReadIsCurrent(w)

LEMMA TableStepWithinLimit ==
    ASSUME AttemptsInv, TableStep, NEW i \in Requests
    PROVE  RowWithinLimit(jobs'[i])
<1>. USE JobsAssumption DEF RowWithinLimit
<1>0. /\ JobsTypeOK /\ RowWithinLimit(jobs[i])
      /\ jobs[i] \in JobRow /\ MaxAttempts \in Nat \ {0}
      /\ jobs[i].attempts \in Nat /\ jobs[i].claims \in Nat /\ jobs[i].uncounted \in Int
  BY DEF AttemptsInv, TypeOK, JobsTypeOK, JobRow
<1>1. ASSUME NEW r \in Requests, InsertJob(r) PROVE RowWithinLimit(jobs'[i])
  <2>1. \/ jobs'[i] = jobs[i]
        \/ /\ jobs'[i].attempts = 0 /\ jobs'[i].status = "queued"
           /\ jobs'[i].claims = 0 /\ jobs'[i].uncounted = 0
    BY <1>0, <1>1 DEF InsertJob, NoRow, JobsTypeOK
  <2>. QED
    BY <1>0, <2>1
<1>2. ASSUME NEW j \in Requests, NEW id, ClaimNextJob(j, id) PROVE RowWithinLimit(jobs'[i])
  <2>1. \/ jobs'[i] = jobs[i]
        \/ /\ jobs[i].status = "queued"
           /\ jobs'[i].attempts = jobs[i].attempts + 1
           /\ jobs'[i].claims = jobs[i].claims + 1
           /\ jobs'[i].uncounted = jobs[i].uncounted
           /\ jobs'[i].status = "processing"
    <3>1. CASE i = j
      BY <1>0, <1>2, <3>1 DEF ClaimNextJob, IsOldestQueued, JobsTypeOK, JobRow
    <3>2. ASSUME i # j PROVE jobs'[i] = jobs[i]
      BY <1>0, <1>2, <3>2 DEF ClaimNextJob, JobsTypeOK
    <3>. QED
      BY <3>1, <3>2
  <2>. QED
    BY <1>0, <2>1
<1>3. ASSUME NEW j \in Requests, NEW id, ClaimJob(j, id) PROVE RowWithinLimit(jobs'[i])
  <2>1. \/ jobs'[i] = jobs[i]
        \/ /\ jobs'[i].attempts = jobs[i].attempts
           /\ jobs'[i].claims = jobs[i].claims + 1
           /\ jobs'[i].uncounted = jobs[i].uncounted + 1
           /\ jobs'[i].status = "processing"
    <3>1. CASE i = j
      BY <1>0, <1>3, <3>1 DEF ClaimJob, JobsTypeOK, JobRow
    <3>2. ASSUME i # j PROVE jobs'[i] = jobs[i]
      BY <1>0, <1>3, <3>2 DEF ClaimJob, JobsTypeOK
    <3>. QED
      BY <3>1, <3>2
  <2>. QED
    BY <1>0, <2>1
<1>4. ASSUME NEW w \in Workers, wpc[w] = "bump",
             BumpAttempts(held[w], Id(w), readAttempts[w])
      PROVE  RowWithinLimit(jobs'[i])
  <2>1. readAttempts[w] \in Nat /\ readAttempts[w] < MaxAttempts /\ Id(w) # NoWorker
    BY <1>4 DEF AttemptsInv, ReadIsCurrent, TypeOK, WorkerTypeOK, Id, WorkerIds
  <2>2. \/ jobs'[i] = jobs[i]
        \/ /\ jobs[i].attempts = readAttempts[w]
           /\ jobs'[i].attempts = readAttempts[w] + 1
           /\ jobs'[i].claims = jobs[i].claims
           /\ jobs'[i].uncounted = jobs[i].uncounted - 1
           /\ jobs'[i].status # "queued"
    <3>1. CASE i = held[w] /\ jobs[i].worker = Id(w)
      <4>1. jobs[i].attempts = readAttempts[w] /\ jobs[i].status # "queued"
        BY <1>0, <1>4, <2>1, <3>1 DEF AttemptsInv, ReadIsCurrent, JobsTypeOK
      <4>2. jobs'[i] = [jobs[i] EXCEPT !.attempts = readAttempts[w] + 1,
                                       !.uncounted = jobs[i].uncounted - 1]
        BY <1>0, <1>4, <3>1 DEF BumpAttempts, JobsTypeOK
      <4>. QED
        BY <1>0, <4>1, <4>2 DEF JobRow
    <3>2. ASSUME ~ (i = held[w] /\ jobs[i].worker = Id(w)) PROVE jobs'[i] = jobs[i]
      BY <1>0, <1>4, <3>2 DEF BumpAttempts, JobsTypeOK
    <3>. QED
      BY <3>1, <3>2
  <2>. QED
    BY <1>0, <2>1, <2>2
<1>5. ASSUME NEW j, NEW id, HeartbeatJob(j, id) PROVE RowWithinLimit(jobs'[i])
  BY <1>0, <1>5 DEF HeartbeatJob, IsOwnedBy, JobsTypeOK, JobRow
<1>6. ASSUME NEW j, NEW id, NEW s \in {"completed", "failed"}, Finish(j, id, s)
      PROVE  RowWithinLimit(jobs'[i])
  BY <1>0, <1>6 DEF Finish, JobsTypeOK, JobRow
<1>7. ASSUME NEW j \in Requests, HeartbeatLapses(j) PROVE RowWithinLimit(jobs'[i])
  BY <1>0, <1>7 DEF HeartbeatLapses, JobsTypeOK, JobRow
<1>8. CASE ReapStaleJobs
  BY <1>0, <1>8 DEF ReapStaleJobs, Reaped, MayRetry, JobsTypeOK, JobRow
<1>9. CASE UNCHANGED jobVars
  BY <1>0, <1>9 DEF jobVars
<1>. QED
  BY <1>1, <1>2, <1>3, <1>4, <1>5, <1>6, <1>7, <1>8, <1>9 DEF TableStep

\* A row that is w's after a step of anybody else was w's before it, with the same
\* count.
LEMMA OthersCountElsewhere ==
    ASSUME TypeOK, [Next]_vars, NEW w \in Workers, NEW i \in Requests,
           WorkerStep(w) => Heartbeat(w), jobs'[i].worker = Id(w)
    PROVE  jobs[i].worker = Id(w) /\ jobs'[i].attempts = jobs[i].attempts
<1>. DEFINE Kept == jobs[i].worker = Id(w) /\ jobs'[i].attempts = jobs[i].attempts
<1>0. /\ JobsTypeOK /\ jobs[i] \in JobRow
      /\ Id(w) \in WorkerIds /\ Id(w) # NoWorker
  BY JobsAssumption DEF TypeOK, JobsTypeOK, WorkerTypeOK, Id, WorkerIds
<1>1. ASSUME NEW r \in Requests, RouteStep(r) PROVE Kept
  <2>1. InsertJob(r) \/ UNCHANGED jobVars
    BY <1>1 DEF RouteStep, Reject, ReturnExisting, FindNoActive, CheckEntitlement,
           CheckBalance, Deduct, Enqueue, EnqueueConflicts, EnqueueRaises,
           EnqueueReplyLost, LookupWinner, UndoDeduction, RouteDies
  <2>2. jobs'[i] = jobs[i] \/ jobs'[i].worker = NoWorker
    BY <1>0, <2>1 DEF InsertJob, NoRow, JobsTypeOK, jobVars
  <2>. QED
    BY <1>0, <2>2
<1>2. ASSUME HeartbeatJob(held[w], Id(w)) PROVE Kept
  BY <1>0, <1>2 DEF HeartbeatJob, JobsTypeOK, JobRow
<1>3. ASSUME NEW v \in Workers, v # w, WorkerStep(v) PROVE Kept
  <2>0. Id(v) # Id(w)
    BY <1>3 DEF Id
  <2>1. WorkerStatement(v)
    BY <1>3, WorkerStepStatement
  <2>2. CASE ReapStaleJobs
    BY <1>0, <2>2 DEF ReapStaleJobs, Reaped, JobsTypeOK, JobRow
  <2>3. ASSUME NEW j \in Requests, ClaimNextJob(j, Id(v)) PROVE Kept
    <3>1. jobs'[i] = jobs[i] \/ jobs'[i].worker = Id(v)
      BY <1>0, <2>3 DEF ClaimNextJob, JobsTypeOK, JobRow
    <3>. QED
      BY <1>0, <2>0, <3>1
  <2>4. ASSUME NEW j \in Requests, ClaimJob(j, Id(v)) PROVE Kept
    <3>1. jobs'[i] = jobs[i] \/ jobs'[i].worker = Id(v)
      BY <1>0, <2>4 DEF ClaimJob, JobsTypeOK, JobRow
    <3>. QED
      BY <1>0, <2>0, <3>1
  <2>5. ASSUME BumpAttempts(held[v], Id(v), readAttempts[v]) PROVE Kept
    <3>1. jobs'[i].worker = jobs[i].worker
      BY <1>0, <2>5, BumpKeeps
    <3>2. ~ (i = held[v] /\ jobs[i].worker = Id(v))
      BY <2>0, <3>1
    <3>3. jobs'[i] = jobs[i]
      BY <1>0, <2>5, <3>2 DEF BumpAttempts, JobsTypeOK
    <3>. QED
      BY <3>3
  <2>6. ASSUME HeartbeatJob(held[v], Id(v)) PROVE Kept
    BY <1>0, <2>6 DEF HeartbeatJob, JobsTypeOK, JobRow
  <2>7. ASSUME NEW s \in {"completed", "failed"}, Finish(held[v], Id(v), s) PROVE Kept
    BY <1>0, <2>7 DEF Finish, JobsTypeOK, JobRow
  <2>8. CASE UNCHANGED jobVars
    BY <2>8 DEF jobVars
  <2>. QED
    BY <2>1, <2>2, <2>3, <2>4, <2>5, <2>6, <2>7, <2>8 DEF WorkerStatement
<1>4. ASSUME NEW j \in Requests, Lapse(j) PROVE Kept
  BY <1>0, <1>4 DEF Lapse, HeartbeatLapses, JobsTypeOK, JobRow
<1>5. CASE UNCHANGED vars
  BY <1>5 DEF vars, jobVars
<1>6. CASE WorkerStep(w)
  BY <1>2, <1>6 DEF Heartbeat
<1>. QED
  BY <1>1, <1>3, <1>4, <1>5, <1>6 DEF Next

LEMMA AttemptsNext == AttemptsInv /\ [Next]_vars => AttemptsInv'
<1>. SUFFICES ASSUME AttemptsInv, [Next]_vars PROVE AttemptsInv'
  OBVIOUS
<1>1. \A i \in Requests : RowWithinLimit(jobs'[i])
  BY NextIsTableStep, TableStepWithinLimit DEF AttemptsInv
<1>2. ASSUME NEW w \in Workers, wpc'[w] = "bump" PROVE ReadIsCurrent(w)'
  <2>0. incarnation'[w] = incarnation[w] \/ ~ UNCHANGED <<wpc, held, readAttempts>>
    BY DEF Next, Lapse, vars, workerVars, TypeOK, WorkerTypeOK, AttemptsInv, Moves,
           WorkerStep, RunnerStep, LoopStep, OneShotStep, WorkerFault,
           Reap, ReapRaises, RefundReaped, ClaimNext, ClaimNothing, ClaimRaises,
           OneShotClaims, OneShotGivesUp, OneShotBumps, Heartbeat,
           PipelineSucceeds, PipelineFails, Complete, CompleteRaises,
           Fail, FailSuppressed, RefundOwn, Crash, Restart
  <2>1. UNCHANGED workerVars \/ \E v \in Workers : WorkerStep(v)
    BY DEF Next, Lapse, vars
  <2>2. ASSUME NEW v \in Workers, WorkerStep(v)
        PROVE  \/ /\ wpc[w] = "bump" /\ readAttempts'[w] = readAttempts[w]
                  /\ held'[w] = held[w] /\ incarnation'[w] = incarnation[w]
                  /\ v = w => Heartbeat(w)
               \/ v = w /\ OneShotClaims(w)
    BY <1>2, <2>2 DEF AttemptsInv, TypeOK, WorkerTypeOK, Moves, LetsGo, AfterJob, workerVars,
           RunnerStep, LoopStep, OneShotStep, WorkerFault, WorkerStep,
           Reap, ReapRaises, RefundReaped, ClaimNext, ClaimNothing, ClaimRaises,
           OneShotClaims, OneShotGivesUp, OneShotBumps, Heartbeat,
           PipelineSucceeds, PipelineFails, Complete, CompleteRaises,
           Fail, FailSuppressed, RefundOwn, Crash, Restart
  <2>3. CASE OneShotClaims(w)
    <3>1. PICK j \in Requests :
            /\ ClaimJob(j, Id(w))
            /\ held' = [held EXCEPT ![w] = j]
            /\ readAttempts' = [readAttempts EXCEPT ![w] = jobs[j].attempts]
      BY <2>3 DEF OneShotClaims
    <3>2. held'[w] = j /\ readAttempts'[w] = jobs[j].attempts
      BY <3>1 DEF AttemptsInv, TypeOK, WorkerTypeOK
    <3>3. jobs[j].attempts < MaxAttempts
      BY <3>1 DEF ClaimJob, AttemptsInv, RowWithinLimit
    <3>4. jobs'[j].attempts = jobs[j].attempts
      BY <3>1 DEF ClaimJob, AttemptsInv, TypeOK, JobsTypeOK, JobRow
    <3>. QED
      BY <3>2, <3>3, <3>4 DEF ReadIsCurrent
  <2>4. ASSUME wpc[w] = "bump", readAttempts'[w] = readAttempts[w], held'[w] = held[w],
               incarnation'[w] = incarnation[w], WorkerStep(w) => Heartbeat(w)
        PROVE  ReadIsCurrent(w)'
    <3>1. ReadIsCurrent(w) /\ held[w] \in Requests /\ Id(w)' = Id(w) /\ TypeOK
      BY <2>4 DEF AttemptsInv, ReadIsCurrent, Id
    <3>2. ASSUME jobs'[held[w]].worker = Id(w)
          PROVE  jobs[held[w]].worker = Id(w) /\ jobs'[held[w]].attempts = jobs[held[w]].attempts
      BY <2>4, <3>1, <3>2, OthersCountElsewhere
    <3>. QED
      BY <2>4, <3>1, <3>2 DEF ReadIsCurrent
  <2>. QED
    BY <1>2, <2>1, <2>2, <2>3, <2>4 DEF workerVars
<1>. QED
  BY <1>1, <1>2, TypeNext DEF AttemptsInv, ReadIsCurrent

\* A job is claimed at most max_attempts times, and once more for every claim whose
\* count never landed, however claims, reaps and the late bump of claim_job interleave.
THEOREM AttemptsBounded == Spec => []AttemptsWithinLimit
<1>1. Init => AttemptsInv
  <2>1. Init => /\ \A j \in Requests :
                      /\ jobs[j].attempts = 0 /\ jobs[j].status = "absent"
                      /\ jobs[j].claims = 0 /\ jobs[j].uncounted = 0
                /\ \A w \in Workers : wpc[w] # "bump"
    BY DEF Init, JobsInit, NoRow, WorkerInit
  <2>. QED
    BY <2>1, TypeInit, JobsAssumption DEF AttemptsInv, RowWithinLimit, ReadIsCurrent
<1>2. AttemptsInv => AttemptsWithinLimit
  <2>1. ASSUME AttemptsInv, NEW j \in Requests
        PROVE  jobs[j].claims <= MaxAttempts + jobs[j].uncounted
    <3>1. /\ jobs[j].attempts \in Nat /\ jobs[j].claims \in Nat /\ jobs[j].uncounted \in Int
          /\ MaxAttempts \in Nat
      BY <2>1, JobsAssumption DEF AttemptsInv, TypeOK, JobsTypeOK, JobRow
    <3>. QED
      BY <2>1, <3>1 DEF AttemptsInv, RowWithinLimit
  <2>. QED
    BY <2>1 DEF AttemptsWithinLimit
<1>. QED
  BY <1>1, <1>2, AttemptsNext, PTL DEF Spec

(***************************************************************************)
(* Refunds, for every number of requests, workers, retries and failures:   *)
(* a charge is given back at most once, only when nothing was delivered,   *)
(* and always by somebody while the environment behaves.                   *)
(*                                                                         *)
(* The argument is TokenInv.  The write that fails a row hands its writer  *)
(* the right to refund it, and a row fails once, so there is one such      *)
(* right for a request and it is gone when the refund row is there.  The   *)
(* handler that lost the enqueue race refunds a request that has no row,   *)
(* so its refund never meets a worker's.                                   *)
(*                                                                         *)
(* That last sentence is false when the reply to a committed insert can be *)
(* lost (the run Enqueue_lost_reply), hence the hypothesis NoReplyLoss.    *)
(***************************************************************************)
NoReplyLoss == InsertReplyLoss = FALSE

RefundParts == HandlerInv /\ TokenInv /\ TokenHeldInv

(***************************************************************************)
(* What the statements on the job table do to a row's status.              *)
(***************************************************************************)
LEMMA StatusesKept ==
    ASSUME JobsTypeOK,
           \/ \E j, id, n : BumpAttempts(j, id, n)
           \/ \E j, id : HeartbeatJob(j, id)
           \/ \E j \in Requests : HeartbeatLapses(j)
           \/ UNCHANGED jobVars
    PROVE  \A i \in Requests : jobs'[i].status = jobs[i].status
<1>1. ASSUME NEW j, NEW id, NEW n, BumpAttempts(j, id, n)
      PROVE  \A i \in Requests : jobs'[i].status = jobs[i].status
  BY <1>1 DEF BumpAttempts, JobsTypeOK, JobRow
<1>2. ASSUME NEW j, NEW id, HeartbeatJob(j, id)
      PROVE  \A i \in Requests : jobs'[i].status = jobs[i].status
  BY <1>2 DEF HeartbeatJob, JobsTypeOK, JobRow
<1>3. ASSUME NEW j \in Requests, HeartbeatLapses(j)
      PROVE  \A i \in Requests : jobs'[i].status = jobs[i].status
  BY <1>3 DEF HeartbeatLapses, JobsTypeOK, JobRow
<1>. QED
  BY <1>1, <1>2, <1>3 DEF jobVars

LEMMA StatusAfterClaim ==
    ASSUME JobsTypeOK, NEW j \in Requests, NEW id, ClaimNextJob(j, id) \/ ClaimJob(j, id)
    PROVE  /\ jobs[j].status = "queued"
           /\ \A i \in Requests :
                jobs'[i].status = IF i = j THEN "processing" ELSE jobs[i].status
<1>1. CASE ClaimNextJob(j, id)
  BY <1>1 DEF ClaimNextJob, IsOldestQueued, JobsTypeOK, JobRow
<1>2. CASE ClaimJob(j, id)
  BY <1>2 DEF ClaimJob, JobsTypeOK, JobRow
<1>. QED
  BY <1>1, <1>2

LEMMA StatusAfterFinish ==
    ASSUME JobsTypeOK, NEW j, NEW id, NEW s, Finish(j, id, s)
    PROVE  /\ jobs[j].status = "processing"
           /\ \A i \in Requests :
                jobs'[i].status = IF i = j THEN s ELSE jobs[i].status
BY DEF Finish, IsOwnedBy, JobsTypeOK, JobRow

LEMMA StatusAfterReap ==
    ASSUME JobsTypeOK, ReapStaleJobs
    PROVE  \A i \in Requests :
             /\ i \in Exhausted => /\ jobs[i].status = "processing"
                                   /\ jobs'[i].status = "failed"
             /\ i \notin Exhausted => /\ jobs'[i].status = "failed"
                                           <=> jobs[i].status = "failed"
                                      /\ jobs'[i].status = "absent"
                                           <=> jobs[i].status = "absent"
BY DEF ReapStaleJobs, Reaped, Exhausted, IsStale, JobsTypeOK, JobRow

(***************************************************************************)
(* A step that fails no row, refunds nothing and leaves every token where  *)
(* it is.                                                                  *)
(***************************************************************************)
LEMMA QuietStep ==
    ASSUME RefundInv, UNCHANGED <<rpc, ledgerVars>>,
           \A j \in Requests :
               /\ jobs'[j].status = "failed" <=> jobs[j].status = "failed"
               /\ jobs'[j].status = "absent" <=> jobs[j].status = "absent",
           \A w \in Workers, j \in Requests : Owes(w, j)' <=> Owes(w, j),
           \A w \in Workers : wpc'[w] # "refundReaped" => owed'[w] = {},
           faults' = 0 => faults = 0
    PROVE  RefundParts'
<1>1. HandlerInv'
  BY DEF RefundInv, HandlerInv, ledgerVars
<1>2. TokenInv'
  BY DEF RefundInv, TokenInv, ledgerVars
<1>3. TokenHeldInv'
  BY DEF RefundInv, TokenHeldInv, ledgerVars
<1>. QED
  BY <1>1, <1>2, <1>3 DEF RefundParts

QuietWorkerStep(w) ==
    \/ ClaimNext(w) \/ ClaimNothing(w) \/ ClaimRaises(w)
    \/ OneShotStep(w) \/ Heartbeat(w)
    \/ PipelineSucceeds(w) \/ PipelineFails(w)
    \/ Complete(w) \/ CompleteRaises(w) \/ FailSuppressed(w)
    \/ Restart(w)

LEMMA QuietWorkerStepRefunds ==
    ASSUME RefundInv, NEW w \in Workers, QuietWorkerStep(w), UNCHANGED rpc
    PROVE  RefundParts'
<1>. USE DEF QuietWorkerStep, OneShotStep
<1>1. UNCHANGED <<rpc, ledgerVars>>
  BY DEF ClaimNext, ClaimNothing, ClaimRaises, OneShotClaims, OneShotGivesUp,
         OneShotBumps, Heartbeat, PipelineSucceeds, PipelineFails, Complete,
         CompleteRaises, FailSuppressed, Restart
<1>2. \/ \E j \in Requests : \E id : ClaimNextJob(j, id) \/ ClaimJob(j, id)
      \/ \E j, id : Finish(j, id, "completed")
      \/ \E j, id, n : BumpAttempts(j, id, n)
      \/ \E j, id : HeartbeatJob(j, id)
      \/ UNCHANGED jobVars
  BY DEF ClaimNext, ClaimNothing, ClaimRaises, OneShotClaims, OneShotGivesUp,
         OneShotBumps, Heartbeat, PipelineSucceeds, PipelineFails, Complete,
         CompleteRaises, FailSuppressed, Restart
<1>3. \A j \in Requests :
        /\ jobs'[j].status = "failed" <=> jobs[j].status = "failed"
        /\ jobs'[j].status = "absent" <=> jobs[j].status = "absent"
  BY <1>2, StatusAfterClaim, StatusAfterFinish, StatusesKept DEF RefundInv, TypeOK
<1>4. UNCHANGED owed
  BY DEF ClaimNext, ClaimNothing, ClaimRaises, OneShotClaims, OneShotGivesUp,
         OneShotBumps, Heartbeat, PipelineSucceeds, PipelineFails, Complete,
         CompleteRaises, FailSuppressed, Restart, workerVars
<1>5. /\ \A v \in Workers : wpc'[v] \in {"refund", "refundReaped"} <=>
                             wpc[v] \in {"refund", "refundReaped"}
      /\ \A v \in Workers : wpc[v] \in {"refund", "refundReaped"} =>
                             wpc'[v] = wpc[v] /\ held'[v] = held[v]
  BY DEF RefundInv, TypeOK, WorkerTypeOK, Moves, LetsGo, AfterJob, workerVars,
         ClaimNext, ClaimNothing, ClaimRaises, OneShotClaims, OneShotGivesUp,
         OneShotBumps, Heartbeat, PipelineSucceeds, PipelineFails, Complete,
         CompleteRaises, FailSuppressed, Restart
<1>6. \A v \in Workers, j \in Requests : Owes(v, j)' <=> Owes(v, j)
  BY <1>4, <1>5 DEF Owes
<1>7. \A v \in Workers : wpc'[v] # "refundReaped" => owed'[v] = {}
  BY <1>4, <1>5 DEF RefundInv, TokenInv
<1>8. faults' = 0 => faults = 0
  <2>1. faults' = faults \/ Fault
    BY DEF ClaimNext, ClaimNothing, ClaimRaises, OneShotClaims, OneShotGivesUp,
           OneShotBumps, Heartbeat, PipelineSucceeds, PipelineFails, Complete,
           CompleteRaises, FailSuppressed, Restart
  <2>. QED
    BY <2>1, MaxFaultsAssumption DEF Fault, RefundInv, TypeOK, FaultsTypeOK
<1>. QED
  BY <1>1, <1>3, <1>6, <1>7, <1>8, QuietStep

(***************************************************************************)
(* The worker steps that fail rows, hand tokens out, or spend them.        *)
(***************************************************************************)
LEMMA ReapRefunds ==
    ASSUME RefundInv, NEW w \in Workers, Reap(w), UNCHANGED rpc
    PROVE  RefundParts'
<1>1. /\ wpc[w] = "reap" /\ UNCHANGED <<rpc, ledgerVars, held, faults>>
      /\ wpc' = [wpc EXCEPT ![w] = IF Exhausted = {} THEN "claim" ELSE "refundReaped"]
      /\ owed' = [owed EXCEPT ![w] = Exhausted]
  BY DEF Reap, Moves
<1>2. \A i \in Requests :
        /\ i \in Exhausted => /\ jobs[i].status = "processing"
                              /\ jobs'[i].status = "failed"
        /\ i \notin Exhausted => /\ jobs'[i].status = "failed" <=> jobs[i].status = "failed"
                                 /\ jobs'[i].status = "absent" <=> jobs[i].status = "absent"
  BY StatusAfterReap DEF Reap, RefundInv, TypeOK
<1>3. wpc \in [Workers -> WorkerStates] /\ owed \in [Workers -> SUBSET Requests]
  BY DEF RefundInv, TypeOK, WorkerTypeOK
\* Nobody owed a row that was still running, and w itself owed nothing.
<1>4. \A v \in Workers, j \in Exhausted : ~Owes(v, j)
  BY <1>2 DEF RefundInv, TokenInv, Exhausted
<1>5. \A v \in Workers, j \in Requests :
        Owes(v, j)' <=> Owes(v, j) \/ (v = w /\ j \in Exhausted)
  BY <1>1, <1>3 DEF Owes, RefundInv, TokenInv
<1>6. HandlerInv'
  BY <1>1, <1>2 DEF RefundInv, HandlerInv, ledgerVars
<1>7. TokenInv'
  <2>1. \A v \in Workers : wpc'[v] # "refundReaped" => owed'[v] = {}
    BY <1>1, <1>3 DEF RefundInv, TokenInv
  <2>2. \A r \in Exhausted : refunded[r] = 0
    BY <1>2 DEF RefundInv, HandlerInv, TokenInv, TypeOK, LedgerTypeOK, Exhausted
  <2>. QED
    BY <1>1, <1>2, <1>4, <1>5, <2>1, <2>2 DEF RefundInv, TokenInv, ledgerVars
<1>8. TokenHeldInv'
  BY <1>1, <1>2, <1>5 DEF RefundInv, TokenHeldInv, ledgerVars
<1>. QED
  BY <1>6, <1>7, <1>8 DEF RefundParts
\* The rows may have been failed with nobody told: that is the fault budget.
LEMMA ReapRaisesRefunds ==
    ASSUME RefundInv, NEW w \in Workers, ReapRaises(w), UNCHANGED rpc
    PROVE  RefundParts'
<1>1. /\ UNCHANGED <<rpc, ledgerVars, held, owed>>
      /\ wpc[w] = "reap" /\ wpc' = [wpc EXCEPT ![w] = "claim"]
  BY DEF ReapRaises, Moves
<1>2. faults' # 0
  BY MaxFaultsAssumption DEF ReapRaises, Fault, RefundInv, TypeOK, FaultsTypeOK
<1>3. \A i \in Requests :
        /\ jobs'[i].status = "failed" => jobs[i].status \in {"failed", "processing"}
        /\ jobs[i].status = "failed" => jobs'[i].status = "failed"
        /\ jobs'[i].status = "absent" <=> jobs[i].status = "absent"
  BY StatusAfterReap DEF ReapRaises, RefundInv, TypeOK, jobVars
<1>4. \A v \in Workers, j \in Requests : Owes(v, j)' <=> Owes(v, j)
  BY <1>1 DEF Owes, RefundInv, TypeOK, WorkerTypeOK
<1>5. HandlerInv'
  BY <1>1, <1>3 DEF RefundInv, HandlerInv, ledgerVars
<1>6. TokenInv'
  <2>1. \A v \in Workers : wpc'[v] # "refundReaped" => owed'[v] = {}
    BY <1>1 DEF RefundInv, TokenInv, TypeOK, WorkerTypeOK
  <2>. QED
    BY <1>1, <1>3, <1>4, <2>1 DEF RefundInv, TokenInv, ledgerVars
<1>7. TokenHeldInv'
  BY <1>2 DEF TokenHeldInv
<1>. QED
  BY <1>5, <1>6, <1>7 DEF RefundParts

\* A token is spent: its row is failed, paid for, and nobody else has it.
LEMMA TokenSpent ==
    ASSUME RefundInv, NEW w \in Workers, NEW j \in Requests, Owes(w, j),
           Refund(j), UNCHANGED <<jobVars, rpc, faults>>,
           \A v \in Workers, i \in Requests : Owes(v, i)' <=> Owes(v, i) /\ i # j,
           \A v \in Workers : wpc'[v] # "refundReaped" => owed'[v] = {}
    PROVE  RefundParts'
<1>1. /\ jobs[j].status = "failed" /\ refunded[j] = 0
      /\ rpc[j] = "enqueued" /\ j \in deducted
  BY DEF RefundInv, TokenInv, HandlerInv
<1>2. /\ refunded' = [refunded EXCEPT ![j] = 1] /\ deducted' = deducted
      /\ refunded \in [Requests -> Nat]
  BY <1>1 DEF Refund, RefundInv, TypeOK, LedgerTypeOK
<1>3. HandlerInv'
  BY <1>1, <1>2 DEF RefundInv, HandlerInv, jobVars
<1>4. TokenInv'
  BY <1>1, <1>2 DEF RefundInv, TokenInv, jobVars
<1>5. TokenHeldInv'
  BY <1>1, <1>2 DEF RefundInv, TokenHeldInv, jobVars
<1>. QED
  BY <1>3, <1>4, <1>5 DEF RefundParts

LEMMA RefundReapedRefunds ==
    ASSUME RefundInv, NEW w \in Workers, RefundReaped(w), UNCHANGED rpc
    PROVE  RefundParts'
<1>1. PICK j \in owed[w] :
        /\ Refund(j)
        /\ owed' = [owed EXCEPT ![w] = @ \ {j}]
        /\ Moves(w, "refundReaped", IF owed[w] = {j} THEN "claim" ELSE "refundReaped")
  BY DEF RefundReaped
<1>2. /\ UNCHANGED <<jobVars, rpc, held, faults>>
      /\ wpc \in [Workers -> WorkerStates] /\ owed \in [Workers -> SUBSET Requests]
  BY DEF RefundReaped, RefundInv, TypeOK, WorkerTypeOK
<1>3. j \in Requests /\ Owes(w, j)
  BY <1>2 DEF Owes
<1>4. wpc[w] = "refundReaped" /\ wpc'[w] # "refund"
      /\ \A v \in Workers \ {w} : wpc'[v] = wpc[v]
  BY <1>1, <1>2 DEF Moves
<1>5. \A v \in Workers, i \in Requests : Owes(v, i)' <=> Owes(v, i) /\ i # j
  BY <1>1, <1>2, <1>3, <1>4 DEF Owes, RefundInv, TokenInv
<1>6. \A v \in Workers : wpc'[v] # "refundReaped" => owed'[v] = {}
  BY <1>1, <1>2, <1>4 DEF Moves, RefundInv, TokenInv
<1>. QED
  BY <1>1, <1>2, <1>3, <1>5, <1>6, TokenSpent

LEMMA RefundOwnRefunds ==
    ASSUME RefundInv, NEW w \in Workers, RefundOwn(w), UNCHANGED rpc
    PROVE  RefundParts'
<1>1. /\ wpc[w] = "refund" /\ wpc' = [wpc EXCEPT ![w] = AfterJob(w)]
      /\ held' = [held EXCEPT ![w] = NoJob]
      /\ Refund(held[w]) /\ UNCHANGED <<jobVars, rpc, owed, faults, deducted>>
      /\ AfterJob(w) \in {"exited", "reap"}
  BY DEF RefundOwn, LetsGo, Moves, AfterJob, Refund
<1>2. /\ wpc \in [Workers -> WorkerStates]
      /\ held \in [Workers -> Requests \cup {NoJob}]
  BY DEF RefundInv, TypeOK, WorkerTypeOK
<1>3. \A v \in Workers : wpc'[v] # "refundReaped" => owed'[v] = {}
  BY <1>1, <1>2 DEF RefundInv, TokenInv
<1>4. CASE held[w] \in Requests
  <2>1. Owes(w, held[w])
    BY <1>1 DEF Owes
  <2>2. \A v \in Workers, i \in Requests : Owes(v, i)' <=> Owes(v, i) /\ i # held[w]
    BY <1>1, <1>2, <1>4, <2>1, WorkersAssumption DEF Owes, RefundInv, TokenInv
  <2>. QED
    BY <1>1, <1>3, <1>4, <2>1, <2>2, TokenSpent
<1>5. CASE held[w] = NoJob      \* nothing to refund, and nothing refunded
  <2>1. UNCHANGED <<rpc, ledgerVars>>
    BY <1>1, <1>5, WorkersAssumption DEF Refund, RefundInv, TypeOK, LedgerTypeOK, ledgerVars
  <2>2. \A v \in Workers, i \in Requests : Owes(v, i)' <=> Owes(v, i)
    BY <1>1, <1>2, <1>5, WorkersAssumption DEF Owes
  <2>. QED
    BY <1>1, <1>3, <2>1, <2>2, QuietStep DEF jobVars
<1>. QED
  BY <1>2, <1>4, <1>5

\* The guarded write fails a row that was still processing: nobody owed it.
LEMMA FailRefunds ==
    ASSUME RefundInv, NEW w \in Workers, Fail(w), UNCHANGED rpc
    PROVE  RefundParts'
<1>1. /\ wpc[w] = "fail" /\ wpc' = [wpc EXCEPT ![w] = "refund"]
      /\ UNCHANGED <<rpc, ledgerVars, held, owed, faults>>
  BY DEF Fail, Moves
<1>2. /\ jobs[held[w]].status = "processing"
      /\ \A i \in Requests :
           jobs'[i].status = IF i = held[w] THEN "failed" ELSE jobs[i].status
  BY StatusAfterFinish DEF Fail, RefundInv, TypeOK
<1>3. \A v \in Workers, i \in Requests :
        /\ Owes(v, i)' <=> Owes(v, i) \/ (v = w /\ i = held[w])
        /\ i = held[w] => ~Owes(v, i)
  BY <1>1, <1>2 DEF Owes, RefundInv, TokenInv, TypeOK, WorkerTypeOK
<1>4. HandlerInv'
  BY <1>1, <1>2 DEF RefundInv, HandlerInv, ledgerVars
<1>5. TokenInv'
  <2>1. \A v \in Workers : wpc'[v] # "refundReaped" => owed'[v] = {}
    BY <1>1 DEF RefundInv, TokenInv, TypeOK, WorkerTypeOK
  <2>2. \A r \in Requests : r = held[w] => refunded[r] = 0
    BY <1>2 DEF RefundInv, HandlerInv, TokenInv, TypeOK, LedgerTypeOK
  <2>. QED
    BY <1>1, <1>2, <1>3, <2>1, <2>2 DEF RefundInv, TokenInv, ledgerVars
<1>6. TokenHeldInv'
  BY <1>1, <1>2, <1>3 DEF RefundInv, TokenHeldInv, ledgerVars
<1>. QED
  BY <1>4, <1>5, <1>6 DEF RefundParts

\* Tokens are lost, and that is the fault budget's business.
LEMMA CrashRefunds ==
    ASSUME RefundInv, NEW w \in Workers, Crash(w), UNCHANGED rpc
    PROVE  RefundParts'
<1>1. /\ UNCHANGED <<jobVars, ledgerVars, rpc>> /\ faults' # 0
      /\ wpc' = [wpc EXCEPT ![w] = IF w \in OneShots THEN "exited" ELSE "down"]
      /\ held' = [held EXCEPT ![w] = NoJob] /\ owed' = [owed EXCEPT ![w] = {}]
  BY MaxFaultsAssumption DEF Crash, Fault, RefundInv, TypeOK, FaultsTypeOK
<1>2. \A v \in Workers, i \in Requests : Owes(v, i)' => Owes(v, i)
  BY <1>1 DEF Owes, RefundInv, TypeOK, WorkerTypeOK
<1>3. \A v \in Workers : wpc'[v] # "refundReaped" => owed'[v] = {}
  BY <1>1 DEF RefundInv, TokenInv, TypeOK, WorkerTypeOK
<1>. QED
  BY <1>1, <1>2, <1>3
     DEF RefundParts, RefundInv, HandlerInv, TokenInv, TokenHeldInv, jobVars, ledgerVars
(***************************************************************************)
(* The handler's steps: none moves a token.                                *)
(***************************************************************************)
LEMMA TokensUntouched ==
    ASSUME UNCHANGED workerVars
    PROVE  \A v \in Workers, i \in Requests : Owes(v, i)' <=> Owes(v, i)
BY DEF workerVars, Owes

RouteQuietStep(r) ==
    \/ Reject(r) \/ ReturnExisting(r) \/ FindNoActive(r)
    \/ CheckEntitlement(r) \/ CheckBalance(r) \/ Deduct(r)
    \/ EnqueueConflicts(r) \/ EnqueueRaises(r)
    \/ LookupWinner(r) \/ RouteDies(r)

\* Everything a handler does before, or short of, its row and its refund.
LEMMA RouteQuietStepRefunds ==
    ASSUME RefundInv, NEW r \in Requests, RouteQuietStep(r), UNCHANGED workerVars
    PROVE  RefundParts'
<1>. USE DEF RouteQuietStep
<1>1. UNCHANGED <<jobs, refunded>>
  BY DEF Reject, ReturnExisting, FindNoActive, CheckEntitlement, CheckBalance, Deduct,
         InsertDeduction, EnqueueConflicts, EnqueueRaises, LookupWinner, RouteDies,
         jobVars, ledgerVars
<1>2. \A v \in Workers, i \in Requests : Owes(v, i)' <=> Owes(v, i)
  BY TokensUntouched
<1>3. rpc[r] # "enqueued" /\ rpc[r] # "existing"
      /\ rpc'[r] # "enqueued"
      /\ \A i \in Requests \ {r} : rpc'[i] = rpc[i]
  BY DEF Reject, ReturnExisting, FindNoActive, CheckEntitlement, CheckBalance, Deduct,
         EnqueueConflicts, EnqueueRaises, LookupWinner, RouteDies,
         Goto, RefundInv, TypeOK, RouteTypeOK
<1>4. refunded[r] = 0
  BY <1>3 DEF RefundInv, HandlerInv, TypeOK, LedgerTypeOK
<1>5. HandlerInv'
  <2>1. CASE Deduct(r)
    BY <1>1, <1>4, <2>1 DEF Deduct, InsertDeduction, Goto, RefundInv, HandlerInv,
                            TypeOK, RouteTypeOK, LedgerTypeOK
  <2>2. CASE ~Deduct(r)
    <3>1. deducted' = deducted
      BY <2>2 DEF Reject, ReturnExisting, FindNoActive, CheckEntitlement, CheckBalance,
                  EnqueueConflicts, EnqueueRaises, LookupWinner, RouteDies, ledgerVars
    <3>2. /\ rpc'[r] \in {"idle", "entitle", "deduct", "charge", "rejected"} =>
               rpc[r] \in {"idle", "entitle", "deduct", "charge", "rejected"}
          /\ rpc'[r] \in {"insert", "lookup", "undo"} =>
               rpc[r] \in {"insert", "lookup", "undo"}
      BY <2>2 DEF Reject, ReturnExisting, FindNoActive, CheckEntitlement, CheckBalance,
                  EnqueueConflicts, EnqueueRaises, LookupWinner, RouteDies,
                  Goto, RefundInv, TypeOK, RouteTypeOK
    <3>. QED
      BY <1>1, <1>3, <1>4, <3>1, <3>2 DEF RefundInv, HandlerInv
  <2>. QED
    BY <2>1, <2>2
<1>6. TokenInv'
  <2>1. \A v \in Workers : wpc'[v] # "refundReaped" => owed'[v] = {}
    BY DEF workerVars, RefundInv, TokenInv
  <2>. QED
    BY <1>1, <1>2, <1>3, <2>1 DEF RefundInv, TokenInv
<1>7. TokenHeldInv'
  <2>1. faults' = 0 => faults = 0
    BY MaxFaultsAssumption
       DEF Reject, ReturnExisting, FindNoActive, CheckEntitlement, CheckBalance, Deduct,
           EnqueueConflicts, EnqueueRaises, LookupWinner, RouteDies, Fault,
           RefundInv, TypeOK, FaultsTypeOK
  <2>. QED
    BY <1>1, <1>2, <2>1 DEF RefundInv, TokenHeldInv
<1>. QED
  BY <1>5, <1>6, <1>7 DEF RefundParts

LEMMA EnqueueRefunds ==
    ASSUME RefundInv, NEW r \in Requests, Enqueue(r), UNCHANGED workerVars
    PROVE  RefundParts'
<1>1. /\ rpc[r] = "insert" /\ rpc' = [rpc EXCEPT ![r] = "enqueued"]
      /\ UNCHANGED <<ledgerVars, faults>>
  BY DEF Enqueue, Goto
<1>2. \A i \in Requests : jobs'[i].status = IF i = r THEN "queued" ELSE jobs[i].status
  BY DEF Enqueue, InsertJob, NoRow, RefundInv, TypeOK, JobsTypeOK, JobRow
<1>3. jobs[r].status = "absent" /\ refunded[r] = 0 /\ r \in deducted
  BY <1>1 DEF RefundInv, HandlerInv, TypeOK, LedgerTypeOK
<1>4. \A v \in Workers, i \in Requests : Owes(v, i)' <=> Owes(v, i)
  BY TokensUntouched
<1>5. HandlerInv'
  BY <1>1, <1>2, <1>3 DEF RefundInv, HandlerInv, TypeOK, RouteTypeOK, ledgerVars
<1>6. TokenInv'
  <2>1. \A v \in Workers : wpc'[v] # "refundReaped" => owed'[v] = {}
    BY DEF workerVars, RefundInv, TokenInv
  <2>. QED
    BY <1>1, <1>2, <1>3, <1>4, <2>1 DEF RefundInv, TokenInv, TypeOK, RouteTypeOK, ledgerVars
<1>7. TokenHeldInv'
  BY <1>1, <1>2, <1>4 DEF RefundInv, TokenHeldInv, ledgerVars
<1>. QED
  BY <1>5, <1>6, <1>7 DEF RefundParts

LEMMA UndoDeductionRefunds ==
    ASSUME RefundInv, NEW r \in Requests, UndoDeduction(r), UNCHANGED workerVars
    PROVE  RefundParts'
<1>1. /\ rpc[r] = "undo" /\ rpc' = [rpc EXCEPT ![r] = "existing"]
      /\ UNCHANGED <<jobVars, faults, deducted>>
      /\ refunded' = [refunded EXCEPT ![r] = @ + 1]
  BY DEF UndoDeduction, Goto, Refund
<1>2. refunded[r] = 0 /\ r \in deducted /\ jobs[r].status = "absent"
  BY <1>1 DEF RefundInv, HandlerInv, TypeOK, LedgerTypeOK, JobsTypeOK
<1>3. \A v \in Workers, i \in Requests : Owes(v, i)' <=> Owes(v, i)
  BY TokensUntouched
<1>4. HandlerInv'
  BY <1>1, <1>2 DEF RefundInv, HandlerInv, TypeOK, RouteTypeOK, LedgerTypeOK, jobVars
<1>5. TokenInv'
  <2>1. \A v \in Workers : wpc'[v] # "refundReaped" => owed'[v] = {}
    BY DEF workerVars, RefundInv, TokenInv
  <2>2. \A v \in Workers : ~Owes(v, r)
    BY <1>2 DEF RefundInv, TokenInv
  <2>. QED
    BY <1>1, <1>2, <1>3, <2>1, <2>2
       DEF RefundInv, TokenInv, TypeOK, RouteTypeOK, LedgerTypeOK, jobVars
<1>6. TokenHeldInv'
  BY <1>1, <1>2, <1>3 DEF RefundInv, TokenHeldInv, TypeOK, LedgerTypeOK, jobVars
<1>. QED
  BY <1>4, <1>5, <1>6 DEF RefundParts

LEMMA LapseRefunds ==
    ASSUME RefundInv, NEW j \in Requests, Lapse(j)
    PROVE  RefundParts'
<1>1. UNCHANGED <<rpc, ledgerVars, workerVars, faults>>
  BY DEF Lapse
<1>2. \A i \in Requests : jobs'[i].status = jobs[i].status
  BY StatusesKept DEF Lapse, RefundInv, TypeOK
<1>3. \A v \in Workers : wpc'[v] # "refundReaped" => owed'[v] = {}
  BY <1>1 DEF workerVars, RefundInv, TokenInv
<1>. QED
  BY <1>1, <1>2, <1>3, TokensUntouched, QuietStep

-----------------------------------------------------------------------------
LEMMA RefundInit == Init => RefundInv
<1>. SUFFICES ASSUME Init PROVE RefundInv
  OBVIOUS
<1>1. HandlerInv
  <2>1. \A r \in Requests :
          /\ rpc[r] = "idle" /\ r \notin deducted /\ refunded[r] = 0
          /\ jobs[r].status = "absent"
    BY DEF Init, RouteInit, LedgerInit, JobsInit, NoRow
  <2>2. ASSUME NEW n, n = 0 PROVE ~(n > 0)
    BY <2>2
  <2>. QED
    BY <2>1, <2>2 DEF HandlerInv
<1>2. TokenInv /\ TokenHeldInv
  BY DEF Init, RouteInit, LedgerInit, JobsInit, WorkerInit, NoRow,
         TokenInv, TokenHeldInv, Owes
<1>. QED
  BY <1>1, <1>2, TypeInit DEF RefundInv

LEMMA RefundNext ==
    ASSUME NoReplyLoss
    PROVE  RefundInv /\ [Next]_vars => RefundInv'
<1>. SUFFICES ASSUME RefundInv, [Next]_vars PROVE RefundParts'
  BY TypeNext DEF RefundInv, RefundParts
<1>1. ASSUME NEW r \in Requests, RouteStep(r), UNCHANGED workerVars PROVE RefundParts'
  <2>1. RouteQuietStep(r) \/ Enqueue(r) \/ UndoDeduction(r)
    BY <1>1 DEF RouteStep, RouteQuietStep, EnqueueReplyLost, NoReplyLoss
  <2>. QED
    BY <1>1, <2>1, RouteQuietStepRefunds, EnqueueRefunds, UndoDeductionRefunds
<1>2. ASSUME NEW w \in Workers, WorkerStep(w), UNCHANGED rpc PROVE RefundParts'
  <2>1. \/ QuietWorkerStep(w)
        \/ Reap(w) \/ ReapRaises(w) \/ RefundReaped(w)
        \/ Fail(w) \/ RefundOwn(w) \/ Crash(w)
    BY <1>2 DEF WorkerStep, LoopStep, RunnerStep, WorkerFault, QuietWorkerStep
  <2>. QED
    BY <1>2, <2>1, QuietWorkerStepRefunds, ReapRefunds, ReapRaisesRefunds,
       RefundReapedRefunds, FailRefunds, RefundOwnRefunds, CrashRefunds
<1>3. ASSUME NEW j \in Requests, Lapse(j) PROVE RefundParts'
  BY <1>3, LapseRefunds
<1>4. CASE UNCHANGED vars
  <2>1. \A v \in Workers : wpc'[v] # "refundReaped" => owed'[v] = {}
    BY <1>4 DEF vars, workerVars, RefundInv, TokenInv
  <2>. QED
    BY <1>4, <2>1, TokensUntouched, QuietStep DEF vars, jobVars
<1>. QED
  BY <1>1, <1>2, <1>3, <1>4 DEF Next

\* The inductive invariant holds in every reachable state of the pipeline.
THEOREM RefundsInOrder == ASSUME NoReplyLoss PROVE Spec => []RefundInv
<1>1. Init => RefundInv
  BY RefundInit
<1>2. RefundInv /\ [Next]_vars => RefundInv'
  BY RefundNext
<1>. QED
  BY <1>1, <1>2, PTL DEF Spec

\* One refund per job at most (worker_run_job.py, _execute and _reap; the route's
\* refund in jobs.py), for any number of workers, reapers and retries.
THEOREM RefundedAtMostOnce == ASSUME NoReplyLoss PROVE Spec => []RefundAtMostOnce
<1>1. RefundInv => RefundAtMostOnce
  BY DEF RefundInv, TokenInv, RefundAtMostOnce
<1>. QED
  BY <1>1, RefundsInOrder, PTL

\* Whatever was refunded was charged and was not delivered.
THEOREM RefundedOnlyUndelivered == ASSUME NoReplyLoss PROVE Spec => []RefundOnlyUndelivered
<1>1. RefundInv => RefundOnlyUndelivered
  BY DEF RefundInv, HandlerInv, TokenInv, TypeOK, JobsTypeOK, JobRow, Statuses,
         RefundOnlyUndelivered
<1>. QED
  BY <1>1, RefundsInOrder, PTL

\* A row of generation_jobs is backed by a deduction that is still standing,
\* unless the row failed.
THEOREM JobsPaidFor == ASSUME NoReplyLoss PROVE Spec => []JobsArePaidFor
<1>1. RefundInv => JobsArePaidFor
  BY DEF RefundInv, HandlerInv, TokenInv, TypeOK, LedgerTypeOK, JobsArePaidFor
<1>. QED
  BY <1>1, RefundsInOrder, PTL

\* With no failure of the environment, a failed job was refunded or exactly one
\* worker is about to refund it.
THEOREM FailuresOwed == ASSUME NoReplyLoss PROVE Spec => []EveryFailureIsOwed
<1>1. RefundInv => EveryFailureIsOwed
  BY MaxFaultsAssumption
     DEF RefundInv, TokenInv, TokenHeldInv, TypeOK, LedgerTypeOK, FaultsTypeOK,
         EveryFailureIsOwed
<1>. QED
  BY <1>1, RefundsInOrder, PTL

(***************************************************************************)
(* The pipeline implements the Settlement contract: of everything that     *)
(* handlers, workers, reapers and failures do, only three things touch a   *)
(* request's account, and each is a step the contract allows.              *)
(***************************************************************************)

\* The step leaves everybody's account as it is.
LEMMA AccountsKept ==
    ASSUME UNCHANGED ledgerVars,
           \A i \in Requests : jobs'[i].status = "completed" <=> jobs[i].status = "completed"
    PROVE  Account' = Account
BY DEF Account, ledgerVars

\* The deduction row: the price is taken.
LEMMA DeductTakes ==
    ASSUME RefundInv, NEW r \in Requests, Deduct(r)
    PROVE  Contract!Take(r)
<1>1. r \notin deducted /\ refunded[r] = 0 /\ jobs[r].status = "absent"
  BY DEF Deduct, Goto, RefundInv, HandlerInv, TypeOK, LedgerTypeOK, JobsTypeOK
<1>2. deducted' = deducted \cup {r} /\ refunded' = refunded /\ jobs' = jobs
  BY DEF Deduct, InsertDeduction, jobVars
<1>3. Account[r] = "unpaid"
  BY <1>1 DEF Account
<1>4. Account'[r] = "held"
  BY <1>1, <1>2 DEF Account
<1>5. \A i \in Requests \ {r} : Account'[i] = Account[i]
  BY <1>2 DEF Account
<1>6. Account' = [Account EXCEPT ![r] = "held"]
  BY <1>4, <1>5 DEF Account
<1>. QED
  BY <1>3, <1>6 DEF Contract!Take, Contract!Becomes

\* The guarded write of `completed': the price is earned.
LEMMA CompletionEarns ==
    ASSUME RefundInv, UNCHANGED ledgerVars, NEW r \in Requests, NEW id,
           Finish(r, id, "completed")
    PROVE  Contract!Earn(r)
<1>1. /\ jobs[r].status = "processing"
      /\ \A i \in Requests :
           jobs'[i].status = IF i = r THEN "completed" ELSE jobs[i].status
  BY StatusAfterFinish DEF RefundInv, TypeOK
<1>2. r \in deducted /\ refunded[r] = 0
  BY <1>1 DEF RefundInv, HandlerInv, TokenInv, TypeOK, LedgerTypeOK
<1>3. Account[r] = "held" /\ Account'[r] = "earned"
  BY <1>1, <1>2 DEF Account, ledgerVars
<1>4. \A i \in Requests \ {r} : Account'[i] = Account[i]
  BY <1>1 DEF Account, ledgerVars
<1>5. Account' = [Account EXCEPT ![r] = "earned"]
  BY <1>3, <1>4 DEF Account
<1>. QED
  BY <1>3, <1>5 DEF Contract!Earn, Contract!Becomes

\* A refund row, by whoever may write one: the price goes back.
LEMMA RefundReturns ==
    ASSUME RefundInv, NEW r \in Requests, Refund(r), UNCHANGED jobVars,
           r \in deducted, refunded[r] = 0, jobs[r].status # "completed"
    PROVE  Contract!Return(r)
<1>1. refunded' = [refunded EXCEPT ![r] = 1] /\ deducted' = deducted /\ jobs' = jobs
  BY DEF Refund, jobVars
<1>2. refunded'[r] = 1 /\ \A i \in Requests \ {r} : refunded'[i] = refunded[i]
  BY <1>1 DEF RefundInv, TypeOK, LedgerTypeOK
<1>3. Account[r] = "held"
  BY DEF Account
<1>4. Account'[r] = "returned"
  BY <1>1, <1>2 DEF Account
<1>5. \A i \in Requests \ {r} : Account'[i] = Account[i]
  BY <1>1, <1>2 DEF Account
<1>6. Account' = [Account EXCEPT ![r] = "returned"]
  BY <1>4, <1>5 DEF Account
<1>. QED
  BY <1>3, <1>6 DEF Contract!Return, Contract!Becomes

-----------------------------------------------------------------------------
LEMMA RouteStepSettles ==
    ASSUME NoReplyLoss, RefundInv, RowInv, NEW r \in Requests, RouteStep(r)
    PROVE  Contract!Next \/ Account' = Account
<1>1. CASE Deduct(r)
  BY <1>1, DeductTakes DEF Contract!Next
<1>2. CASE UndoDeduction(r)
  <2>1. /\ r \in deducted /\ refunded[r] = 0 /\ jobs[r].status = "absent"
        /\ Refund(r) /\ UNCHANGED jobVars
    BY <1>2 DEF UndoDeduction, Goto, RefundInv, HandlerInv, TypeOK, LedgerTypeOK, JobsTypeOK
  <2>. QED
    BY <2>1, RefundReturns DEF Contract!Next
<1>3. CASE Enqueue(r)
  <2>1. jobs[r].status = "absent"
    BY <1>3 DEF Enqueue, Goto, RowInv, NoRowYet
  <2>2. \A i \in Requests :
          jobs'[i].status = "completed" <=> jobs[i].status = "completed"
    BY <1>3, <2>1 DEF Enqueue, InsertJob, NoRow, RefundInv, TypeOK, JobsTypeOK
  <2>. QED
    BY <1>3, <2>2, AccountsKept DEF Enqueue
<1>4. CASE RouteStep(r) /\ ~Deduct(r) /\ ~UndoDeduction(r) /\ ~Enqueue(r)
  <2>1. UNCHANGED <<jobVars, ledgerVars>>
    BY <1>4 DEF RouteStep, Reject, ReturnExisting, FindNoActive, CheckEntitlement,
                CheckBalance, EnqueueConflicts, EnqueueRaises, EnqueueReplyLost,
                LookupWinner, RouteDies, NoReplyLoss
  <2>. QED
    BY <2>1, AccountsKept DEF jobVars
<1>. QED
  BY <1>1, <1>2, <1>3, <1>4

\* A step that writes no ledger row: either it lands `completed', or the set of
\* completed rows stays as it is.
LEMMA TableStepSettles ==
    ASSUME RefundInv, RowInv, TableStep, UNCHANGED ledgerVars
    PROVE  Contract!Next \/ Account' = Account
<1>1. CASE \E j \in Requests : \E id : Finish(j, id, "completed")
  BY <1>1, CompletionEarns DEF Contract!Next
<1>2. ASSUME NEW j, NEW id, j \notin Requests, Finish(j, id, "completed")
      PROVE  Account' = Account
  <2>1. jobs' = jobs
    BY <1>2 DEF Finish, RefundInv, TypeOK, JobsTypeOK
  <2>. QED
    BY <2>1, AccountsKept
<1>3. CASE ~ \E j, id : Finish(j, id, "completed")
  <2>1. ASSUME NEW i \in Requests
        PROVE  jobs'[i].status = "completed" => jobs[i].status = "completed"
    <3>1. ASSUME NEW r \in Requests, InsertJob(r), jobs'[i].status = "completed"
          PROVE  jobs[i].status = "completed"
      BY <3>1 DEF InsertJob, NoRow, RefundInv, TypeOK, JobsTypeOK
    <3>2. ASSUME NEW j \in Requests, NEW id, ClaimNextJob(j, id) \/ ClaimJob(j, id),
                 jobs'[i].status = "completed"
          PROVE  jobs[i].status = "completed"
      BY <3>2, StatusAfterClaim DEF RefundInv, TypeOK
    <3>3. ASSUME NEW j, NEW id, Finish(j, id, "failed"), jobs'[i].status = "completed"
          PROVE  jobs[i].status = "completed"
      BY <3>3, StatusAfterFinish DEF RefundInv, TypeOK
    <3>4. ASSUME ReapStaleJobs, jobs'[i].status = "completed"
          PROVE  jobs[i].status = "completed"
      BY <3>4 DEF ReapStaleJobs, Reaped, RefundInv, TypeOK, JobsTypeOK, JobRow
    <3>. QED
      BY <1>3, <3>1, <3>2, <3>3, <3>4, StatusesKept DEF TableStep, RefundInv, TypeOK
  <2>2. \A i \in Requests :
          jobs'[i].status = "completed" <=> jobs[i].status = "completed"
    BY <2>1, TableStepKeepsTerminalRows DEF RowKept
  <2>. QED
    BY <2>2, AccountsKept
<1>. QED
  BY <1>1, <1>2, <1>3

LEMMA WorkerStepSettles ==
    ASSUME RefundInv, RowInv, NEW w \in Workers, WorkerStep(w), TableStep
    PROVE  Contract!Next \/ Account' = Account
<1>1. CASE RefundReaped(w)
  <2>1. PICK j \in owed[w] : Refund(j)
    BY <1>1 DEF RefundReaped
  <2>2. j \in Requests /\ Owes(w, j) /\ UNCHANGED jobVars
    BY <1>1 DEF RefundReaped, Owes, RefundInv, TypeOK, WorkerTypeOK
  <2>3. j \in deducted /\ refunded[j] = 0 /\ jobs[j].status # "completed"
    BY <2>2 DEF RefundInv, HandlerInv, TokenInv
  <2>. QED
    BY <2>1, <2>2, <2>3, RefundReturns DEF Contract!Next
<1>2. CASE RefundOwn(w)
  <2>1. Refund(held[w]) /\ UNCHANGED jobVars /\ wpc[w] = "refund"
    BY <1>2 DEF RefundOwn, LetsGo, Moves
  <2>2. CASE held[w] \in Requests
    <3>1. /\ held[w] \in deducted /\ refunded[held[w]] = 0
          /\ jobs[held[w]].status # "completed"
      BY <2>1, <2>2 DEF Owes, RefundInv, HandlerInv, TokenInv
    <3>. QED
      BY <2>1, <2>2, <3>1, RefundReturns DEF Contract!Next
  <2>3. CASE held[w] \notin Requests
    <3>1. UNCHANGED <<jobVars, ledgerVars>>
      BY <2>1, <2>3 DEF Refund, ledgerVars, RefundInv, TypeOK, LedgerTypeOK
    <3>. QED
      BY <3>1, AccountsKept DEF jobVars
  <2>. QED
    BY <2>2, <2>3
<1>3. CASE WorkerStep(w) /\ ~RefundReaped(w) /\ ~RefundOwn(w)
  <2>1. UNCHANGED ledgerVars
    BY <1>3 DEF RunnerStep, LoopStep, OneShotStep, WorkerFault, WorkerStep,
           Reap, ReapRaises, RefundReaped, ClaimNext, ClaimNothing, ClaimRaises,
           OneShotClaims, OneShotGivesUp, OneShotBumps, Heartbeat,
           PipelineSucceeds, PipelineFails, Complete, CompleteRaises,
           Fail, FailSuppressed, RefundOwn, Crash, Restart
  <2>. QED
    BY <2>1, TableStepSettles
<1>. QED
  BY <1>1, <1>2, <1>3

LEMMA NextSettles ==
    ASSUME NoReplyLoss
    PROVE  RefundInv /\ RowInv /\ [Next]_vars => [Contract!Next]_Account
<1>. SUFFICES ASSUME RefundInv, RowInv, [Next]_vars
              PROVE  Contract!Next \/ Account' = Account
  OBVIOUS
<1>1. TableStep
  BY NextIsTableStep DEF RowInv
<1>2. ASSUME NEW j \in Requests, Lapse(j) PROVE Contract!Next \/ Account' = Account
  BY <1>1, <1>2, TableStepSettles DEF Lapse
<1>3. CASE UNCHANGED vars
  BY <1>1, <1>3, TableStepSettles DEF vars
<1>. QED
  BY <1>1, <1>2, <1>3, RouteStepSettles, WorkerStepSettles DEF Next

\* Every price is taken once, and then earned by a finished deck or returned,
\* never both: what credits.py, the enqueue route and worker_run_job.py do to
\* the ledger between them, for every number of each and every failure.
THEOREM PipelineSettles == ASSUME NoReplyLoss PROVE Spec => SettlesAsPromised
<1>1. Init => Contract!Init
  BY DEF Init, LedgerInit, Contract!Init, Account
<1>2. Init => RefundInv /\ RowInv
  <2>1. Init => NoRowYet
    BY DEF Init, JobsInit, NoRow, NoRowYet
  <2>. QED
    BY <2>1, RefundInit, TypeInit DEF RowInv
<1>3. RefundInv /\ RowInv /\ [Next]_vars => RefundInv' /\ RowInv'
  BY RefundNext, RowNext
<1>4. RefundInv /\ RowInv /\ [Next]_vars => [Contract!Next]_Account
  BY NextSettles
<1>. QED
  BY <1>1, <1>2, <1>3, <1>4, PTL DEF Spec, SettlesAsPromised, Contract!Spec
=============================================================================
