---------------------------- MODULE JobPipeline ----------------------------
(***************************************************************************)
(* The generation pipeline: enqueue handlers, the job table, the ledger,   *)
(* loop workers and one-shot workers, and what may go wrong between them.  *)
(***************************************************************************)
EXTENDS EnqueueRoute, JobWorker

vars == <<jobVars, ledgerVars, rpc, workerVars, faults>>

TypeOK ==
    /\ JobsTypeOK
    /\ LedgerTypeOK
    /\ RouteTypeOK
    /\ WorkerTypeOK
    /\ FaultsTypeOK

Init ==
    /\ JobsInit
    /\ LedgerInit
    /\ RouteInit
    /\ WorkerInit
    /\ FaultsInit

\* No heartbeat of any worker got through for stale_seconds: its process is
\* gone, or alive and stalled.
Lapse(j) ==
    /\ HeartbeatLapses(j)
    /\ UNCHANGED <<ledgerVars, rpc, workerVars, faults>>

Next ==
    \/ \E r \in Requests : RouteStep(r) /\ UNCHANGED workerVars
    \/ \E w \in Workers : WorkerStep(w) /\ UNCHANGED rpc
    \/ \E j \in Requests : Lapse(j)

Spec == Init /\ [][Next]_vars

-----------------------------------------------------------------------------
(***************************************************************************)
(* Fairness.  A worker process does not stop between two statements: its   *)
(* loop is `while True`, every model call of the pipeline has a timeout,   *)
(* and compose restarts it.  A row no process beats any more becomes       *)
(* stale.  Nothing is assumed of users, of the API process, or of stalls.  *)
(***************************************************************************)

IsRunBy(j, w) ==
    /\ held[w] = j
    /\ jobs[j].worker = Id(w)

Abandoned(j) == \A w \in Workers : ~IsRunBy(j, w)

FairSpec ==
    /\ Spec
    /\ \A w \in LoopWorkers :
        /\ WF_vars(LoopStep(w) /\ UNCHANGED rpc)
        /\ WF_vars(Restart(w) /\ UNCHANGED rpc)
    /\ \A w \in Workers : WF_vars((RunnerStep(w) \/ OneShotBumps(w)) /\ UNCHANGED rpc)
    /\ \A j \in Requests : WF_vars(Abandoned(j) /\ Lapse(j))

-----------------------------------------------------------------------------
(***************************************************************************)
(* Safety                                                                  *)
(***************************************************************************)

\* No charge is given back twice, whoever fails the job: the worker that ran
\* it, the reaper that took it away from a worker still running it, or the
\* handler that lost the enqueue race.
RefundAtMostOnce == \A r \in Requests : refunded[r] <= 1

\* Money goes back only for a request that was charged and got nothing: its
\* job failed, or it never had one and was answered with another's job.  A
\* deck that was completed is never refunded, however late its worker was.
RefundOnlyUndelivered ==
    \A r \in Requests : refunded[r] > 0 =>
        /\ r \in deducted
        /\ \/ jobs[r].status = "failed"
           \/ jobs[r].status = "absent" /\ rpc[r] = "existing"

\* A job is in the table only when its request was charged for it, and a job
\* not yet over was not given its money back.
JobsArePaidFor ==
    \A r \in Requests : jobs[r].status # "absent" =>
        /\ r \in deducted
        /\ jobs[r].status # "failed" => refunded[r] = 0

\* However the loop workers, the one-shot workers and the reaper interleave,
\* a project never has two active jobs.
OneActiveJobPerProject ==
    \A i, j \in Requests :
        i # j /\ ProjectOf[i] = ProjectOf[j] => ~(IsActive(i) /\ IsActive(j))

\* A job is claimed at most max_attempts times, and once more for every claim_job
\* whose second write (the one that counts the attempt) never landed: the worker
\* died or was reaped between the two writes.  No counted claim is counted wrong,
\* however the reaper, the loops and the one-shots take the row from each other.
AttemptsWithinLimit ==
    \A j \in Requests : jobs[j].claims <= MaxAttempts + jobs[j].uncounted

\* While nothing has failed in the environment, a failed job's money is never
\* forgotten: it has gone back, or exactly one live worker still owes it.
Owes(w, j) == j \in owed[w] \/ (wpc[w] = "refund" /\ held[w] = j)

EveryFailureIsOwed ==
    \A j \in Requests : jobs[j].status = "failed" =>
        \/ refunded[j] = 1
        \/ faults > 0
        \/ \E w \in Workers : Owes(w, j) /\ \A v \in Workers \ {w} : ~Owes(v, j)

\* What keeps the refunds in order.  The handler and its row: who is charged,
\* who has a row, who may have been refunded already.
HandlerInv ==
    \A r \in Requests :
        /\ rpc[r] \in {"idle", "entitle", "deduct", "charge", "rejected"} => r \notin deducted
        /\ rpc[r] \in {"insert", "lookup", "undo", "enqueued"} => r \in deducted
        /\ jobs[r].status # "absent" <=> rpc[r] = "enqueued"
        /\ refunded[r] > 0 => r \in deducted /\ rpc[r] \in {"enqueued", "existing"}

\* The refund of a failed job as a token: the worker whose write failed the row
\* has it, nobody else ever gets it, and it is spent when the refund row is
\* written.
TokenInv ==
    /\ \A w \in Workers : wpc[w] # "refundReaped" => owed[w] = {}
    /\ \A r \in Requests :
        /\ refunded[r] <= 1
        /\ refunded[r] > 0 /\ rpc[r] = "enqueued" => jobs[r].status = "failed"
        /\ \A w \in Workers : Owes(w, r) => jobs[r].status = "failed" /\ refunded[r] = 0
        /\ \A v, w \in Workers : Owes(v, r) /\ Owes(w, r) => v = w

\* ... and, as long as no process died with it, it is in somebody's hands.
TokenHeldInv ==
    \A r \in Requests :
        jobs[r].status = "failed" /\ refunded[r] = 0 /\ faults = 0 =>
            \E w \in Workers : Owes(w, r)

RefundInv == TypeOK /\ HandlerInv /\ TokenInv /\ TokenHeldInv

\* A row that reached a terminal status is never written again, not by the
\* reaper and not by a worker that believes it still runs the job (the bump of
\* attempts, guarded by the worker's id alone, is the one exception the code
\* makes; it leaves status and owner alone).
TerminalIsFinal ==
    [][\A j \in Requests : jobs[j].status \in {"completed", "failed"} =>
        /\ jobs'[j].status = jobs[j].status
        /\ jobs'[j].worker = jobs[j].worker]_jobs

\* The money side of the pipeline implements the Settlement contract.
Account ==
    [r \in Requests |->
        IF r \notin deducted THEN "unpaid"
        ELSE IF refunded[r] > 1 THEN "overpaid"
        ELSE IF refunded[r] = 1 THEN "returned"
        ELSE IF jobs[r].status = "completed" THEN "earned"
        ELSE "held"]

Contract == INSTANCE Settlement WITH account <- Account

SettlesAsPromised == Contract!Spec

\* jobs.py, enqueue_job: "a lost enqueue race refunds the deduction and returns
\* the winner".  A handler that is over and was charged either has its row in
\* the table or gave the money back.
ChargeIsBackedOrReturned ==
    \A r \in Requests :
        r \in deducted /\ rpc[r] \in {"existing", "rejected", "error"} => refunded[r] = 1

\* credits.py: InsufficientCreditsError is "raised when a deduction would push
\* the user's balance below zero".
BalanceNeverNegative ==
    DevMode \/ \A u \in Users : GetBalance(u) >= 0

-----------------------------------------------------------------------------
(***************************************************************************)
(* Liveness                                                                *)
(***************************************************************************)

\* jobs.py: "never a zombie processing row".  Whatever crashes or stalls, a row
\* that was queued or claimed ends on a terminal status; and while nothing has
\* failed in the environment, the price of a failed job comes back to the user.
EveryJobIsSettled ==
    \A j \in Requests :
        IsActive(j) ~> \/ jobs[j].status = "completed"
                       \/ jobs[j].status = "failed" /\ (refunded[j] = 1 \/ faults > 0)
=============================================================================
