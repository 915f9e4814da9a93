-------------------------------- MODULE GoJobs --------------------------------
(***************************************************************************)
(* The Go workers over the job table: jobs.Worker.Run/execute, the         *)
(* heartbeat goroutine of an execution, the scheduler's reconciliation,    *)
(* publishers that enqueue and operators that cancel.  A worker holds a    *)
(* COPY of the job it claimed; the row may change under it at any moment.  *)
(***************************************************************************)
EXTENDS GoJobStore

CONSTANTS
    NoJob,        \* a worker with no job in hand
    QueuesOf,     \* the queues a worker serves
    Unhandled     \* jobs of a task type without a registered handler

ASSUME NoJobIsNotAJob == NoJob \notin Job

VARIABLE worker

vars == <<row, worker>>

\* idle -> handling -> returned -> settling | cancelling -> idle
WorkerState == [pc      : {"idle", "handling", "returned", "settling", "cancelling"},
                job     : Job \cup {NoJob},
                attempt : Nat,       \* job.Attempt as Claim returned it
                live    : BOOLEAN,   \* the handler's context is not cancelled
                failed  : BOOLEAN]   \* the handler returned an error

Idle == [pc |-> "idle", job |-> NoJob, attempt |-> 0, live |-> FALSE, failed |-> FALSE]

Init == StoreInit /\ worker = [w \in Worker |-> Idle]

-------------------------------------------------------------------------------
\* Defect: the copy is read before the UPDATE increments the attempt.
ClaimAndExecuteStaleCopy(w, j) ==
    /\ worker[w].pc = "idle"
    /\ QueueOf[j] \in QueuesOf[w]
    /\ Claim(w, j)
    /\ worker' = [worker EXCEPT ![w] =
          [pc |-> IF j \in Unhandled THEN "settling" ELSE "handling", job |-> j,
           attempt |-> row[j].attempt,
           live |-> TRUE, failed |-> j \in Unhandled]]

\* Run: a claimed job is executed at once.  A job without a handler is failed
\* directly, without the look at cancel_requested_at.
ClaimAndExecute(w, j) ==
    /\ worker[w].pc = "idle"
    /\ QueueOf[j] \in QueuesOf[w]
    /\ Claim(w, j)
    /\ worker' = [worker EXCEPT ![w] =
          [pc |-> IF j \in Unhandled THEN "settling" ELSE "handling", job |-> j,
           attempt |-> row[j].attempt + 1,
           live |-> TRUE, failed |-> j \in Unhandled]]

\* The ticker of the execution: a lost or cancelled row, or a database error,
\* cancels the handler's context and ends the heartbeats.
Beat(w) ==
    /\ worker[w].pc = "handling" /\ worker[w].live
    /\ \/ /\ Heartbeat(w, worker[w].job)
          /\ worker' = [worker EXCEPT ![w] = [@ EXCEPT !.live = Alive(w, worker[w].job)]]
       \/ /\ worker' = [worker EXCEPT ![w] = [@ EXCEPT !.live = FALSE]]
          /\ UNCHANGED row

HandlerReturns(w) ==
    /\ worker[w].pc = "handling"
    /\ \E failed \in BOOLEAN :
          worker' = [worker EXCEPT ![w] =
              [@ EXCEPT !.pc = "returned", !.live = FALSE, !.failed = failed]]
    /\ UNCHANGED row

\* `cancelErr == nil && cancelled': a query error counts as not cancelled.
CheckCancellation(w) ==
    /\ worker[w].pc = "returned"
    /\ \/ /\ CancellationRequested(worker[w].job)
          /\ worker' = [worker EXCEPT ![w] = [@ EXCEPT !.pc = "cancelling"]]
       \/ worker' = [worker EXCEPT ![w] = [@ EXCEPT !.pc = "settling"]]
    /\ UNCHANGED row

Settle(w) ==
    /\ worker[w].pc = "settling"
    /\ IF worker[w].failed
       THEN Fail(w, worker[w].job, worker[w].attempt)
       ELSE Complete(w, worker[w].job, worker[w].attempt)
    /\ worker' = [worker EXCEPT ![w] = Idle]

SettleCancellation(w) ==
    /\ worker[w].pc = "cancelling"
    /\ CompleteCancellation(w, worker[w].job)
    /\ worker' = [worker EXCEPT ![w] = Idle]

\* The process dies and is restarted under the same GO_WORKER_ID; a settling
\* statement whose error is dropped (`_ = w.Store.Fail') has the same effect.
Crash(w) ==
    /\ worker[w].pc # "idle"
    /\ worker' = [worker EXCEPT ![w] = Idle]
    /\ UNCHANGED row

-------------------------------------------------------------------------------
\* Steps of the table that no worker takes.
Publish     == \E j \in Job : Enqueue(j) /\ UNCHANGED worker
CancelOne   == \E j \in Job : Cancel(j) /\ UNCHANGED worker
ClearQueue  == \E q \in {QueueOf[j] : j \in Job} : CancelQueue(q) /\ UNCHANGED worker
Reconcile   == ReconcileExpired /\ UNCHANGED worker
Clock       == \E j \in Job : (BecomesDue(j) \/ LeaseLapses(j)) /\ UNCHANGED worker

WorkerStep(w) ==
    \/ \E j \in Job : ClaimAndExecute(w, j)
    \/ Beat(w)
    \/ HandlerReturns(w)
    \/ CheckCancellation(w)
    \/ Settle(w)
    \/ SettleCancellation(w)
    \/ Crash(w)

Next ==
    \/ Publish \/ CancelOne \/ ClearQueue \/ Reconcile \/ Clock
    \/ \E w \in Worker : WorkerStep(w)

Spec == Init /\ [][Next]_vars

-------------------------------------------------------------------------------
\* What the workers' loop, the scheduler's ticker and the clock guarantee.
\* Handlers return (their model and HTTP calls time out); publishers and
\* operators owe nothing, and crashes are never fair.
Abandoned(j) == \A w \in Worker :
    ~(worker[w].pc = "handling" /\ worker[w].live /\ Holds(w, j) /\ worker[w].job = j)

Fairness ==
    /\ \A w \in Worker :
          /\ WF_vars(\E j \in Job : ClaimAndExecute(w, j))
          /\ WF_vars(HandlerReturns(w))
          /\ WF_vars(CheckCancellation(w))
          /\ WF_vars(Settle(w) \/ SettleCancellation(w))
    /\ WF_vars(Reconcile)
    /\ \A j \in Job : /\ WF_vars(BecomesDue(j) /\ UNCHANGED worker)
                      /\ WF_vars(Abandoned(j) /\ LeaseLapses(j) /\ UNCHANGED worker)

FairSpec == Spec /\ Fairness

-------------------------------------------------------------------------------
TypeOK == /\ row \in [Job -> Row]
          /\ worker \in [Worker -> WorkerState]

\* The owner column is the fence of Complete, Fail and CompleteCancellation:
\* a worker that still owns the row of the job in its hands has the attempt
\* number of the row, however often the lease lapsed, the scheduler requeued
\* and other workers claimed in between.  Fail decides between `retrying' and
\* `failed' from that copy.
SnapshotIsCurrent ==
    \A w \in Worker : \A j \in Job :
        worker[w].job = j /\ row[j].owner = w => worker[w].attempt = row[j].attempt

\* A row has an owner exactly while it runs.
OwnedWhileRunning ==
    \A j \in Job : row[j].owner # NoWorker <=> row[j].status = "running"

\* Nothing in Claim compares attempt with max_attempts: the bound holds only
\* because every way back to a claimable status leaves room for one more.
AttemptBudget ==
    \A j \in Job : /\ row[j].attempt <= MaxAttempts
                   /\ row[j].status \in Waiting => row[j].attempt < MaxAttempts
                   /\ row[j].status = "absent" => row[j].attempt = 0

\* No two active jobs do the same work, through retries, lapses and requeues.
OneActivePerKey ==
    \A j, k \in Job : /\ j # k /\ k \in SameWork(j)
                      /\ row[j].status \in Active
                      => row[k].status \notin Active

-------------------------------------------------------------------------------
\* The refinement mapping: queued and retrying are both waiting.
Phase(status) ==
    CASE status \in Waiting     -> "waiting"
      [] status = "running"     -> "inflight"
      [] status = "cancelled"   -> "withdrawn"
      [] OTHER                  -> status

Promise(r) == [phase |-> Phase(r.status), tries |-> r.attempt,
               asked |-> r.cancel, answer |-> r.result]

Contract == INSTANCE JobContract WITH job <- [j \in Job |-> Promise(row[j])]

\* Whatever leases lapse and workers die, every job keeps the promise of
\* JobContract: one attempt at a time, the stored result is the last attempt's,
\* no attempt after a cancellation, an end that is final.
ImplementsContract == Contract!Spec

-------------------------------------------------------------------------------
\* A job the cancellation overtook between CancellationRequested and Fail: it
\* is retrying, no worker will claim it and no reconciliation looks at it.
Parked(j) == row[j].status = "retrying" /\ row[j].cancel

\* A child of a parent that will never complete is never claimable.
Orphaned(j) == \E p \in ParentsOf[j] :
    row[p].status \in {"failed", "cancelled"} \/ Parked(p)

\* Every published job ends, whatever crashes and lapses it meets, unless it is
\* parked or waits for a parent that did not complete.
SettlesUnlessParked ==
    \A j \in Job : row[j].status \in Active
                     ~> row[j].status \in Terminal \/ Parked(j) \/ Orphaned(j)

\* A running job that is asked to stop is not left running.
CancellationStopsRunning ==
    \A j \in Job : row[j].status = "running" /\ row[j].cancel
                     ~> row[j].status # "running"

\* What the worker is documented to preserve: a cancellation is carried through
\* and an active job is retried to its end.
CancellationSettles ==
    \A j \in Job : row[j].cancel ~> row[j].status \in Terminal
===============================================================================
