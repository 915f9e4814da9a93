------------------------------ MODULE GoJobStore ------------------------------
(***************************************************************************)
(* The durable job table go_jobs and the methods of jobs.Store: every      *)
(* method is one SQL statement (or one transaction), hence one atomic      *)
(* action on `row'.  Workers are only names here; what a worker does       *)
(* between two statements is in GoJobs.                                    *)
(*                                                                         *)
(* Time is two bits per row: `due' is available_at <= now() and `lease' is *)
(* lease_until >= now().  The clock may turn the first on and the second   *)
(* off at any moment (BecomesDue, LeaseLapses).  Payload, error text and   *)
(* timestamps are abstracted; `result' keeps the number of the attempt     *)
(* whose result was stored, 0 standing for NULL.                           *)
(***************************************************************************)
EXTENDS Naturals, FiniteSets

CONSTANTS
    Job,          \* job identifiers (the primary key)
    Worker,       \* worker identifiers (lease_owner)
    NoWorker,     \* lease_owner IS NULL
    NoKey,        \* dedupe_key IS NULL
    MaxAttempts,  \* max_attempts, 3 for every publisher
    QueueOf,      \* what the publisher of a job passes to Enqueue: its queue,
    KeyOf,        \*   its dedupe key,
    PriorityOf,   \*   its priority (smaller is served first)
    ParentsOf     \*   and the jobs it depends on

ASSUME MaxAttemptsIsPositive == MaxAttempts \in Nat \ {0}
ASSUME NoWorkerIsNotAWorker == NoWorker \notin Worker
ASSUME PrioritiesAreNumbers == PriorityOf \in [Job -> Nat]
ASSUME ParentsAreJobs == ParentsOf \in [Job -> SUBSET Job]

VARIABLE row

Waiting  == {"queued", "retrying"}
Active   == Waiting \cup {"running"}
Terminal == {"completed", "failed", "cancelled"}

Row == [status  : Active \cup Terminal \cup {"absent"},
        attempt : Nat,
        owner   : Worker \cup {NoWorker},
        lease   : BOOLEAN,
        due     : BOOLEAN,
        cancel  : BOOLEAN,
        result  : Nat]

Absent == [status |-> "absent", attempt |-> 0, owner |-> NoWorker,
           lease |-> FALSE, due |-> FALSE, cancel |-> FALSE, result |-> 0]

StoreInit == row = [j \in Job |-> Absent]

-------------------------------------------------------------------------------
\* uq_go_jobs_active_dedupe: the active rows that share queue and key with j.
SameWork(j) == {k \in Job : /\ KeyOf[k] = KeyOf[j] /\ KeyOf[j] # NoKey
                            /\ QueueOf[k] = QueueOf[j]}
\* Defect: the partial index forgets the running rows.
HoldersWaiting(j) == {k \in SameWork(j) : row[k].status \in Waiting}

Holders(j) == {k \in SameWork(j) : row[k].status \in Active}

Queued(r) == [r EXCEPT !.status = "queued", !.due = TRUE]

\* ON CONFLICT DO NOTHING: a known id or an active holder of the key leaves the
\* table as it is, and the caller is given the id of that row.  The foreign key
\* of go_job_dependencies rolls back a job whose parents do not exist.
Enqueue(j) ==
    /\ row[j].status = "absent"
    /\ Holders(j) = {}
    /\ \A p \in ParentsOf[j] : row[p].status # "absent"
    /\ row' = [row EXCEPT ![j] = Queued(@)]

-------------------------------------------------------------------------------
\* Defect: a requeued job is never picked up again.
ClaimableOnce(j) ==
    /\ row[j].status = "queued"
    /\ row[j].due
    /\ ~row[j].cancel
    /\ \A p \in ParentsOf[j] : row[p].status = "completed"

Claimable(j) ==
    /\ row[j].status \in Waiting
    /\ row[j].due
    /\ ~row[j].cancel
    /\ \A p \in ParentsOf[j] : row[p].status = "completed"

\* ORDER BY priority; the timestamps that break ties are not modelled.
First(j) == \A k \in Job : /\ QueueOf[k] = QueueOf[j]
                           /\ Claimable(k)
                           => PriorityOf[j] <= PriorityOf[k]

Claimed(r, w) == [r EXCEPT !.status = "running", !.owner = w, !.lease = TRUE,
                           !.attempt = @ + 1]

Claim(w, j) ==
    /\ Claimable(j)
    /\ First(j)
    /\ row' = [row EXCEPT ![j] = Claimed(@, w)]

\* WHERE id=$1 AND lease_owner=$2 AND status='running'
Holds(w, j) == row[j].owner = w /\ row[j].status = "running"

Leased(r, lease) == [r EXCEPT !.lease = lease]

\* True when the row was extended; a lapsed lease is revived by it.
Alive(w, j) == Holds(w, j) /\ ~row[j].cancel
Heartbeat(w, j) ==
    row' = IF Alive(w, j) THEN [row EXCEPT ![j] = Leased(@, TRUE)] ELSE row

Released(r, status) == [r EXCEPT !.status = status, !.owner = NoWorker, !.lease = FALSE]

Completed(r, attempt) == [Released(r, "completed") EXCEPT !.result = attempt]

\* Defect: the result is stored without the WHERE on lease_owner.
CompleteUnfenced(w, j, attempt) ==
    row' = IF row[j].status = "running"
           THEN [row EXCEPT ![j] = Completed(@, attempt)]
           ELSE row

\* Complete, Fail and CompleteCancellation change nothing once the caller has
\* lost the row.  `attempt' is the one in the caller's copy of the job.
Complete(w, j, attempt) ==
    row' = IF Holds(w, j)
           THEN [row EXCEPT ![j] = Completed(@, attempt)]
           ELSE row

\* Defect: off by one against max_attempts.
FailedOneLate(r, attempt) ==
    IF attempt > MaxAttempts
    THEN Released(r, "failed")
    ELSE [Released(r, "retrying") EXCEPT !.due = FALSE]

Failed(r, attempt) ==
    IF attempt >= MaxAttempts
    THEN Released(r, "failed")
    ELSE [Released(r, "retrying") EXCEPT !.due = FALSE]

Fail(w, j, attempt) ==
    row' = IF Holds(w, j) THEN [row EXCEPT ![j] = Failed(@, attempt)] ELSE row

CompleteCancellation(w, j) ==
    row' = IF Holds(w, j) /\ row[j].cancel
           THEN [row EXCEPT ![j] = Released(@, "cancelled")]
           ELSE row

-------------------------------------------------------------------------------
Withdrawn(r) == [r EXCEPT !.cancel = TRUE,
                          !.status = IF @ \in Waiting THEN "cancelled" ELSE @]

Cancel(j) ==
    /\ row[j].status \in Active
    /\ row' = [row EXCEPT ![j] = Withdrawn(@)]

CancelQueue(q) ==
    /\ \E j \in Job : QueueOf[j] = q /\ row[j].status \in Active
    /\ row' = [j \in Job |-> IF QueueOf[j] = q /\ row[j].status \in Active
                             THEN Withdrawn(row[j]) ELSE row[j]]

CancellationRequested(j) == row[j].cancel

\* Defect: a row asked to stop is left to its worker.
ExpiredUncancelled(r) == r.status = "running" /\ ~r.lease /\ ~r.cancel

Expired(r) == r.status = "running" /\ ~r.lease

\* Defect: a status the column's readers do not know.
OutcomeMisspelt(r) == IF r.cancel THEN "canceled"
                      ELSE IF r.attempt >= MaxAttempts THEN "failed" ELSE "retrying"

\* The SQL CASE is ordered: a cancellation wins over the last attempt.
Outcome(r) == IF r.cancel THEN "cancelled"
              ELSE IF r.attempt >= MaxAttempts THEN "failed" ELSE "retrying"

Reconciled(r) == Released(r, Outcome(r))

\* One statement settles every expired row (the scheduler, once a minute).
ReconcileExpired ==
    /\ \E j \in Job : Expired(row[j])
    /\ row' = [j \in Job |-> IF Expired(row[j]) THEN Reconciled(row[j]) ELSE row[j]]

-------------------------------------------------------------------------------
\* The clock.
Due(r) == [r EXCEPT !.due = TRUE]

BecomesDue(j) ==
    /\ row[j].status = "retrying" /\ ~row[j].due
    /\ row' = [row EXCEPT ![j] = Due(@)]

LeaseLapses(j) ==
    /\ row[j].status = "running" /\ row[j].lease
    /\ row' = [row EXCEPT ![j] = Leased(@, FALSE)]
===============================================================================
