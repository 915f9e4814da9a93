-------------------------- MODULE NewsPipelineProofs --------------------------
(***************************************************************************)
(* Proofs about the job queue, for any jobs, workers, keys, priorities,    *)
(* dependencies and any positive MaxAttempts; and about the news pipeline  *)
(* that uses it, for any items, dispatchers, workers, ids and bounds: its  *)
(* types, that it uses the job table as GoJobs says, that the ids of its   *)
(* dispatches never meet, and that what the stores say of an item has      *)
(* happened.                                                               *)
(***************************************************************************)
EXTENDS NewsPipeline, TLAPS

USE MaxAttemptsIsPositive, NoWorkerIsNotAWorker, NoJobIsNotAJob DEF Waiting, Active, Terminal

\* Every change a statement makes to a row gives a row.
LEMMA RowChangesType ==
    ASSUME NEW r \in Row
    PROVE  /\ Queued(r) \in Row
           /\ \A w \in Worker : Claimed(r, w) \in Row
           /\ \A b \in BOOLEAN : Leased(r, b) \in Row
           /\ \A s \in Active \cup Terminal : Released(r, s) \in Row
           /\ \A n \in Nat : Completed(r, n) \in Row
           /\ \A n \in Nat : Failed(r, n) \in Row
           /\ Withdrawn(r) \in Row
           /\ Reconciled(r) \in Row
           /\ Due(r) \in Row
<1>1. \A s \in Active \cup Terminal : Released(r, s) \in Row
  BY DEF Released, Row
<1>2. Queued(r) \in Row
  BY DEF Queued, Row
<1>3. \A w \in Worker : Claimed(r, w) \in Row
  <2> TAKE w \in Worker
  <2>1. r.attempt \in Nat /\ r.attempt + 1 \in Nat
    BY DEF Row
  <2> QED BY <2>1 DEF Claimed, Row
<1>4. \A b \in BOOLEAN : Leased(r, b) \in Row
  BY DEF Leased, Row
<1>5. \A n \in Nat : Completed(r, n) \in Row
  BY <1>1 DEF Completed, Row
<1>6. \A n \in Nat : Failed(r, n) \in Row
  BY <1>1 DEF Failed, Row
<1>7. Withdrawn(r) \in Row
  BY DEF Withdrawn, Row
<1>8. Reconciled(r) \in Row
  BY <1>1 DEF Reconciled, Outcome
<1>9. Due(r) \in Row
  BY DEF Due, Row
<1> QED BY <1>1, <1>2, <1>3, <1>4, <1>5, <1>6, <1>7, <1>8, <1>9

\* Init satisfies the type invariant.
LEMMA InitTypeOK == Init => TypeOK
<1> SUFFICES ASSUME Init PROVE TypeOK
  OBVIOUS
<1>1. Absent \in Row
  BY DEF Absent, Row
<1>2. Idle \in WorkerState
  BY DEF Idle, WorkerState
<1> QED BY <1>1, <1>2 DEF Init, StoreInit, TypeOK

\* Every step keeps the rows and the workers in their types.
LEMMA NextTypeOK == TypeOK /\ [Next]_vars => TypeOK'
<1> SUFFICES ASSUME TypeOK, [Next]_vars
             PROVE  TypeOK'
  OBVIOUS
<1> USE DEF TypeOK
<1>1. CASE Publish
  BY <1>1, RowChangesType DEF Publish, Enqueue
<1>2. CASE CancelOne
  BY <1>2, RowChangesType DEF CancelOne, Cancel
<1>3. CASE ClearQueue
  BY <1>3, RowChangesType DEF ClearQueue, CancelQueue
<1>4. CASE Reconcile
  BY <1>4, RowChangesType DEF Reconcile, ReconcileExpired
<1>5. CASE Clock
  <2> PICK j \in Job : (BecomesDue(j) \/ LeaseLapses(j)) /\ UNCHANGED worker
    BY <1>5 DEF Clock
  <2>1. CASE BecomesDue(j)
    BY <2>1, RowChangesType DEF BecomesDue
  <2>2. CASE LeaseLapses(j)
    BY <2>2, RowChangesType DEF LeaseLapses
  <2> QED BY <2>1, <2>2
<1>6. ASSUME NEW w \in Worker, WorkerStep(w) PROVE TypeOK'
  <2> Idle \in WorkerState
    BY DEF Idle, WorkerState
  <2>1. ASSUME NEW j \in Job, ClaimAndExecute(w, j) PROVE TypeOK'
    <3>1. row' \in [Job -> Row]
      BY <2>1, RowChangesType DEF ClaimAndExecute, Claim
    <3>2. row[j].attempt + 1 \in Nat
      BY DEF Row
    <3>3. worker' \in [Worker -> WorkerState]
      BY <2>1, <3>2 DEF ClaimAndExecute, WorkerState
    <3> QED BY <3>1, <3>3
  <2>2. CASE Beat(w)
    <3>1. Alive(w, worker[w].job) \in BOOLEAN
      BY DEF Alive, Holds, Row
    <3>2. /\ [worker[w] EXCEPT !.live = FALSE] \in WorkerState
          /\ [worker[w] EXCEPT !.live = Alive(w, worker[w].job)] \in WorkerState
      BY <3>1 DEF WorkerState
    <3>3. CASE Heartbeat(w, worker[w].job)
      <4>1. row' \in [Job -> Row]
        BY <3>3, RowChangesType DEF Heartbeat, Alive, Holds
      <4> QED BY <2>2, <3>2, <4>1 DEF Beat
    <3>4. CASE UNCHANGED row
      BY <2>2, <3>2, <3>4 DEF Beat
    <3> QED BY <2>2, <3>3, <3>4 DEF Beat
  <2>3. CASE HandlerReturns(w)
    <3>1. \A b \in BOOLEAN :
            [worker[w] EXCEPT !.pc = "returned", !.live = FALSE, !.failed = b] \in WorkerState
      BY DEF WorkerState
    <3> QED BY <2>3, <3>1 DEF HandlerReturns
  <2>4. CASE CheckCancellation(w)
    BY <2>4 DEF CheckCancellation, WorkerState
  <2>5. CASE Settle(w)
    <3>1. worker[w].attempt \in Nat
      BY DEF WorkerState
    <3> DEFINE j == worker[w].job
               n == worker[w].attempt
    <3>2. row' \in [Job -> Row]
      <4>1. \/ row' = row
            \/ row' = [row EXCEPT ![j] = Failed(@, n)]
            \/ row' = [row EXCEPT ![j] = Completed(@, n)]
        BY <2>5 DEF Settle, Fail, Complete
      <4>2. n \in Nat
        BY <3>1
      <4> HIDE DEF j, n
      <4> QED BY <4>1, <4>2, RowChangesType
    <3> QED BY <2>5, <3>2 DEF Settle
  <2>6. CASE SettleCancellation(w)
    BY <2>6, RowChangesType DEF SettleCancellation, CompleteCancellation, Reconciled
  <2>7. CASE Crash(w)
    BY <2>7 DEF Crash
  <2> QED BY <1>6, <2>1, <2>2, <2>3, <2>4, <2>5, <2>6, <2>7 DEF WorkerStep
<1>7. CASE UNCHANGED vars
  BY <1>7 DEF vars
<1> QED BY <1>1, <1>2, <1>3, <1>4, <1>5, <1>6, <1>7 DEF Next

\* The variables keep their types.
THEOREM TypeCorrect == Spec => []TypeOK
<1>1. Init => TypeOK
  BY InitTypeOK
<1>2. TypeOK /\ [Next]_vars => TypeOK'
  BY NextTypeOK
<1> QED BY <1>1, <1>2, PTL DEF Spec

-------------------------------------------------------------------------------
(***************************************************************************)
(* The inductive invariant.  AttemptBudget alone is not inductive: Fail    *)
(* compares max_attempts with the attempt of the worker's copy, so it      *)
(* needs SnapshotIsCurrent, which in turn needs that only running rows     *)
(* have an owner (a claim is the only step that changes an attempt, and it *)
(* takes rows nobody owns).                                                *)
(***************************************************************************)
IInv == TypeOK /\ OwnedWhileRunning /\ AttemptBudget /\ SnapshotIsCurrent

\* The part of the invariant that speaks of one row.
RowInv(r) ==
    /\ r.owner # NoWorker <=> r.status = "running"
    /\ r.attempt <= MaxAttempts
    /\ r.status \in Waiting => r.attempt < MaxAttempts
    /\ r.status = "absent" => r.attempt = 0

\* For a typed table, the two invariants about rows are RowInv of every row.
LEMMA RowInvOfRows ==
    OwnedWhileRunning /\ AttemptBudget <=> \A j \in Job : RowInv(row[j])
  BY DEF OwnedWhileRunning, AttemptBudget, RowInv

\* The columns a reader of the table cares about: everything but the clock bits.
Same(s, r) == s.owner = r.owner /\ s.attempt = r.attempt /\ s.cancel = r.cancel
              /\ s.result = r.result
Freed(s, r) == s.owner = NoWorker /\ s.attempt = r.attempt /\ s.cancel = r.cancel

\* What each change does to these columns.
RowFacts(r) ==
    /\ Queued(r).status = "queued" /\ Same(Queued(r), r)
    /\ \A w \in Worker : /\ Claimed(r, w).status = "running"
                         /\ Claimed(r, w).owner = w
                         /\ Claimed(r, w).attempt = r.attempt + 1
                         /\ Claimed(r, w).cancel = r.cancel
                         /\ Claimed(r, w).result = r.result
    /\ Leased(r, TRUE).status = r.status /\ Same(Leased(r, TRUE), r)
    /\ Leased(r, FALSE).status = r.status /\ Same(Leased(r, FALSE), r)
    /\ \A s \in Active \cup Terminal : /\ Released(r, s).status = s
                                     /\ Freed(Released(r, s), r)
                                     /\ Released(r, s).result = r.result
    /\ \A n \in Nat : /\ Completed(r, n).status = "completed"
                      /\ Freed(Completed(r, n), r)
                      /\ Completed(r, n).result = n
    /\ \A n \in Nat : /\ Failed(r, n).status
                         = IF n >= MaxAttempts THEN "failed" ELSE "retrying"
                      /\ Freed(Failed(r, n), r)
                      /\ Failed(r, n).result = r.result
    /\ Reconciled(r).status = Outcome(r)
    /\ Freed(Reconciled(r), r) /\ Reconciled(r).result = r.result
    /\ Withdrawn(r).status = IF r.status \in Waiting THEN "cancelled" ELSE r.status
    /\ Withdrawn(r).owner = r.owner /\ Withdrawn(r).attempt = r.attempt
    /\ Withdrawn(r).cancel = TRUE /\ Withdrawn(r).result = r.result
    /\ Due(r).status = r.status /\ Same(Due(r), r)

\* What each statement writes into the fields of a row it changes.
LEMMA RowFields ==
    ASSUME NEW r \in Row
    PROVE  RowFacts(r)
<1> USE DEF Same, Freed
<1>1. \A s \in Active \cup Terminal :
        /\ Released(r, s).status = s /\ Freed(Released(r, s), r)
        /\ Released(r, s).result = r.result /\ Released(r, s) \in Row
  <2>1. \A s \in Active \cup Terminal : Released(r, s) \in Row
    BY RowChangesType
  <2> QED BY ONLY <2>1, r \in Row DEF Released, Row, Freed
<1>2. \A n \in Nat : /\ Completed(r, n).status = "completed"
                    /\ Freed(Completed(r, n), r)
                    /\ Completed(r, n).result = n
  <2>1. /\ Released(r, "completed") \in Row /\ Released(r, "completed").status = "completed"
        /\ Freed(Released(r, "completed"), r)
    BY <1>1
  <2> QED BY <2>1 DEF Completed, Row
<1>3. \A n \in Nat : /\ Failed(r, n).status
                         = IF n >= MaxAttempts THEN "failed" ELSE "retrying"
                    /\ Freed(Failed(r, n), r)
                    /\ Failed(r, n).result = r.result
  <2>1. /\ Released(r, "retrying") \in Row /\ Released(r, "retrying").status = "retrying"
        /\ Freed(Released(r, "retrying"), r) /\ Released(r, "retrying").result = r.result
    BY <1>1
  <2>2. /\ Released(r, "failed").status = "failed"
        /\ Freed(Released(r, "failed"), r) /\ Released(r, "failed").result = r.result
    BY <1>1
  <2>3. LET x == [Released(r, "retrying") EXCEPT !.due = FALSE]
        IN  x.status = "retrying" /\ Freed(x, r) /\ x.result = r.result
    BY <2>1 DEF Row
  <2> QED BY <2>2, <2>3 DEF Failed
<1>4. \A w \in Worker : /\ Claimed(r, w).status = "running" /\ Claimed(r, w).owner = w
                       /\ Claimed(r, w).attempt = r.attempt + 1
                       /\ Claimed(r, w).cancel = r.cancel
                       /\ Claimed(r, w).result = r.result
  BY DEF Claimed, Row
<1>5. /\ Leased(r, TRUE).status = r.status /\ Same(Leased(r, TRUE), r)
      /\ Leased(r, FALSE).status = r.status /\ Same(Leased(r, FALSE), r)
  BY DEF Leased, Row
<1>6. Queued(r).status = "queued" /\ Same(Queued(r), r)
  BY DEF Queued, Row
<1>7. /\ Withdrawn(r).status = IF r.status \in Waiting THEN "cancelled" ELSE r.status
      /\ Withdrawn(r).owner = r.owner /\ Withdrawn(r).attempt = r.attempt
      /\ Withdrawn(r).cancel = TRUE /\ Withdrawn(r).result = r.result
  BY DEF Withdrawn, Row
<1>8. Due(r).status = r.status /\ Same(Due(r), r)
  BY DEF Due, Row
<1>9. /\ Reconciled(r).status = Outcome(r)
      /\ Freed(Reconciled(r), r) /\ Reconciled(r).result = r.result
  BY <1>1 DEF Reconciled, Outcome
<1> QED BY <1>1, <1>2, <1>3, <1>4, <1>5, <1>6, <1>7, <1>8, <1>9 DEF RowFacts

\* Each change keeps the row's part of the invariant under the guard of the
\* statement that makes it; Fail does when the copy's attempt is the row's.
LEMMA RowInvKept ==
    ASSUME NEW r \in Row, RowInv(r)
    PROVE  /\ r.status = "absent" => RowInv(Queued(r))
           /\ r.status \in Waiting => \A w \in Worker : RowInv(Claimed(r, w))
           /\ RowInv(Leased(r, TRUE)) /\ RowInv(Leased(r, FALSE))
           /\ \A s \in Terminal : RowInv(Released(r, s))
           /\ \A n \in Nat : RowInv(Completed(r, n))
           /\ RowInv(Failed(r, r.attempt))
           /\ RowInv(Withdrawn(r))
           /\ RowInv(Reconciled(r))
           /\ RowInv(Due(r))
<1> RowFacts(r)
  BY RowFields
<1> USE DEF RowInv, RowFacts, Same, Freed
<1>0. r.attempt \in Nat
  BY DEF Row
<1>1. r.status = "absent" => RowInv(Queued(r))
  OBVIOUS
<1>2. r.status \in Waiting => \A w \in Worker : RowInv(Claimed(r, w))
  BY <1>0
<1>3. RowInv(Leased(r, TRUE)) /\ RowInv(Leased(r, FALSE))
  OBVIOUS
<1>4. \A s \in Terminal : RowInv(Released(r, s))
  OBVIOUS
<1>5. \A n \in Nat : RowInv(Completed(r, n))
  OBVIOUS
<1>6. RowInv(Failed(r, r.attempt))
  BY <1>0
<1>7. RowInv(Withdrawn(r))
  OBVIOUS
<1>8. RowInv(Reconciled(r))
  BY <1>0 DEF Outcome
<1>9. RowInv(Due(r))
  OBVIOUS
<1> QED BY <1>1, <1>2, <1>3, <1>4, <1>5, <1>6, <1>7, <1>8, <1>9

\* The empty table with idle workers satisfies the inductive invariant.
LEMMA InitIInv == Init => IInv
<1> SUFFICES ASSUME Init PROVE IInv
  OBVIOUS
<1>1. TypeOK
  BY InitTypeOK
<1>2. \A j \in Job : RowInv(row[j])
  BY DEF Init, StoreInit, Absent, RowInv
<1>3. SnapshotIsCurrent
  BY DEF Init, StoreInit, Idle, SnapshotIsCurrent
<1> QED BY <1>1, <1>2, <1>3, RowInvOfRows DEF IInv

-------------------------------------------------------------------------------
\* What a step that is not a claim may do to one row: the changes of the store,
\* each under the guard of its statement, a settlement with the row's own
\* attempt number.
RowChange(r, s) ==
    \/ s = r
    \/ r.status = "absent" /\ s = Queued(r)
    \/ r.status = "running" /\ s \in {Leased(r, TRUE), Leased(r, FALSE), Reconciled(r),
                                     Completed(r, r.attempt), Failed(r, r.attempt)}
    \/ r.status = "running" /\ r.cancel /\ s = Released(r, "cancelled")
    \/ r.status \in Active /\ s = Withdrawn(r)
    \/ s = Due(r)

\* Every step claims a row or is such a change of it.
LEMMA NextRowStep ==
    ASSUME TypeOK, SnapshotIsCurrent, [Next]_vars
    PROVE  \A k \in Job : \/ RowChange(row[k], row'[k])
                          \/ \E w \in Worker : ClaimAndExecute(w, k)
<1> row \in [Job -> Row] /\ worker \in [Worker -> WorkerState]
  BY DEF TypeOK
<1>1. CASE Publish
  BY <1>1 DEF Publish, Enqueue, RowChange
<1>2. CASE CancelOne
  BY <1>2 DEF CancelOne, Cancel, RowChange
<1>3. CASE ClearQueue
  BY <1>3 DEF ClearQueue, CancelQueue, RowChange
<1>4. CASE Reconcile
  BY <1>4 DEF Reconcile, ReconcileExpired, Expired, RowChange
<1>5. CASE Clock
  BY <1>5 DEF Clock, BecomesDue, LeaseLapses, RowChange
<1>6. ASSUME NEW w \in Worker, WorkerStep(w)
      PROVE  \A k \in Job : RowChange(row[k], row'[k]) \/ ClaimAndExecute(w, k)
  <2>1. CASE \E j \in Job : ClaimAndExecute(w, j)
    BY <2>1 DEF ClaimAndExecute, Claim, RowChange
  <2>2. CASE Beat(w)
    <3> DEFINE j == worker[w].job
    <3>1. \/ row' = row
          \/ Alive(w, j) /\ row' = [row EXCEPT ![j] = Leased(@, TRUE)]
      BY <2>2 DEF Beat, Heartbeat
    <3> HIDE DEF j
    <3> QED BY <3>1 DEF Alive, Holds, RowChange
  <2>3. CASE HandlerReturns(w) \/ CheckCancellation(w) \/ Crash(w)
    BY <2>3 DEF HandlerReturns, CheckCancellation, Crash, RowChange
  <2>4. CASE Settle(w)
    <3> DEFINE j == worker[w].job
               n == worker[w].attempt
    <3>1. j \in Job /\ Holds(w, j) => n = row[j].attempt /\ row[j].status = "running"
      BY DEF SnapshotIsCurrent, Holds
    <3>2. \/ row' = row
          \/ Holds(w, j) /\ row' = [row EXCEPT ![j] = Failed(@, n)]
          \/ Holds(w, j) /\ row' = [row EXCEPT ![j] = Completed(@, n)]
      BY <2>4 DEF Settle, Fail, Complete
    <3> QED BY <3>1, <3>2 DEF RowChange
  <2>5. CASE SettleCancellation(w)
    BY <2>5 DEF SettleCancellation, CompleteCancellation, Holds, RowChange
  <2> QED BY <1>6, <2>1, <2>2, <2>3, <2>4, <2>5 DEF WorkerStep
<1>7. CASE UNCHANGED vars
  BY <1>7 DEF vars, RowChange
<1> QED BY <1>1, <1>2, <1>3, <1>4, <1>5, <1>6, <1>7 DEF Next

\* Such a change keeps the row's part of the invariant and its attempt, and
\* gives the row to nobody.
LEMMA RowChangeKeeps ==
    ASSUME NEW r \in Row, NEW s \in Row, RowInv(r), RowChange(r, s)
    PROVE  RowInv(s) /\ s.attempt = r.attempt /\ s.owner \in {r.owner, NoWorker}
<1> r.attempt \in Nat /\ "cancelled" \in Active \cup Terminal /\ "cancelled" \in Terminal
  BY DEF Row
<1> RowFacts(r)
  BY RowFields
<1>1. RowInv(s)
  BY RowInvKept DEF RowChange
<1>2. Reconciled(r).attempt = r.attempt /\ Reconciled(r).owner = NoWorker
  BY DEF RowFacts, Freed
<1>3. /\ Completed(r, r.attempt).attempt = r.attempt
      /\ Completed(r, r.attempt).owner = NoWorker
      /\ Failed(r, r.attempt).attempt = r.attempt
      /\ Failed(r, r.attempt).owner = NoWorker
      /\ Released(r, "cancelled").attempt = r.attempt
      /\ Released(r, "cancelled").owner = NoWorker
  BY DEF RowFacts, Freed
<1>4. s.attempt = r.attempt /\ s.owner \in {r.owner, NoWorker}
  <2>1. CASE s \in {Leased(r, TRUE), Leased(r, FALSE), Queued(r), Due(r), r}
    BY <2>1 DEF RowFacts, Same
  <2>2. CASE s = Withdrawn(r)
    BY <2>2 DEF RowFacts
  <2>3. CASE s \in {Reconciled(r), Completed(r, r.attempt), Failed(r, r.attempt),
                    Released(r, "cancelled")}
    BY ONLY <2>3, <1>2, <1>3
  <2> QED BY <2>1, <2>2, <2>3 DEF RowChange
<1> QED BY <1>1, <1>4

\* A worker drops its job, keeps it with the copy it has, or claims one.
LEMMA NextCopies ==
    ASSUME TypeOK, [Next]_vars, NEW w \in Worker
    PROVE  \/ worker'[w].job = NoJob
           \/ worker'[w].job = worker[w].job /\ worker'[w].attempt = worker[w].attempt
           \/ \E j \in Job : /\ ClaimAndExecute(w, j)
                             /\ worker'[w].job = j
                             /\ worker'[w].attempt = row[j].attempt + 1
<1> worker \in [Worker -> WorkerState]
  BY DEF TypeOK
<1>1. CASE Publish \/ CancelOne \/ ClearQueue \/ Reconcile \/ Clock \/ UNCHANGED vars
  BY <1>1 DEF Publish, CancelOne, ClearQueue, Reconcile, Clock, vars
<1>2. ASSUME NEW v \in Worker, WorkerStep(v), v # w
      PROVE  worker'[w] = worker[w]
  BY <1>2 DEF WorkerStep, ClaimAndExecute, Beat, HandlerReturns, CheckCancellation,
              Settle, SettleCancellation, Crash
<1>3. CASE \E j \in Job : ClaimAndExecute(w, j)
  <2> PICK j \in Job : ClaimAndExecute(w, j)
    BY <1>3
  <2>1. worker'[w].job = j /\ worker'[w].attempt = row[j].attempt + 1
    BY DEF ClaimAndExecute
  <2> QED BY <2>1
<1>4. CASE Beat(w)
  <2>1. \A b : /\ [worker[w] EXCEPT !.live = b].job = worker[w].job
               /\ [worker[w] EXCEPT !.live = b].attempt = worker[w].attempt
    BY DEF WorkerState
  <2>2. PICK b : worker' = [worker EXCEPT ![w] = [@ EXCEPT !.live = b]]
    BY <1>4 DEF Beat
  <2>3. worker'[w] = [worker[w] EXCEPT !.live = b]
    BY <2>2
  <2> QED BY <2>1, <2>3
<1>5. CASE HandlerReturns(w)
  <2> PICK b \in BOOLEAN : worker' = [worker EXCEPT ![w] =
          [@ EXCEPT !.pc = "returned", !.live = FALSE, !.failed = b]]
    BY <1>5 DEF HandlerReturns
  <2> QED BY DEF WorkerState
<1>6. CASE CheckCancellation(w)
  BY <1>6 DEF CheckCancellation, WorkerState
<1>7. CASE Settle(w) \/ SettleCancellation(w) \/ Crash(w)
  BY <1>7 DEF Settle, SettleCancellation, Crash, Idle
<1> QED BY <1>1, <1>2, <1>3, <1>4, <1>5, <1>6, <1>7 DEF Next, WorkerStep

\* Every step of publisher, worker, operator, scheduler or clock keeps the
\* inductive invariant.
LEMMA NextIInv == IInv /\ [Next]_vars => IInv'
<1> SUFFICES ASSUME IInv, [Next]_vars
             PROVE  IInv'
  OBVIOUS
<1>1. TypeOK /\ TypeOK' /\ SnapshotIsCurrent
  BY NextTypeOK DEF IInv
<1>2. \A k \in Job : row[k] \in Row /\ row'[k] \in Row /\ RowInv(row[k])
  BY <1>1, RowInvOfRows DEF IInv, TypeOK
<1>3. ASSUME NEW k \in Job, NEW w \in Worker, ClaimAndExecute(w, k)
      PROVE  /\ row[k].status \in Waiting /\ row'[k] = Claimed(row[k], w)
             /\ worker'[w].job = k /\ worker'[w].attempt = row'[k].attempt
  <2>1. row'[k] = Claimed(row[k], w) /\ row[k].status \in Waiting
    BY <1>1, <1>3 DEF ClaimAndExecute, Claim, Claimable, TypeOK
  <2>2. worker'[w].job = k /\ worker'[w].attempt = row[k].attempt + 1
    BY <1>1, <1>3 DEF ClaimAndExecute, TypeOK
  <2>3. RowFacts(row[k])
    BY <1>2, RowFields
  <2>4. row'[k].attempt = row[k].attempt + 1
    BY <2>1, <2>3 DEF RowFacts
  <2> QED BY <2>1, <2>2, <2>4
<1>4. ASSUME NEW k \in Job
      PROVE  RowInv(row'[k])
  <2>1. CASE RowChange(row[k], row'[k])
    BY <1>2, <2>1, RowChangeKeeps
  <2>2. ASSUME NEW w \in Worker, ClaimAndExecute(w, k)
        PROVE  RowInv(row'[k])
    <3>1. \A v \in Worker : RowInv(Claimed(row[k], v))
      BY <1>2, <1>3, <2>2, RowInvKept
    <3> QED BY <1>3, <2>2, <3>1
  <2> QED BY <1>1, <2>1, <2>2, NextRowStep
<1>5. (OwnedWhileRunning /\ AttemptBudget)'
  BY <1>4 DEF OwnedWhileRunning, AttemptBudget, RowInv
<1>6. SnapshotIsCurrent'
  <2> SUFFICES ASSUME NEW w \in Worker, NEW k \in Job,
                      worker'[w].job = k, row'[k].owner = w
               PROVE  worker'[w].attempt = row'[k].attempt
    BY DEF SnapshotIsCurrent
  <2>1. CASE \E v \in Worker : ClaimAndExecute(v, k)
    <3> PICK v \in Worker : ClaimAndExecute(v, k)
      BY <2>1
    <3>1. row'[k] = Claimed(row[k], v) /\ RowFacts(row[k])
      BY <1>2, <1>3, RowFields
    <3>2. row'[k].owner = v
      BY <3>1 DEF RowFacts
    <3> QED BY <1>3, <3>2
  <2>2. CASE RowChange(row[k], row'[k])
    <3>1. row'[k].attempt = row[k].attempt /\ row[k].owner = w
      BY <1>2, <2>2, RowChangeKeeps
    <3>2. CASE worker'[w].job = worker[w].job /\ worker'[w].attempt = worker[w].attempt
      BY <1>1, <3>1, <3>2 DEF SnapshotIsCurrent
    <3>3. CASE \E j \in Job : ClaimAndExecute(w, j) /\ worker'[w].job = j
      BY <1>3, <3>3
    <3> QED BY <1>1, <3>2, <3>3, NextCopies
  <2> QED BY <1>1, <2>1, <2>2, NextRowStep
<1> QED BY <1>1, <1>5, <1>6 DEF IInv

\* The inductive invariant holds.
THEOREM QueueInvariant == Spec => []IInv
<1>1. Init => IInv
  BY InitIInv
<1>2. IInv /\ [Next]_vars => IInv'
  BY NextIInv
<1> QED BY <1>1, <1>2, PTL DEF Spec

\* A worker that still owns the row of the job it executes holds a current copy,
\* so the decision of Store.Fail between retrying and failed is never made from
\* an old attempt number.
THEOREM CopiesAreCurrent == Spec => []SnapshotIsCurrent
<1>1. IInv => SnapshotIsCurrent
  BY DEF IInv
<1> QED BY <1>1, QueueInvariant, PTL

\* No job is attempted more often than max_attempts, and a job that waits for a
\* worker has an attempt left.
THEOREM AttemptsAreBounded == Spec => []AttemptBudget
<1>1. IInv => AttemptBudget
  BY DEF IInv
<1> QED BY <1>1, QueueInvariant, PTL

-------------------------------------------------------------------------------
\* Only Enqueue makes a row active.
LEMMA OnlyEnqueueActivates ==
    ASSUME IInv, [Next]_vars, NEW k \in Job,
           row[k].status \notin Active, row'[k].status \in Active
    PROVE  Enqueue(k)
<1> TypeOK /\ row[k] \in Row /\ row'[k] \in Row /\ row \in [Job -> Row]
  BY NextTypeOK DEF IInv, TypeOK
<1>1. RowFacts(row[k])
  BY RowFields
<1>2. ~\E w \in Worker : ClaimAndExecute(w, k)
  BY DEF ClaimAndExecute, Claim, Claimable
<1>3. RowChange(row[k], row'[k])
  BY <1>2, NextRowStep DEF IInv
<1>4. row'[k] = Queued(row[k]) /\ row[k].status = "absent"
  <2>1. row'[k] # row[k] /\ row[k].status # "running" /\ row[k].status \notin Active
    OBVIOUS
  <2>2. row'[k] # Due(row[k])
    BY <1>1 DEF RowFacts
  <2> QED BY ONLY <1>3, <2>1, <2>2 DEF RowChange
<1>5. row'[k].status = "queued" /\ row'[k] # row[k]
  BY <1>1, <1>4 DEF RowFacts
<1>6. CASE \E j \in Job : Enqueue(j)
  BY <1>5, <1>6 DEF Enqueue
<1>7. CASE Publish
  BY <1>6, <1>7 DEF Publish
<1>8. row'[k].status # "queued" \/ Publish
  <2>1. CASE CancelOne \/ ClearQueue \/ Reconcile \/ UNCHANGED vars
    BY <2>1, <1>4, <1>5 DEF CancelOne, ClearQueue, Reconcile, Cancel, CancelQueue,
                     ReconcileExpired, Expired, vars
  <2>2. CASE Clock
    BY <2>2, <1>4, <1>5 DEF Clock, BecomesDue, LeaseLapses
  <2>3. ASSUME NEW w \in Worker, WorkerStep(w)
        PROVE  row'[k] = row[k]
    BY <2>3, <1>2, <1>4, <1>5
       DEF WorkerStep, ClaimAndExecute, Claim, Claimable, Beat, Heartbeat, Alive, Holds,
           HandlerReturns, CheckCancellation, Settle, Fail, Complete,
           SettleCancellation, CompleteCancellation, Crash
  <2> QED BY <2>1, <2>2, <2>3, <1>5 DEF Next
<1> QED BY <1>5, <1>7, <1>8

\* The unique index: no two active jobs share queue and dedupe key.
LEMMA NextOneActive == IInv /\ OneActivePerKey /\ [Next]_vars => OneActivePerKey'
<1> SUFFICES ASSUME IInv, OneActivePerKey, [Next]_vars,
                    NEW j \in Job, NEW k \in Job, j # k, k \in SameWork(j),
                    row'[j].status \in Active, row'[k].status \in Active
             PROVE  FALSE
  BY DEF OneActivePerKey, SameWork
<1>1. j \in SameWork(k)
  BY DEF SameWork
<1>2. ASSUME NEW a \in Job, NEW b \in Job, a # b, b \in SameWork(a),
             row[a].status \notin Active,
             row'[a].status \in Active, row'[b].status \in Active
      PROVE  FALSE
  <2>1. Enqueue(a)
    BY <1>2, OnlyEnqueueActivates
  <2>2. row'[b] = row[b] /\ row[b].status \notin Active
    BY <1>2, <2>1 DEF Enqueue, Holders, IInv, TypeOK
  <2> QED BY <1>2, <2>2
<1>3. CASE row[j].status \in Active /\ row[k].status \in Active
  BY <1>3 DEF OneActivePerKey
<1> QED BY <1>1, <1>2, <1>3

\* Publishing the same work twice leaves one active job, whatever retries,
\* lapses, requeues and cancellations the first goes through.
THEOREM ActiveWorkIsUnique == Spec => []OneActivePerKey
<1>1. Init => OneActivePerKey
  BY DEF Init, StoreInit, Absent, OneActivePerKey
<1>2. IInv /\ OneActivePerKey /\ [Next]_vars => OneActivePerKey'
  BY NextOneActive
<1> QED BY <1>1, <1>2, QueueInvariant, PTL DEF Spec

-------------------------------------------------------------------------------
\* A row is never deleted, and no attempt is ever taken back.
LEMMA RowsStay ==
    ASSUME IInv, [Next]_vars, NEW j \in Job
    PROVE  /\ row'[j].attempt >= row[j].attempt
           /\ row[j].status # "absent" => row'[j].status # "absent"
           /\ row[j].status = "completed" => row'[j].status = "completed"
<1>1. row[j] \in Row /\ row'[j] \in Row /\ RowInv(row[j]) /\ RowFacts(row[j])
  BY NextTypeOK, RowInvOfRows, RowFields DEF IInv, TypeOK
<1>2. row[j].attempt \in Nat
  BY <1>1 DEF Row
<1>3. CASE RowChange(row[j], row'[j])
  <2>1. row'[j].attempt = row[j].attempt
    BY <1>1, <1>3, RowChangeKeeps
  <2>2. /\ Leased(row[j], TRUE).status = row[j].status
        /\ Leased(row[j], FALSE).status = row[j].status
        /\ Reconciled(row[j]).status \in {"cancelled", "failed", "retrying"}
        /\ Completed(row[j], row[j].attempt).status = "completed"
        /\ Failed(row[j], row[j].attempt).status \in {"failed", "retrying"}
        /\ Released(row[j], "cancelled").status = "cancelled"
    <3>1. "cancelled" \in Active \cup Terminal
      BY DEF Terminal
    <3>2. Outcome(row[j]) \in {"cancelled", "failed", "retrying"}
      BY DEF Outcome
    <3>3. Released(row[j], "cancelled").status = "cancelled"
      BY <1>1, <3>1, Zenon DEF RowFacts
    <3>4. /\ Completed(row[j], row[j].attempt).status = "completed"
          /\ Failed(row[j], row[j].attempt).status \in {"failed", "retrying"}
      BY <1>1, <1>2 DEF RowFacts
    <3>5. /\ Leased(row[j], TRUE).status = row[j].status
          /\ Leased(row[j], FALSE).status = row[j].status
          /\ Reconciled(row[j]).status = Outcome(row[j])
      BY <1>1, Zenon DEF RowFacts
    <3> QED BY <3>2, <3>3, <3>4, <3>5
  <2>3. /\ row[j].status # "absent" => row'[j].status # "absent"
        /\ row[j].status = "completed" => row'[j].status = "completed"
    <3>1. CASE row[j].status = "running"
      <4>1. Withdrawn(row[j]).status = "running" /\ Due(row[j]).status = "running"
        BY <1>1, <3>1 DEF RowFacts, Waiting
      <4> QED BY <1>3, <2>2, <3>1, <4>1 DEF RowChange
    <3>2. CASE row[j].status # "running"
      <4>1. /\ Due(row[j]).status = row[j].status /\ Queued(row[j]).status = "queued"
            /\ Withdrawn(row[j]).status \in {"cancelled", row[j].status}
        BY <1>1 DEF RowFacts
      <4> QED BY <1>3, <3>2, <4>1 DEF RowChange, Active, Waiting
    <3> QED BY <3>1, <3>2
  <2> QED BY <1>2, <2>1, <2>3
<1>4. ASSUME NEW w \in Worker, ClaimAndExecute(w, j) PROVE
           /\ row'[j].attempt = row[j].attempt + 1 /\ row'[j].status = "running"
           /\ row[j].status \in Waiting
  BY <1>1, <1>4 DEF ClaimAndExecute, Claim, Claimable, RowFacts, IInv, TypeOK
<1>5. CASE \E w \in Worker : ClaimAndExecute(w, j)
  BY <1>2, <1>4, <1>5 DEF Waiting
<1> QED BY <1>3, <1>5, NextRowStep DEF IInv

\* A job was attempted only after all its parents had completed, which is for good; so a
\* child of a parent that failed, was cancelled or is parked was never attempted
\* (store.go, Claim, NOT EXISTS on go_job_dependencies).
ParentsFirst ==
    \A j \in Job : row[j].attempt > 0 => \A p \in ParentsOf[j] : row[p].status = "completed"

THEOREM ParentsComeFirst == Spec => []ParentsFirst
<1>1. Init => ParentsFirst
  BY DEF Init, StoreInit, Absent, ParentsFirst
<1>2. IInv /\ ParentsFirst /\ [Next]_vars => ParentsFirst'
  <2> SUFFICES ASSUME IInv, ParentsFirst, [Next]_vars,
                      NEW j \in Job, row'[j].attempt > 0, NEW p \in ParentsOf[j]
               PROVE  row'[p].status = "completed"
    BY DEF ParentsFirst
  <2>1. p \in Job
    BY ParentsAreJobs
  <2>2. row[p].status = "completed"
    <3>1. CASE \E w \in Worker : ClaimAndExecute(w, j)
      BY <3>1 DEF ClaimAndExecute, Claim, Claimable
    <3>2. CASE RowChange(row[j], row'[j])
      <4>1. row[j] \in Row /\ row'[j] \in Row /\ RowInv(row[j])
        BY NextTypeOK, RowInvOfRows DEF IInv, TypeOK
      <4>2. row'[j].attempt = row[j].attempt
        BY <3>2, <4>1, RowChangeKeeps
      <4> QED BY <4>2 DEF ParentsFirst
    <3> QED BY <3>1, <3>2, NextRowStep DEF IInv
  <2> QED BY <2>1, <2>2, RowsStay
<1> QED BY <1>1, <1>2, QueueInvariant, PTL DEF Spec

\* What the cancellation between two statements costs: a parked job is neither claimed nor
\* reconciled, only an operator's cancellation ends it, and till then no job of its key
\* can be published (store.go, Claim, ReconcileExpired, Enqueue).
ParkedBlocks ==
    [][\A j \in Job : Parked(j) =>
          /\ Parked(j)' \/ (row'[j].status = "cancelled" /\ (CancelOne \/ ClearQueue))
          /\ \A k \in SameWork(j) : row[k].status = "absent" => row'[k].status = "absent"]_vars

THEOREM ParkedJobsBlock == Spec => ParkedBlocks
<1> DEFINE Blocks(j) ==
      /\ Parked(j)' \/ (row'[j].status = "cancelled" /\ (CancelOne \/ ClearQueue))
      /\ \A k \in SameWork(j) : row[k].status = "absent" => row'[k].status = "absent"
<1>1. ASSUME IInv, [Next]_vars, NEW j \in Job, Parked(j) PROVE Blocks(j)
  <2>1. row[j] \in Row /\ RowFacts(row[j]) /\ row \in [Job -> Row]
    BY <1>1, RowFields DEF IInv, TypeOK
  <2>2. row[j].status = "retrying" /\ row[j].cancel
    BY <1>1 DEF Parked
  <2>3. RowChange(row[j], row'[j])
    <3>1. ~\E w \in Worker : ClaimAndExecute(w, j)
      BY <2>2 DEF ClaimAndExecute, Claim, Claimable
    <3> QED BY <1>1, <3>1, NextRowStep DEF IInv
  <2>4. ASSUME row'[j] = row[j] \/ row'[j] = Due(row[j]) PROVE Parked(j)'
    <3>1. row'[j].status = "retrying" /\ row'[j].cancel
      BY <2>1, <2>2, <2>4 DEF RowFacts, Same
    <3> QED BY <3>1 DEF Parked
  <2>5. ASSUME row'[j] = Withdrawn(row[j]), row'[j] # row[j], row'[j] # Due(row[j])
        PROVE  row'[j].status = "cancelled" /\ (CancelOne \/ ClearQueue)
    <3>1. row'[j].status = "cancelled"
      BY <2>1, <2>2, <2>5 DEF RowFacts, Waiting
    <3>2. ~Publish /\ ~Reconcile /\ ~Clock /\ ~UNCHANGED vars
      BY <2>1, <2>2, <2>5 DEF Publish, Enqueue, Reconcile, ReconcileExpired, Expired, Clock,
                              BecomesDue, LeaseLapses, vars
    <3>3. ASSUME NEW w \in Worker, WorkerStep(w) PROVE row'[j] = row[j]
      BY <2>1, <2>2, <3>3
         DEF WorkerStep, ClaimAndExecute, Claim, Claimable, Beat, Heartbeat, Alive, Holds,
             HandlerReturns, CheckCancellation, Settle, Fail, Complete,
             SettleCancellation, CompleteCancellation, Crash
    <3> QED BY <1>1, <2>5, <3>1, <3>2, <3>3 DEF Next
  <2>6. Parked(j)' \/ (row'[j].status = "cancelled" /\ (CancelOne \/ ClearQueue))
    BY <2>2, <2>3, <2>4, <2>5 DEF RowChange
  <2>7. ASSUME NEW k \in SameWork(j), row[k].status = "absent" PROVE row'[k].status = "absent"
    <3>1. k \in Job /\ j \in SameWork(k) /\ row[j].status \in Active
      BY <2>2 DEF SameWork, Active, Waiting
    <3>2. ~Enqueue(k)
      BY <3>1 DEF Enqueue, Holders
    <3>3. row'[k].status \notin Active
      BY <1>1, <2>7, <3>1, <3>2, OnlyEnqueueActivates DEF Active, Waiting
    <3>4. RowChange(row[k], row'[k])
      <4>1. ~\E w \in Worker : ClaimAndExecute(w, k)
        BY <2>7 DEF ClaimAndExecute, Claim, Claimable, Waiting
      <4> QED BY <1>1, <3>1, <4>1, NextRowStep DEF IInv
    <3>5. row[k] \in Row /\ RowFacts(row[k])
      BY <2>1, <3>1, RowFields
    <3> QED BY <2>7, <3>3, <3>4, <3>5 DEF RowChange, RowFacts, Active, Waiting
  <2> QED BY <2>6, <2>7
<1>2. IInv /\ [Next]_vars => [\A j \in Job : Parked(j) => Blocks(j)]_vars
  BY <1>1
<1> QED BY <1>2, QueueInvariant, PTL DEF Spec, ParkedBlocks

-------------------------------------------------------------------------------
\* The phase of every status.
LEMMA Phases ==
    /\ Phase("absent") = "absent" /\ Phase("queued") = "waiting"
    /\ Phase("retrying") = "waiting" /\ Phase("running") = "inflight"
    /\ Phase("completed") = "completed" /\ Phase("failed") = "failed"
    /\ Phase("cancelled") = "withdrawn"
  BY DEF Phase

\* Every change of a row that is not a claim is a step of the contract.
LEMMA RowChangeKeepsPromise ==
    ASSUME NEW r \in Row, NEW s \in Row, RowInv(r), RowChange(r, s)
    PROVE  Contract!JobStep(Promise(r), Promise(s))
<1> r.attempt \in Nat /\ r.cancel \in BOOLEAN
  BY DEF Row
<1>0. RowFacts(r)
  BY RowFields
<1>1. CASE s = r \/ s = Due(r) \/ s = Leased(r, TRUE) \/ s = Leased(r, FALSE)
  <2>1. Same(s, r) /\ s.status = r.status
    BY <1>0, <1>1 DEF RowFacts, Same
  <2>2. Promise(s) = Promise(r)
    BY <2>1 DEF Promise, Same
  <2> QED BY <2>2 DEF Contract!JobStep
<1>2. CASE r.status = "absent" /\ s = Queued(r)
  <2>1. Same(s, r) /\ s.status = "queued"
    BY <1>0, <1>2 DEF RowFacts
  <2>2. Promise(s) = [Promise(r) EXCEPT !.phase = "waiting"] /\ Promise(r).phase = "absent"
    BY <1>2, <2>1, Phases DEF Promise, Same
  <2> QED BY <2>2 DEF Contract!JobStep, Contract!Submit
<1>3. ASSUME r.status = "running"
      PROVE  /\ Promise(r).phase = "inflight" /\ Promise(r).tries = r.attempt
             /\ Promise(r).asked = r.cancel
  BY <1>3, Phases DEF Promise
<1>4. CASE r.status = "running" /\ s = Completed(r, r.attempt)
  <2>1. /\ s.status = "completed" /\ s.attempt = r.attempt /\ s.cancel = r.cancel
        /\ s.result = r.attempt
    BY <1>0, <1>4 DEF RowFacts, Freed
  <2>2. Promise(s) = [phase |-> "completed", tries |-> r.attempt,
                      asked |-> r.cancel, answer |-> r.attempt]
    BY <2>1, Phases DEF Promise
  <2> QED BY <1>3, <1>4, <2>2 DEF Contract!JobStep, Contract!Finish
<1>5. ASSUME r.status = "running", s.attempt = r.attempt, s.cancel = r.cancel,
             s.result = r.result,
             \/ s.status = "retrying" /\ r.attempt < MaxAttempts
             \/ s.status = "failed" /\ r.attempt = MaxAttempts
             \/ s.status = "cancelled" /\ r.cancel
      PROVE  Contract!JobStep(Promise(r), Promise(s))
  <2>1. Promise(s) = [Promise(r) EXCEPT !.phase = Phase(s.status)]
    BY <1>5 DEF Promise
  <2>2. CASE s.status = "retrying" /\ r.attempt < MaxAttempts
    BY <1>3, <1>5, <2>1, <2>2, Phases DEF Contract!JobStep, Contract!Requeue
  <2>3. CASE s.status = "failed" /\ r.attempt = MaxAttempts
    BY <1>3, <1>5, <2>1, <2>3, Phases DEF Contract!JobStep, Contract!GiveUp
  <2>4. CASE s.status = "cancelled" /\ r.cancel
    BY <1>3, <1>5, <2>1, <2>4, Phases DEF Contract!JobStep, Contract!Withdraw
  <2> QED BY <1>5, <2>2, <2>3, <2>4
<1>6. CASE r.status = "running" /\ s \in {Failed(r, r.attempt), Reconciled(r)}
  <2>1. s.attempt = r.attempt /\ s.cancel = r.cancel /\ s.result = r.result
    BY <1>0, <1>6 DEF RowFacts, Freed
  <2>2. r.attempt <= MaxAttempts
    BY DEF RowInv
  <2>3. \/ s.status = "retrying" /\ r.attempt < MaxAttempts
        \/ s.status = "failed" /\ r.attempt = MaxAttempts
        \/ s.status = "cancelled" /\ r.cancel
    BY <1>0, <1>6, <2>2 DEF RowFacts, Outcome
  <2> QED BY <1>5, <1>6, <2>1, <2>3
<1>7. CASE r.status = "running" /\ r.cancel /\ s = Released(r, "cancelled")
  <2>1. s.attempt = r.attempt /\ s.cancel = r.cancel /\ s.result = r.result
        /\ s.status = "cancelled"
    BY <1>0, <1>7 DEF RowFacts, Freed
  <2> QED BY <1>5, <1>7, <2>1
<1>8. CASE r.status \in Active /\ s = Withdrawn(r)
  <2>1. /\ s.attempt = r.attempt /\ s.cancel = TRUE /\ s.result = r.result
        /\ s.status = IF r.status \in Waiting THEN "cancelled" ELSE r.status
    BY <1>0, <1>8 DEF RowFacts
  <2>2. Promise(s) = [phase |-> Phase(s.status), tries |-> Promise(r).tries,
                      asked |-> TRUE, answer |-> Promise(r).answer]
    BY <2>1 DEF Promise
  <2>3. CASE r.status \in Waiting
    <3>1. Promise(r).phase = "waiting" /\ Phase(s.status) = "withdrawn"
      BY <2>1, <2>3, Phases DEF Promise
    <3> QED BY <2>2, <3>1 DEF Contract!JobStep, Contract!Ask
  <2>4. CASE r.status = "running"
    <3>1. Promise(r).phase = "inflight" /\ Phase(s.status) = "inflight"
      BY <2>1, <2>4, Phases DEF Promise
    <3> QED BY <2>2, <3>1 DEF Contract!JobStep, Contract!Ask
  <2> QED BY <1>8, <2>3, <2>4
<1> QED BY <1>1, <1>2, <1>4, <1>6, <1>7, <1>8 DEF RowChange

\* A claim starts an attempt the contract allows.
LEMMA ClaimKeepsPromise ==
    ASSUME NEW r \in Row, RowInv(r), r.status \in Waiting, ~r.cancel, NEW w \in Worker
    PROVE  Contract!JobStep(Promise(r), Promise(Claimed(r, w)))
<1> DEFINE s == Claimed(r, w)
<1>1. r.attempt \in Nat /\ r.attempt < MaxAttempts
  BY DEF Row, RowInv
<1>2. RowFacts(r)
  BY RowFields
<1>3. /\ s.status = "running" /\ s.attempt = r.attempt + 1
      /\ s.cancel = r.cancel /\ s.result = r.result
  BY <1>2 DEF RowFacts
<1> HIDE DEF s
<1>4. Promise(s) = [phase |-> "inflight", tries |-> Promise(r).tries + 1,
                    asked |-> Promise(r).asked, answer |-> Promise(r).answer]
  BY <1>3, Phases DEF Promise
<1>5. /\ Promise(r).phase = "waiting" /\ Promise(r).tries = r.attempt
      /\ ~Promise(r).asked
  BY Phases DEF Promise
<1>6. Contract!Start(Promise(r), Promise(s))
  BY <1>1, <1>4, <1>5 DEF Contract!Start
<1>7. Contract!JobStep(Promise(r), Promise(s))
  BY <1>6 DEF Contract!JobStep
<1> QED BY <1>7 DEF s

\* The queue with its workers, leases, crashes and scheduler implements the
\* contract of JobContract: every step is a step of the contract or a stutter.
THEOREM QueueImplementsContract == Spec => ImplementsContract
<1>1. Init => Contract!Init
  BY DEF Init, StoreInit, Absent, Contract!Init, Contract!New, Promise, Phase
<1>2. IInv /\ [Next]_vars => [Contract!Next]_[j \in Job |-> Promise(row[j])]
  <2> SUFFICES ASSUME IInv, [Next]_vars
               PROVE  Contract!Next
    OBVIOUS
  <2> TypeOK /\ TypeOK' /\ SnapshotIsCurrent
    BY NextTypeOK DEF IInv
  <2>1. ASSUME NEW k \in Job
        PROVE  Contract!JobStep(Promise(row[k]), Promise(row'[k]))
    <3>1. row[k] \in Row /\ row'[k] \in Row /\ RowInv(row[k])
      BY RowInvOfRows DEF IInv, TypeOK
    <3>2. CASE RowChange(row[k], row'[k])
      BY <3>1, <3>2, RowChangeKeepsPromise
    <3>3. CASE \E w \in Worker : ClaimAndExecute(w, k)
      <4> PICK w \in Worker : ClaimAndExecute(w, k)
        BY <3>3
      <4>1. row[k].status \in Waiting /\ ~row[k].cancel /\ row'[k] = Claimed(row[k], w)
        BY DEF ClaimAndExecute, Claim, Claimable, TypeOK
      <4> QED BY <3>1, <4>1, ClaimKeepsPromise
    <3> QED BY <3>2, <3>3, NextRowStep
  <2> QED BY <2>1 DEF Contract!Next
<1> QED BY <1>1, <1>2, QueueInvariant, PTL DEF Spec, ImplementsContract, Contract!Spec

\* The queue ends here; below, its sets of statuses are expanded where it matters.
HIDE DEF Waiting, Active, Terminal

-------------------------------------------------------------------------------
USE JobsExtractNews, BoundsAreNumbers

\* The records a step may write.
ProcRow   == [status : NewsStatus, fresh : BOOLEAN]
OutboxRow == [status : OutboxStatus, due : BOOLEAN, attempts : Nat]
Task      == {"none", "live", "completed", "failed", "cancelled"}
ClaimRec  == [pc : {"idle", "record", "enqueue", "mark", "fail"},
              news : News \cup {NoNews}, attempt : Nat]
PlanRec   == [to : {"nothing", "complete", "stage"}, proc : NewsStatus, outbox : OutboxStatus]
RetryRec  == [pc : {"idle", "outbox", "enqueue", "failed", "queued", "dispatched"},
              news : News \cup {NoNews}]

\* Mark, Track and the counters keep the types, whatever item or job they are for.
LEMMA HelpersKeepTypes ==
    ASSUME NewsTypeOK
    PROVE  /\ \A n : \A s \in NewsStatus : Mark(n, s) => proc' \in [News -> ProcRow]
           /\ \A j : \A s \in Task : Track(j, s) => tracked' \in [Job -> Task]
           /\ Upset \/ Request \/ Calm
                => upsets' \in 0 .. MaxUpsets /\ requests' \in 0 .. MaxRequests
<1>1. ASSUME NEW n, NEW s \in NewsStatus, Mark(n, s)
      PROVE  proc' \in [News -> ProcRow]
  BY <1>1 DEF NewsTypeOK, Mark, ProcRow
<1>2. ASSUME NEW j, NEW s \in Task, Track(j, s)
      PROVE  tracked' \in [Job -> Task]
  BY <1>2 DEF NewsTypeOK, Track, Task
<1>3. Upset \/ Request \/ Calm
        => upsets' \in 0 .. MaxUpsets /\ requests' \in 0 .. MaxRequests
  BY DEF NewsTypeOK, Upset, Request, Calm, bounds
<1> QED BY <1>1, <1>2, <1>3

\* The initial state has the types.
LEMMA NewsInitTypeOK == NewsInit => NewsTypeOK
  BY DEF NewsInit, NewsTypeOK, NewsStatus, ActiveNews, OutboxStatus, NoClaim, NoPlan, NoRetry

\* The variables of the pipeline by themselves.
StoresOK == /\ event \in [News -> BOOLEAN] /\ followed \in [News -> BOOLEAN]
            /\ proc \in [News -> ProcRow] /\ outbox \in [News -> OutboxRow]
            /\ tracked \in [Job -> Task]
StepOK   == step \in [Worker -> {"check", "start", "ingest", "follow", "finish", "ok", "error"}]
HandOK   == hand \in [Dispatcher -> ClaimRec]
PlanOK   == plan \in [News -> PlanRec]
RetryOK  == retry \in RetryRec
ClearOK  == clearing \in {"no", "rows"}
BoundOK  == upsets \in 0 .. MaxUpsets /\ requests \in 0 .. MaxRequests

PartsOK  == StoresOK /\ StepOK /\ HandOK /\ PlanOK /\ RetryOK /\ ClearOK /\ BoundOK

\* Together they are the type invariant, before a step and after it.
LEMMA NewsTypeParts == (NewsTypeOK <=> PartsOK) /\ (NewsTypeOK' <=> PartsOK')
  BY DEF PartsOK, NewsTypeOK, StoresOK, StepOK, HandOK, PlanOK, RetryOK, ClearOK, BoundOK,
         ProcRow, OutboxRow, Task, ClaimRec, PlanRec, RetryRec

\* A scan and the dispatchers keep the types.
LEMMA DispatchKeepsTypes ==
    ASSUME NewsTypeOK,
           \/ \E n \in News : Stage(n) \/ DispatchStep(n)
           \/ \E d \in Dispatcher : CarryOn(d) \/ DispatcherDies(d)
    PROVE  NewsTypeOK'
<1> SUFFICES PartsOK'
  BY NewsTypeParts
<1> StoresOK /\ StepOK /\ HandOK /\ PlanOK /\ RetryOK /\ ClearOK /\ BoundOK
  BY NewsTypeParts DEF PartsOK
<1>b. Upset \/ Request \/ Calm => BoundOK'
  BY HelpersKeepTypes DEF BoundOK
<1>m. \A m : \A s \in NewsStatus : Mark(m, s) => proc' \in [News -> ProcRow]
  BY HelpersKeepTypes
<1>t. \A j : \A s \in Task : Track(j, s) => tracked' \in [Job -> Task]
  BY HelpersKeepTypes
<1>c. NoClaim \in ClaimRec
  BY DEF NoClaim, ClaimRec
<1>s. {"dispatch_pending", "queued", "dispatch_failed"} \subseteq NewsStatus
  BY DEF NewsStatus, ActiveNews
<1> USE DEF PartsOK, StoresOK, StepOK, HandOK, PlanOK, RetryOK, ClearOK
<1>1. ASSUME NEW n \in News, Stage(n) PROVE PartsOK'
  <2>1. outbox' \in [News -> OutboxRow]
    BY ONLY <1>1, StoresOK DEF StoresOK, Stage, Intent, OutboxRow, OutboxStatus
  <2>2. proc' \in [News -> ProcRow]
    BY <1>1, <1>m, <1>s DEF Stage
  <2> QED BY <1>1, <1>b, <2>1, <2>2 DEF Stage
<1>2. ASSUME NEW n \in News, NEW d \in Dispatcher, ClaimDispatch(d, n) PROVE PartsOK'
  <2>1. outbox[n].attempts \in Nat
    BY DEF OutboxRow
  <2>2. outbox' \in [News -> OutboxRow]
    BY <1>2, <2>1 DEF ClaimDispatch, OutboxRow, OutboxStatus
  <2>3. hand' \in [Dispatcher -> ClaimRec]
    BY <1>2, <2>1 DEF ClaimDispatch, ClaimRec
  <2> QED BY <1>2, <1>b, <2>2, <2>3 DEF ClaimDispatch
<1>3. ASSUME NEW n \in News, IntentFallsDue(n) PROVE PartsOK'
  <2>1. outbox[n] \in OutboxRow /\ outbox' = [outbox EXCEPT ![n].due = TRUE]
    BY <1>3 DEF IntentFallsDue
  <2>2. [outbox[n] EXCEPT !.due = TRUE] \in OutboxRow
    BY <2>1 DEF OutboxRow
  <2>3. outbox' \in [News -> OutboxRow]
    BY <2>1, <2>2
  <2> QED BY <1>3, <1>b, <2>3 DEF IntentFallsDue
<1>4. ASSUME NEW d \in Dispatcher, RecordTask(d) PROVE PartsOK'
  <2>1. hand' \in [Dispatcher -> ClaimRec]
    BY <1>4 DEF RecordTask, Hold, ClaimRec
  <2>2. tracked' \in [Job -> Task]
    BY <1>4, <1>t DEF RecordTask, Task
  <2> QED BY <1>4, <1>b, <2>1, <2>2 DEF RecordTask
<1>5. ASSUME NEW d \in Dispatcher, EnqueueExtraction(d) PROVE PartsOK'
  <2>1. hand' \in [Dispatcher -> ClaimRec]
    BY <1>5 DEF EnqueueExtraction, Hold, ClaimRec
  <2>2. tracked' \in [Job -> Task]
    BY <1>5, <1>t DEF EnqueueExtraction, Task
  <2> QED BY <1>5, <1>b, <2>1, <2>2 DEF EnqueueExtraction
<1>6. ASSUME NEW d \in Dispatcher, MarkDispatched(d) PROVE PartsOK'
  <2>1. outbox' \in [News -> OutboxRow]
    <3> DEFINE m == hand[d].news
    <3>1. outbox' = [outbox EXCEPT ![m].status = "dispatched"]
      BY <1>6 DEF MarkDispatched
    <3>2. outbox \in [News -> OutboxRow]
      OBVIOUS
    <3> HIDE DEF m
    <3> QED BY ONLY <3>1, <3>2 DEF OutboxRow, OutboxStatus
  <2>2. proc' \in [News -> ProcRow]
    BY <1>6, <1>m, <1>s DEF MarkDispatched
  <2>3. hand' \in [Dispatcher -> ClaimRec]
    BY <1>6, <1>c DEF MarkDispatched
  <2>4. BoundOK' /\ UNCHANGED <<event, followed, tracked, step, plan, retry, clearing>>
    BY <1>6, <1>b DEF MarkDispatched
  <2> QED BY <2>1, <2>2, <2>3, <2>4
<1>7. ASSUME NEW d \in Dispatcher, MarkDispatchFailed(d) PROVE PartsOK'
  <2>1. outbox' \in [News -> OutboxRow]
    <3> DEFINE m == hand[d].news
    <3>1. outbox' = [outbox EXCEPT ![m].status = "failed", ![m].due = FALSE]
      BY <1>7 DEF MarkDispatchFailed
    <3>0. outbox \in [News -> OutboxRow]
      OBVIOUS
    <3> HIDE DEF m
    <3>2. CASE m \in News
      BY ONLY <3>0, <3>1, <3>2 DEF OutboxRow, OutboxStatus
    <3>3. CASE m \notin News
      BY ONLY <3>0, <3>1, <3>3
    <3> QED BY <3>2, <3>3
  <2>2. proc' \in [News -> ProcRow]
    BY <1>7, <1>m, <1>s DEF MarkDispatchFailed
  <2> QED BY <1>7, <2>1, <2>2, <1>b, <1>c DEF MarkDispatchFailed
<1>8. ASSUME NEW d \in Dispatcher, DispatcherDies(d) PROVE PartsOK'
  BY <1>8, <1>b, <1>c DEF DispatcherDies, stores
<1> QED BY <1>1, <1>2, <1>3, <1>4, <1>5, <1>6, <1>7, <1>8 DEF CarryOn, DispatchStep

\* The handler keeps the types.
LEMMA ProcessKeepsTypes ==
    ASSUME TypeOK, NewsTypeOK, NEW w \in Worker, ProcessNews(w)
    PROVE  NewsTypeOK'
<1> SUFFICES PartsOK'
  BY NewsTypeParts
<1> StoresOK /\ StepOK /\ HandOK /\ PlanOK /\ RetryOK /\ ClearOK /\ BoundOK
  BY NewsTypeParts DEF PartsOK
<1>b. Upset \/ Request \/ Calm => BoundOK'
  BY HelpersKeepTypes DEF BoundOK
<1>m. \A n : \A s \in NewsStatus : Mark(n, s) => proc' \in [News -> ProcRow]
  BY HelpersKeepTypes
<1>t. \A j : \A s \in Task : Track(j, s) => tracked' \in [Job -> Task]
  BY HelpersKeepTypes
<1>s. /\ {"cancelled", "running", "retrying", "extraction_failed", "completed"}
           \subseteq NewsStatus
      /\ {"live", "failed", "cancelled", "completed"} \subseteq Task
  BY DEF NewsStatus, ActiveNews, Task
<1>o. UNCHANGED <<outbox, hand, plan, retry, clearing>>
  BY DEF ProcessNews
<1>r. (BoundOK /\ StepOK /\ event \in [News -> BOOLEAN] /\ followed \in [News -> BOOLEAN]
         /\ proc \in [News -> ProcRow] /\ tracked \in [Job -> Task])' => PartsOK'
  BY <1>o DEF PartsOK, StoresOK, HandOK, PlanOK, RetryOK, ClearOK
<1>f. FailNews(w) => PartsOK'
  <2> SUFFICES ASSUME FailNews(w) PROVE PartsOK'
    OBVIOUS
  <2> DEFINE last == worker[w].attempt >= MaxAttempts
  <2>1. /\ Mark(Item(w), IF last THEN "extraction_failed" ELSE "retrying")
        /\ Track(worker[w].job, IF last THEN "failed" ELSE "live")
        /\ To(w, "error") /\ UNCHANGED <<event, followed>> /\ Upset
    BY DEF FailNews
  <2> HIDE DEF last
  <2>2. proc' \in [News -> ProcRow]
    BY <2>1, <1>m, <1>s
  <2>3. tracked' \in [Job -> Task]
    BY <2>1, <1>t, <1>s
  <2>4. StepOK'
    BY <2>1 DEF StepOK, To
  <2> QED BY <2>1, <2>2, <2>3, <2>4, <1>b, <1>r DEF StoresOK
<1> USE DEF StoresOK, StepOK, To
<1>1. CASE CheckTask(w)
  BY <1>1, <1>b, <1>m, <1>r, <1>s DEF CheckTask
<1>2. CASE StartNews(w)
  BY <1>2, <1>b, <1>m, <1>t, <1>r, <1>s, <1>f DEF StartNews
<1>3. CASE Ingest(w)
  BY <1>3, <1>b, <1>m, <1>t, <1>r, <1>s, <1>f DEF Ingest
<1>4. CASE FollowUp(w)
  BY <1>4, <1>b, <1>r DEF FollowUp
<1>5. CASE FinishNews(w)
  BY <1>5, <1>b, <1>m, <1>t, <1>r, <1>s, <1>f DEF FinishNews
<1> QED BY <1>1, <1>2, <1>3, <1>4, <1>5 DEF ProcessNews

\* The worker around it, the scheduler and the clocks keep the types.
LEMMA WorkKeepsTypes ==
    ASSUME NewsTypeOK,
           \/ \E w \in Worker : Work(w)
           \/ \E j \in Job : Lapse(j) \/ Wake(j)
           \/ ReconcileJobs
    PROVE  NewsTypeOK'
<1> SUFFICES PartsOK'
  BY NewsTypeParts
<1> StoresOK /\ StepOK /\ HandOK /\ PlanOK /\ RetryOK /\ ClearOK /\ BoundOK
  BY NewsTypeParts DEF PartsOK
<1>b. Upset \/ Request \/ Calm => BoundOK'
  BY HelpersKeepTypes DEF BoundOK
<1> USE DEF PartsOK, StoresOK, StepOK, HandOK, PlanOK, RetryOK, ClearOK
<1>1. ASSUME NEW w \in Worker, Work(w) PROVE PartsOK'
  <2>1. UNCHANGED <<stores, hand, plan, retry, clearing>>
    BY <1>1 DEF Work
  <2>2. BoundOK'
    BY <1>1, <1>b DEF Work, Execute, BeatOrLose, Return, LookForCancellation, SettleJob
  <2>3. UNCHANGED step \/ To(w, "check")
    BY <1>1 DEF Work, Execute, BeatOrLose, Return, LookForCancellation, SettleJob
  <2> QED BY <2>1, <2>2, <2>3 DEF stores, To
<1>2. ASSUME NEW j \in Job, Lapse(j) \/ Wake(j) PROVE PartsOK'
  BY <1>2, <1>b DEF Lapse, Wake, pipeline
<1>3. CASE ReconcileJobs
  BY <1>3, <1>b DEF ReconcileJobs, pipeline
<1> QED BY <1>1, <1>2, <1>3

\* So does the recovery.
LEMMA RecoveryKeepsTypes ==
    ASSUME NewsTypeOK, NEW n \in News,
           \/ RecoverReads(n) \/ RecoverWrites(n) \/ RecoverFollowups(n)
           \/ RecoveryDies(n) \/ MarkAges(n)
    PROVE  NewsTypeOK'
<1> SUFFICES PartsOK'
  BY NewsTypeParts
<1> StoresOK /\ StepOK /\ HandOK /\ PlanOK /\ RetryOK /\ ClearOK /\ BoundOK
  BY NewsTypeParts DEF PartsOK
<1>b. Upset \/ Request \/ Calm => BoundOK'
  BY HelpersKeepTypes DEF BoundOK
<1>m. \A m : \A s \in NewsStatus : Mark(m, s) => proc' \in [News -> ProcRow]
  BY HelpersKeepTypes
<1>p. NoPlan \in PlanRec
  BY DEF NoPlan, PlanRec, NewsStatus, ActiveNews, OutboxStatus
<1>s. {"dispatch_pending", "completed"} \subseteq NewsStatus
  BY DEF NewsStatus, ActiveNews
<1> USE DEF PartsOK, StoresOK, StepOK, HandOK, PlanOK, RetryOK, ClearOK
<1>1. CASE RecoverReads(n)
  <2>1. RecoveryOf(n) \in {"nothing", "complete", "stage"}
    BY DEF RecoveryOf
  <2>2. [to |-> RecoveryOf(n), proc |-> proc[n].status, outbox |-> outbox[n].status]
          \in PlanRec
    BY <2>1 DEF PlanRec, ProcRow, OutboxRow
  <2> QED BY <1>1, <1>b, <2>2 DEF RecoverReads, stores
<1>2. CASE RecoverWrites(n)
  <2>1. Flushed(proc[n].status, plan[n].proc, "dispatch_pending") \in NewsStatus
    BY <1>s DEF Flushed, ProcRow
  <2>2. proc' \in [News -> ProcRow]
    BY <1>2, <1>m, <1>s, <2>1 DEF RecoverWrites
  <2>3. Flushed(outbox[n].status, plan[n].outbox, "pending") \in OutboxStatus
    BY DEF Flushed, OutboxRow, OutboxStatus
  <2>4. outbox' \in [News -> OutboxRow]
    BY <1>2, <2>3 DEF RecoverWrites, OutboxRow
  <2> QED BY <1>2, <1>b, <1>p, <2>2, <2>4 DEF RecoverWrites
<1>3. CASE RecoverFollowups(n)
  BY <1>3, <1>b DEF RecoverFollowups
<1>4. CASE RecoveryDies(n)
  BY <1>4, <1>b, <1>p DEF RecoveryDies, stores
<1>5. CASE MarkAges(n)
  <2>1. proc' \in [News -> ProcRow]
    <3>1. proc' = [proc EXCEPT ![n].fresh = FALSE]
      BY <1>5 DEF MarkAges
    <3>2. proc \in [News -> ProcRow]
      OBVIOUS
    <3> QED BY ONLY <3>1, <3>2 DEF ProcRow
  <2>2. BoundOK' /\ StepOK' /\ HandOK' /\ PlanOK' /\ RetryOK' /\ ClearOK'
    BY <1>5, <1>b DEF MarkAges
  <2>3. UNCHANGED <<event, followed, outbox, tracked>>
    BY <1>5 DEF MarkAges
  <2> QED BY <2>1, <2>2, <2>3
<1> QED BY <1>1, <1>2, <1>3, <1>4, <1>5

\* And so do an operator's requests.
LEMMA RequestsKeepTypes ==
    ASSUME NewsTypeOK,
           \/ \E n \in News : RetryRequested(n)
           \/ RetryStep \/ RetryAborts \/ ClearTasks \/ ClearRows
    PROVE  NewsTypeOK'
<1> SUFFICES PartsOK'
  BY NewsTypeParts
<1> StoresOK /\ StepOK /\ HandOK /\ PlanOK /\ RetryOK /\ ClearOK /\ BoundOK
  BY NewsTypeParts DEF PartsOK
<1>b. Upset \/ Request \/ Calm => BoundOK'
  BY HelpersKeepTypes DEF BoundOK
<1>m. \A m : \A s \in NewsStatus : Mark(m, s) => proc' \in [News -> ProcRow]
  BY HelpersKeepTypes
<1>c. NoRetry \in RetryRec
  BY DEF NoRetry, RetryRec
<1>s. {"dispatch_pending", "queued"} \subseteq NewsStatus
  BY DEF NewsStatus, ActiveNews
<1> USE DEF PartsOK, StoresOK, StepOK, HandOK, PlanOK, RetryOK, ClearOK
<1>1. ASSUME NEW n \in News, RetryRequested(n) PROVE PartsOK'
  <2>1. [pc |-> "outbox", news |-> n] \in RetryRec
    BY DEF RetryRec
  <2> QED BY <1>1, <1>b, <1>m, <1>s, <2>1 DEF RetryRequested
<1>2. CASE RetryIntent
  <2>1. retry' \in RetryRec
    BY <1>2 DEF RetryIntent, RetryRec
  <2>2. outbox' \in [News -> OutboxRow]
    <3> DEFINE m == retry.news
    <3>1. outbox' = [outbox EXCEPT ![m].status = "pending", ![m].due = TRUE]
      BY <1>2 DEF RetryIntent, Intent
    <3> HIDE DEF m
    <3>2. CASE m \in News
      <4>1. outbox \in [News -> OutboxRow] /\ "pending" \in OutboxStatus
        BY DEF OutboxStatus
      <4> HIDE DEF PartsOK, StoresOK, StepOK, HandOK, PlanOK, RetryOK, ClearOK
      <4> QED BY <3>1, <3>2, <4>1 DEF OutboxRow
    <3>3. CASE m \notin News
      BY <3>1, <3>3
    <3> QED BY <3>2, <3>3
  <2> QED BY <1>2, <1>b, <2>1, <2>2 DEF RetryIntent
<1>3. CASE RetryEnqueue
  <2>1. retry' \in RetryRec
    BY <1>3 DEF RetryEnqueue, RetryRec
  <2>2. tracked' \in [Job -> Task]
    BY <1>3 DEF RetryEnqueue, Task
  <2> QED BY <1>3, <1>b, <2>1, <2>2 DEF RetryEnqueue
<1>4. CASE RetryFails
  <2> DEFINE m == retry.news
  <2>1. /\ outbox' = [outbox EXCEPT ![m].attempts = @ + 1, ![m].due = FALSE]
        /\ proc' = [proc EXCEPT ![m].status = "dispatch_pending"]
    BY <1>4 DEF RetryFails
  <2> HIDE DEF m
  <2>2. outbox' \in [News -> OutboxRow]
    <3>1. CASE m \in News
      <4>1. outbox[m] \in OutboxRow /\ outbox[m].attempts + 1 \in Nat
        BY <3>1 DEF OutboxRow
      <4> QED BY <2>1, <3>1, <4>1 DEF OutboxRow
    <3>2. CASE m \notin News
      BY <2>1, <3>2
    <3> QED BY <3>1, <3>2
  <2>3. proc' \in [News -> ProcRow]
    <3>1. CASE m \in News
      <4>1. [proc[m] EXCEPT !.status = "dispatch_pending"] \in ProcRow
        BY <1>s, <3>1 DEF ProcRow
      <4> QED BY <2>1, <3>1, <4>1
    <3>2. CASE m \notin News
      BY <2>1, <3>2
    <3> QED BY <3>1, <3>2
  <2> QED BY <1>4, <1>b, <1>c, <2>2, <2>3 DEF RetryFails
<1>5. CASE RetryQueued
  <2>1. retry' \in RetryRec
    BY <1>5 DEF RetryQueued, RetryRec
  <2> QED BY <1>5, <1>b, <1>m, <1>s, <2>1 DEF RetryQueued
<1>6. CASE RetryDispatched
  <2> DEFINE m == retry.news
  <2>1. outbox' = [outbox EXCEPT ![m].status = "dispatched", ![m].attempts = @ + 1]
    BY <1>6 DEF RetryDispatched
  <2> HIDE DEF m
  <2>2. outbox' \in [News -> OutboxRow]
    <3>1. CASE m \in News
      BY <2>1, <3>1 DEF OutboxRow, OutboxStatus
    <3>2. CASE m \notin News
      BY <2>1, <3>2
    <3> QED BY <3>1, <3>2
  <2> QED BY <1>6, <1>b, <1>c, <2>2 DEF RetryDispatched
<1>7. CASE RetryAborts
  BY <1>7, <1>b, <1>c DEF RetryAborts, stores
<1>8. CASE ClearTasks
  <2>1. tracked' \in [Job -> Task]
    BY <1>8 DEF ClearTasks, Task
  <2> QED BY <1>8, <1>b, <2>1 DEF ClearTasks
<1>9. CASE ClearRows
  BY <1>9, <1>b DEF ClearRows, stores
<1> QED BY <1>1, <1>2, <1>3, <1>4, <1>5, <1>6, <1>7, <1>8, <1>9 DEF RetryStep

\* Every step of the pipeline keeps its types.
LEMMA NewsNextTypeOK == TypeOK /\ NewsTypeOK /\ [NewsNext]_newsVars => NewsTypeOK'
<1> SUFFICES ASSUME TypeOK, NewsTypeOK, [NewsNext]_newsVars PROVE NewsTypeOK'
  OBVIOUS
<1>1. CASE UNCHANGED newsVars
  BY <1>1 DEF newsVars, pipeline, NewsTypeOK
<1>2. CASE \/ \E n \in News : Stage(n) \/ DispatchStep(n)
           \/ \E d \in Dispatcher : CarryOn(d) \/ DispatcherDies(d)
  BY <1>2, DispatchKeepsTypes
<1>3. CASE \E w \in Worker : ProcessNews(w)
  BY <1>3, ProcessKeepsTypes
<1>4. CASE \/ \E w \in Worker : Work(w)
           \/ \E j \in Job : Lapse(j) \/ Wake(j)
           \/ ReconcileJobs
  BY <1>4, WorkKeepsTypes
<1>5. CASE \E n \in News : \/ RecoverReads(n) \/ RecoverWrites(n) \/ RecoverFollowups(n)
                           \/ RecoveryDies(n) \/ MarkAges(n)
  BY <1>5, RecoveryKeepsTypes
<1>6. CASE \/ \E n \in News : RetryRequested(n)
           \/ RetryStep \/ RetryAborts \/ ClearTasks \/ ClearRows
  BY <1>6, RequestsKeepTypes
<1> QED BY <1>1, <1>2, <1>3, <1>4, <1>5, <1>6 DEF NewsNext

-------------------------------------------------------------------------------
(***************************************************************************)
(* The inductive invariant.  DispatchIdIsFresh speaks of the claims in     *)
(* hand; that it survives a claim needs that every claim, and every job    *)
(* under an id of an intent, has been counted in `attempts', which no step *)
(* decreases: staging and recovery renew an intent but keep its count.     *)
(***************************************************************************)
Unsent == {"record", "enqueue"}

\* A claim in hand has one of the attempts its intent has counted.
CountedClaims ==
    \A d \in Dispatcher : hand[d].pc # "idle"
        => /\ hand[d].news \in News
           /\ hand[d].attempt \in 1 .. outbox[hand[d].news].attempts
           /\ hand[d].attempt \in 1 .. Attempts(hand[d].news)

ClaimsDiffer ==
    \A d, e \in Dispatcher : d # e /\ hand[d].pc # "idle" /\ hand[e].pc # "idle"
        => hand[d].news # hand[e].news \/ hand[d].attempt # hand[e].attempt

\* An id with a job was counted, and nobody is still about to use it.
IdsUnspent ==
    \A n \in News : \A k \in 1 .. Attempts(n) : row[IdOf[n][k]].status # "absent"
        => /\ k <= outbox[n].attempts
           /\ \A d \in Dispatcher :
                 hand[d].pc \in Unsent /\ hand[d].news = n => hand[d].attempt # k

NewsInv == TypeOK /\ NewsTypeOK /\ CountedClaims /\ ClaimsDiffer /\ IdsUnspent

\* What every step but a claim does to the claims, the counts and the ids.
HandsMoveOn ==
    \A d \in Dispatcher :
        \/ hand'[d] = NoClaim
        \/ /\ hand'[d].news = hand[d].news /\ hand'[d].attempt = hand[d].attempt
           /\ hand[d].pc = "idle" => hand'[d].pc = "idle"
           /\ hand'[d].pc \in Unsent => hand[d].pc \in Unsent
AttemptsGrow == \A n \in News : outbox'[n].attempts >= outbox[n].attempts
IdsSpentByHands ==
    \A n \in News : \A k \in 1 .. Attempts(n) :
        row[IdOf[n][k]].status = "absent" /\ row'[IdOf[n][k]].status # "absent"
            => \E d \in Dispatcher : /\ hand[d].pc = "enqueue" /\ hand'[d].pc = "mark"
                                     /\ hand[d].news = n /\ hand[d].attempt = k

\* The ids of an intent are jobs of its item.
LEMMA IdsAreJobs ==
    \A n \in News : /\ Attempts(n) \in Nat
                    /\ \A k \in 1 .. Attempts(n) : /\ IdOf[n][k] \in Job
                                                   /\ NewsOf[IdOf[n][k]] = n
  BY IdsAreDistinct DEF Attempts

\* The invariant holds in the beginning.
LEMMA NewsInitInv == NewsInit => NewsInv
<1> SUFFICES ASSUME NewsInit PROVE NewsInv
  OBVIOUS
<1>1. TypeOK /\ NewsTypeOK
  BY InitTypeOK, NewsInitTypeOK DEF NewsInit
<1>2. CountedClaims /\ ClaimsDiffer
  BY DEF NewsInit, NoClaim, CountedClaims, ClaimsDiffer
<1>3. \A j \in Job : row[j].status = "absent"
  BY DEF NewsInit, Init, StoreInit, Absent
<1>4. IdsUnspent
  BY <1>3, IdsAreJobs DEF IdsUnspent
<1> QED BY <1>1, <1>2, <1>4 DEF NewsInv

\* It implies the property.
LEMMA NewsInvFresh == NewsInv => DispatchIdIsFresh
<1> SUFFICES ASSUME NewsInv PROVE DispatchIdIsFresh
  OBVIOUS
<1> USE DEF NewsInv, CountedClaims
<1>1. ASSUME NEW d \in Dispatcher, hand[d].pc \in {"record", "enqueue"}
      PROVE  row[Id(d)].status = "absent"
  BY <1>1 DEF IdsUnspent, Unsent, Id
<1>2. ASSUME NEW d \in Dispatcher, NEW e \in Dispatcher, d # e,
             hand[d].pc # "idle", hand[e].pc # "idle"
      PROVE  Id(d) # Id(e)
  <2>1. NewsOf[Id(d)] = hand[d].news /\ NewsOf[Id(e)] = hand[e].news
    BY <1>2, IdsAreJobs DEF Id
  <2>2. CASE hand[d].news # hand[e].news
    BY <2>1, <2>2
  <2>3. CASE hand[d].news = hand[e].news
    <3>1. hand[d].attempt # hand[e].attempt
      BY <1>2, <2>3 DEF ClaimsDiffer
    <3>2. /\ hand[d].attempt \in 1 .. Len(IdOf[hand[d].news])
          /\ hand[e].attempt \in 1 .. Len(IdOf[hand[d].news])
          /\ hand[d].news \in News
      BY <1>2, <2>3 DEF Attempts
    <3> QED BY ONLY <2>3, <3>1, <3>2, IdsAreDistinct DEF Id
  <2> QED BY <2>2, <2>3
<1> QED BY <1>1, <1>2 DEF DispatchIdIsFresh

\* A step that moves the claims on, and no more, keeps it.
LEMMA InvKept ==
    ASSUME NewsTypeOK, NewsTypeOK', CountedClaims, ClaimsDiffer, IdsUnspent,
           HandsMoveOn, AttemptsGrow, IdsSpentByHands
    PROVE  CountedClaims' /\ ClaimsDiffer' /\ IdsUnspent'
<1>t. /\ \A n \in News : outbox[n].attempts \in Nat /\ outbox'[n].attempts \in Nat
      /\ \A d \in Dispatcher : hand[d].attempt \in Nat /\ hand'[d].attempt \in Nat
  BY DEF NewsTypeOK
<1>n. NoClaim.pc = "idle"
  BY DEF NoClaim
<1>1. CountedClaims'
  BY <1>t, <1>n DEF CountedClaims, HandsMoveOn, AttemptsGrow, Attempts
<1>2. ClaimsDiffer'
  BY <1>n DEF ClaimsDiffer, HandsMoveOn
<1>3. IdsUnspent'
  <2> SUFFICES ASSUME NEW n \in News, NEW k \in 1 .. Attempts(n),
                      row'[IdOf[n][k]].status # "absent"
               PROVE  /\ k <= outbox'[n].attempts
                      /\ \A d \in Dispatcher :
                            hand'[d].pc \in Unsent /\ hand'[d].news = n
                              => hand'[d].attempt # k
    BY DEF IdsUnspent, Attempts
  <2>g. outbox'[n].attempts >= outbox[n].attempts /\ k \in Nat
    BY IdsAreJobs DEF AttemptsGrow
  <2>1. CASE row[IdOf[n][k]].status # "absent"
    <3>1. /\ k <= outbox[n].attempts
          /\ \A d \in Dispatcher :
                hand[d].pc \in Unsent /\ hand[d].news = n => hand[d].attempt # k
      BY <2>1 DEF IdsUnspent
    <3> QED BY <3>1, <2>g, <1>t, <1>n DEF HandsMoveOn, Unsent
  <2>2. CASE row[IdOf[n][k]].status = "absent"
    <3>1. PICK d \in Dispatcher : /\ hand[d].pc = "enqueue" /\ hand'[d].pc = "mark"
                                  /\ hand[d].news = n /\ hand[d].attempt = k
      BY <2>2 DEF IdsSpentByHands
    <3>2. k <= outbox[n].attempts
      BY <3>1, <1>t DEF CountedClaims
    <3>3. ASSUME NEW e \in Dispatcher, hand'[e].pc \in Unsent, hand'[e].news = n,
                 hand'[e].attempt = k
          PROVE  FALSE
      <4>1. e # d
        BY <3>1, <3>3 DEF Unsent
      <4>2. hand[e].pc \in Unsent /\ hand[e].news = n /\ hand[e].attempt = k
        BY <3>3, <1>n DEF HandsMoveOn, Unsent
      <4> QED BY <3>1, <4>1, <4>2 DEF ClaimsDiffer, Unsent
    <3> QED BY <3>2, <3>3, <2>g, <1>t
  <2> QED BY <2>1, <2>2
<1> QED BY <1>1, <1>2, <1>3

\* A claim counts the attempt it takes, and no id of that attempt has been used.
LEMMA ClaimKeepsInv ==
    ASSUME NewsInv, NEW n \in News, NEW d \in Dispatcher, ClaimDispatch(d, n)
    PROVE  CountedClaims' /\ ClaimsDiffer' /\ IdsUnspent'
<1> DEFINE k == outbox[n].attempts + 1
<1>t. /\ outbox[n].attempts \in Nat /\ Attempts(n) \in Nat
      /\ \A m \in News : outbox[m].attempts \in Nat
      /\ \A e \in Dispatcher : hand[e].attempt \in Nat
  BY IdsAreJobs DEF NewsInv, NewsTypeOK
<1>1. k \in 1 .. Attempts(n)
  BY <1>t DEF ClaimDispatch
<1>2. /\ outbox'[n].attempts = k
      /\ \A m \in News : m # n => outbox'[m] = outbox[m]
  BY DEF ClaimDispatch, NewsInv, NewsTypeOK
<1>3. /\ hand'[d] = [pc |-> "record", news |-> n, attempt |-> k]
      /\ \A e \in Dispatcher : e # d => hand'[e] = hand[e]
  BY DEF ClaimDispatch, NewsInv, NewsTypeOK
<1>4. row' = row /\ hand[d].pc = "idle"
  BY DEF ClaimDispatch, vars
<1>5. CountedClaims /\ ClaimsDiffer /\ IdsUnspent
  BY DEF NewsInv
<1>6. \A e \in Dispatcher : hand[e].pc # "idle" /\ hand[e].news = n => hand[e].attempt < k
  BY <1>t, <1>5 DEF CountedClaims
<1> HIDE DEF k
<1>7. CountedClaims'
  <2> SUFFICES ASSUME NEW e \in Dispatcher, hand'[e].pc # "idle"
               PROVE  /\ hand'[e].news \in News
                      /\ hand'[e].attempt \in 1 .. outbox'[hand'[e].news].attempts
                      /\ hand'[e].attempt \in 1 .. Attempts(hand'[e].news)
    BY DEF CountedClaims, Attempts
  <2>1. CASE e = d
    BY <2>1, <1>1, <1>2, <1>3, <1>t
  <2>2. CASE e # d
    <3>1. /\ hand[e].news \in News
          /\ hand[e].attempt \in 1 .. outbox[hand[e].news].attempts
          /\ hand[e].attempt \in 1 .. Attempts(hand[e].news)
      BY <2>2, <1>3, <1>5 DEF CountedClaims
    <3>2. hand[e].attempt \in 1 .. outbox'[hand[e].news].attempts
      BY <3>1, <1>2, <1>t DEF k
    <3> QED BY <2>2, <3>1, <3>2, <1>3
  <2> QED BY <2>1, <2>2
<1>8. ClaimsDiffer'
  <2>1. \A e \in Dispatcher : hand[e].pc # "idle" /\ hand[e].news = n => hand[e].attempt # k
    BY <1>6, <1>t DEF k
  <2> QED BY <2>1, <1>3, <1>5 DEF ClaimsDiffer
<1>9. IdsUnspent'
  <2> SUFFICES ASSUME NEW m \in News, NEW i \in 1 .. Attempts(m),
                      row[IdOf[m][i]].status # "absent"
               PROVE  /\ i <= outbox'[m].attempts
                      /\ \A e \in Dispatcher :
                            hand'[e].pc \in Unsent /\ hand'[e].news = m
                              => hand'[e].attempt # i
    BY <1>4 DEF IdsUnspent, Attempts
  <2>1. /\ i <= outbox[m].attempts
        /\ \A e \in Dispatcher :
              hand[e].pc \in Unsent /\ hand[e].news = m => hand[e].attempt # i
    BY <1>5 DEF IdsUnspent
  <2>2. i \in Nat
    BY IdsAreJobs
  <2>3. i <= outbox'[m].attempts
    BY <2>1, <2>2, <1>2, <1>t DEF k
  <2>4. m = n => i # k
    BY <2>1, <2>2, <1>t DEF k
  <2> QED BY <2>1, <2>3, <2>4, <1>3
<1> QED BY <1>7, <1>8, <1>9

\* Neither the workers nor the scheduler, the clocks or a cancellation fill a row.
LEMMA AbsentKept ==
    ASSUME TypeOK,
           \/ CancelOne \/ ClearQueue \/ Reconcile \/ Clock \/ UNCHANGED vars
           \/ \E w \in Worker : WorkerStep(w),
           NEW k \in Job, row[k].status = "absent"
    PROVE  row'[k].status = "absent"
<1> row \in [Job -> Row]
  BY DEF TypeOK
<1> USE DEF Waiting, Active
<1>1. CASE CancelOne \/ ClearQueue
  BY <1>1 DEF CancelOne, Cancel, ClearQueue, CancelQueue
<1>2. CASE Reconcile
  <2>1. ~Expired(row[k])
    BY DEF Expired
  <2> QED BY <1>2, <2>1 DEF Reconcile, ReconcileExpired
<1>3. CASE Clock
  <2> PICK j \in Job : BecomesDue(j) \/ LeaseLapses(j)
    BY <1>3 DEF Clock
  <2>1. j # k
    BY DEF BecomesDue, LeaseLapses
  <2> QED BY <2>1 DEF BecomesDue, LeaseLapses
<1>4. CASE UNCHANGED vars
  BY <1>4 DEF vars
<1>5. ASSUME NEW w \in Worker, WorkerStep(w) PROVE row'[k] = row[k]
  <2>1. CASE \E j \in Job : ClaimAndExecute(w, j)
    <3> PICK j \in Job : Claim(w, j)
      BY <2>1 DEF ClaimAndExecute
    <3>1. j # k
      BY DEF Claim, Claimable
    <3> QED BY <3>1 DEF Claim
  <2>2. CASE Beat(w)
    <3> DEFINE j == worker[w].job
    <3>1. Heartbeat(w, j) \/ UNCHANGED row
      BY <2>2 DEF Beat
    <3>2. Alive(w, j) => j # k
      BY DEF Alive, Holds
    <3> HIDE DEF j
    <3>3. CASE Alive(w, j)
      BY <3>1, <3>2, <3>3 DEF Heartbeat
    <3>4. CASE ~Alive(w, j)
      BY <3>1, <3>4 DEF Heartbeat
    <3> QED BY <3>3, <3>4
  <2>3. CASE HandlerReturns(w) \/ CheckCancellation(w) \/ Crash(w)
    BY <2>3 DEF HandlerReturns, CheckCancellation, Crash
  <2>4. CASE Settle(w)
    BY <2>4 DEF Settle, Fail, Complete, Holds
  <2>5. CASE SettleCancellation(w)
    BY <2>5 DEF SettleCancellation, CompleteCancellation, Holds
  <2> QED BY <1>5, <2>1, <2>2, <2>3, <2>4, <2>5 DEF WorkerStep
<1> QED BY <1>1, <1>2, <1>3, <1>4, <1>5

-------------------------------------------------------------------------------
\* What a step of the pipeline does to the queue: nothing or a step of GoJobs
\* that publishes no job, or it publishes the job of a claim or of a request.
QueueMoves ==
    \/ CancelOne \/ ClearQueue \/ Reconcile \/ Clock \/ UNCHANGED vars
    \/ \E w \in Worker : WorkerStep(w)
DispatchPublishes ==
    \E d \in Dispatcher : EnqueueExtraction(d) /\ Enqueue(Id(d)) /\ UNCHANGED worker
RequestPublishes ==
    RetryEnqueue /\ UNCHANGED worker /\ \E j \in Unused(retry.news) : Enqueue(j)

LEMMA StepOfQueue ==
    [NewsNext]_newsVars => QueueMoves \/ DispatchPublishes \/ RequestPublishes
<1> SUFFICES ASSUME [NewsNext]_newsVars
             PROVE  QueueMoves \/ DispatchPublishes \/ RequestPublishes
  OBVIOUS
<1> USE DEF QueueMoves
<1>1. ASSUME NEW n \in News,
             \/ Stage(n) \/ IntentFallsDue(n) \/ (\E d \in Dispatcher : ClaimDispatch(d, n))
             \/ MarkAges(n) \/ RecoverReads(n) \/ RecoverWrites(n) \/ RecoverFollowups(n)
             \/ RecoveryDies(n) \/ RetryRequested(n)
      PROVE  UNCHANGED vars
  BY <1>1 DEF Stage, IntentFallsDue, ClaimDispatch, MarkAges, RecoverReads, RecoverWrites,
              RecoverFollowups, RecoveryDies, RetryRequested
<1>2. ASSUME NEW d \in Dispatcher, CarryOn(d) \/ DispatcherDies(d)
      PROVE  UNCHANGED vars \/ DispatchPublishes
  <2>1. CASE EnqueueExtraction(d)
    <3>1. UNCHANGED worker /\ (Enqueue(Id(d)) \/ UNCHANGED row)
      BY <2>1 DEF EnqueueExtraction, EnqueueOrJoin
    <3> QED BY <2>1, <3>1 DEF DispatchPublishes, vars
  <2>2. CASE \/ RecordTask(d) \/ MarkDispatched(d) \/ MarkDispatchFailed(d)
             \/ DispatcherDies(d)
    BY <2>2 DEF RecordTask, MarkDispatched, MarkDispatchFailed, DispatcherDies
  <2> QED BY <1>2, <2>1, <2>2 DEF CarryOn
<1>3. ASSUME NEW w \in Worker, ProcessNews(w) PROVE UNCHANGED vars
  BY <1>3 DEF ProcessNews
<1>4. ASSUME NEW w \in Worker, Work(w) PROVE WorkerStep(w)
  BY <1>4 DEF Work, Execute, BeatOrLose, Return, LookForCancellation, SettleJob, WorkerStep
<1>5. ASSUME NEW j \in Job, Lapse(j) \/ Wake(j) PROVE Clock
  BY <1>5 DEF Lapse, Wake, Clock
<1>6. CASE ReconcileJobs
  BY <1>6 DEF ReconcileJobs
<1>7. CASE RetryStep \/ RetryAborts
  <2>1. CASE RetryEnqueue
    <3>1. PICK j \in Unused(retry.news) : Enqueue(j) \/ UNCHANGED row
      BY <2>1 DEF RetryEnqueue, EnqueueOrJoin
    <3>2. UNCHANGED worker
      BY <2>1 DEF RetryEnqueue
    <3> QED BY <2>1, <3>1, <3>2 DEF RequestPublishes, vars
  <2>2. CASE \/ RetryIntent \/ RetryFails \/ RetryQueued \/ RetryDispatched \/ RetryAborts
    BY <2>2 DEF RetryIntent, RetryFails, RetryQueued, RetryDispatched, RetryAborts
  <2> QED BY <1>7, <2>1, <2>2 DEF RetryStep
<1>8. CASE ClearTasks \/ ClearRows
  BY <1>8 DEF ClearTasks, ClearRows
<1>9. CASE UNCHANGED newsVars
  BY <1>9 DEF newsVars
<1> QED BY <1>1, <1>2, <1>3, <1>4, <1>5, <1>6, <1>7, <1>8, <1>9 DEF NewsNext, DispatchStep

\* Every step of the pipeline is a step of the queue, or leaves it alone.
LEMMA StepsAreQueueSteps == NewsInv /\ [NewsNext]_newsVars => [Next]_vars
<1> SUFFICES ASSUME NewsInv, [NewsNext]_newsVars PROVE [Next]_vars
  OBVIOUS
<1>1. CASE QueueMoves
  BY <1>1 DEF QueueMoves, Next
<1>2. CASE DispatchPublishes
  <2> PICK d \in Dispatcher : EnqueueExtraction(d) /\ Enqueue(Id(d)) /\ UNCHANGED worker
    BY <1>2 DEF DispatchPublishes
  <2>1. Id(d) \in Job
    BY IdsAreJobs DEF Id, EnqueueExtraction, NewsInv, CountedClaims
  <2> QED BY <2>1 DEF Publish, Next
<1>3. CASE RequestPublishes
  BY <1>3 DEF RequestPublishes, Unused, Publish, Next
<1> QED BY <1>1, <1>2, <1>3, StepOfQueue

\* An id gets its job only when the claim that holds it is marked.
LEMMA IdsAreSpentByHands ==
    ASSUME NewsInv, [NewsNext]_newsVars
    PROVE  IdsSpentByHands
<1> SUFFICES ASSUME NEW n \in News, NEW k \in 1 .. Attempts(n),
                    row[IdOf[n][k]].status = "absent", row'[IdOf[n][k]].status # "absent"
             PROVE  \E d \in Dispatcher : /\ hand[d].pc = "enqueue" /\ hand'[d].pc = "mark"
                                          /\ hand[d].news = n /\ hand[d].attempt = k
  BY DEF IdsSpentByHands
<1>t. TypeOK /\ NewsTypeOK /\ CountedClaims
  BY DEF NewsInv
<1>i. IdOf[n][k] \in Job /\ NewsOf[IdOf[n][k]] = n
  BY IdsAreJobs
<1>1. CASE QueueMoves
  BY <1>1, <1>t, <1>i, AbsentKept DEF QueueMoves
<1>2. CASE DispatchPublishes
  <2> PICK d \in Dispatcher : EnqueueExtraction(d) /\ Enqueue(Id(d)) /\ UNCHANGED worker
    BY <1>2 DEF DispatchPublishes
  <2>1. Id(d) = IdOf[n][k]
    BY DEF Enqueue
  <2>2. hand[d].pc = "enqueue"
    BY DEF EnqueueExtraction
  <2>3. row' # row
    OBVIOUS
  <2>4. Hold(d, "mark")
    BY <2>3 DEF EnqueueExtraction
  <2>5. hand'[d].pc = "mark"
    BY <2>4, <1>t DEF Hold, NewsTypeOK
  <2>6. /\ hand[d].news \in News /\ hand[d].attempt \in 1 .. Attempts(hand[d].news)
    BY <2>2, <1>t DEF CountedClaims
  <2>7. hand[d].news = n
    BY <2>1, <2>6, <1>i, IdsAreJobs DEF Id
  <2>8. hand[d].attempt = k
    BY <2>1, <2>6, <2>7, IdsAreDistinct DEF Id, Attempts
  <2> QED BY <2>2, <2>5, <2>7, <2>8
<1>3. CASE RequestPublishes
  <2> PICK j \in Unused(retry.news) : Enqueue(j)
    BY <1>3 DEF RequestPublishes
  <2>1. j = IdOf[n][k]
    BY DEF Enqueue
  <2>2. NewsOf[j] = retry.news /\ \A i \in 1 .. Attempts(retry.news) : IdOf[retry.news][i] # j
    BY DEF Unused
  <2> QED BY <2>1, <2>2, <1>i
<1> QED BY <1>1, <1>2, <1>3, StepOfQueue

\* A claim is worked off in order or dropped; only ClaimDispatch begins one.
LEMMA ClaimsMoveOn ==
    ASSUME NewsTypeOK, [NewsNext]_newsVars,
           ~ \E n \in News, d \in Dispatcher : ClaimDispatch(d, n)
    PROVE  HandsMoveOn
<1> hand \in [Dispatcher -> ClaimRec]
  BY NewsTypeParts DEF PartsOK, HandOK
<1>1. ASSUME NEW d \in Dispatcher, CarryOn(d) \/ DispatcherDies(d)
      PROVE  HandsMoveOn
  <2>1. CASE RecordTask(d)
    BY <2>1 DEF RecordTask, Hold, HandsMoveOn, ClaimRec, Unsent
  <2>2. CASE EnqueueExtraction(d)
    BY <2>2 DEF EnqueueExtraction, Hold, HandsMoveOn, ClaimRec, Unsent
  <2>3. CASE MarkDispatched(d) \/ MarkDispatchFailed(d) \/ DispatcherDies(d)
    BY <2>3 DEF MarkDispatched, MarkDispatchFailed, DispatcherDies, HandsMoveOn
  <2> QED BY <1>1, <2>1, <2>2, <2>3 DEF CarryOn
<1>2. CASE UNCHANGED hand
  BY <1>2 DEF HandsMoveOn
<1>3. ASSUME NEW n \in News,
             \/ Stage(n) \/ IntentFallsDue(n)
             \/ MarkAges(n) \/ RecoverReads(n) \/ RecoverWrites(n) \/ RecoverFollowups(n)
             \/ RecoveryDies(n) \/ RetryRequested(n)
      PROVE  UNCHANGED hand
  BY <1>3 DEF Stage, IntentFallsDue, MarkAges, RecoverReads, RecoverWrites,
              RecoverFollowups, RecoveryDies, RetryRequested
<1>4. ASSUME NEW w \in Worker, ProcessNews(w) \/ Work(w) PROVE UNCHANGED hand
  BY <1>4 DEF ProcessNews, Work
<1>5. ASSUME NEW j \in Job, Lapse(j) \/ Wake(j) PROVE UNCHANGED hand
  BY <1>5 DEF Lapse, Wake, pipeline
<1>6. CASE ReconcileJobs \/ ClearTasks \/ ClearRows \/ UNCHANGED newsVars
  BY <1>2, <1>6 DEF ReconcileJobs, ClearTasks, ClearRows, newsVars, pipeline
<1>7. CASE RetryStep \/ RetryAborts
  BY <1>2, <1>7 DEF RetryStep, RetryIntent, RetryEnqueue, RetryFails, RetryQueued,
                    RetryDispatched, RetryAborts
<1> QED BY <1>1, <1>2, <1>3, <1>4, <1>5, <1>6, <1>7 DEF NewsNext, DispatchStep

\* No step takes an attempt of an intent back.
LEMMA AttemptsAreKept ==
    ASSUME NewsTypeOK, [NewsNext]_newsVars
    PROVE  AttemptsGrow
<1> outbox \in [News -> OutboxRow]
  BY NewsTypeParts DEF PartsOK, StoresOK
<1> USE DEF AttemptsGrow
<1>n. \A n \in News : outbox[n].attempts \in Nat
  BY DEF OutboxRow
<1>5. ASSUME UNCHANGED outbox PROVE AttemptsGrow
  BY <1>5, <1>n
<1>1. ASSUME NEW n \in News, Stage(n) \/ IntentFallsDue(n) \/ RecoverWrites(n)
      PROVE  AttemptsGrow
  <2>1. \A m \in News : outbox'[m].attempts = outbox[m].attempts
    BY <1>1 DEF Stage, Intent, IntentFallsDue, RecoverWrites, OutboxRow
  <2> QED BY <2>1, <1>n
<1>2. ASSUME NEW n \in News, NEW d \in Dispatcher, ClaimDispatch(d, n)
      PROVE  AttemptsGrow
  BY <1>2, <1>n DEF ClaimDispatch, OutboxRow
<1>3. ASSUME NEW d \in Dispatcher, MarkDispatched(d) \/ MarkDispatchFailed(d)
      PROVE  AttemptsGrow
  <2> DEFINE m == hand[d].news
  <2>1. \/ outbox' = [outbox EXCEPT ![m].status = "dispatched"]
        \/ outbox' = [outbox EXCEPT ![m].status = "failed", ![m].due = FALSE]
    BY <1>3 DEF MarkDispatched, MarkDispatchFailed
  <2> HIDE DEF m
  <2>2. CASE m \in News
    BY <2>1, <2>2, <1>n DEF OutboxRow
  <2>3. CASE m \notin News
    BY <2>1, <2>3, <1>n
  <2> QED BY <2>2, <2>3
<1>4. CASE RetryIntent \/ RetryFails \/ RetryDispatched
  <2> DEFINE m == retry.news
  <2>1. \/ outbox' = [outbox EXCEPT ![m].status = "pending", ![m].due = TRUE]
        \/ outbox' = [outbox EXCEPT ![m].attempts = @ + 1, ![m].due = FALSE]
        \/ outbox' = [outbox EXCEPT ![m].status = "dispatched", ![m].attempts = @ + 1]
    BY <1>4 DEF RetryIntent, Intent, RetryFails, RetryDispatched
  <2> HIDE DEF m
  <2>2. CASE m \in News
    BY <2>1, <2>2, <1>n DEF OutboxRow
  <2>3. CASE m \notin News
    BY <2>1, <2>3, <1>n
  <2> QED BY <2>2, <2>3
<1>6. ASSUME NEW n \in News,
             \/ MarkAges(n) \/ RecoverReads(n) \/ RecoverFollowups(n)
             \/ RecoveryDies(n) \/ RetryRequested(n)
      PROVE  UNCHANGED outbox
  BY <1>6 DEF MarkAges, RecoverReads, RecoverFollowups, RecoveryDies, RetryRequested, stores
<1>7. ASSUME NEW d \in Dispatcher, RecordTask(d) \/ EnqueueExtraction(d) \/ DispatcherDies(d)
      PROVE  UNCHANGED outbox
  BY <1>7 DEF RecordTask, EnqueueExtraction, DispatcherDies, stores
<1>8. ASSUME NEW w \in Worker, ProcessNews(w) \/ Work(w) PROVE UNCHANGED outbox
  BY <1>8 DEF ProcessNews, Work, stores
<1>9. ASSUME NEW j \in Job, Lapse(j) \/ Wake(j) PROVE UNCHANGED outbox
  BY <1>9 DEF Lapse, Wake, pipeline
<1>10. CASE \/ ReconcileJobs \/ ClearTasks \/ ClearRows \/ UNCHANGED newsVars
            \/ RetryEnqueue \/ RetryQueued \/ RetryAborts
  BY <1>5, <1>10 DEF ReconcileJobs, ClearTasks, ClearRows, newsVars, pipeline, stores,
                     RetryEnqueue, RetryQueued, RetryAborts
<1> QED BY <1>1, <1>2, <1>3, <1>4, <1>5, <1>6, <1>7, <1>8, <1>9, <1>10
        DEF NewsNext, DispatchStep, CarryOn, RetryStep

\* Every step keeps the invariant.
LEMMA NewsNextInv == NewsInv /\ [NewsNext]_newsVars => NewsInv'
<1> SUFFICES ASSUME NewsInv, [NewsNext]_newsVars PROVE NewsInv'
  OBVIOUS
<1>t. TypeOK /\ NewsTypeOK /\ CountedClaims /\ ClaimsDiffer /\ IdsUnspent
  BY DEF NewsInv
<1>1. TypeOK'
  BY <1>t, StepsAreQueueSteps, NextTypeOK
<1>2. NewsTypeOK'
  BY <1>t, NewsNextTypeOK
<1>3. CountedClaims' /\ ClaimsDiffer' /\ IdsUnspent'
  <2>1. CASE \E n \in News, d \in Dispatcher : ClaimDispatch(d, n)
    BY <2>1, ClaimKeepsInv
  <2>2. CASE ~ \E n \in News, d \in Dispatcher : ClaimDispatch(d, n)
    BY <2>2, <1>t, <1>2, ClaimsMoveOn, AttemptsAreKept, IdsAreSpentByHands, InvKept
  <2> QED BY <2>1, <2>2
<1> QED BY <1>1, <1>2, <1>3 DEF NewsInv

\* The inductive invariant holds.
THEOREM PipelineInvariant == NewsSpec => []NewsInv
<1>1. NewsInit => NewsInv
  BY NewsInitInv
<1>2. NewsInv /\ [NewsNext]_newsVars => NewsInv'
  BY NewsNextInv
<1> QED BY <1>1, <1>2, PTL DEF NewsSpec

\* The variables of the pipeline keep their types.
THEOREM PipelineTypeCorrect == NewsSpec => []NewsTypeOK
<1>1. NewsInv => NewsTypeOK
  BY DEF NewsInv
<1> QED BY <1>1, PipelineInvariant, PTL

\* However many dispatchers run, however often they die between two steps, and
\* whatever retries, recoveries and lost leases do meanwhile: no two dispatches
\* share an id, and none meets the job of an earlier one.
THEOREM DispatchIdsAreFresh == NewsSpec => []DispatchIdIsFresh
<1>1. NewsInv => DispatchIdIsFresh
  BY NewsInvFresh
<1> QED BY <1>1, PipelineInvariant, PTL

\* The pipeline uses the job table as GoJobs describes it.
THEOREM PipelineUsesQueue == NewsSpec => Spec
<1>1. NewsInit => Init
  BY DEF NewsInit
<1>2. NewsInv /\ [NewsNext]_newsVars => [Next]_vars
  BY StepsAreQueueSteps
<1> QED BY <1>1, <1>2, PipelineInvariant, PTL DEF NewsSpec, Spec

\* So it inherits what is proved of the queue: an item that is dispatched again
\* and again never has two active jobs, and every job keeps JobContract.
THEOREM PipelineKeepsContract == NewsSpec => []OneActivePerKey /\ ImplementsContract
  BY PipelineUsesQueue, ActiveWorkIsUnique, QueueImplementsContract
-------------------------------------------------------------------------------
(***************************************************************************)
(* What the stores say of an item has happened.  The statuses are written  *)
(* by handlers, dispatchers, requests and the recovery, each from what it  *)
(* learned some steps ago, so the invariant says of each of them that what *)
(* it is about to write is true, and events and jobs are never taken back. *)
(***************************************************************************)
HasJob(n, rows) == \E j \in Job : NewsOf[j] = n /\ rows[j].status # "absent"
Published(n) == HasJob(n, row)
Exhausted(n) == \E j \in Job : NewsOf[j] = n /\ row[j].attempt = MaxAttempts

\* An item is completed or followed up only with its event, dispatched only with a job of
\* its own, and given up only after a job of its had the last attempt (extract.go,
\* processNews, failNews; news_processing.py, mark_news_dispatched, recover_orphaned_news;
\* queue_commands.go, queueNewsRetryWithOptions).
StatusIsEarned ==
    \A n \in News :
       /\ proc[n].status = "completed" \/ followed[n] => event[n]
       /\ outbox[n].status = "dispatched" => Published(n)
       /\ proc[n].status = "extraction_failed" => Exhausted(n)

\* A busy worker has a job, and no later attempt of it than the row.
InHand ==
    \A w \in Worker : worker[w].pc # "idle" =>
       worker[w].job \in Job /\ worker[w].attempt <= row[worker[w].job].attempt

Late(w) == worker[w].pc = "handling" /\ step[w] \in {"follow", "finish"}
Joined  == {"queued", "dispatched"}

EarnedInv ==
    /\ InHand /\ StatusIsEarned
    /\ \A w \in Worker : Late(w) => event[Item(w)]
    /\ \A n \in News : plan[n].to = "complete" => event[n]
    /\ \A d \in Dispatcher : hand[d].pc = "mark" => Published(hand[d].news)
    /\ retry.pc \in Joined => Published(retry.news)

\* What a step may write.
EventsStay == \A n \in News : event[n] => event'[n]
StatusMoves ==
    \A n \in News :
       /\ followed'[n] => followed[n] \/ event'[n]
       /\ proc'[n].status = "completed" => proc[n].status = "completed" \/ event'[n]
       /\ proc'[n].status = "extraction_failed" => proc[n].status = "extraction_failed" \/ Exhausted(n)
       /\ outbox'[n].status = "dispatched" => outbox[n].status = "dispatched" \/ Published(n)
       /\ plan'[n].to = "complete" => plan[n].to = "complete" \/ event'[n]
HandlersMove ==
    \A w \in Worker : Late(w)' => \/ Late(w) /\ worker'[w].job = worker[w].job
                                  \/ event'[NewsOf[worker'[w].job]]
ClaimsMove ==
    /\ \A d \in Dispatcher : hand'[d].pc = "mark" =>
          \/ hand[d].pc = "mark" /\ hand'[d].news = hand[d].news
          \/ HasJob(hand'[d].news, row')
    /\ retry'.pc \in Joined => \/ retry.pc \in Joined /\ retry'.news = retry.news
                               \/ HasJob(retry'.news, row')

\* Jobs and their last attempts are for good.
LEMMA PublishedStays ==
    ASSUME IInv, [Next]_vars, NEW n
    PROVE  (Published(n) => Published(n)') /\ (Exhausted(n) => Exhausted(n)')
<1>1. Published(n) => Published(n)'
  BY RowsStay DEF Published, HasJob
<1>2. ASSUME NEW j \in Job, row[j].attempt = MaxAttempts PROVE row'[j].attempt = MaxAttempts
  <2>1. row'[j].attempt >= row[j].attempt
    BY RowsStay
  <2>2. row'[j].attempt <= MaxAttempts /\ row'[j].attempt \in Nat
    BY NextIInv DEF IInv, AttemptBudget, TypeOK, Row
  <2> QED BY <1>2, <2>1, <2>2, MaxAttemptsIsPositive
<1> QED BY <1>1, <1>2 DEF Exhausted

\* A worker that is busy afterwards was busy with this job or has claimed it.
LEMMA WorkersCarry ==
    ASSUME IInv, [Next]_vars, InHand
    PROVE  InHand'
<1> SUFFICES ASSUME NEW w \in Worker, worker'[w].pc # "idle"
             PROVE  worker'[w].job \in Job /\ worker'[w].attempt <= row'[worker'[w].job].attempt
  BY DEF InHand
<1>t. /\ worker \in [Worker -> WorkerState] /\ \A j \in Job : row[j].attempt \in Nat
      /\ \A j \in Job : row'[j].attempt \in Nat /\ row[j] \in Row
  BY NextIInv DEF IInv, TypeOK, Row
<1>1. ASSUME NEW j \in Job, ClaimAndExecute(w, j)
      PROVE  worker'[w].job \in Job /\ worker'[w].attempt <= row'[worker'[w].job].attempt
  <2>1. worker'[w].job = j /\ worker'[w].attempt = row[j].attempt + 1
    BY <1>1, <1>t DEF ClaimAndExecute
  <2>2. row'[j].attempt = row[j].attempt + 1
    <3>1. row'[j] = Claimed(row[j], w)
      BY <1>1 DEF ClaimAndExecute, Claim, IInv, TypeOK
    <3> QED BY <1>t, <3>1 DEF Claimed, Row
  <2> QED BY <1>t, <2>1, <2>2
<1>2. CASE ~\E j \in Job : ClaimAndExecute(w, j)
  <2>1. worker[w].pc # "idle" /\ worker'[w].job = worker[w].job
        /\ worker'[w].attempt = worker[w].attempt
    <3>1. CASE UNCHANGED worker
      BY <3>1
    <3>2. CASE Beat(w)
      BY <1>t, <3>2 DEF Beat, WorkerState
    <3>3. ASSUME HandlerReturns(w)
          PROVE  worker[w].pc # "idle" /\ worker'[w].job = worker[w].job
                 /\ worker'[w].attempt = worker[w].attempt
      <4> PICK b \in BOOLEAN : worker' = [worker EXCEPT ![w] =
                                  [@ EXCEPT !.pc = "returned", !.live = FALSE, !.failed = b]]
        BY <3>3 DEF HandlerReturns
      <4> QED BY <1>t, <3>3 DEF HandlerReturns, WorkerState
    <3>7. CASE CheckCancellation(w)
      BY <1>t, <3>7 DEF CheckCancellation, WorkerState
    <3>4. CASE Settle(w) \/ SettleCancellation(w) \/ Crash(w)
      BY <1>t, <3>4 DEF Settle, SettleCancellation, Crash, Idle
    <3>5. ASSUME NEW v \in Worker, v # w, WorkerStep(v) PROVE worker'[w] = worker[w]
      <4>1. CASE \E j \in Job : ClaimAndExecute(v, j)
        BY <1>t, <3>5, <4>1 DEF ClaimAndExecute
      <4>2. CASE Beat(v) \/ HandlerReturns(v) \/ CheckCancellation(v)
        BY <1>t, <3>5, <4>2 DEF Beat, HandlerReturns, CheckCancellation
      <4>3. CASE Settle(v) \/ SettleCancellation(v) \/ Crash(v)
        BY <1>t, <3>5, <4>3 DEF Settle, SettleCancellation, Crash
      <4> QED BY <3>5, <4>1, <4>2, <4>3 DEF WorkerStep
    <3>6. CASE Publish \/ CancelOne \/ ClearQueue \/ Reconcile \/ Clock \/ UNCHANGED vars
      BY <3>1, <3>6 DEF Publish, CancelOne, ClearQueue, Reconcile, Clock, vars
    <3> QED BY <1>2, <3>2, <3>3, <3>4, <3>5, <3>6, <3>7 DEF Next, WorkerStep
  <2>2. worker[w].job \in Job /\ worker[w].attempt <= row[worker[w].job].attempt
    BY <2>1 DEF InHand
  <2>3. row'[worker[w].job].attempt >= row[worker[w].job].attempt
    BY <2>2, RowsStay
  <2>4. worker[w].attempt \in Nat
    BY <1>t DEF WorkerState
  <2> QED BY <1>t, <2>1, <2>2, <2>3, <2>4
<1> QED BY <1>1, <1>2

\* A step that writes only this keeps the invariant.
LEMMA EarnedKept ==
    ASSUME IInv, [Next]_vars, EarnedInv, EventsStay, StatusMoves, HandlersMove, ClaimsMove
    PROVE  EarnedInv'
<1>1. InHand'
  BY WorkersCarry DEF EarnedInv
<1>2. StatusIsEarned'
  BY PublishedStays DEF EarnedInv, StatusIsEarned, EventsStay, StatusMoves
<1>3. ASSUME NEW w \in Worker, Late(w)' PROVE event'[NewsOf[worker'[w].job]]
  <2>1. CASE Late(w) /\ worker'[w].job = worker[w].job
    <3>1. worker[w].job \in Job /\ event[NewsOf[worker[w].job]]
      BY <2>1 DEF EarnedInv, InHand, Late, Item
    <3>2. NewsOf[worker[w].job] \in News
      BY <3>1
    <3> QED BY <2>1, <3>1, <3>2 DEF EventsStay
  <2> QED BY <1>3, <2>1 DEF HandlersMove
<1>4. ASSUME NEW n \in News, plan'[n].to = "complete" PROVE event'[n]
  BY <1>4 DEF EarnedInv, StatusMoves, EventsStay
<1>5. ASSUME NEW d \in Dispatcher, hand'[d].pc = "mark" PROVE HasJob(hand'[d].news, row')
  BY <1>5, PublishedStays DEF EarnedInv, ClaimsMove, Published
<1>6. retry'.pc \in Joined => HasJob(retry'.news, row')
  BY PublishedStays DEF EarnedInv, ClaimsMove, Published
<1> QED BY <1>1, <1>2, <1>3, <1>4, <1>5, <1>6 DEF EarnedInv, Item, Published
EarnedMoves == EventsStay /\ StatusMoves /\ HandlersMove /\ ClaimsMove

\* Where nothing is written.
LEMMA RestEarns ==
    /\ UNCHANGED <<event, followed, proc, outbox, plan>> => EventsStay /\ StatusMoves
    /\ UNCHANGED <<worker, step>> => HandlersMove
    /\ UNCHANGED <<hand, retry>> => ClaimsMove
<1>1. UNCHANGED <<event, followed, proc, outbox, plan>> => EventsStay /\ StatusMoves
  BY DEF EventsStay, StatusMoves
<1>2. UNCHANGED <<worker, step>> => HandlersMove
  BY DEF HandlersMove, Late
<1>3. UNCHANGED <<hand, retry>> => ClaimsMove
  BY DEF ClaimsMove, Joined
<1> QED BY <1>1, <1>2, <1>3

\* Marking an item with a status that needs no reason.
LEMMA MarkEarns ==
    ASSUME NewsTypeOK, UNCHANGED <<event, followed, outbox, plan>>, NEW n,
           NEW st \in NewsStatus \ {"completed", "extraction_failed"},
           Mark(n, st) \/ proc' = [proc EXCEPT ![n].status = st]
    PROVE  EventsStay /\ StatusMoves
<1>t. proc \in [News -> ProcRow]
  BY NewsTypeParts DEF PartsOK, StoresOK
<1>1. \A m \in News : proc'[m].status \in {proc[m].status, st}
  <2>1. CASE Mark(n, st)
    BY <1>t, <2>1 DEF Mark, ProcRow
  <2>2. CASE proc' = [proc EXCEPT ![n].status = st]
    BY <1>t, <2>2 DEF ProcRow
  <2> QED BY <2>1, <2>2
<1> QED BY <1>1 DEF EventsStay, StatusMoves

\* Staging, marks that age and the recovery.
LEMMA StoresEarn ==
    ASSUME NewsTypeOK, EarnedInv, NEW n \in News,
           \/ Stage(n) \/ IntentFallsDue(n) \/ MarkAges(n) \/ RecoverReads(n)
           \/ RecoverWrites(n) \/ RecoverFollowups(n) \/ RecoveryDies(n) \/ RetryRequested(n)
    PROVE  EarnedMoves
<1>t. /\ proc \in [News -> ProcRow] /\ outbox \in [News -> OutboxRow]
      /\ plan \in [News -> PlanRec] /\ followed \in [News -> BOOLEAN]
  BY NewsTypeParts DEF PartsOK, StoresOK, PlanOK
<1>1. HandlersMove
  BY RestEarns DEF Stage, IntentFallsDue, MarkAges, RecoverReads, RecoverWrites,
                   RecoverFollowups, RecoveryDies, RetryRequested, vars
<1>2. ClaimsMove
  <2>1. CASE RetryRequested(n)
    BY <2>1 DEF RetryRequested, ClaimsMove, Joined
  <2>2. CASE ~RetryRequested(n)
    BY <2>2, RestEarns DEF Stage, IntentFallsDue, MarkAges, RecoverReads, RecoverWrites,
                     RecoverFollowups, RecoveryDies
  <2> QED BY <2>1, <2>2
<1>3. EventsStay
  BY DEF Stage, IntentFallsDue, MarkAges, RecoverReads, RecoverWrites, RecoverFollowups,
         RecoveryDies, RetryRequested, stores, EventsStay
<1>4. StatusMoves
  <2>1. CASE Stage(n)
    BY <1>t, <2>1 DEF Stage, Mark, Intent, StatusMoves, ProcRow, OutboxRow
  <2>2. CASE IntentFallsDue(n)
    BY <1>t, <2>2 DEF IntentFallsDue, StatusMoves, OutboxRow
  <2>3. CASE MarkAges(n)
    BY <1>t, <2>3 DEF MarkAges, StatusMoves, ProcRow
  <2>4. CASE RecoverReads(n)
    <3>1. RecoveryOf(n) = "complete" => event[n]
      BY DEF RecoveryOf
    <3>2. plan'[n].to = RecoveryOf(n) /\ \A m \in News \ {n} : plan'[m] = plan[m]
      BY <1>t, <2>4 DEF RecoverReads
    <3> QED BY <2>4, <3>1, <3>2 DEF RecoverReads, StatusMoves, stores
  <2>5. CASE RecoverWrites(n)
    <3>1. plan'[n].to = "nothing" /\ \A m \in News \ {n} : plan'[m] = plan[m]
      BY <1>t, <2>5 DEF RecoverWrites, NoPlan
    <3>2. CASE plan[n].to = "complete" /\ Mark(n, "completed") /\ UNCHANGED outbox
      <4>1. event[n] /\ UNCHANGED <<event, followed>>
        BY <2>5, <3>2 DEF EarnedInv, RecoverWrites
      <4> QED BY <1>t, <3>1, <3>2, <4>1 DEF Mark, StatusMoves, ProcRow
    <3>3. CASE plan[n].to = "stage"
      <4>1. /\ proc'[n].status \in {proc[n].status, "dispatch_pending"}
            /\ outbox'[n].status \in {outbox[n].status, "pending"}
            /\ \A m \in News \ {n} : proc'[m] = proc[m] /\ outbox'[m] = outbox[m]
            /\ UNCHANGED <<event, followed>>
        BY <1>t, <2>5, <3>3 DEF RecoverWrites, Mark, Flushed, ProcRow, OutboxRow
      <4> QED BY <3>1, <4>1 DEF StatusMoves
    <3> QED BY <2>5, <3>2, <3>3 DEF RecoverWrites
  <2>6. CASE RecoverFollowups(n)
    BY <1>t, <2>6 DEF RecoverFollowups, StatusMoves
  <2>7. CASE RecoveryDies(n)
    BY <1>t, <2>7 DEF RecoveryDies, StatusMoves, stores, NoPlan
  <2>8. CASE RetryRequested(n)
    BY <2>8, MarkEarns DEF RetryRequested, NewsStatus
  <2> QED BY <2>1, <2>2, <2>3, <2>4, <2>5, <2>6, <2>7, <2>8
<1> QED BY <1>1, <1>2, <1>3, <1>4 DEF EarnedMoves

\* A dispatch or a request learns that there is a job of the item, its own or one of the
\* same key.
LEMMA JoinFindsJob ==
    ASSUME TypeOK, NEW j \in Job, EnqueueOrJoin(j)
    PROVE  HasJob(NewsOf[j], row')
<1>1. CASE Enqueue(j)
  <2>1. row'[j].status = "queued"
    BY <1>1 DEF Enqueue, Queued, TypeOK, Row
  <2> QED BY <2>1 DEF HasJob
<1>2. CASE row' = row /\ row[j].status # "absent"
  BY <1>2 DEF HasJob
<1>3. CASE row' = row /\ Holders(j) # {}
  <2>1. PICK k \in Job : k \in SameWork(j) /\ row[k].status \in Active
    BY <1>3 DEF Holders, SameWork
  <2>2. NewsOf[k] = NewsOf[j]
    BY <2>1, OneQueueKeyedByNews DEF SameWork
  <2> QED BY <1>3, <2>1, <2>2 DEF HasJob, Active, Waiting
<1> QED BY <1>1, <1>2, <1>3 DEF EnqueueOrJoin

\* Dispatches.
LEMMA DispatchesEarn ==
    ASSUME NewsInv, EarnedInv, NEW d \in Dispatcher,
           \/ \E n \in News : ClaimDispatch(d, n)
           \/ CarryOn(d) \/ DispatcherDies(d)
    PROVE  EarnedMoves
<1>t. /\ TypeOK /\ NewsTypeOK /\ CountedClaims
      /\ outbox \in [News -> OutboxRow] /\ hand \in [Dispatcher -> ClaimRec]
      /\ proc \in [News -> ProcRow]
  BY NewsTypeParts DEF PartsOK, StoresOK, HandOK, NewsInv
<1>1. HandlersMove
  BY RestEarns DEF ClaimDispatch, CarryOn, RecordTask, EnqueueExtraction, MarkDispatched,
                   MarkDispatchFailed, DispatcherDies, vars
<1>2. EventsStay
  BY DEF ClaimDispatch, CarryOn, RecordTask, EnqueueExtraction, MarkDispatched,
         MarkDispatchFailed, DispatcherDies, stores, EventsStay
<1>3. ASSUME NEW n \in News, ClaimDispatch(d, n) PROVE StatusMoves /\ ClaimsMove
  <2>1. /\ \A m \in News : outbox'[m].status \in {outbox[m].status, "dispatching"}
        /\ UNCHANGED <<event, followed, proc, plan, retry>>
    BY <1>t, <1>3 DEF ClaimDispatch, OutboxRow
  <2>2. hand'[d].pc = "record" /\ \A e \in Dispatcher \ {d} : hand'[e] = hand[e]
    BY <1>t, <1>3 DEF ClaimDispatch, ClaimRec
  <2> QED BY <2>1, <2>2 DEF StatusMoves, ClaimsMove, Joined
<1>4. CASE RecordTask(d)
  <2>1. hand'[d].pc \in {"enqueue", "fail"} /\ \A e \in Dispatcher \ {d} : hand'[e] = hand[e]
    BY <1>t, <1>4 DEF RecordTask, Hold, ClaimRec
  <2>2. UNCHANGED retry
    BY <1>4 DEF RecordTask
  <2>3. ClaimsMove
    BY <2>1, <2>2 DEF ClaimsMove, Joined
  <2>4. UNCHANGED <<event, followed, proc, outbox, plan>>
    BY <1>4 DEF RecordTask
  <2> QED BY <1>1, <2>3, <2>4, RestEarns DEF EarnedMoves
<1>5. CASE EnqueueExtraction(d)
  <2>1. Id(d) \in Job /\ NewsOf[Id(d)] = hand[d].news
    BY <1>5, <1>t, IdsAreJobs DEF Id, EnqueueExtraction, CountedClaims
  <2>2. /\ hand'[d].news = hand[d].news /\ \A e \in Dispatcher \ {d} : hand'[e] = hand[e]
        /\ hand'[d].pc = "mark" => EnqueueOrJoin(Id(d))
    BY <1>t, <1>5 DEF EnqueueExtraction, Hold, ClaimRec
  <2>3. hand'[d].pc = "mark" => HasJob(hand'[d].news, row')
    BY <1>t, <2>1, <2>2, JoinFindsJob
  <2>4. UNCHANGED <<retry, event, followed, proc, outbox, plan>>
    BY <1>5 DEF EnqueueExtraction
  <2>5. ClaimsMove
    BY <2>2, <2>3, <2>4 DEF ClaimsMove, Joined
  <2> QED BY <1>1, <2>4, <2>5, RestEarns DEF EarnedMoves
<1>6. CASE MarkDispatched(d) \/ MarkDispatchFailed(d) \/ DispatcherDies(d)
  <2>1. hand'[d].pc = "idle" /\ \A e \in Dispatcher \ {d} : hand'[e] = hand[e]
    BY <1>t, <1>6 DEF MarkDispatched, MarkDispatchFailed, DispatcherDies, NoClaim
  <2>2. UNCHANGED <<retry, event, followed, plan>>
    BY <1>6 DEF MarkDispatched, MarkDispatchFailed, DispatcherDies, stores
  <2>3. ClaimsMove
    BY <2>1, <2>2 DEF ClaimsMove, Joined
  <2>4. \A m \in News : proc'[m].status \in {proc[m].status, "queued", "dispatch_failed"}
    BY <1>t, <1>6 DEF MarkDispatched, MarkDispatchFailed, DispatcherDies, stores, Mark
  <2>5. \A m \in News : outbox'[m].status = "dispatched" =>
           outbox[m].status = "dispatched" \/ Published(m)
    <3>1. CASE MarkDispatched(d)
      <4>1. Published(hand[d].news) /\ outbox' = [outbox EXCEPT ![hand[d].news].status = "dispatched"]
        BY <3>1 DEF MarkDispatched, EarnedInv
      <4> QED BY <1>t, <4>1
    <3>2. CASE MarkDispatchFailed(d) \/ DispatcherDies(d)
      BY <1>t, <3>2 DEF MarkDispatchFailed, DispatcherDies, stores, OutboxRow
    <3> QED BY <1>6, <3>1, <3>2
  <2>6. StatusMoves
    BY <2>2, <2>4, <2>5 DEF StatusMoves
  <2> QED BY <1>1, <1>2, <2>3, <2>6 DEF EarnedMoves
<1> QED BY <1>1, <1>2, <1>3, <1>4, <1>5, <1>6 DEF EarnedMoves, CarryOn
\* Requests and clearings.
LEMMA RequestsEarn ==
    ASSUME NewsInv, EarnedInv, RetryStep \/ RetryAborts \/ ClearTasks \/ ClearRows
    PROVE  EarnedMoves
<1>t. /\ TypeOK /\ NewsTypeOK /\ outbox \in [News -> OutboxRow] /\ retry \in RetryRec
      /\ proc \in [News -> ProcRow]
  BY NewsTypeParts DEF PartsOK, StoresOK, RetryOK, NewsInv
<1> USE DEF EarnedMoves
<1>1. CASE RetryIntent \/ RetryFails
  <2>1. retry'.pc \notin Joined /\ UNCHANGED <<vars, event, followed, step, hand, plan>>
    BY <1>t, <1>1 DEF RetryIntent, RetryFails, RetryRec, NoRetry, Joined
  <2>2. \A m \in News : outbox'[m].status \in {outbox[m].status, "pending"}
    <3> DEFINE m == retry.news
    <3>1. \/ outbox' = [outbox EXCEPT ![m].status = "pending", ![m].due = TRUE]
          \/ outbox' = [outbox EXCEPT ![m].attempts = @ + 1, ![m].due = FALSE]
      BY <1>1 DEF RetryIntent, Intent, RetryFails
    <3> HIDE DEF m
    <3> QED BY <1>t, <3>1 DEF OutboxRow
  <2>3. \A m \in News : proc'[m].status \in {proc[m].status, "dispatch_pending"}
    BY <1>t, <1>1 DEF RetryIntent, RetryFails, ProcRow
  <2> QED BY <2>1, <2>2, <2>3, RestEarns DEF EventsStay, StatusMoves, ClaimsMove, vars
<1>2. CASE RetryEnqueue
  <2>1. /\ retry'.news = retry.news
        /\ \/ retry'.pc = "queued" /\ \E j \in Unused(retry.news) : EnqueueOrJoin(j)
           \/ retry'.pc = "failed"
    BY <1>t, <1>2 DEF RetryEnqueue, RetryRec
  <2>2. retry'.pc \in Joined => HasJob(retry'.news, row')
    BY <1>t, <2>1, JoinFindsJob DEF Unused, Joined
  <2>3. UNCHANGED <<worker, event, followed, proc, outbox, step, hand, plan>>
    BY <1>2 DEF RetryEnqueue
  <2> QED BY <2>2, <2>3, RestEarns DEF ClaimsMove
<1>3. CASE RetryQueued
  <2>1. retry'.news = retry.news /\ retry.pc \in Joined /\ UNCHANGED <<vars, step, hand>>
    BY <1>t, <1>3 DEF RetryQueued, RetryRec, Joined
  <2>2. EventsStay /\ StatusMoves
    BY <1>3, <1>t, MarkEarns DEF RetryQueued, NewsStatus, ActiveNews
  <2> QED BY <2>1, <2>2, RestEarns DEF ClaimsMove, vars
<1>4. CASE RetryDispatched
  <2>1. retry'.pc = "idle" /\ UNCHANGED <<vars, event, followed, proc, step, hand, plan>>
    BY <1>4 DEF RetryDispatched, NoRetry
  <2>2. \A m \in News : outbox'[m].status = "dispatched" =>
           outbox[m].status = "dispatched" \/ m = retry.news
    BY <1>t, <1>4 DEF RetryDispatched, OutboxRow
  <2>3. Published(retry.news)
    BY <1>4 DEF RetryDispatched, EarnedInv, Joined
  <2> QED BY <2>1, <2>2, <2>3, RestEarns DEF EventsStay, StatusMoves, ClaimsMove, Joined, vars
<1>5. CASE RetryAborts
  <2>1. retry'.pc = "idle" /\ UNCHANGED <<vars, stores, step, hand, plan>>
    BY <1>5 DEF RetryAborts, NoRetry
  <2> QED BY <2>1, RestEarns DEF ClaimsMove, Joined, vars, stores
<1>6. CASE ClearTasks
  BY <1>6, RestEarns DEF ClearTasks, vars
<1>7. CASE ClearRows
  <2>1. UNCHANGED <<worker, stores, step, hand, plan, retry>>
    BY <1>7 DEF ClearRows, ClearQueue, vars
  <2> QED BY <2>1, RestEarns DEF stores
<1> QED BY <1>1, <1>2, <1>3, <1>4, <1>5, <1>6, <1>7 DEF RetryStep

\* The handler.
LEMMA HandlersEarn ==
    ASSUME NewsInv, IInv, EarnedInv, NEW w \in Worker, ProcessNews(w)
    PROVE  EarnedMoves
<1>t. /\ NewsTypeOK /\ proc \in [News -> ProcRow] /\ event \in [News -> BOOLEAN]
      /\ followed \in [News -> BOOLEAN] /\ step \in [Worker -> {"check", "start", "ingest", "follow", "finish", "ok", "error"}]
      /\ worker \in [Worker -> WorkerState]
  BY NewsTypeParts DEF PartsOK, StoresOK, StepOK, NewsInv, TypeOK
<1>u. UNCHANGED <<row, worker, outbox, hand, plan, retry>>
  BY DEF ProcessNews, vars
<1>i. worker[w].pc = "handling" => Item(w) \in News /\ worker[w].job \in Job
  BY DEF EarnedInv, InHand, Item
<1>l. worker[w].pc = "handling" /\ worker[w].attempt >= MaxAttempts => Exhausted(Item(w))
  <2> SUFFICES ASSUME worker[w].pc = "handling", worker[w].attempt >= MaxAttempts
               PROVE  Exhausted(Item(w))
    OBVIOUS
  <2>1. worker[w].job \in Job /\ worker[w].attempt <= row[worker[w].job].attempt
    BY DEF EarnedInv, InHand
  <2>2. row[worker[w].job].attempt <= MaxAttempts /\ row[worker[w].job].attempt \in Nat
    BY <2>1 DEF IInv, AttemptBudget, TypeOK, Row
  <2>3. worker[w].attempt \in Nat
    BY <1>t DEF WorkerState
  <2>4. row[worker[w].job].attempt = MaxAttempts
    BY <2>1, <2>2, <2>3, MaxAttemptsIsPositive
  <2> QED BY <2>1, <2>4 DEF Exhausted, Item
<1>c. ClaimsMove
  BY <1>u, RestEarns
<1>f. ASSUME FailNews(w), worker[w].pc = "handling" PROVE EventsStay /\ StatusMoves /\ HandlersMove
  <2>1. UNCHANGED <<event, followed>> /\ step' = [step EXCEPT ![w] = "error"]
    BY <1>f DEF FailNews, To
  <2>2. proc'[Item(w)].status = "extraction_failed" => Exhausted(Item(w))
    BY <1>f, <1>t, <1>i, <1>l DEF FailNews, Mark
  <2>3. /\ proc'[Item(w)].status # "completed"
        /\ \A n \in News \ {Item(w)} : proc'[n] = proc[n]
    BY <1>f, <1>t, <1>i DEF FailNews, Mark
  <2>4. EventsStay /\ StatusMoves
    BY <1>u, <2>1, <2>2, <2>3 DEF EventsStay, StatusMoves
  <2>5. HandlersMove
    BY <1>t, <1>u, <2>1 DEF HandlersMove, Late
  <2> QED BY <2>4, <2>5
<1>1. CASE CheckTask(w)
  <2>1. UNCHANGED <<event, followed>> /\ \E place \in {"ok", "start"} : step' = [step EXCEPT ![w] = place]
    BY <1>1 DEF CheckTask, To
  <2>2. EventsStay /\ StatusMoves
    BY <1>1, <1>t, <1>u, <2>1, MarkEarns, RestEarns DEF CheckTask, NewsStatus
  <2>3. HandlersMove
    BY <1>t, <1>u, <2>1 DEF HandlersMove, Late
  <2> QED BY <1>c, <2>2, <2>3 DEF EarnedMoves
<1>2. CASE StartNews(w)
  <2>1. CASE FailNews(w)
    BY <1>2, <1>c, <1>f, <2>1 DEF StartNews, At, EarnedMoves
  <2>2. CASE ~FailNews(w)
    <3>1. UNCHANGED <<event, followed>> /\ \E place \in {"ingest", "error"} : step' = [step EXCEPT ![w] = place]
      BY <1>2, <2>2 DEF StartNews, To
    <3>2. Mark(Item(w), "running") \/ UNCHANGED proc
      BY <1>2, <2>2 DEF StartNews
    <3>3. EventsStay /\ StatusMoves
      BY <1>t, <1>u, <3>1, <3>2, MarkEarns, RestEarns DEF NewsStatus, ActiveNews
    <3>4. HandlersMove
      BY <1>t, <1>u, <3>1 DEF HandlersMove, Late
    <3> QED BY <1>c, <3>3, <3>4 DEF EarnedMoves
  <2> QED BY <2>1, <2>2
<1>3. CASE Ingest(w)
  <2>1. CASE FailNews(w)
    BY <1>3, <1>c, <1>f, <2>1 DEF Ingest, At, EarnedMoves
  <2>2. CASE event' = [event EXCEPT ![Item(w)] = TRUE] /\ To(w, "follow") /\ UNCHANGED <<followed, proc>>
    <3>1. event'[Item(w)] /\ EventsStay
      BY <1>3, <1>i, <1>t, <2>2 DEF EventsStay, Ingest, At
    <3>2. StatusMoves
      BY <1>u, <2>2, <3>1 DEF StatusMoves
    <3>3. HandlersMove
      BY <1>t, <1>u, <2>2, <3>1 DEF HandlersMove, Late, To, Item
    <3> QED BY <1>c, <3>1, <3>2, <3>3 DEF EarnedMoves
  <2>3. CASE Mark(Item(w), "cancelled") /\ To(w, "ok") /\ UNCHANGED <<event, followed>>
    <3>1. EventsStay /\ StatusMoves
      BY <1>t, <1>u, <2>3, MarkEarns DEF NewsStatus
    <3>2. HandlersMove
      BY <1>t, <1>u, <2>3 DEF HandlersMove, Late, To
    <3> QED BY <1>c, <3>1, <3>2 DEF EarnedMoves
  <2> QED BY <1>3, <2>1, <2>2, <2>3 DEF Ingest
<1>4. CASE FollowUp(w)
  <2>1. worker[w].pc = "handling" /\ Late(w) /\ event[Item(w)]
    BY <1>4 DEF FollowUp, At, Late, EarnedInv
  <2>2. /\ UNCHANGED <<event, proc>> /\ step' = [step EXCEPT ![w] = "finish"]
        /\ followed' = [followed EXCEPT ![Item(w)] = TRUE] \/ UNCHANGED followed
    BY <1>4 DEF FollowUp, To
  <2>3. EventsStay /\ StatusMoves
    BY <1>t, <1>u, <2>1, <2>2 DEF EventsStay, StatusMoves
  <2>4. HandlersMove
    BY <1>t, <1>u, <2>1, <2>2 DEF HandlersMove, Late
  <2> QED BY <1>c, <2>3, <2>4 DEF EarnedMoves
<1>5. CASE FinishNews(w)
  <2>1. CASE FailNews(w)
    BY <1>5, <1>c, <1>f, <2>1 DEF FinishNews, At, EarnedMoves
  <2>2. CASE ~FailNews(w)
    <3>1. event[Item(w)]
      BY <1>5 DEF FinishNews, At, Late, EarnedInv
    <3>2. UNCHANGED <<event, followed>> /\ \E place \in {"ok", "error"} : step' = [step EXCEPT ![w] = place]
      BY <1>5, <2>2 DEF FinishNews, To
    <3>3. Mark(Item(w), "completed") \/ UNCHANGED proc
      BY <1>5, <2>2 DEF FinishNews
    <3>4. \A n \in News : proc'[n] = proc[n] \/ (n = Item(w) /\ proc'[n].status = "completed")
      BY <1>t, <3>3 DEF Mark
    <3>5. EventsStay /\ StatusMoves
      BY <1>u, <3>1, <3>2, <3>4 DEF EventsStay, StatusMoves
    <3>6. HandlersMove
      BY <1>t, <1>u, <3>2 DEF HandlersMove, Late
    <3> QED BY <1>c, <3>5, <3>6 DEF EarnedMoves
  <2> QED BY <2>1, <2>2
<1> QED BY <1>1, <1>2, <1>3, <1>4, <1>5 DEF ProcessNews

\* The worker around it, the scheduler and the clocks.
LEMMA WorkersEarn ==
    ASSUME NewsInv,
           \/ \E w \in Worker : Work(w)
           \/ \E j \in Job : Lapse(j) \/ Wake(j)
           \/ ReconcileJobs
    PROVE  EarnedMoves
<1>t. worker \in [Worker -> WorkerState] /\ step \in [Worker -> {"check", "start", "ingest", "follow", "finish", "ok", "error"}]
  BY NewsTypeParts DEF PartsOK, StepOK, NewsInv, TypeOK
<1>1. UNCHANGED <<event, followed, proc, outbox, plan, hand, retry>>
  BY DEF Work, stores, Lapse, Wake, ReconcileJobs, pipeline
<1>2. HandlersMove
  <2>1. ASSUME NEW w \in Worker, Work(w) PROVE HandlersMove
    <3>1. CASE Execute(w)
      <4>1. /\ step' = [step EXCEPT ![w] = "check"]
            /\ \A v \in Worker \ {w} : worker'[v] = worker[v]
        BY <1>t, <3>1 DEF Execute, To, ClaimAndExecute
      <4> QED BY <1>t, <4>1 DEF HandlersMove, Late
    <3>2. CASE BeatOrLose(w)
      <4>1. UNCHANGED step /\ \A v \in Worker : worker'[v].pc = worker[v].pc /\ worker'[v].job = worker[v].job
        BY <1>t, <3>2 DEF BeatOrLose, Beat, WorkerState
      <4> QED BY <4>1 DEF HandlersMove, Late
    <3>3. ASSUME Return(w) \/ LookForCancellation(w) \/ SettleJob(w) \/ (Crash(w) /\ UNCHANGED step)
          PROVE  UNCHANGED step /\ worker'[w].pc # "handling" /\ \A v \in Worker \ {w} : worker'[v] = worker[v]
      <4>1. CASE Return(w)
        <5> PICK b \in BOOLEAN : worker' = [worker EXCEPT ![w] =
                                    [@ EXCEPT !.pc = "returned", !.live = FALSE, !.failed = b]]
          BY <4>1 DEF Return, HandlerReturns
        <5> QED BY <1>t, <4>1 DEF Return, WorkerState
      <4>2. CASE LookForCancellation(w)
        BY <1>t, <4>2 DEF LookForCancellation, CheckCancellation, WorkerState
      <4>3. CASE SettleJob(w) \/ (Crash(w) /\ UNCHANGED step)
        BY <1>t, <4>3 DEF SettleJob, Settle, SettleCancellation, Crash, Idle
      <4> QED BY <3>3, <4>1, <4>2, <4>3
    <3>4. CASE Return(w) \/ LookForCancellation(w) \/ SettleJob(w) \/ (Crash(w) /\ UNCHANGED step)
      BY <3>3, <3>4 DEF HandlersMove, Late
    <3>5. \/ Execute(w) \/ BeatOrLose(w) \/ Return(w) \/ LookForCancellation(w) \/ SettleJob(w)
          \/ (Crash(w) /\ UNCHANGED step)
      BY <2>1, Zenon DEF Work
    <3> QED BY <3>1, <3>2, <3>4, <3>5
  <2>2. CASE ReconcileJobs \/ \E j \in Job : Lapse(j) \/ Wake(j)
    BY <2>2, RestEarns DEF Lapse, Wake, ReconcileJobs, Reconcile, pipeline
  <2> QED BY <2>1, <2>2
<1> QED BY <1>1, <1>2, RestEarns DEF EarnedMoves

\* Every step writes only what has happened.
LEMMA StepsEarn == NewsInv /\ IInv /\ EarnedInv /\ [NewsNext]_newsVars => EarnedMoves
<1> SUFFICES ASSUME NewsInv, IInv, EarnedInv, [NewsNext]_newsVars PROVE EarnedMoves
  OBVIOUS
<1>t. NewsTypeOK
  BY DEF NewsInv
<1>1. CASE UNCHANGED newsVars
  BY <1>1, RestEarns DEF newsVars, vars, pipeline, EarnedMoves
<1>2. CASE NewsNext
  BY <1>t, <1>2, StoresEarn, DispatchesEarn, RequestsEarn, HandlersEarn, WorkersEarn
     DEF NewsNext, DispatchStep
<1> QED BY <1>1, <1>2

\* Whatever overwrites what, through deaths, redeliveries, late marks, recoveries and
\* retries by hand: no status claims what has not happened.
THEOREM StatusesAreEarned == NewsSpec => []StatusIsEarned
<1>1. NewsInit => EarnedInv
  BY DEF NewsInit, Init, Idle, NoPlan, NoClaim, NoRetry, EarnedInv, InHand, StatusIsEarned, Late, Joined
<1>2. /\ NewsInv /\ NewsInv' /\ IInv /\ [Next]_vars /\ EarnedInv /\ [NewsNext]_newsVars => EarnedInv'
  <2> SUFFICES ASSUME NewsInv, NewsInv', IInv, [Next]_vars, EarnedInv, [NewsNext]_newsVars
               PROVE  EarnedInv'
    OBVIOUS
  <2> QED BY StepsEarn, EarnedKept DEF NewsInv, EarnedMoves
<1>3. EarnedInv => StatusIsEarned
  BY DEF EarnedInv
<1>4. NewsInv /\ [NewsNext]_newsVars => [Next]_vars
  BY StepsAreQueueSteps
<1> QED BY <1>1, <1>2, <1>3, <1>4, PipelineInvariant, PipelineUsesQueue, QueueInvariant, PTL DEF NewsSpec
===============================================================================
