-------------------------- MODULE ResearchRunsProofs --------------------------
(***************************************************************************)
(* Proofs about research runs, for any runs, assets, workers and requests: *)
(* what no old copy of a row, redelivery or lost key can do.               *)
(***************************************************************************)
EXTENDS ResearchRuns, TLAPS

\* A worker has the task id of its message, a request an asset run; a draft that
\* rules wrote is marked from the moment it exists.
ExecutionFits(p) ==
    exec[p].pc # "idle" =>
        /\ p \in Worker => exec[p].task \in Task
        /\ p \in Api => exec[p].run \in AssetRun
        /\ exec[p].pc \in {"finish", "follow"} => exec[p].draft \in {"llm", "rules"}
        /\ exec[p].draft = "rules" => exec[p].reason = "model"

\* A fresh task id is a task id.
LEMMA FreshIsTask == Spare # {} => Fresh \in Task
BY DEF Fresh, Spare

\* What the parts of the state that carry runs refer to.
LEMMA CopiesOfRuns ==
    ASSUME TypeOK
    PROVE  /\ \A p \in Proc : exec[p].pc # "idle" =>
                 /\ exec[p].run \in Run /\ exec[p].task \in Task \cup {NoTask}
                 /\ exec[p].reason \in Reason /\ exec[p].draft \in {"none", "llm", "rules"}
                 /\ exec[p] \in [pc : Steps, run : Run, task : Task \cup {NoTask}, leased : BOOLEAN,
                                 reason : Reason, draft : {"none", "llm", "rules"}]
           /\ recovery.pc # "idle" =>
                 /\ recovery.run \in Run /\ recovery.task \in Task /\ recovery.copy \in Rows
                 /\ recovery \in [pc : {"mark", "save", "publish"}, run : Run, task : Task,
                                  copy : Rows]
           /\ \A d \in sending : d.run \in Run /\ d.task \in Task /\ d.old \in Task \cup {NoTask}
           /\ \A m \in broker : m.run \in Run /\ m.task \in Task
           /\ \A r \in Run : row[r] \in Rows /\ row[r].task \in Task \cup {NoTask}
                             /\ row[r].reason \in Reason /\ row[r].st \in Status
<1>1. \A p \in Proc : exec[p].pc # "idle" =>
         exec[p] \in [pc : Steps, run : Run, task : Task \cup {NoTask}, leased : BOOLEAN,
                      reason : Reason, draft : {"none", "llm", "rules"}]
  BY DEF TypeOK, Executions, Idle
<1>2. recovery.pc # "idle" =>
         recovery \in [pc : {"mark", "save", "publish"}, run : Run, task : Task, copy : Rows]
  BY DEF TypeOK, Rescues, NoRescue
<1>3. \A d \in sending : d.run \in Run /\ d.task \in Task /\ d.old \in Task \cup {NoTask}
  BY DEF TypeOK, Dispatches
<1>4. \A m \in broker : m.run \in Run /\ m.task \in Task
  BY DEF TypeOK, Messages
<1>5. \A r \in Run : row[r] \in Rows /\ row[r].task \in Task \cup {NoTask}
                     /\ row[r].reason \in Reason /\ row[r].st \in Status
  BY DEF TypeOK, Rows
<1> QED BY <1>1, <1>2, <1>3, <1>4, <1>5

\* What save_run and save_event_research_run do to the rows (storage.py).
LEMMA SaveWritesOne ==
    ASSUME TypeOK, NEW r \in Run, NEW st \in Status, NEW task \in Task \cup {NoTask},
           NEW reason \in Reason, Save(r, st, task, reason)
    PROVE  /\ row' \in [Run -> Rows] /\ revived' \subseteq AssetRun /\ revived \subseteq revived'
           /\ \A q \in Run \ {r} : row'[q] = row[q]
           /\ row[r].st = "cancelled" => row'[r] = row[r]
           /\ row[r].st # "cancelled" => row'[r].st = st
           /\ r \in AssetRun /\ row[r].st \in Settled /\ st \in Active => r \in revived'
<1>1. CASE row[r].st = "cancelled"
  BY <1>1 DEF Save, TypeOK, Settled
<1>2. CASE row[r].st # "cancelled"
  <2>1. row' = [row EXCEPT ![r] = [row[r] EXCEPT !.st = st, !.task = task, !.reason = reason,
                                                 !.lapsed = FALSE]]
    BY <1>2 DEF Save
  <2>2. [row[r] EXCEPT !.st = st, !.task = task, !.reason = reason, !.lapsed = FALSE] \in Rows
    BY DEF TypeOK, Rows
  <2>3. row' \in [Run -> Rows] /\ row'[r].st = st /\ \A q \in Run \ {r} : row'[q] = row[q]
    BY <2>1, <2>2 DEF TypeOK, Rows
  <2>4. revived' = IF r \in AssetRun /\ row[r].st \in Settled /\ st \in Active
                   THEN revived \cup {r} ELSE revived
    BY <1>2 DEF Save
  <2> QED BY <1>2, <2>3, <2>4 DEF TypeOK
<1> QED BY <1>1, <1>2

LEMMA InsertWritesOne ==
    ASSUME TypeOK, NEW r \in Run, NEW st \in Status, NEW task \in Task \cup {NoTask},
           Insert(r, st, task)
    PROVE  /\ row' \in [Run -> Rows] /\ revived' = revived
           /\ \A q \in Run \ {r} : row'[q] = row[q]
           /\ row'[r].st = st
BY DEF Insert, TypeOK, Rows, NoRow, Reason

LEMMA Counters ==
    ASSUME TypeOK
    PROVE  /\ Request => requests' \in 0 .. MaxRequests /\ requests' # requests
           /\ Upset => upsets' \in 0 .. MaxUpsets
BY Bounds DEF Request, Upset, TypeOK

\* Sending a run keeps the types of the dispatches.
LEMMA SendTypes ==
    ASSUME TypeOK, NEW r \in Run, NEW pc \in {"save", "mark"}, NEW old \in Task \cup {NoTask},
           Spare # {}, Send(pc, r, old)
    PROVE  sending' \subseteq Dispatches
<1>1. Fresh \in Task /\ row[r].st \in Status
  BY FreshIsTask, CopiesOfRuns
<1>2. [pc |-> pc, run |-> r, task |-> Fresh, back |-> row[r].st, old |-> old] \in Dispatches
  BY <1>1 DEF Dispatches
<1> QED BY <1>2 DEF Send, TypeOK

\* An execution that starts or goes on keeps its types.
LEMMA AdvanceTypes ==
    ASSUME TypeOK, NEW p \in Proc, NEW from \in Steps, NEW to \in Steps \cup {"idle"},
           NEW st \in Status, NEW reason \in Reason, NEW draft \in {"none", "llm", "rules"},
           Advance(p, from, to, st, reason, draft)
    PROVE  /\ exec[p].run \in Run /\ exec[p].task \in Task \cup {NoTask}
           /\ exec' \in [Proc -> Executions]
           /\ Save(exec[p].run, st, exec[p].task, reason)
           /\ TypeOK'
<1>1. exec[p].pc # "idle"
  BY DEF Advance, Steps
<1>2. /\ exec[p].run \in Run /\ exec[p].task \in Task \cup {NoTask}
      /\ exec[p] \in [pc : Steps, run : Run, task : Task \cup {NoTask}, leased : BOOLEAN,
                      reason : Reason, draft : {"none", "llm", "rules"}]
  BY <1>1, CopiesOfRuns
<1>3. Save(exec[p].run, st, exec[p].task, reason)
  BY DEF Advance
<1>4. row' \in [Run -> Rows] /\ revived' \subseteq AssetRun
  BY <1>2, <1>3, SaveWritesOne
<1>5. exec' \in [Proc -> Executions]
  <2>1. exec' = [exec EXCEPT ![p] = IF to = "idle" THEN Idle
                   ELSE [exec[p] EXCEPT !.pc = to, !.reason = reason, !.draft = draft]]
    BY DEF Advance
  <2>2. to # "idle" =>
           [exec[p] EXCEPT !.pc = to, !.reason = reason, !.draft = draft] \in Executions
    BY <1>2 DEF Executions
  <2> QED BY <2>1, <2>2 DEF TypeOK, Executions
<1> QED BY <1>2, <1>3, <1>4, <1>5 DEF Advance, TypeOK, redis

\* A delivery changes one worker, or none.
LEMMA DeliverStartsOne ==
    ASSUME TypeOK, NEW w \in Worker, NEW m \in broker, Deliver(w, m)
    PROVE  /\ \A q \in Proc : q # w => exec'[q] = exec[q]
           /\ \/ exec' = exec /\ UNCHANGED <<row, revived>>
              \/ /\ exec'[w].pc = "lease" /\ exec'[w].run = m.run /\ exec'[w].task = m.task
                 /\ exec'[w].leased = FALSE /\ exec[w].pc = "idle"
                 /\ Save(m.run, "running", row[m.run].task, row[m.run].reason)
<1>1. PICK e : e = [Idle EXCEPT !.pc = "lease", !.run = m.run, !.task = m.task,
                                !.reason = row[m.run].reason]
  OBVIOUS
<1>2. e.pc = "lease" /\ e.run = m.run /\ e.task = m.task /\ e.leased = FALSE
  BY <1>1 DEF Idle
<1>3. \/ exec' = exec /\ UNCHANGED <<row, revived>>
      \/ /\ exec' = [exec EXCEPT ![w] = e] /\ exec[w].pc = "idle"
         /\ Save(m.run, "running", row[m.run].task, row[m.run].reason)
  BY <1>1, Zenon DEF Deliver
<1>4. exec \in [Proc -> Executions] /\ w \in Proc
  BY DEF TypeOK, Proc
<1>5. CASE exec' = exec /\ UNCHANGED <<row, revived>>
  BY <1>5
<1>6. CASE /\ exec' = [exec EXCEPT ![w] = e] /\ exec[w].pc = "idle"
           /\ Save(m.run, "running", row[m.run].task, row[m.run].reason)
  <2>1. exec'[w] = e /\ \A q \in Proc : q # w => exec'[q] = exec[q]
    BY <1>4, <1>6
  <2> QED BY <1>2, <1>6, <2>1
<1> QED BY <1>3, <1>5, <1>6

\* The end of an execution.
LEMMA LeaveTypes ==
    ASSUME TypeOK, NEW p \in Proc, exec[p].pc # "idle", Leave(p)
    PROVE  /\ exec' \in [Proc -> Executions]
           /\ lease' \in [Run -> BOOLEAN] /\ gap' \subseteq Run
<1>1. exec[p].run \in Run
  BY CopiesOfRuns
<1>2. exec' \in [Proc -> Executions]
  BY DEF Leave, TypeOK, Executions
<1>3. lease' \in [Run -> BOOLEAN]
  BY <1>1 DEF Leave, TypeOK
<1>4. gap' \subseteq Run
  BY <1>1 DEF Leave, TypeOK
<1> QED BY <1>2, <1>3, <1>4

\* Requests and admissions.
LEMMA TypesOfRequests ==
    ASSUME TypeOK, NEW r \in Run,
           \/ r \in AssetRun /\ (Admit(r) \/ Coalesce(r) \/ \E p \in Api : Reserve(p, r))
           \/ AdmitEvent(r) \/ RetryEvent(r)
    PROVE  TypeOK'
<1> USE DEF redis, ghosts
<1>1. CASE Admit(r) \/ AdmitEvent(r)
  <2>1. /\ Spare # {} /\ Insert(r, "queued", Fresh) /\ Send("mark", r, NoTask)
        /\ requests' \in 0 .. MaxRequests
        /\ UNCHANGED <<redis, recovery, exec, orders, upsets, gap, stranded>>
    BY <1>1, Counters DEF Admit, AdmitEvent
  <2>2. Fresh \in Task /\ "queued" \in Status
    BY <2>1, FreshIsTask DEF Status, Active
  <2>3. row' \in [Run -> Rows] /\ revived' = revived
    BY <2>1, <2>2, InsertWritesOne
  <2>4. sending' \subseteq Dispatches
    BY <2>1, SendTypes
  <2> QED BY <2>1, <2>3, <2>4 DEF TypeOK
<1>2. CASE Coalesce(r)
  <2>1. PICK q \in AssetRun : Insert(r, "coalesced", row[q].task)
    BY <1>2 DEF Coalesce, ActiveOn
  <2>2. row[q].task \in Task \cup {NoTask} /\ "coalesced" \in Status
    BY CopiesOfRuns DEF Run, Status, Settled
  <2>3. row' \in [Run -> Rows] /\ revived' = revived
    BY <2>1, <2>2, InsertWritesOne
  <2> QED BY <1>2, <2>3, Counters DEF Coalesce, TypeOK
<1>3. ASSUME NEW p \in Api, Reserve(p, r) PROVE TypeOK'
  <2>1. "queued" \in Status
    BY DEF Status, Active
  <2>2. row' \in [Run -> Rows] /\ revived' = revived
    BY <1>3, <2>1, InsertWritesOne DEF Reserve
  <2>3. [Idle EXCEPT !.pc = "draft", !.run = r] \in Executions
    BY DEF Executions, Idle, Steps, Reason
  <2>4. exec' \in [Proc -> Executions]
    BY <1>3, <2>3 DEF Reserve, TypeOK
  <2> QED BY <1>3, <2>2, <2>4, Counters DEF Reserve, TypeOK
<1>4. CASE RetryEvent(r)
  <2>1. /\ Spare # {} /\ Send("save", r, row[r].task) /\ requests' \in 0 .. MaxRequests
        /\ UNCHANGED <<row, redis, recovery, exec, orders, upsets, ghosts>>
    BY <1>4, Counters DEF RetryEvent
  <2>2. sending' \subseteq Dispatches
    BY <2>1, SendTypes, CopiesOfRuns
  <2> QED BY <2>1, <2>2 DEF TypeOK
<1> QED BY <1>1, <1>2, <1>3, <1>4

\* Dispatches.
LEMMA TypesOfDispatches ==
    ASSUME TypeOK, NEW d \in sending, Dispatch(d) \/ PublishFails(d) \/ DispatcherDies(d)
    PROVE  TypeOK'
<1> USE DEF redis, ghosts
<1>1. /\ d.run \in Run /\ d.task \in Task /\ d.old \in Task \cup {NoTask} /\ d \in Dispatches
      /\ row[d.run].reason \in Reason
  BY CopiesOfRuns DEF TypeOK
<1>2. {"queued", "completed", "failed"} \subseteq Status /\ "none" \in Reason
  BY DEF Status, Active, Settled, Reason
<1>3. ASSUME NEW pc \in {"mark", "publish"} PROVE [d EXCEPT !.pc = pc] \in Dispatches
  BY <1>1 DEF Dispatches
<1>4. CASE ResetEvent(d)
  <2>1. row' \in [Run -> Rows] /\ revived' \subseteq AssetRun
    BY <1>1, <1>2, <1>4, SaveWritesOne DEF ResetEvent
  <2>2. sending' \subseteq Dispatches
    BY <1>3, <1>4 DEF ResetEvent, TypeOK
  <2> QED BY <1>4, <2>1, <2>2 DEF ResetEvent, TypeOK
<1>5. CASE RecordDispatch(d)
  <2>1. sending' \subseteq Dispatches
    BY <1>3, <1>5 DEF RecordDispatch, TypeOK
  <2>2. marker' \in [Run -> Task \cup {NoTask}] /\ upsets' \in 0 .. MaxUpsets
    BY <1>1, <1>5, Counters DEF RecordDispatch, TypeOK
  <2> QED BY <1>5, <2>1, <2>2 DEF RecordDispatch, TypeOK
<1>6. CASE PublishRun(d)
  <2>1. Message(d.run, d.task) \in Messages
    BY <1>1 DEF Message, Messages
  <2> QED BY <1>1, <1>6, <2>1 DEF PublishRun, TypeOK
<1>7. CASE PublishFails(d)
  <2>1. row' \in [Run -> Rows] /\ revived' \subseteq AssetRun
    BY <1>1, <1>2, <1>7, SaveWritesOne DEF PublishFails
  <2>2. marker' \in [Run -> Task \cup {NoTask}]
    BY <1>1, <1>7 DEF PublishFails, ClearMarker, TypeOK
  <2> QED BY <1>7, <2>1, <2>2, Counters DEF PublishFails, TypeOK
<1>8. CASE DispatcherDies(d)
  BY <1>1, <1>8, Counters DEF DispatcherDies, TypeOK
<1> QED BY <1>4, <1>5, <1>6, <1>7, <1>8 DEF Dispatch

\* Workers and requests that execute a run.
LEMMA TypesOfExecutions ==
    ASSUME TypeOK, NEW p \in Proc, ExecutionFits(p),
           \/ Execute(p) \/ EngineFails(p) \/ ProcessDies(p)
           \/ p \in Worker /\ (HeartbeatLease(p) \/ \E m \in broker : Deliver(p, m))
    PROVE  TypeOK'
<1> USE DEF redis, ghosts
<1>1. {"queued", "running", "completed", "failed"} \subseteq Status
      /\ {"none", "model", "time"} \subseteq Reason
  BY DEF Status, Active, Settled, Reason
<1>2. exec[p].pc # "idle" =>
        /\ exec[p].run \in Run /\ exec[p].task \in Task \cup {NoTask}
        /\ exec[p].reason \in Reason /\ exec[p].draft \in {"none", "llm", "rules"}
        /\ exec[p] \in [pc : Steps, run : Run, task : Task \cup {NoTask}, leased : BOOLEAN,
                        reason : Reason, draft : {"none", "llm", "rules"}]
  BY CopiesOfRuns
<1>3. CASE TakeLease(p)
  <2>1. exec' \in [Proc -> Executions]
    BY <1>2, <1>3 DEF TakeLease, TypeOK, Executions, Steps
  <2>2. lease' \in [Run -> BOOLEAN] /\ gap' \subseteq Run /\ upsets' \in 0 .. MaxUpsets
    BY <1>2, <1>3, Counters DEF TakeLease, TypeOK
  <2> QED BY <1>3, <2>1, <2>2 DEF TakeLease, TypeOK
<1>4. CASE HeartbeatLease(p)
  <2>1. lease' \in [Run -> BOOLEAN] /\ gap' \subseteq Run
    BY <1>4 DEF HeartbeatLease, TypeOK
  <2> QED BY <1>4, <2>1 DEF HeartbeatLease, TypeOK
<1>5. CASE Draft(p)
  <2>1. PICK reason \in Reason, draft \in {"llm", "rules"} :
          Advance(p, "draft", "finish", "running", reason, draft)
    <3>1. exec[p].pc # "idle"
      BY <1>5 DEF Draft, Advance
    <3> QED BY <1>1, <1>2, <1>5, <3>1 DEF Draft
  <2> QED BY <1>1, <2>1, AdvanceTypes DEF Steps
<1>6. CASE Finish(p)
  <2>1. exec[p].pc # "idle"
    BY <1>6 DEF Finish, Advance
  <2>2. (IF p \in Api THEN "idle" ELSE "follow") \in Steps \cup {"idle"}
    BY DEF Steps
  <2> QED BY <1>1, <1>2, <1>6, <2>1, <2>2, AdvanceTypes DEF Finish, Steps
<1>7. CASE Follow(p)
  <2>1. /\ exec[p].pc # "idle" /\ Leave(p)
        /\ UNCHANGED <<row, marker, broker, sending, recovery, requests, upsets, stranded, revived>>
    BY <1>7 DEF Follow
  <2>2. exec' \in [Proc -> Executions] /\ lease' \in [Run -> BOOLEAN] /\ gap' \subseteq Run
    BY <2>1, LeaveTypes
  <2>3. orders' \in [Run -> SUBSET {"llm", "rules"}]
    <3>1. CASE UNCHANGED orders
      BY <3>1 DEF TypeOK
    <3>2. CASE orders' # orders
      <4>1. /\ orders' = [orders EXCEPT ![exec[p].run] = orders[exec[p].run] \cup {exec[p].draft}]
            /\ exec[p].draft \in {"llm", "rules"}
        BY <1>7, <3>2 DEF Follow, ExecutionFits
      <4> QED BY <1>2, <2>1, <4>1 DEF TypeOK
    <3> QED BY <3>1, <3>2
  <2> QED BY <2>1, <2>2, <2>3 DEF TypeOK
<1>8. CASE EngineFails(p)
  <2>1. /\ exec[p].pc # "idle" /\ Leave(p) /\ upsets' \in 0 .. MaxUpsets
        /\ UNCHANGED <<marker, sending, recovery, orders, requests>>
    BY <1>8, Counters DEF EngineFails
  <2>2. PICK r \in Run : r = exec[p].run
    BY <1>2, <2>1
  <2>3. row[r].task \in Task \cup {NoTask} /\ row[r].reason \in Reason
    BY CopiesOfRuns
  <2>4. \E st \in {"queued", "failed"}, reason \in Reason : Save(r, st, row[r].task, reason)
    BY <1>1, <1>8, <2>2, <2>3 DEF EngineFails
  <2>5. row' \in [Run -> Rows] /\ revived' \subseteq AssetRun
    BY <1>1, <2>3, <2>4, SaveWritesOne
  <2>6. broker' \subseteq Messages /\ stranded' \subseteq Run
    <3>1. r \in EventRun => exec[p].task \in Task
      BY <2>1, <2>2, RunKinds DEF ExecutionFits, Proc
    <3>2. exec[p].task \in Task => Message(r, exec[p].task) \in Messages
      BY DEF Message, Messages
    <3> QED BY <1>8, <2>2, <3>1, <3>2 DEF EngineFails, TypeOK
  <2>7. exec' \in [Proc -> Executions] /\ lease' \in [Run -> BOOLEAN] /\ gap' \subseteq Run
    BY <2>1, LeaveTypes
  <2> QED BY <2>1, <2>5, <2>6, <2>7 DEF TypeOK
<1>9. CASE ProcessDies(p)
  <2>1. exec' \in [Proc -> Executions] /\ upsets' \in 0 .. MaxUpsets
    BY <1>9, Counters DEF ProcessDies, TypeOK, Executions
  <2>2. broker' \subseteq Messages
    <3>1. p \in Worker => Message(exec[p].run, exec[p].task) \in Messages
      BY <1>2, <1>9 DEF ProcessDies, ExecutionFits, Message, Messages
    <3> QED BY <1>9, <3>1 DEF ProcessDies, TypeOK
  <2> QED BY <1>9, <2>1, <2>2 DEF ProcessDies, TypeOK
<1>10. ASSUME NEW m \in broker, Deliver(p, m) PROVE TypeOK'
  <2>1. /\ m.run \in Run /\ m.task \in Task /\ row[m.run].task \in Task \cup {NoTask}
        /\ row[m.run].reason \in Reason
    BY CopiesOfRuns
  <2>2. broker' \subseteq Messages /\ stranded' \subseteq Run
    BY <1>10, <2>1 DEF Deliver, TypeOK
  <2>3. row' \in [Run -> Rows] /\ revived' \subseteq AssetRun /\ exec' \in [Proc -> Executions]
    <3>1. CASE UNCHANGED <<row, revived, exec>>
      BY <3>1 DEF TypeOK
    <3>2. CASE /\ Save(m.run, "running", row[m.run].task, row[m.run].reason)
               /\ exec' = [exec EXCEPT ![p] = [Idle EXCEPT !.pc = "lease", !.run = m.run,
                                               !.task = m.task, !.reason = row[m.run].reason]]
      <4>1. [Idle EXCEPT !.pc = "lease", !.run = m.run, !.task = m.task,
                         !.reason = row[m.run].reason] \in Executions
        BY <2>1 DEF Executions, Idle, Steps
      <4> QED BY <1>1, <2>1, <3>2, <4>1, SaveWritesOne DEF TypeOK
    <3> QED BY <1>10, <3>1, <3>2 DEF Deliver
  <2> QED BY <1>10, <2>2, <2>3 DEF Deliver, TypeOK
<1> QED
  BY <1>3, <1>4, <1>5, <1>6, <1>7, <1>8, <1>9, <1>10 DEF Execute

\* Beat, the recovery and the commands of users.
LEMMA TypesOfOthers ==
    ASSUME TypeOK,
           \/ \E r \in Run : LeaseExpires(r) \/ Reconcile(r) \/ Rescue(r) \/ CancelRun(r)
                             \/ RevokeRun(r)
           \/ \E q, r \in AssetRun : Compact(q, r)
           \/ Rescuing \/ PurgeQueue \/ RedisIsLost
    PROVE  TypeOK'
<1> USE DEF redis, ghosts
<1>1. {"queued", "running", "completed", "failed", "coalesced", "cancelled"} \subseteq Status
      /\ {"none", "model", "time"} \subseteq Reason
  BY DEF Status, Active, Settled, Reason
<1>2. ASSUME NEW r \in Run, LeaseExpires(r) PROVE TypeOK'
  BY <1>2 DEF LeaseExpires, TypeOK
<1>3. ASSUME NEW r \in Run, Reconcile(r) PROVE TypeOK'
  <2>1. row' \in [Run -> Rows]
    <3>1. row[r] \in Rows
      BY DEF TypeOK
    <3>2. /\ [row[r] EXCEPT !.st = "queued", !.reason = "none", !.lapsed = TRUE] \in Rows
          /\ [row[r] EXCEPT !.st = "failed", !.reason = "time"] \in Rows
      BY <1>1, <3>1 DEF Rows
    <3>3. \/ row' = [row EXCEPT ![r] = [row[r] EXCEPT !.st = "queued", !.reason = "none",
                                                     !.lapsed = TRUE]]
          \/ row' = [row EXCEPT ![r] = [row[r] EXCEPT !.st = "failed", !.reason = "time"]]
      BY <1>3 DEF Reconcile, TypeOK
    <3> QED BY <3>2, <3>3 DEF TypeOK
  <2> QED BY <1>3, <2>1 DEF Reconcile, TypeOK
<1>4. ASSUME NEW r \in Run, Rescue(r) PROVE TypeOK'
  <2>1. Fresh \in Task /\ row[r] \in Rows
    BY <1>4, FreshIsTask DEF Rescue, TypeOK
  <2>2. recovery' \in Rescues
    BY <1>4, <2>1 DEF Rescue, Rescues
  <2> QED BY <1>4, <2>2 DEF Rescue, TypeOK
<1>5. ASSUME NEW r \in Run, CancelRun(r) PROVE TypeOK'
  <2>1. row' \in [Run -> Rows]
    <3>1. row[r] \in Rows
      BY DEF TypeOK
    <3>2. [row[r] EXCEPT !.st = "cancelled", !.reason = "none", !.lapsed = FALSE] \in Rows
      BY <1>1, <3>1 DEF Rows
    <3>3. row' = [row EXCEPT ![r] = [row[r] EXCEPT !.st = "cancelled", !.reason = "none",
                                                   !.lapsed = FALSE]]
      BY <1>5 DEF CancelRun, TypeOK
    <3> QED BY <3>2, <3>3 DEF TypeOK
  <2> QED BY <1>5, <2>1, Counters DEF CancelRun, TypeOK
<1>6. ASSUME NEW r \in Run, RevokeRun(r) PROVE TypeOK'
  BY <1>6 DEF RevokeRun, TypeOK, Executions
<1>7. ASSUME NEW q \in AssetRun, NEW r \in AssetRun, Compact(q, r) PROVE TypeOK'
  BY <1>1, <1>7 DEF Compact, TypeOK, Rows, Run
<1>8. CASE Rescuing
  <2>1. /\ recovery.run \in Run /\ recovery.task \in Task /\ recovery.copy \in Rows
        /\ recovery \in [pc : {"mark", "save", "publish"}, run : Run, task : Task, copy : Rows]
    <3>1. recovery.pc # "idle"
      BY <1>8 DEF Rescuing, RescueMarks, RescueSaves, RescuePublishes
    <3> QED BY <3>1, CopiesOfRuns
  <2>2. recovery.copy.task \in Task \cup {NoTask} /\ recovery.copy.reason \in Reason
    BY <2>1 DEF Rows
  <2>3. CASE RescueMarks
    <3>1. recovery' \in Rescues
      BY <2>1, <2>3 DEF RescueMarks, Rescues
    <3>2. marker' \in [Run -> Task \cup {NoTask}] /\ upsets' \in 0 .. MaxUpsets
      BY <2>1, <2>3, Counters DEF RescueMarks, TypeOK
    <3> QED BY <2>3, <3>1, <3>2 DEF RescueMarks, TypeOK
  <2>4. CASE RescueSaves
    <3>1. recovery' \in Rescues
      BY <2>1, <2>4 DEF RescueSaves, Rescues
    <3>2. row' \in [Run -> Rows] /\ revived' \subseteq AssetRun
      BY <1>1, <2>1, <2>2, <2>4, SaveWritesOne DEF RescueSaves
    <3> QED BY <2>4, <3>1, <3>2 DEF RescueSaves, TypeOK
  <2>5. CASE RescuePublishes
    <3>1. recovery' \in Rescues
      BY <2>5 DEF RescuePublishes, Rescues
    <3>2. row' \in [Run -> Rows] /\ revived' \subseteq AssetRun
      <4>1. CASE Save(recovery.run, "queued", recovery.copy.task, recovery.copy.reason)
        BY <1>1, <2>1, <2>2, <4>1, SaveWritesOne
      <4>2. CASE UNCHANGED <<row, revived>>
        BY <4>2 DEF TypeOK
      <4> QED BY <2>5, <4>1, <4>2 DEF RescuePublishes
    <3>3. /\ marker' \in [Run -> Task \cup {NoTask}] /\ upsets' \in 0 .. MaxUpsets
          /\ stranded' \subseteq Run
      BY <2>1, <2>5, Counters DEF RescuePublishes, ClearMarker, TypeOK
    <3>4. Message(recovery.run, recovery.task) \in Messages
      BY <2>1 DEF Message, Messages
    <3>5. broker' \subseteq Messages
      BY <2>5, <3>4 DEF RescuePublishes, TypeOK
    <3> QED BY <2>5, <3>1, <3>2, <3>3, <3>5 DEF RescuePublishes, TypeOK
  <2> QED BY <1>8, <2>3, <2>4, <2>5 DEF Rescuing
<1>9. CASE PurgeQueue
  BY <1>9, CopiesOfRuns, Counters DEF PurgeQueue, TypeOK
<1>10. CASE RedisIsLost
  BY <1>10, Counters DEF RedisIsLost, TypeOK
<1> QED
  BY <1>2, <1>3, <1>4, <1>5, <1>6, <1>7, <1>8, <1>9, <1>10

LEMMA TypesStay ==
    ASSUME TypeOK, \A p \in Proc : ExecutionFits(p), [Next]_runVars
    PROVE  TypeOK'
<1>1. CASE UNCHANGED runVars
  BY <1>1 DEF runVars, redis, ghosts, TypeOK
<1>2. CASE Next
  BY <1>2, TypesOfRequests, TypesOfDispatches, TypesOfExecutions, TypesOfOthers
     DEF Next, Run, Proc
<1> QED BY <1>1, <1>2

\* What a step does to an execution keeps it fit.
LEMMA ExecutionsStayFit ==
    ASSUME TypeOK, \A p \in Proc : ExecutionFits(p), [Next]_runVars
    PROVE  \A p \in Proc : ExecutionFits(p)'
<1> USE DEF redis, ghosts
<1> SUFFICES ASSUME NEW p \in Proc PROVE ExecutionFits(p)'
  OBVIOUS
<1>1. CASE exec'[p] = exec[p]
  BY <1>1 DEF ExecutionFits
<1>2. CASE exec'[p] = Idle
  BY <1>2 DEF ExecutionFits, Idle
<1>3. CASE exec[p].pc # "idle" /\ TakeLease(p)
  <2>1. exec'[p] = [exec[p] EXCEPT !.pc = "draft", !.leased = TRUE]
        \/ exec'[p] = [exec[p] EXCEPT !.pc = "draft"]
    BY <1>3 DEF TakeLease, TypeOK
  <2>2. exec[p] \in [pc : Steps, run : Run, task : Task \cup {NoTask}, leased : BOOLEAN,
                     reason : Reason, draft : {"none", "llm", "rules"}]
    BY <1>3, CopiesOfRuns
  <2> QED BY <1>3, <2>1, <2>2 DEF ExecutionFits
<1>4. ASSUME exec[p].pc # "idle", NEW from \in Steps, NEW to \in {"finish", "follow", "idle"},
             NEW st \in Status, NEW reason \in Reason, NEW draft \in {"llm", "rules"},
             draft = "rules" => reason = "model", Advance(p, from, to, st, reason, draft)
      PROVE  ExecutionFits(p)'
  <2>1. exec[p] \in [pc : Steps, run : Run, task : Task \cup {NoTask}, leased : BOOLEAN,
                     reason : Reason, draft : {"none", "llm", "rules"}]
    BY <1>4, CopiesOfRuns
  <2>2. exec'[p] = IF to = "idle" THEN Idle
                   ELSE [exec[p] EXCEPT !.pc = to, !.reason = reason, !.draft = draft]
    BY <1>4 DEF Advance, TypeOK
  <2>3. CASE to = "idle"
    BY <1>2, <2>2, <2>3
  <2>4. CASE to # "idle"
    BY <1>4, <2>1, <2>2, <2>4 DEF ExecutionFits
  <2> QED BY <2>3, <2>4
<1>5. CASE Draft(p)
  <2>1. exec[p].pc # "idle" /\ "draft" \in Steps /\ "running" \in Status /\ "model" \in Reason
    BY <1>5 DEF Draft, Advance, Steps, Status, Active, Reason
  <2>2. exec[p].reason \in Reason
    BY <2>1, CopiesOfRuns
  <2> QED BY <1>4, <1>5, <2>1, <2>2 DEF Draft
<1>6. CASE Finish(p)
  <2>1. exec[p].pc = "finish" /\ "finish" \in Steps /\ "completed" \in Status
    BY <1>6 DEF Finish, Advance, Steps, Status, Settled
  <2>2. /\ exec[p].reason \in Reason /\ exec[p].draft \in {"llm", "rules"}
        /\ exec[p].draft = "rules" => exec[p].reason = "model"
    BY <2>1, CopiesOfRuns DEF ExecutionFits
  <2> QED BY <1>4, <1>6, <2>1, <2>2 DEF Finish
<1>7. ASSUME p \in Worker, NEW m \in broker, Deliver(p, m) PROVE ExecutionFits(p)'
  <2>1. m.task \in Task
    BY CopiesOfRuns
  <2>2. \/ exec'[p] = exec[p]
        \/ exec'[p] = [Idle EXCEPT !.pc = "lease", !.run = m.run, !.task = m.task,
                                   !.reason = row[m.run].reason]
    BY <1>7 DEF Deliver, TypeOK
  <2> QED BY <1>1, <1>7, <2>1, <2>2, Processes DEF ExecutionFits, Idle
<1>8. ASSUME NEW r \in AssetRun, p \in Api, Reserve(p, r) PROVE ExecutionFits(p)'
  <2>1. exec'[p] = [Idle EXCEPT !.pc = "draft", !.run = r]
    BY <1>8 DEF Reserve, TypeOK
  <2> QED BY <1>8, <2>1, Processes DEF ExecutionFits, Idle
<1>9. ASSUME NEW q \in Proc, q # p, Execute(q) \/ EngineFails(q) \/ ProcessDies(q)
      PROVE  exec'[p] = exec[p]
  BY <1>9 DEF Execute, TakeLease, Draft, Finish, Advance, Follow, EngineFails, Leave, ProcessDies,
              TypeOK
<1>10. EngineFails(p) \/ ProcessDies(p) \/ Follow(p) => exec'[p] = Idle
  BY DEF EngineFails, ProcessDies, Follow, Leave, TypeOK
<1>11. TakeLease(p) => exec[p].pc # "idle"
  BY DEF TakeLease
<1>12. ASSUME NEW q \in Proc, Execute(q) \/ EngineFails(q) \/ ProcessDies(q)
       PROVE  ExecutionFits(p)'
  BY <1>1, <1>2, <1>3, <1>5, <1>6, <1>9, <1>10, <1>11, <1>12 DEF Execute
<1>13. ASSUME NEW w \in Worker, HeartbeatLease(w) \/ \E m \in broker : Deliver(w, m)
       PROVE  ExecutionFits(p)'
  <2>1. CASE HeartbeatLease(w)
    BY <1>1, <2>1 DEF HeartbeatLease
  <2>2. ASSUME NEW m \in broker, Deliver(w, m) PROVE ExecutionFits(p)'
    <3>1. w # p => exec'[p] = exec[p]
      BY <2>2, DeliverStartsOne
    <3> QED BY <1>1, <1>7, <2>2, <3>1
  <2> QED BY <1>13, <2>1, <2>2
<1>14. ASSUME NEW r \in AssetRun, NEW q \in Api, Reserve(q, r) PROVE ExecutionFits(p)'
  <2>1. q # p => exec'[p] = exec[p]
    BY <1>14 DEF Reserve, TypeOK
  <2> QED BY <1>1, <1>8, <1>14, <2>1
<1>15. ASSUME NEW r \in Run, RevokeRun(r) PROVE ExecutionFits(p)'
  BY <1>1, <1>2, <1>15 DEF RevokeRun
<1>16. CASE UNCHANGED exec
  BY <1>1, <1>16
<1>17. ASSUME NEW r \in Run, Admit(r) \/ Coalesce(r) \/ AdmitEvent(r) \/ RetryEvent(r)
                             \/ LeaseExpires(r) \/ Reconcile(r) \/ Rescue(r) \/ CancelRun(r)
       PROVE  UNCHANGED exec
  BY <1>17 DEF Admit, Coalesce, AdmitEvent, RetryEvent, LeaseExpires, Reconcile, Rescue, CancelRun
<1>18. ASSUME NEW d \in sending, Dispatch(d) \/ PublishFails(d) \/ DispatcherDies(d)
       PROVE  UNCHANGED exec
  BY <1>18 DEF Dispatch, ResetEvent, RecordDispatch, PublishRun, PublishFails, DispatcherDies
<1>19. ASSUME NEW q \in AssetRun, NEW r \in AssetRun, Compact(q, r) PROVE UNCHANGED exec
  BY <1>19 DEF Compact
<1>20. Rescuing \/ PurgeQueue \/ RedisIsLost \/ UNCHANGED runVars => UNCHANGED exec
  BY DEF Rescuing, RescueMarks, RescueSaves, RescuePublishes, PurgeQueue, RedisIsLost, runVars
<1> QED
  BY <1>12, <1>13, <1>14, <1>15, <1>16, <1>17, <1>18, <1>19, <1>20 DEF Next, Run, Proc

\* What has been let in stays in: nothing refers to a run without a row.
Inserted ==
    /\ \A m \in broker : row[m.run].st # "absent"
    /\ \A d \in sending : row[d.run].st # "absent"
    /\ \A p \in Proc : exec[p].pc # "idle" => row[exec[p].run].st # "absent"
    /\ recovery.pc # "idle" => row[recovery.run].st # "absent"

\* What a step may do to a row: a cancelled one stays, none disappears, and an asset
\* run becomes active if it is let in where none is, or is brought back.
RowMoves(r) ==
    /\ row[r].st = "cancelled" => row'[r].st = "cancelled"
    /\ row[r].st # "absent" => row'[r].st # "absent"
    /\ r \in AssetRun /\ row'[r].st \in Active /\ row[r].st \notin Active =>
         \/ r \in revived'
         \/ ActiveOn(AssetOf[r]) = {} /\ \A q \in Run \ {r} : row'[q] = row[q]

RowsMove == revived \subseteq revived' /\ \A r \in Run : RowMoves(r)

LEMMA SaveMoves ==
    ASSUME TypeOK, NEW r \in Run, NEW st \in Status \ {"absent"}, NEW task \in Task \cup {NoTask},
           NEW reason \in Reason, row[r].st # "absent", Save(r, st, task, reason)
    PROVE  RowsMove
<1>1. /\ revived \subseteq revived'
      /\ \A q \in Run \ {r} : row'[q] = row[q]
      /\ row[r].st = "cancelled" => row'[r] = row[r]
      /\ row[r].st # "cancelled" => row'[r].st = st
      /\ r \in AssetRun /\ row[r].st \in Settled /\ st \in Active => r \in revived'
  BY SaveWritesOne
<1>2. row[r].st \in Status
  BY CopiesOfRuns
<1>3. RowMoves(r)
  BY <1>1, <1>2 DEF RowMoves, Status, Active
<1>4. \A q \in Run \ {r} : RowMoves(q)
  BY <1>1 DEF RowMoves
<1> QED BY <1>1, <1>3, <1>4 DEF RowsMove

LEMMA InsertMoves ==
    ASSUME TypeOK, NEW r \in Run, NEW st \in {"queued", "coalesced"}, NEW task \in Task \cup {NoTask},
           row[r].st = "absent", Insert(r, st, task),
           r \in AssetRun /\ st = "queued" => ActiveOn(AssetOf[r]) = {}
    PROVE  RowsMove
<1>1. st \in Status
  BY DEF Status, Active, Settled
<1>2. revived' = revived /\ row'[r].st = st /\ \A q \in Run \ {r} : row'[q] = row[q]
  BY <1>1, InsertWritesOne
<1>3. RowMoves(r)
  BY <1>2 DEF RowMoves, Active
<1>4. \A q \in Run \ {r} : RowMoves(q)
  BY <1>2 DEF RowMoves
<1> QED BY <1>2, <1>3, <1>4 DEF RowsMove

\* Every write of a row is of this kind.
LEMMA StepsMoveRows ==
    ASSUME TypeOK, Inserted, [Next]_runVars
    PROVE  RowsMove
<1> USE DEF redis, ghosts
<1>1. CASE UNCHANGED <<row, revived>>
  BY <1>1 DEF RowsMove, RowMoves
<1>2. /\ {"queued", "running", "completed", "failed"} \subseteq Status \ {"absent"}
      /\ {"none", "model", "time"} \subseteq Reason /\ NoTask \in Task \cup {NoTask}
  BY DEF Status, Active, Settled, Reason
<1>3. ASSUME NEW r \in AssetRun, Admit(r) \/ Coalesce(r) \/ \E p \in Api : Reserve(p, r)
      PROVE  RowsMove
  <2>1. r \in Run
    BY DEF Run
  <2>2. CASE Admit(r)
    BY <2>1, <2>2, FreshIsTask, InsertMoves DEF Admit
  <2>3. CASE Coalesce(r)
    <3>1. PICK q \in AssetRun : Insert(r, "coalesced", row[q].task)
      BY <2>3 DEF Coalesce, ActiveOn
    <3>2. row[q].task \in Task \cup {NoTask}
      BY CopiesOfRuns DEF Run
    <3> QED BY <2>1, <2>3, <3>1, <3>2, InsertMoves DEF Coalesce
  <2>4. ASSUME NEW p \in Api, Reserve(p, r) PROVE RowsMove
    BY <1>2, <2>1, <2>4, InsertMoves DEF Reserve
  <2> QED BY <1>3, <2>2, <2>3, <2>4
<1>4. ASSUME NEW r \in EventRun, AdmitEvent(r) \/ RetryEvent(r) PROVE RowsMove
  <2>1. r \in Run /\ r \notin AssetRun
    BY RunKinds DEF Run
  <2>2. CASE AdmitEvent(r)
    BY <2>1, <2>2, FreshIsTask, InsertMoves DEF AdmitEvent
  <2>3. CASE RetryEvent(r)
    BY <1>1, <2>3 DEF RetryEvent
  <2> QED BY <1>4, <2>2, <2>3
<1>5. ASSUME NEW d \in sending, Dispatch(d) \/ PublishFails(d) \/ DispatcherDies(d) PROVE RowsMove
  <2>1. /\ d.run \in Run /\ d.task \in Task /\ d.old \in Task \cup {NoTask}
        /\ row[d.run].st # "absent" /\ row[d.run].reason \in Reason
    BY CopiesOfRuns DEF Inserted
  <2>2. CASE ResetEvent(d)
    BY <1>2, <2>1, <2>2, SaveMoves DEF ResetEvent
  <2>3. CASE PublishFails(d)
    BY <1>2, <2>1, <2>3, SaveMoves DEF PublishFails
  <2>4. CASE RecordDispatch(d) \/ PublishRun(d) \/ DispatcherDies(d)
    BY <1>1, <2>4 DEF RecordDispatch, PublishRun, DispatcherDies
  <2> QED BY <1>5, <2>2, <2>3, <2>4 DEF Dispatch
<1>6. ASSUME NEW p \in Proc, Execute(p) \/ EngineFails(p) \/ ProcessDies(p) PROVE RowsMove
  <2>1. exec[p].pc # "idle" =>
          /\ exec[p].run \in Run /\ exec[p].task \in Task \cup {NoTask}
          /\ exec[p].reason \in Reason /\ row[exec[p].run].st # "absent"
          /\ row[exec[p].run].task \in Task \cup {NoTask} /\ row[exec[p].run].reason \in Reason
    BY CopiesOfRuns DEF Inserted
  <2>2. CASE Draft(p) \/ Finish(p)
    <3>1. /\ exec[p].pc # "idle"
          /\ \E st \in {"running", "completed"}, reason \in Reason :
               Save(exec[p].run, st, exec[p].task, reason)
      <4>1. exec[p].pc # "idle"
        BY <2>2 DEF Draft, Finish, Advance
      <4> QED BY <1>2, <2>1, <2>2, <4>1 DEF Draft, Finish, Advance
    <3> QED BY <1>2, <2>1, <3>1, SaveMoves
  <2>3. CASE EngineFails(p)
    <3>1. exec[p].pc # "idle"
      BY <2>3 DEF EngineFails
    <3>2. PICK r \in Run : r = exec[p].run
      BY <2>1, <3>1
    <3>3. \E st \in {"queued", "failed"}, reason \in Reason : Save(r, st, row[r].task, reason)
      BY <1>2, <2>1, <2>3, <3>1, <3>2 DEF EngineFails
    <3> QED BY <1>2, <2>1, <3>1, <3>2, <3>3, SaveMoves
  <2>4. CASE TakeLease(p) \/ Follow(p) \/ ProcessDies(p)
    BY <1>1, <2>4 DEF TakeLease, Follow, ProcessDies
  <2> QED BY <1>6, <2>2, <2>3, <2>4 DEF Execute
<1>7. ASSUME NEW w \in Worker, HeartbeatLease(w) \/ \E m \in broker : Deliver(w, m) PROVE RowsMove
  <2>1. CASE HeartbeatLease(w)
    BY <1>1, <2>1 DEF HeartbeatLease
  <2>2. ASSUME NEW m \in broker, Deliver(w, m) PROVE RowsMove
    <3>1. /\ m.run \in Run /\ row[m.run].st # "absent"
          /\ row[m.run].task \in Task \cup {NoTask} /\ row[m.run].reason \in Reason
      BY CopiesOfRuns DEF Inserted
    <3> QED BY <1>1, <1>2, <2>2, <3>1, SaveMoves DEF Deliver
  <2> QED BY <1>7, <2>1, <2>2
<1>8. ASSUME NEW r \in Run, LeaseExpires(r) \/ Reconcile(r) \/ Rescue(r) \/ CancelRun(r)
                            \/ RevokeRun(r)
      PROVE  RowsMove
  <2>1. CASE LeaseExpires(r) \/ Rescue(r) \/ RevokeRun(r)
    BY <1>1, <2>1 DEF LeaseExpires, Rescue, RevokeRun
  <2>2. CASE Reconcile(r)
    <3>1. /\ row[r].st = "running" /\ row'[r].st \in {"queued", "failed"} /\ revived' = revived
          /\ \A q \in Run \ {r} : row'[q] = row[q]
      BY <2>2 DEF Reconcile, TypeOK, Rows
    <3> QED BY <3>1 DEF RowsMove, RowMoves, Active
  <2>3. CASE CancelRun(r)
    <3>1. /\ row'[r].st = "cancelled" /\ revived' = revived
          /\ \A q \in Run \ {r} : row'[q] = row[q]
      BY <2>3 DEF CancelRun, TypeOK, Rows
    <3> QED BY <3>1 DEF RowsMove, RowMoves, Active
  <2> QED BY <1>8, <2>1, <2>2, <2>3
<1>9. ASSUME NEW q \in AssetRun, NEW r \in AssetRun, Compact(q, r) PROVE RowsMove
  <2>1. /\ row[r].st = "queued" /\ row'[r].st = "coalesced" /\ revived' = revived
        /\ \A s \in Run \ {r} : row'[s] = row[s]
    BY <1>9 DEF Compact, TypeOK, Rows, Run
  <2> QED BY <2>1 DEF RowsMove, RowMoves, Active
<1>10. CASE Rescuing
  <2>1. recovery.pc # "idle"
    BY <1>10 DEF Rescuing, RescueMarks, RescueSaves, RescuePublishes
  <2>2. /\ recovery.run \in Run /\ recovery.task \in Task /\ recovery.copy \in Rows
        /\ row[recovery.run].st # "absent"
    BY <2>1, CopiesOfRuns DEF Inserted
  <2>3. recovery.copy.task \in Task \cup {NoTask} /\ recovery.copy.reason \in Reason
    BY <2>2 DEF Rows
  <2>4. CASE RescueMarks
    BY <1>1, <2>4 DEF RescueMarks
  <2>5. CASE RescueSaves
    BY <1>2, <2>2, <2>3, <2>5, SaveMoves DEF RescueSaves
  <2>6. CASE RescuePublishes
    BY <1>1, <1>2, <2>2, <2>3, <2>6, SaveMoves DEF RescuePublishes
  <2> QED BY <1>10, <2>4, <2>5, <2>6 DEF Rescuing
<1>11. CASE PurgeQueue \/ RedisIsLost \/ UNCHANGED runVars
  BY <1>1, <1>11 DEF PurgeQueue, RedisIsLost, runVars
<1> QED
  BY <1>3, <1>4, <1>5, <1>6, <1>7, <1>8, <1>9, <1>10, <1>11 DEF Next

\* What refers to a run after a step: the run was there before or is there now.
Held(r) == row[r].st # "absent" \/ row'[r].st # "absent"

RefsHeld ==
    /\ \A m \in broker' : Held(m.run)
    /\ \A d \in sending' : Held(d.run)
    /\ \A p \in Proc : exec'[p].pc # "idle" => Held(exec'[p].run)
    /\ recovery'.pc # "idle" => Held(recovery'.run)

LEMMA StepsHoldRefs ==
    ASSUME TypeOK, Inserted, [Next]_runVars
    PROVE  RefsHeld
<1> USE DEF redis, ghosts
<1>1. CASE UNCHANGED <<broker, sending, exec, recovery>>
  BY <1>1 DEF RefsHeld, Held, Inserted
<1>2. ASSUME NEW r \in Run, Admit(r) \/ AdmitEvent(r) \/ RetryEvent(r) PROVE RefsHeld
  <2>1. UNCHANGED <<broker, exec, recovery>>
    BY <1>2 DEF Admit, AdmitEvent, RetryEvent
  <2>2. \A d \in sending' : d \in sending \/ d.run = r
    BY <1>2 DEF Admit, AdmitEvent, RetryEvent, Send
  <2>3. Held(r)
    BY <1>2 DEF Admit, AdmitEvent, RetryEvent, Held, Insert, TypeOK, NoRow
  <2> QED BY <2>1, <2>2, <2>3 DEF RefsHeld, Held, Inserted
<1>3. ASSUME NEW r \in AssetRun, NEW p \in Api, Reserve(p, r) PROVE RefsHeld
  <2>1. row'[r].st # "absent"
    BY <1>3 DEF Reserve, Insert, TypeOK, NoRow, Run
  <2>2. UNCHANGED <<broker, sending, recovery>>
    BY <1>3 DEF Reserve
  <2>3. \A q \in Proc : exec'[q] = exec[q] \/ exec'[q].run = r
    BY <1>3 DEF Reserve, TypeOK, Idle
  <2> QED BY <2>1, <2>2, <2>3 DEF RefsHeld, Held, Inserted
<1>4. ASSUME NEW d \in sending, Dispatch(d) \/ PublishFails(d) \/ DispatcherDies(d) PROVE RefsHeld
  <2>1. UNCHANGED <<exec, recovery>>
    BY <1>4 DEF Dispatch, ResetEvent, RecordDispatch, PublishRun, PublishFails, DispatcherDies
  <2>2. \A m \in broker' : m \in broker \/ m.run = d.run
    BY <1>4 DEF Dispatch, ResetEvent, RecordDispatch, PublishRun, PublishFails, DispatcherDies,
                Message
  <2>3. d \in Dispatches
    BY DEF TypeOK
  <2>4. PICK a, b : a = [d EXCEPT !.pc = "mark"] /\ b = [d EXCEPT !.pc = "publish"]
    OBVIOUS
  <2>5. a.run = d.run /\ b.run = d.run
    BY <2>3, <2>4 DEF Dispatches
  <2>6. sending' \subseteq sending \cup {a, b}
    BY <1>4, <2>4, Zenon DEF Dispatch, ResetEvent, RecordDispatch, PublishRun, PublishFails,
                             DispatcherDies
  <2> QED BY <2>1, <2>2, <2>5, <2>6 DEF RefsHeld, Held, Inserted
<1>5. ASSUME NEW p \in Proc, Execute(p) \/ EngineFails(p) \/ ProcessDies(p) PROVE RefsHeld
  <2>1. UNCHANGED <<sending, recovery>>
    BY <1>5 DEF Execute, TakeLease, Draft, Finish, Advance, Follow, EngineFails, ProcessDies
  <2>2. exec[p].pc # "idle"
    BY <1>5 DEF Execute, TakeLease, Draft, Finish, Advance, Follow, EngineFails, ProcessDies
  <2>3. \A m \in broker' : m \in broker \/ m.run = exec[p].run
    BY <1>5 DEF Execute, TakeLease, Draft, Finish, Advance, Follow, EngineFails, ProcessDies, Message
  <2>4. exec[p] \in [pc : Steps, run : Run, task : Task \cup {NoTask}, leased : BOOLEAN,
                     reason : Reason, draft : {"none", "llm", "rules"}]
    BY <2>2, CopiesOfRuns
  <2>5. exec'[p].pc = "idle" \/ exec'[p].run = exec[p].run
    <3>1. CASE TakeLease(p)
      BY <2>4, <3>1 DEF TakeLease, TypeOK
    <3>2. CASE Follow(p) \/ EngineFails(p) \/ ProcessDies(p)
      BY <3>2 DEF Follow, Leave, EngineFails, ProcessDies, Idle, TypeOK
    <3>3. ASSUME NEW from, NEW to, NEW st, NEW reason, NEW draft,
                 Advance(p, from, to, st, reason, draft)
          PROVE  exec'[p].pc = "idle" \/ exec'[p].run = exec[p].run
      BY <2>4, <3>3 DEF Advance, Idle, TypeOK
    <3>4. CASE Draft(p) \/ Finish(p)
      BY <3>3, <3>4 DEF Draft, Finish
    <3> QED BY <1>5, <3>1, <3>2, <3>4 DEF Execute
  <2>6. \A q \in Proc : q # p => exec'[q] = exec[q]
    BY <1>5 DEF Execute, TakeLease, Draft, Finish, Advance, Follow, Leave, EngineFails, ProcessDies,
                TypeOK
  <2> QED BY <2>1, <2>2, <2>3, <2>5, <2>6 DEF RefsHeld, Held, Inserted
<1>6. ASSUME NEW w \in Worker, HeartbeatLease(w) \/ \E m \in broker : Deliver(w, m) PROVE RefsHeld
  <2>1. CASE HeartbeatLease(w)
    BY <1>1, <2>1 DEF HeartbeatLease
  <2>2. ASSUME NEW m \in broker, Deliver(w, m) PROVE RefsHeld
    <3>1. UNCHANGED <<sending, recovery>> /\ broker' \subseteq broker
      BY <2>2 DEF Deliver
    <3>2. \A q \in Proc : exec'[q] = exec[q] \/ exec'[q].run = m.run
      BY <2>2, DeliverStartsOne
    <3> QED BY <3>1, <3>2 DEF RefsHeld, Held, Inserted
  <2> QED BY <1>6, <2>1, <2>2
<1>7. ASSUME NEW r \in Run, Rescue(r) PROVE RefsHeld
  <2>1. row[r].st # "absent" /\ recovery'.run = r /\ UNCHANGED <<broker, sending, exec>>
    BY <1>7 DEF Rescue
  <2> QED BY <2>1 DEF RefsHeld, Held, Inserted
<1>8. ASSUME NEW r \in Run, RevokeRun(r) PROVE RefsHeld
  <2>1. broker' \subseteq broker /\ UNCHANGED <<sending, recovery>>
    BY <1>8 DEF RevokeRun
  <2>2. \A q \in Proc : exec'[q] = exec[q] \/ exec'[q].pc = "idle"
    BY <1>8 DEF RevokeRun, Idle
  <2> QED BY <2>1, <2>2 DEF RefsHeld, Held, Inserted
<1>9. CASE Rescuing
  <2>1. recovery.pc # "idle" /\ UNCHANGED <<sending, exec>>
    BY <1>9 DEF Rescuing, RescueMarks, RescueSaves, RescuePublishes
  <2>2. \A m \in broker' : m \in broker \/ m.run = recovery.run
    BY <1>9 DEF Rescuing, RescueMarks, RescueSaves, RescuePublishes, Message
  <2>3. recovery \in [pc : {"mark", "save", "publish"}, run : Run, task : Task, copy : Rows]
    BY <2>1, CopiesOfRuns
  <2>4. recovery'.pc = "idle" \/ recovery'.run = recovery.run
    BY <1>9, <2>3 DEF Rescuing, RescueMarks, RescueSaves, RescuePublishes, NoRescue
  <2> QED BY <2>1, <2>2, <2>4 DEF RefsHeld, Held, Inserted
<1>10. ASSUME NEW r \in Run, LeaseExpires(r) \/ Reconcile(r) \/ CancelRun(r) \/ Coalesce(r)
       PROVE  RefsHeld
  BY <1>1, <1>10 DEF LeaseExpires, Reconcile, CancelRun, Coalesce
<1>11. ASSUME NEW q \in AssetRun, NEW r \in AssetRun, Compact(q, r) PROVE RefsHeld
  BY <1>1, <1>11 DEF Compact
<1>12. CASE PurgeQueue \/ RedisIsLost \/ UNCHANGED runVars
  BY <1>12 DEF PurgeQueue, RedisIsLost, runVars, RefsHeld, Held, Inserted
<1> QED
  BY <1>2, <1>3, <1>4, <1>5, <1>6, <1>7, <1>8, <1>9, <1>10, <1>11, <1>12 DEF Next, Run

LEMMA InsertedStays ==
    ASSUME TypeOK, TypeOK', Inserted, [Next]_runVars
    PROVE  Inserted'
<1>1. RefsHeld /\ RowsMove
  BY StepsHoldRefs, StepsMoveRows
<1>2. /\ \A m \in broker' : m.run \in Run
      /\ \A d \in sending' : d.run \in Run
      /\ \A p \in Proc : exec'[p].pc # "idle" => exec'[p].run \in Run
      /\ recovery'.pc # "idle" => recovery'.run \in Run
  <2>1. /\ broker' \subseteq Messages /\ sending' \subseteq Dispatches
        /\ recovery' \in Rescues /\ exec' \in [Proc -> Executions]
    BY DEF TypeOK
  <2>2. broker' \subseteq Messages => \A m \in broker' : m.run \in Run
    BY DEF Messages
  <2>3. sending' \subseteq Dispatches => \A d \in sending' : d.run \in Run
    BY DEF Dispatches
  <2>4. exec' \in [Proc -> Executions] =>
          \A p \in Proc : exec'[p].pc # "idle" => exec'[p].run \in Run
    BY DEF Executions, Idle
  <2>5. recovery' \in Rescues => (recovery'.pc # "idle" => recovery'.run \in Run)
    BY DEF Rescues, NoRescue
  <2> QED BY <2>1, <2>2, <2>3, <2>4, <2>5
<1>3. \A r \in Run : Held(r) => row'[r].st # "absent"
  BY <1>1 DEF RowsMove, RowMoves, Held
<1> QED BY <1>1, <1>2, <1>3 DEF RefsHeld, Inserted

\* The inductive invariant.
RunsInv ==
    /\ TypeOK
    /\ \A p \in Proc : ExecutionFits(p)
    /\ Inserted

LEMMA RunsInvHolds == Spec => []RunsInv
<1>1. Init => RunsInv
  <2> SUFFICES ASSUME Init PROVE RunsInv
    OBVIOUS
  <2> USE DEF Init
  <2>1. TypeOK
    <3>1. NoRow \in Rows /\ Idle \in Executions /\ NoRescue \in Rescues
      BY DEF NoRow, Rows, Status, Reason, Executions, Rescues
    <3> QED BY <3>1, Bounds DEF TypeOK
  <2>2. \A p \in Proc : ExecutionFits(p)
    BY DEF ExecutionFits, Idle
  <2>3. Inserted
    BY DEF Inserted, Idle, NoRescue
  <2> QED BY <2>1, <2>2, <2>3 DEF RunsInv
<1>2. RunsInv /\ [Next]_runVars => RunsInv'
  BY TypesStay, ExecutionsStayFit, InsertedStays DEF RunsInv
<1> QED BY <1>1, <1>2, PTL DEF Spec

\* Rows, markers, leases, messages, dispatches and executions keep their types.
THEOREM RunsTypeCorrect == Spec => []TypeOK
<1>1. RunsInv => TypeOK
  BY DEF RunsInv
<1> QED BY <1>1, RunsInvHolds, PTL

\* A cancelled run stays cancelled, whoever writes its row from an old copy and
\* however many do (storage.py, save_run; worker.py).
THEOREM CancelledRunsStay == Spec => CancelledStays
<1>1. RunsInv /\ [Next]_runVars =>
        [\A r \in Run : row[r].st = "cancelled" => row'[r].st = "cancelled"]_runVars
  BY StepsMoveRows DEF RunsInv, RowsMove, RowMoves
<1> QED BY <1>1, RunsInvHolds, PTL DEF Spec, CancelledStays

\* An asset has at most one active run, apart from those an old copy or a
\* redelivery brought back (worker.py, enqueue_research; research_admission.py).
THEOREM OneActiveRunPerAsset == Spec => []OneActivePerAsset
<1>1. Init => OneActivePerAsset
  BY DEF Init, OneActivePerAsset, NoRow, Active, Run
<1>2. RunsInv /\ OneActivePerAsset /\ [Next]_runVars => OneActivePerAsset'
  <2> SUFFICES ASSUME RunsInv, OneActivePerAsset, [Next]_runVars,
                      NEW q \in AssetRun, NEW r \in AssetRun, q # r, AssetOf[q] = AssetOf[r],
                      row'[q].st \in Active, row'[r].st \in Active
               PROVE  {q, r} \cap revived' # {}
    BY DEF OneActivePerAsset, Active
  <2>1. revived \subseteq revived' /\ RowMoves(q) /\ RowMoves(r) /\ q \in Run /\ r \in Run
    BY StepsMoveRows DEF RunsInv, RowsMove, Run
  <2>2. CASE row[q].st \in Active /\ row[r].st \in Active
    BY <2>1, <2>2 DEF OneActivePerAsset
  <2>3. CASE row[q].st \notin Active
    <3>1. CASE ActiveOn(AssetOf[q]) = {} /\ \A s \in Run \ {q} : row'[s] = row[s]
      <4>1. row[r].st \in Active
        BY <2>1, <3>1
      <4> QED BY <3>1, <4>1 DEF ActiveOn
    <3> QED BY <2>1, <2>3, <3>1 DEF RowMoves
  <2>4. CASE row[r].st \notin Active
    <3>1. CASE ActiveOn(AssetOf[r]) = {} /\ \A s \in Run \ {r} : row'[s] = row[s]
      <4>1. row[q].st \in Active
        BY <2>1, <3>1
      <4> QED BY <3>1, <4>1 DEF ActiveOn
    <3> QED BY <2>1, <2>4, <3>1 DEF RowMoves
  <2> QED BY <2>2, <2>3, <2>4
<1> QED BY <1>1, <1>2, RunsInvHolds, PTL DEF Spec

\* No paper order follows a draft of the rules: the mark is set with the draft and
\* goes with the execution to the order (research.py, _draft to _finalize).
THEOREM FallbacksNeverTrade == Spec => []RulesNeverTrade
<1>1. Init => RulesNeverTrade
  BY DEF Init, RulesNeverTrade
<1>2. RunsInv /\ RulesNeverTrade /\ [Next]_runVars => RulesNeverTrade'
  <2> SUFFICES ASSUME RunsInv, RulesNeverTrade, [Next]_runVars PROVE RulesNeverTrade'
    OBVIOUS
  <2>1. ASSUME NEW p \in Proc, Follow(p) PROVE RulesNeverTrade'
    <3>1. exec[p].pc = "follow" /\ exec[p].pc # "idle"
      BY <2>1 DEF Follow
    <3>2. exec[p].draft = "rules" => exec[p].reason = "model"
      BY <3>1 DEF RunsInv, ExecutionFits
    <3>3. CASE UNCHANGED orders
      BY <3>3 DEF RulesNeverTrade
    <3>4. CASE /\ Grade(exec[p]) = "llm"
               /\ orders' = [orders EXCEPT ![exec[p].run] = orders[exec[p].run] \cup {exec[p].draft}]
      <4>1. exec[p].draft # "rules"
        BY <3>2, <3>4 DEF Grade
      <4> QED BY <3>4, <4>1 DEF RulesNeverTrade, RunsInv, TypeOK
    <3> QED BY <2>1, <3>3, <3>4 DEF Follow
  <2>2. CASE UNCHANGED orders
    BY <2>2 DEF RulesNeverTrade
  <2>3. CASE UNCHANGED runVars
    BY <2>2, <2>3 DEF runVars
  <2>4. CASE Next
    BY <2>1, <2>2, <2>4
       DEF Next, Admit, Coalesce, Reserve, Compact, AdmitEvent, RetryEvent, Dispatch, ResetEvent,
           RecordDispatch, PublishRun, PublishFails, DispatcherDies, HeartbeatLease, Deliver, Execute,
           TakeLease, Draft, Finish, Advance, EngineFails, ProcessDies, LeaseExpires, Reconcile,
           Rescue, CancelRun, RevokeRun, Rescuing, RescueMarks, RescueSaves, RescuePublishes,
           PurgeQueue, RedisIsLost
  <2> QED BY <2>3, <2>4
<1> QED BY <1>1, <1>2, RunsInvHolds, PTL DEF Spec

\* A worker that renews its lease has the key, or the key was taken from it.
LeasesKnown ==
    \A p \in Proc : exec[p].pc # "idle" /\ exec[p].leased => lease[exec[p].run] \/ exec[p].run \in gap

LEMMA LeasesStayKnown ==
    ASSUME RunsInv, LeasesKnown, [Next]_runVars
    PROVE  LeasesKnown'
<1> USE DEF redis, ghosts
<1>0. TypeOK
  BY DEF RunsInv
<1>1. CASE UNCHANGED <<exec, lease, gap>>
  BY <1>1 DEF LeasesKnown
<1>2. ASSUME UNCHANGED <<lease, gap>>, NEW p \in Proc,
             \A q \in Proc : q # p => exec'[q] = exec[q],
             \/ exec'[p].pc = "idle" \/ ~exec'[p].leased
             \/ exec[p].pc # "idle" /\ exec'[p].run = exec[p].run /\ exec'[p].leased = exec[p].leased
      PROVE  LeasesKnown'
  BY <1>2 DEF LeasesKnown
<1>3. ASSUME NEW p \in Proc, TakeLease(p) \/ HeartbeatLease(p) PROVE LeasesKnown'
  <2>1. CASE /\ lease' = [lease EXCEPT ![exec[p].run] = TRUE] /\ gap' = gap \ {exec[p].run}
             /\ exec[p].pc # "idle" /\ exec'[p].run = exec[p].run
             /\ \A q \in Proc : q # p => exec'[q] = exec[q]
    <3>1. exec[p].run \in Run
      BY <1>0, <2>1, CopiesOfRuns
    <3>2. lease'[exec[p].run] /\ \A r \in Run : r # exec[p].run => lease'[r] = lease[r]
      BY <1>0, <2>1, <3>1 DEF TypeOK
    <3>3. \A q \in Proc : exec[q].pc # "idle" => exec[q].run \in Run
      BY <1>0, CopiesOfRuns
    <3> QED BY <2>1, <3>2, <3>3 DEF LeasesKnown
  <2>2. CASE HeartbeatLease(p)
    <3>1. exec[p].pc # "idle"
      BY <1>0, <2>2 DEF HeartbeatLease, TypeOK, Executions, Idle, Steps
    <3> QED BY <2>1, <2>2, <3>1 DEF HeartbeatLease
  <2>3. CASE TakeLease(p)
    <3>1. exec[p].pc # "idle"
      BY <2>3 DEF TakeLease
    <3>2. exec[p] \in [pc : Steps, run : Run, task : Task \cup {NoTask}, leased : BOOLEAN,
                       reason : Reason, draft : {"none", "llm", "rules"}]
      BY <1>0, <3>1, CopiesOfRuns
    <3>3. \A q \in Proc : q # p => exec'[q] = exec[q]
      BY <1>0, <2>3 DEF TakeLease, TypeOK
    <3>4. CASE /\ lease' = [lease EXCEPT ![exec[p].run] = TRUE] /\ gap' = gap \ {exec[p].run}
               /\ exec' = [exec EXCEPT ![p] = [exec[p] EXCEPT !.pc = "draft", !.leased = TRUE]]
      <4>1. exec'[p].run = exec[p].run
        BY <1>0, <3>2, <3>4 DEF TypeOK
      <4> QED BY <2>1, <3>1, <3>3, <3>4, <4>1
    <3>5. CASE /\ UNCHANGED <<lease, gap>>
               /\ exec' = [exec EXCEPT ![p] = [exec[p] EXCEPT !.pc = "draft"]]
      <4>1. exec'[p].run = exec[p].run /\ exec'[p].leased = exec[p].leased
        BY <1>0, <3>2, <3>5 DEF TypeOK
      <4> QED BY <1>2, <3>1, <3>3, <3>5, <4>1
    <3> QED BY <1>0, <2>3, <3>4, <3>5 DEF TakeLease, TypeOK
  <2> QED BY <1>3, <2>2, <2>3
<1>4. ASSUME NEW p \in Proc, Draft(p) \/ Finish(p) PROVE LeasesKnown'
  <2>1. ASSUME NEW from, NEW to, NEW st, NEW reason, NEW draft, from # "idle",
               Advance(p, from, to, st, reason, draft)
        PROVE  LeasesKnown'
    <3>1. exec[p] \in [pc : Steps, run : Run, task : Task \cup {NoTask}, leased : BOOLEAN,
                       reason : Reason, draft : {"none", "llm", "rules"}]
      BY <1>0, <2>1, CopiesOfRuns DEF Advance
    <3>2. \A q \in Proc : q # p => exec'[q] = exec[q]
      BY <1>0, <2>1 DEF Advance, TypeOK
    <3>3. \/ exec'[p].pc = "idle"
          \/ exec'[p].run = exec[p].run /\ exec'[p].leased = exec[p].leased
      BY <1>0, <2>1, <3>1 DEF Advance, Idle, TypeOK
    <3> QED BY <1>2, <2>1, <3>2, <3>3 DEF Advance
  <2> QED BY <1>4, <2>1 DEF Draft, Finish
<1>5. ASSUME NEW p \in Proc, Follow(p) \/ EngineFails(p) PROVE LeasesKnown'
  <2>1. Leave(p) /\ exec[p].pc # "idle"
    BY <1>5 DEF Follow, EngineFails
  <2>2. PICK r \in Run : r = exec[p].run
    BY <1>0, <2>1, CopiesOfRuns
  <2>3. /\ exec'[p].pc = "idle" /\ \A q \in Proc : q # p => exec'[q] = exec[q]
    BY <1>0, <2>1 DEF Leave, TypeOK, Idle
  <2>4. /\ \A s \in Run : s # r => lease'[s] = lease[s]
        /\ gap \subseteq gap'
    BY <1>0, <2>1, <2>2 DEF Leave, TypeOK
  <2>5. ASSUME NEW q \in Proc, q # p, exec[q].pc # "idle", exec[q].leased, exec[q].run = r
        PROVE  lease'[r] \/ r \in gap'
    <3>1. lease[r] \/ r \in gap
      BY <2>5 DEF LeasesKnown
    <3>2. Works(q, r)
      BY <2>5 DEF Works
    <3>3. exec[p].leased => r \in gap'
      BY <2>1, <2>2, <2>5, <3>2 DEF Leave
    <3>4. ~exec[p].leased => lease' = lease
      BY <2>1 DEF Leave
    <3> QED BY <2>4, <3>1, <3>3, <3>4
  <2>6. \A q \in Proc : exec[q].pc # "idle" => exec[q].run \in Run
    BY <1>0, CopiesOfRuns
  <2> QED BY <2>2, <2>3, <2>4, <2>5, <2>6 DEF LeasesKnown
<1>6. ASSUME NEW p \in Proc, ProcessDies(p) PROVE LeasesKnown'
  <2>1. exec'[p].pc = "idle" /\ \A q \in Proc : q # p => exec'[q] = exec[q]
    BY <1>0, <1>6 DEF ProcessDies, TypeOK, Idle
  <2> QED BY <1>2, <1>6, <2>1 DEF ProcessDies
<1>7. ASSUME NEW w \in Worker, NEW m \in broker, Deliver(w, m) PROVE LeasesKnown'
  <2>1. \A q \in Proc : exec'[q] = exec[q] \/ exec'[q].leased = FALSE
    BY <1>0, <1>7, DeliverStartsOne
  <2>2. UNCHANGED <<lease, gap>>
    BY <1>7 DEF Deliver
  <2> QED BY <2>1, <2>2 DEF LeasesKnown
<1>8. ASSUME NEW r \in AssetRun, NEW p \in Api, Reserve(p, r) PROVE LeasesKnown'
  <2>1. \A q \in Proc : exec'[q] = exec[q] \/ exec'[q].leased = FALSE
    BY <1>0, <1>8 DEF Reserve, TypeOK, Idle
  <2>2. UNCHANGED <<lease, gap>>
    BY <1>8 DEF Reserve
  <2> QED BY <2>1, <2>2 DEF LeasesKnown
<1>9. ASSUME NEW r \in Run, LeaseExpires(r) PROVE LeasesKnown'
  <2>1. /\ \A s \in Run : s # r => lease'[s] = lease[s]
        /\ \A q \in Proc : ~(Works(q, r) /\ exec[q].leased) /\ UNCHANGED <<exec, gap>>
    BY <1>0, <1>9 DEF LeaseExpires, TypeOK
  <2>2. \A q \in Proc : exec[q].pc # "idle" => exec[q].run \in Run
    BY <1>0, CopiesOfRuns
  <2> QED BY <2>1, <2>2 DEF LeasesKnown, Works
<1>10. ASSUME NEW r \in Run, RevokeRun(r) PROVE LeasesKnown'
  <2>1. \A q \in Proc : exec'[q] = exec[q] \/ exec'[q].pc = "idle"
    BY <1>10 DEF RevokeRun, Idle
  <2> QED BY <1>10, <2>1 DEF RevokeRun, LeasesKnown
<1>11. CASE RedisIsLost
  <2>1. UNCHANGED exec /\ gap' = gap \cup {r \in Run : lease[r]}
    BY <1>11 DEF RedisIsLost
  <2>2. \A q \in Proc : exec[q].pc # "idle" => exec[q].run \in Run
    BY <1>0, CopiesOfRuns
  <2> QED BY <2>1, <2>2 DEF LeasesKnown
<1>12. ASSUME NEW r \in Run, \/ Admit(r) \/ Coalesce(r) \/ AdmitEvent(r) \/ RetryEvent(r)
                             \/ Reconcile(r) \/ Rescue(r) \/ CancelRun(r)
       PROVE  UNCHANGED <<exec, lease, gap>>
  BY <1>12 DEF Admit, Coalesce, AdmitEvent, RetryEvent, Reconcile, Rescue, CancelRun
<1>13. ASSUME NEW d \in sending, Dispatch(d) \/ PublishFails(d) \/ DispatcherDies(d)
       PROVE  UNCHANGED <<exec, lease, gap>>
  BY <1>13 DEF Dispatch, ResetEvent, RecordDispatch, PublishRun, PublishFails, DispatcherDies
<1>14. ASSUME NEW q \in AssetRun, NEW r \in AssetRun, Compact(q, r)
       PROVE  UNCHANGED <<exec, lease, gap>>
  BY <1>14 DEF Compact
<1>15. Rescuing \/ PurgeQueue \/ UNCHANGED runVars => UNCHANGED <<exec, lease, gap>>
  BY DEF Rescuing, RescueMarks, RescueSaves, RescuePublishes, PurgeQueue, runVars
<1> QED
  BY <1>1, <1>3, <1>4, <1>5, <1>6, <1>7, <1>8, <1>9, <1>10, <1>11, <1>12, <1>13, <1>14, <1>15
     DEF Next, Execute, Run, Proc

\* The only step that puts a running run back, or fails it, without its worker, the
\* recovery, a user or an upset is the reconciliation.
LEMMA OnlyBeatTakesRuns ==
    ASSUME RunsInv, Next, NEW r \in Run,
           row[r].st = "running", row'[r].st \in {"queued", "failed"},
           UNCHANGED <<exec, sending, recovery, requests, upsets>>
    PROVE  ~lease[r]
<1> USE DEF redis, ghosts
<1>0. TypeOK
  BY DEF RunsInv
<1>1. ~Request /\ ~Upset
  BY <1>0 DEF Request, Upset, TypeOK
<1>2. row'[r] # row[r]
  OBVIOUS
<1>3. ~UNCHANGED row
  BY <1>2
<1>4. ASSUME NEW s \in Run, Reconcile(s) PROVE ~lease[r]
  <2>1. s = r
    BY <1>0, <1>2, <1>4 DEF Reconcile, TypeOK
  <2> QED BY <1>4, <2>1 DEF Reconcile
<1>5. ASSUME NEW q \in AssetRun, NEW s \in AssetRun PROVE ~Compact(q, s)
  <2> SUFFICES ASSUME Compact(q, s) PROVE FALSE
    OBVIOUS
  <2>1. row[s].st = "queued" /\ \A u \in Run \ {s} : row'[u] = row[u]
    BY <1>0 DEF Compact, TypeOK
  <2> QED BY <1>2, <2>1
<1>6. ASSUME NEW d \in sending PROVE ~(Dispatch(d) \/ PublishFails(d) \/ DispatcherDies(d))
  <2>1. ~ResetEvent(d)
    <3> SUFFICES ASSUME ResetEvent(d) PROVE FALSE
      OBVIOUS
    <3>1. d \in Dispatches
      BY <1>0 DEF TypeOK
    <3>2. [d EXCEPT !.pc = "mark"] # d
      BY <3>1 DEF ResetEvent, Dispatches
    <3>3. d \notin sending'
      BY <3>2 DEF ResetEvent
    <3> QED BY <3>3
  <2> QED BY <1>1, <1>3, <2>1 DEF Dispatch, RecordDispatch, PublishRun, PublishFails, DispatcherDies
<1>7. ASSUME NEW p \in Proc PROVE ~(Execute(p) \/ EngineFails(p) \/ ProcessDies(p))
  <2>1. ASSUME NEW to \in {"idle", "follow", "finish"}, NEW from \in {"draft", "finish"}, to # from,
               NEW st, NEW reason, NEW draft, Advance(p, from, to, st, reason, draft)
        PROVE  FALSE
    <3>1. exec[p].pc = from /\ exec[p].pc # "idle"
      BY <2>1 DEF Advance
    <3>2. exec[p] \in [pc : Steps, run : Run, task : Task \cup {NoTask}, leased : BOOLEAN,
                       reason : Reason, draft : {"none", "llm", "rules"}]
      BY <1>0, <3>1, CopiesOfRuns
    <3>3. exec'[p].pc = to
      BY <1>0, <2>1, <3>2 DEF Advance, Idle, TypeOK
    <3> QED BY <2>1, <3>1, <3>3
  <2>2. ~Draft(p) /\ ~Finish(p)
    BY <2>1 DEF Draft, Finish
  <2> QED BY <1>1, <1>3, <2>2 DEF Execute, TakeLease, Follow, EngineFails, ProcessDies
<1>8. ASSUME NEW w \in Worker PROVE ~(HeartbeatLease(w) \/ \E m \in broker : Deliver(w, m))
  <2>1. ASSUME NEW m \in broker, Deliver(w, m) PROVE FALSE
    BY <1>0, <1>3, <2>1, DeliverStartsOne DEF Proc
  <2> QED BY <1>3, <2>1 DEF HeartbeatLease
<1>9. ~Rescuing
  <2> SUFFICES ASSUME Rescuing PROVE FALSE
    OBVIOUS
  <2>1. recovery.pc # "idle"
    BY DEF Rescuing, RescueMarks, RescueSaves, RescuePublishes
  <2>2. recovery \in [pc : {"mark", "save", "publish"}, run : Run, task : Task, copy : Rows]
    BY <1>0, <2>1, CopiesOfRuns
  <2>3. ~RescueSaves
    BY <2>2 DEF RescueSaves
  <2>4. ~RescuePublishes
    BY <2>1 DEF RescuePublishes, NoRescue
  <2> QED BY <1>3, <2>3, <2>4 DEF Rescuing, RescueMarks
<1> QED
  BY <1>1, <1>3, <1>4, <1>5, <1>6, <1>7, <1>8, <1>9
     DEF Next, Admit, Coalesce, Reserve, AdmitEvent, RetryEvent, LeaseExpires, Rescue, CancelRun,
         RevokeRun, PurgeQueue, RedisIsLost

\* Beat takes a run from a worker that renews its lease only if the key was lost or
\* another execution deleted it (research_lifecycle.py, research_lease and
\* reconcile_stale_research_runs).
THEOREM LeasesProtectWork == Spec => LeaseProtectsWork
<1> DEFINE Protected == \A r \in Run :
             /\ row[r].st = "running" /\ row'[r].st \in {"queued", "failed"}
             /\ UNCHANGED <<exec, sending, recovery, requests, upsets>>
             => r \in gap \/ \A p \in Proc : ~(Works(p, r) /\ exec[p].leased)
<1>1. Init => LeasesKnown
  BY DEF Init, LeasesKnown, Idle
<1>2. RunsInv /\ LeasesKnown /\ [Next]_runVars => LeasesKnown' /\ [Protected]_runVars
  <2> SUFFICES ASSUME RunsInv, LeasesKnown, [Next]_runVars PROVE LeasesKnown' /\ [Protected]_runVars
    OBVIOUS
  <2>1. Next => Protected
    BY OnlyBeatTakesRuns DEF LeasesKnown, Works
  <2> QED BY <2>1, LeasesStayKnown
<1> QED BY <1>1, <1>2, RunsInvHolds, PTL DEF Spec, LeaseProtectsWork

\* Task ids of dispatches that are not recorded yet are nobody else's.
IdsApart ==
    /\ \A d, e \in sending : d.task = e.task => d = e
    /\ \A d \in sending : d.pc \in {"save", "mark"} => marker[d.run] # d.task
    /\ recovery.pc # "idle" => \A d \in sending : d.task # recovery.task
    /\ recovery.pc = "mark" => marker[recovery.run] # recovery.task

\* A fresh id is none that is in use.
LEMMA FreshIsUnused ==
    ASSUME TypeOK, Spare # {}
    PROVE  /\ \A r \in Run : Fresh # marker[r] /\ Fresh # row[r].task
           /\ \A d \in sending : Fresh # d.task
           /\ Fresh # recovery.task /\ Fresh \in Task
<1>1. Fresh \in Task \ InUse
  BY DEF Fresh, Spare
<1> QED BY <1>1 DEF InUse

LEMMA IdsStayApart ==
    ASSUME TypeOK, IdsApart, [Next]_runVars
    PROVE  IdsApart'
<1> USE DEF redis, ghosts
<1>1. CASE UNCHANGED <<marker, sending, recovery>>
  BY <1>1 DEF IdsApart
<1>2. ASSUME NEW r \in Run, Admit(r) \/ AdmitEvent(r) \/ RetryEvent(r) PROVE IdsApart'
  <2>1. UNCHANGED <<marker, recovery>> /\ Spare # {}
    BY <1>2 DEF Admit, AdmitEvent, RetryEvent
  <2>2. PICK n : n.run = r /\ n.task = Fresh /\ sending' = sending \cup {n}
    BY <1>2 DEF Admit, AdmitEvent, RetryEvent, Send
  <2> QED BY <2>1, <2>2, FreshIsUnused DEF IdsApart
<1>3. ASSUME NEW d \in sending, ResetEvent(d) \/ RecordDispatch(d) PROVE IdsApart'
  <2>1. d \in Dispatches /\ d.run \in Run
    BY CopiesOfRuns DEF TypeOK
  <2>2. PICK e : /\ sending' = (sending \ {d}) \cup {e} /\ UNCHANGED recovery
                 /\ e.run = d.run /\ e.task = d.task
                 /\ e.pc \in {"save", "mark"} =>
                      d.pc \in {"save", "mark"} /\ UNCHANGED marker
    <3>1. PICK a, b : a = [d EXCEPT !.pc = "mark"] /\ b = [d EXCEPT !.pc = "publish"]
      OBVIOUS
    <3>2. a.run = d.run /\ a.task = d.task /\ b.run = d.run /\ b.task = d.task /\ b.pc = "publish"
      BY <2>1, <3>1 DEF Dispatches
    <3>3. CASE ResetEvent(d)
      BY <3>1, <3>2, <3>3 DEF ResetEvent
    <3>4. CASE RecordDispatch(d)
      BY <3>1, <3>2, <3>4 DEF RecordDispatch
    <3> QED BY <1>3, <3>3, <3>4
  <2>3. \A r \in Run : marker'[r] = marker[r] \/ (r = d.run /\ marker'[r] = d.task)
    BY <1>3, <2>1 DEF ResetEvent, RecordDispatch, TypeOK
  <2>4. \A f \in sending : f.run \in Run
    BY CopiesOfRuns
  <2>5. recovery.pc = "mark" => recovery.run \in Run
    BY CopiesOfRuns
  <2> QED BY <2>2, <2>3, <2>4, <2>5 DEF IdsApart
<1>4. ASSUME sending' \subseteq sending, UNCHANGED recovery \/ recovery' = NoRescue,
             \A r \in Run : marker'[r] = marker[r] \/ marker'[r] = NoTask
      PROVE  IdsApart'
  <2>1. \A d \in sending : d.run \in Run /\ d.task # NoTask
    BY CopiesOfRuns, TaskIds DEF Task
  <2>2. recovery.pc = "mark" => recovery.run \in Run /\ recovery.task # NoTask
    BY CopiesOfRuns, TaskIds DEF Task
  <2> QED BY <1>4, <2>1, <2>2 DEF IdsApart, NoRescue
<1>5. ASSUME NEW d \in sending, PublishRun(d) \/ PublishFails(d) \/ DispatcherDies(d) PROVE IdsApart'
  <2>1. \A r \in Run : marker'[r] = marker[r] \/ marker'[r] = NoTask
    BY <1>5 DEF PublishRun, PublishFails, DispatcherDies, ClearMarker, TypeOK
  <2> QED BY <1>4, <1>5, <2>1 DEF PublishRun, PublishFails, DispatcherDies
<1>6. ASSUME NEW r \in Run, Rescue(r) PROVE IdsApart'
  <2>1. /\ recovery' = [pc |-> "mark", run |-> r, task |-> Fresh, copy |-> row[r]]
        /\ UNCHANGED <<marker, sending>> /\ Spare # {}
    BY <1>6 DEF Rescue
  <2> QED BY <2>1, FreshIsUnused DEF IdsApart
<1>7. CASE Rescuing
  <2>0. recovery.pc # "idle"
    BY <1>7 DEF Rescuing, RescueMarks, RescueSaves, RescuePublishes
  <2>1. /\ recovery \in [pc : {"mark", "save", "publish"}, run : Run, task : Task, copy : Rows]
        /\ recovery.run \in Run
    BY <2>0, CopiesOfRuns
  <2>2. CASE RescueMarks /\ recovery' # NoRescue
    <3>1. /\ marker' = [marker EXCEPT ![recovery.run] = recovery.task]
          /\ recovery' = [recovery EXCEPT !.pc = "save"] /\ UNCHANGED sending
      BY <2>2 DEF RescueMarks
    <3>2. recovery'.pc = "save" /\ recovery'.task = recovery.task
      BY <2>1, <3>1
    <3>3. \A r \in Run : marker'[r] = marker[r] \/ marker'[r] = recovery.task
      BY <2>1, <3>1 DEF TypeOK
    <3>4. \A d \in sending : d.run \in Run
      BY CopiesOfRuns
    <3> QED BY <2>0, <3>1, <3>2, <3>3, <3>4 DEF IdsApart
  <2>3. CASE RescueMarks /\ recovery' = NoRescue
    BY <1>4, <2>3 DEF RescueMarks, NoRescue
  <2>4. CASE RescueSaves
    <3>1. recovery' = [recovery EXCEPT !.pc = "publish"] /\ UNCHANGED <<marker, sending>>
      BY <2>4 DEF RescueSaves
    <3>2. recovery'.pc = "publish" /\ recovery'.task = recovery.task
      BY <2>1, <3>1
    <3> QED BY <2>0, <3>1, <3>2 DEF IdsApart
  <2>5. CASE RescuePublishes
    <3>1. \A r \in Run : marker'[r] = marker[r] \/ marker'[r] = NoTask
      BY <2>5 DEF RescuePublishes, ClearMarker, TypeOK
    <3> QED BY <1>4, <2>5, <3>1 DEF RescuePublishes
  <2> QED BY <1>7, <2>2, <2>3, <2>4, <2>5 DEF Rescuing
<1>8. CASE RedisIsLost
  BY <1>4, <1>8 DEF RedisIsLost
<1>9. ASSUME NEW r \in Run, LeaseExpires(r) \/ Reconcile(r) \/ CancelRun(r) \/ Coalesce(r) \/ RevokeRun(r)
      PROVE  IdsApart'
  BY <1>1, <1>9 DEF LeaseExpires, Reconcile, CancelRun, Coalesce, RevokeRun
<1>10. ASSUME NEW p \in Proc, \/ Execute(p) \/ EngineFails(p) \/ ProcessDies(p) \/ HeartbeatLease(p)
                              \/ \E m \in broker : Deliver(p, m)
                              \/ \E r \in AssetRun : Reserve(p, r)
       PROVE  IdsApart'
  BY <1>1, <1>10 DEF Execute, TakeLease, Draft, Finish, Advance, Follow, EngineFails, ProcessDies,
                     HeartbeatLease, Deliver, Reserve
<1>11. ASSUME NEW q \in AssetRun, NEW r \in AssetRun, Compact(q, r) PROVE IdsApart'
  BY <1>1, <1>11 DEF Compact
<1>12. CASE PurgeQueue \/ UNCHANGED runVars
  BY <1>1, <1>12 DEF PurgeQueue, runVars
<1> QED
  BY <1>2, <1>3, <1>5, <1>6, <1>7, <1>8, <1>9, <1>10, <1>11, <1>12 DEF Next, Dispatch, Run, Proc

\* Who answers for a waiting run whose marker names its task.  A worker that has
\* finished the run does not.
Doing == {"lease", "draft", "finish"}

Answered(r) ==
    \/ Message(r, row[r].task) \in broker
    \/ r \in stranded
    \/ \E w \in Worker : exec[w].pc \in Doing /\ exec[w].run = r /\ exec[w].task = row[r].task
    \/ \E d \in sending : d.run = r /\ d.task = row[r].task
    \/ recovery.pc # "idle" /\ recovery.run = r /\ recovery.task = row[r].task

Waiting(r) ==
    /\ row[r].st = "queued" /\ row[r].lapsed = FALSE
    /\ row[r].task # NoTask /\ marker[r] = row[r].task

Accounted(r) == Waiting(r) => Answered(r)

\* Those who answer for run r still do after a step, or its message is back.
AnswersKept(r) ==
    /\ \A m \in broker : m.run = r => m \in broker' \/ r \in stranded'
    /\ r \in stranded => r \in stranded' \/ Message(r, row[r].task) \in broker'
    /\ \A w \in Worker : exec[w].pc \in Doing /\ exec[w].run = r =>
          \/ exec'[w].pc \in Doing /\ exec'[w].run = r /\ exec'[w].task = exec[w].task
          \/ Message(r, exec[w].task) \in broker'
    /\ \A d \in sending : d.run = r =>
          \/ \E e \in sending' : e.run = r /\ e.task = d.task
          \/ Message(r, d.task) \in broker'
          \/ r \in stranded'
          \/ marker'[r] # d.task
    /\ recovery.pc # "idle" /\ recovery.run = r =>
          \/ recovery'.pc # "idle" /\ recovery'.run = r /\ recovery'.task = recovery.task
          \/ Message(r, recovery.task) \in broker'
          \/ r \in stranded'
          \/ marker'[r] # recovery.task

\* A row that a step leaves alone stays accounted for.
LEMMA RowsLeftAlone ==
    ASSUME NEW r \in Run, Accounted(r), row'[r] = row[r],
           marker'[r] = marker[r] \/ marker'[r] = NoTask \/ Answered(r)',
           AnswersKept(r)
    PROVE  Accounted(r)'
<1> SUFFICES ASSUME Waiting(r)' PROVE Answered(r)'
  BY DEF Accounted
<1> SUFFICES ASSUME marker'[r] = marker[r] PROVE Answered(r)'
  BY DEF Waiting
<1>1. Answered(r)
  BY DEF Accounted, Waiting
<1>2. marker'[r] = row[r].task
  BY DEF Waiting
<1>3. CASE Message(r, row[r].task) \in broker
  BY <1>3 DEF AnswersKept, Answered, Message
<1>4. CASE r \in stranded
  BY <1>4 DEF AnswersKept, Answered
<1>5. ASSUME NEW w \in Worker, exec[w].pc \in Doing, exec[w].run = r, exec[w].task = row[r].task
      PROVE  Answered(r)'
  BY <1>5 DEF AnswersKept, Answered
<1>6. ASSUME NEW d \in sending, d.run = r, d.task = row[r].task PROVE Answered(r)'
  BY <1>2, <1>6 DEF AnswersKept, Answered
<1>7. CASE recovery.pc # "idle" /\ recovery.run = r /\ recovery.task = row[r].task
  BY <1>2, <1>7 DEF AnswersKept, Answered
<1> QED BY <1>1, <1>3, <1>4, <1>5, <1>6, <1>7 DEF Answered

\* A run that does not wait needs no answer.
LEMMA OnlyWaitersNeedAnswers ==
    ASSUME NEW r \in Run, \/ row'[r].st # "queued" \/ row'[r].lapsed # FALSE
                          \/ row'[r].task = NoTask
    PROVE  Accounted(r)'
BY DEF Accounted, Waiting

\* What a save leaves in a row of its own and in the others.
LEMMA SaveOrCancelled ==
    ASSUME TypeOK, NEW r \in Run, NEW st \in Status, NEW task \in Task \cup {NoTask},
           NEW reason \in Reason, Save(r, st, task, reason)
    PROVE  /\ \A q \in Run \ {r} : row'[q] = row[q]
           /\ \/ row'[r].st = "cancelled"
              \/ row'[r].st = st /\ row'[r].task = task
<1>1. /\ \A q \in Run \ {r} : row'[q] = row[q]
      /\ row[r].st = "cancelled" => row'[r] = row[r]
  BY SaveWritesOne
<1>2. CASE row[r].st = "cancelled"
  BY <1>1, <1>2
<1>3. CASE row[r].st # "cancelled"
  <2>1. PICK v : v = [row[r] EXCEPT !.st = st, !.task = task, !.reason = reason, !.lapsed = FALSE]
    OBVIOUS
  <2>2. v.st = st /\ v.task = task
    BY <2>1 DEF TypeOK, Rows
  <2>3. row' = [row EXCEPT ![r] = v]
    BY <1>3, <2>1, Zenon DEF Save
  <2> QED BY <1>1, <2>2, <2>3 DEF TypeOK
<1> QED BY <1>2, <1>3

\* Admissions and retries.
LEMMA AccountedAfterRequests ==
    ASSUME TypeOK, \A q \in Run : Accounted(q), NEW r \in Run,
           \E s \in Run : \/ Admit(s) \/ AdmitEvent(s) \/ RetryEvent(s) \/ Coalesce(s)
                          \/ \E p \in Api : s \in AssetRun /\ Reserve(p, s)
    PROVE  Accounted(r)'
<1> USE DEF redis, ghosts
<1>1. {"queued", "coalesced"} \subseteq Status
  BY DEF Status, Active, Settled
<1>2. ASSUME NEW s \in Run, Admit(s) \/ AdmitEvent(s) PROVE Accounted(r)'
  <2>1. /\ Insert(s, "queued", Fresh) /\ Spare # {} /\ UNCHANGED <<marker, broker, exec, recovery, stranded>>
    BY <1>2 DEF Admit, AdmitEvent
  <2>2. PICK n : n.run = s /\ n.task = Fresh /\ sending' = sending \cup {n}
    BY <1>2 DEF Admit, AdmitEvent, Send
  <2>3. CASE r = s
    <3>1. row'[r].task = Fresh
      BY <2>1, <2>3 DEF Insert, TypeOK, NoRow
    <3> QED BY <2>2, <2>3, <3>1 DEF Accounted, Answered
  <2>4. CASE r # s
    <3>1. row'[r] = row[r]
      BY <2>1, <2>4 DEF Insert, TypeOK
    <3>2. AnswersKept(r)
      BY <2>1, <2>2 DEF AnswersKept
    <3> QED BY <2>1, <3>1, <3>2, RowsLeftAlone
  <2> QED BY <2>3, <2>4
<1>3. ASSUME NEW s \in Run, RetryEvent(s) PROVE Accounted(r)'
  <2>1. sending \subseteq sending' /\ UNCHANGED <<row, marker, broker, exec, recovery, stranded>>
    BY <1>3 DEF RetryEvent, Send
  <2>2. AnswersKept(r)
    BY <2>1 DEF AnswersKept
  <2> QED BY <2>1, <2>2, RowsLeftAlone
<1>4. ASSUME NEW s \in Run, Coalesce(s) PROVE Accounted(r)'
  <2>1. PICK q \in AssetRun : Insert(s, "coalesced", row[q].task)
    BY <1>4 DEF Coalesce, ActiveOn
  <2>2. UNCHANGED <<marker, broker, sending, exec, recovery, stranded>>
    BY <1>4 DEF Coalesce
  <2>3. AnswersKept(r)
    BY <2>2 DEF AnswersKept
  <2>4. row'[r] = row[r] \/ row'[r].st = "coalesced"
    BY <2>1 DEF Insert, TypeOK, NoRow
  <2> QED BY <2>2, <2>3, <2>4, RowsLeftAlone, OnlyWaitersNeedAnswers
<1>5. ASSUME NEW s \in AssetRun, NEW p \in Api, Reserve(p, s) PROVE Accounted(r)'
  <2>1. UNCHANGED <<marker, broker, sending, recovery, stranded>> /\ p \notin Worker
    BY <1>5, Processes DEF Reserve
  <2>2. \A w \in Worker : exec'[w] = exec[w]
    BY <1>5, <2>1 DEF Reserve, TypeOK, Proc
  <2>3. AnswersKept(r)
    BY <2>1, <2>2 DEF AnswersKept
  <2>4. row'[r] = row[r] \/ row'[r].task = NoTask
    BY <1>5 DEF Reserve, Insert, TypeOK, NoRow
  <2> QED BY <2>1, <2>3, <2>4, RowsLeftAlone, OnlyWaitersNeedAnswers
<1> QED BY <1>2, <1>3, <1>4, <1>5

\* Dispatches.
LEMMA AccountedAfterDispatches ==
    ASSUME TypeOK, IdsApart, \A q \in Run : Accounted(q), NEW r \in Run,
           NEW d \in sending, Dispatch(d) \/ PublishFails(d) \/ DispatcherDies(d)
    PROVE  Accounted(r)'
<1> USE DEF redis, ghosts
<1>1. /\ d.run \in Run /\ d.task \in Task /\ d.old \in Task \cup {NoTask} /\ d \in Dispatches
      /\ row[d.run].reason \in Reason /\ {"queued", "completed", "failed"} \subseteq Status
      /\ "none" \in Reason /\ NoTask \notin Task
  BY CopiesOfRuns, TaskIds DEF TypeOK, Status, Active, Settled, Reason, Task
<1>2. UNCHANGED <<exec, recovery>>
  BY DEF Dispatch, ResetEvent, RecordDispatch, PublishRun, PublishFails, DispatcherDies
<1>3. PICK a, b : a = [d EXCEPT !.pc = "mark"] /\ b = [d EXCEPT !.pc = "publish"]
  OBVIOUS
<1>4. a.run = d.run /\ a.task = d.task /\ b.run = d.run /\ b.task = d.task
  BY <1>1, <1>3 DEF Dispatches
<1>5. CASE ResetEvent(d)
  <2>1. /\ sending' = (sending \ {d}) \cup {a} /\ UNCHANGED <<marker, broker, stranded>>
        /\ Save(d.run, "queued", d.task, "none")
    BY <1>3, <1>5 DEF ResetEvent
  <2>2. /\ \A q \in Run \ {d.run} : row'[q] = row[q]
        /\ row'[d.run].st = "cancelled" \/ row'[d.run].task = d.task
    BY <1>1, <2>1, SaveOrCancelled
  <2>3. CASE r = d.run
    BY <1>4, <2>1, <2>2, <2>3, OnlyWaitersNeedAnswers DEF Accounted, Answered
  <2>4. AnswersKept(r)
    BY <1>2, <1>4, <2>1 DEF AnswersKept
  <2> QED BY <2>1, <2>2, <2>3, <2>4, RowsLeftAlone
<1>6. CASE RecordDispatch(d)
  <2>1. sending' = (sending \ {d}) \cup {b} /\ UNCHANGED <<row, broker, stranded>>
    BY <1>3, <1>6 DEF RecordDispatch
  <2>2. \/ marker'[r] = marker[r]
        \/ r = d.run /\ marker'[r] = d.task
    BY <1>1, <1>6 DEF RecordDispatch, TypeOK
  <2>3. AnswersKept(r)
    BY <1>2, <1>4, <2>1 DEF AnswersKept
  <2>4. CASE marker'[r] = marker[r]
    BY <2>1, <2>3, <2>4, RowsLeftAlone
  <2>5. CASE r = d.run /\ marker'[r] = d.task
    BY <1>4, <2>1, <2>5 DEF Accounted, Waiting, Answered
  <2> QED BY <2>2, <2>4, <2>5
<1>7. CASE PublishRun(d)
  <2>1. /\ broker' = broker \cup {Message(d.run, d.task)} /\ sending' = sending \ {d}
        /\ UNCHANGED <<row, marker>>
        /\ stranded' = IF row[d.run].task = d.task THEN stranded \ {d.run} ELSE stranded
    BY <1>7 DEF PublishRun
  <2>2. AnswersKept(r)
    BY <1>2, <2>1 DEF AnswersKept
  <2> QED BY <2>1, <2>2, RowsLeftAlone
<1>8. CASE PublishFails(d)
  <2>1. /\ sending' = sending \ {d} /\ UNCHANGED <<broker, stranded>>
        /\ marker' = [marker EXCEPT ![d.run] = IF marker[d.run] = d.task THEN NoTask ELSE marker[d.run]]
    BY <1>8 DEF PublishFails, ClearMarker
  <2>2. /\ \A q \in Run \ {d.run} : row'[q] = row[q]
        /\ row'[d.run].st \in {"cancelled", "completed", "failed"}
    BY <1>1, <1>8, SaveOrCancelled DEF PublishFails
  <2>3. CASE r = d.run
    BY <2>2, <2>3, OnlyWaitersNeedAnswers
  <2>4. CASE r # d.run
    <3>1. AnswersKept(r)
      BY <1>2, <2>1, <2>4 DEF AnswersKept
    <3> QED BY <2>1, <2>2, <2>4, <3>1, RowsLeftAlone DEF TypeOK
  <2> QED BY <2>3, <2>4
<1>9. CASE DispatcherDies(d)
  <2>1. /\ sending' = sending \ {d} /\ UNCHANGED <<row, marker, broker>>
        /\ stranded' = IF d.pc = "publish" THEN stranded \cup {d.run} ELSE stranded
    BY <1>9 DEF DispatcherDies
  <2>2. d.pc = "publish" \/ marker[d.run] # d.task
    BY <1>1 DEF IdsApart, Dispatches
  <2>3. AnswersKept(r)
    BY <1>2, <2>1, <2>2 DEF AnswersKept
  <2> QED BY <2>1, <2>3, RowsLeftAlone
<1> QED BY <1>5, <1>6, <1>7, <1>8, <1>9 DEF Dispatch

\* Executions.
LEMMA AccountedAfterExecutions ==
    ASSUME RunsInv, \A q \in Run : Accounted(q), NEW r \in Run,
           NEW p \in Proc, \/ Execute(p) \/ EngineFails(p) \/ ProcessDies(p)
                           \/ p \in Worker /\ (HeartbeatLease(p) \/ \E m \in broker : Deliver(p, m))
    PROVE  Accounted(r)'
<1> USE DEF redis, ghosts
<1>0. TypeOK /\ ExecutionFits(p)
  BY DEF RunsInv
<1>1. exec[p].pc # "idle" =>
        /\ exec[p].run \in Run /\ exec[p].task \in Task \cup {NoTask}
        /\ exec[p].reason \in Reason
        /\ exec[p] \in [pc : Steps, run : Run, task : Task \cup {NoTask}, leased : BOOLEAN,
                        reason : Reason, draft : {"none", "llm", "rules"}]
  BY <1>0, CopiesOfRuns
<1>2. /\ {"queued", "running", "completed", "failed"} \subseteq Status
      /\ {"none", "model", "time"} \subseteq Reason
  BY DEF Status, Active, Settled, Reason
<1>3. ASSUME UNCHANGED <<row, marker, broker, sending, recovery>>, stranded \subseteq stranded',
             \A w \in Worker : exec[w].pc \in Doing =>
                exec'[w].pc \in Doing /\ exec'[w].run = exec[w].run /\ exec'[w].task = exec[w].task
      PROVE  Accounted(r)'
  <2>1. AnswersKept(r)
    BY <1>3 DEF AnswersKept
  <2> QED BY <1>3, <2>1, RowsLeftAlone
<1>4. CASE TakeLease(p)
  <2>1. exec[p].pc # "idle"
    BY <1>4 DEF TakeLease
  <2>2. PICK a, b : /\ a = [exec[p] EXCEPT !.pc = "draft", !.leased = TRUE]
                    /\ b = [exec[p] EXCEPT !.pc = "draft"]
    OBVIOUS
  <2>3. /\ a.pc = "draft" /\ a.run = exec[p].run /\ a.task = exec[p].task
        /\ b.pc = "draft" /\ b.run = exec[p].run /\ b.task = exec[p].task
    BY <1>1, <2>1, <2>2
  <2>4. exec' = [exec EXCEPT ![p] = a] \/ exec' = [exec EXCEPT ![p] = b]
    BY <1>0, <1>4, <2>2 DEF TakeLease, TypeOK
  <2>5. \A w \in Worker : exec[w].pc \in Doing =>
          exec'[w].pc \in Doing /\ exec'[w].run = exec[w].run /\ exec'[w].task = exec[w].task
    BY <1>0, <2>3, <2>4 DEF TypeOK, Doing, Proc
  <2> QED BY <1>3, <1>4, <2>5 DEF TakeLease
<1>5. CASE HeartbeatLease(p)
  BY <1>3, <1>5 DEF HeartbeatLease
<1>6. ASSUME NEW q \in Run, q # r, \A s \in Run \ {q} : row'[s] = row[s],
             UNCHANGED <<marker, sending, recovery>>, broker \subseteq broker',
             stranded \subseteq stranded', exec[p].pc \in Doing => exec[p].run = q,
             \A w \in Proc : w # p => exec'[w] = exec[w]
      PROVE  Accounted(r)'
  <2>1. AnswersKept(r)
    BY <1>6 DEF AnswersKept, Proc
  <2> QED BY <1>6, <2>1, RowsLeftAlone
<1>7. CASE Draft(p) \/ Finish(p)
  <2>1. ASSUME NEW from \in {"draft", "finish"}, NEW to, NEW st \in {"running", "completed"},
               NEW reason \in Reason, NEW draft, Advance(p, from, to, st, reason, draft)
        PROVE  Accounted(r)'
    <3>1. /\ exec[p].pc # "idle" /\ UNCHANGED <<marker, broker, sending, recovery, stranded>>
          /\ Save(exec[p].run, st, exec[p].task, reason)
      BY <2>1 DEF Advance
    <3>2. /\ \A s \in Run \ {exec[p].run} : row'[s] = row[s]
          /\ row'[exec[p].run].st \in {"cancelled", "running", "completed"}
      BY <1>0, <1>1, <1>2, <3>1, SaveOrCancelled
    <3>3. \A w \in Proc : w # p => exec'[w] = exec[w]
      BY <1>0, <2>1 DEF Advance, TypeOK
    <3> QED BY <1>1, <1>6, <3>1, <3>2, <3>3, OnlyWaitersNeedAnswers
  <2>2. exec[p].pc # "idle"
    BY <1>7 DEF Draft, Finish, Advance
  <2> QED BY <1>1, <1>2, <1>7, <2>1, <2>2 DEF Draft, Finish
<1>8. CASE Follow(p)
  <2>1. /\ exec[p].pc = "follow" /\ \A w \in Proc : w # p => exec'[w] = exec[w]
    BY <1>0, <1>8 DEF Follow, Leave, TypeOK
  <2> QED BY <1>3, <1>8, <2>1 DEF Follow, Doing, Proc
<1>9. CASE EngineFails(p)
  <2>1. /\ exec[p].pc # "idle" /\ UNCHANGED <<marker, sending, recovery>>
        /\ broker \subseteq broker' /\ stranded \subseteq stranded'
    BY <1>9 DEF EngineFails
  <2>2. PICK q \in Run : q = exec[p].run
    BY <1>1, <2>1
  <2>3. row[q].task \in Task \cup {NoTask} /\ row[q].reason \in Reason
    BY <1>0, CopiesOfRuns
  <2>4. \/ \E reason \in Reason : Save(q, "failed", row[q].task, reason)
        \/ /\ Save(q, "queued", row[q].task, row[q].reason)
           /\ Message(q, exec[p].task) \in broker'
           /\ row[q].task # exec[p].task => q \in stranded'
    <3>1. Message(q, exec[p].task).task = exec[p].task
      BY DEF Message
    <3> QED BY <1>2, <1>9, <2>2, <2>3, <3>1 DEF EngineFails
  <2>5. \A s \in Run \ {q} : row'[s] = row[s]
    BY <1>0, <1>2, <2>3, <2>4, SaveOrCancelled
  <2>6. \A w \in Proc : w # p => exec'[w] = exec[w]
    BY <1>0, <1>9 DEF EngineFails, Leave, TypeOK
  <2>7. CASE r # q
    BY <1>6, <2>1, <2>2, <2>5, <2>6, <2>7
  <2>8. CASE r = q
    <3>1. CASE \E reason \in Reason : Save(q, "failed", row[q].task, reason)
      BY <1>0, <1>2, <2>3, <2>8, <3>1, SaveOrCancelled, OnlyWaitersNeedAnswers
    <3>2. CASE /\ Save(q, "queued", row[q].task, row[q].reason)
               /\ Message(q, exec[p].task) \in broker'
               /\ row[q].task # exec[p].task => q \in stranded'
      <4>1. row'[q].st = "cancelled" \/ row'[q].task = row[q].task
        BY <1>0, <1>2, <2>3, <3>2, SaveOrCancelled
      <4> QED BY <2>8, <3>2, <4>1, OnlyWaitersNeedAnswers DEF Accounted, Answered
    <3> QED BY <2>4, <3>1, <3>2
  <2> QED BY <2>7, <2>8
<1>10. CASE ProcessDies(p)
  <2>1. /\ exec[p].pc # "idle" /\ UNCHANGED <<row, marker, sending, recovery, stranded>>
        /\ broker \subseteq broker'
        /\ p \in Worker => Message(exec[p].run, exec[p].task) \in broker'
    BY <1>10 DEF ProcessDies
  <2>2. \A w \in Proc : w # p => exec'[w] = exec[w]
    BY <1>0, <1>10 DEF ProcessDies, TypeOK
  <2>3. AnswersKept(r)
    BY <2>1, <2>2 DEF AnswersKept, Proc
  <2> QED BY <2>1, <2>3, RowsLeftAlone
<1>11. ASSUME p \in Worker, NEW m \in broker, Deliver(p, m) PROVE Accounted(r)'
  <2>1. /\ m.run \in Run /\ row[m.run].task \in Task \cup {NoTask} /\ row[m.run].reason \in Reason
        /\ m = Message(m.run, m.task)
    BY <1>0, CopiesOfRuns DEF TypeOK, Messages, Message
  <2>2. /\ UNCHANGED <<marker, sending, recovery>> /\ broker' = broker \ {m}
        /\ exec[p].pc = "idle" /\ stranded \subseteq stranded'
    BY <1>11 DEF Deliver
  <2>3. \A q \in Proc : q # p => exec'[q] = exec[q]
    BY <1>0, <1>11, DeliverStartsOne
  <2>4. CASE r # m.run
    <3>1. row'[r] = row[r]
      BY <1>0, <1>2, <1>11, <2>1, <2>4, DeliverStartsOne, SaveOrCancelled
    <3>2. AnswersKept(r)
      BY <2>2, <2>3, <2>4 DEF AnswersKept, Proc, Doing
    <3> QED BY <2>2, <3>1, <3>2, RowsLeftAlone
  <2>5. CASE r = m.run /\ Save(m.run, "running", row[m.run].task, row[m.run].reason)
    <3>1. row'[r].st \in {"cancelled", "running"}
      BY <1>0, <1>2, <2>1, <2>5, SaveOrCancelled
    <3> QED BY <3>1, OnlyWaitersNeedAnswers
  <2>6. CASE r = m.run /\ exec' = exec /\ UNCHANGED <<row, revived>>
    <3>1. CASE row[r].task # NoTask /\ row[r].task # m.task
      <4>1. Message(r, row[r].task) \in broker => Message(r, row[r].task) \in broker'
        BY <2>1, <2>2, <2>6, <3>1 DEF Message
      <4> QED BY <2>2, <2>6, <4>1 DEF Accounted, Waiting, Answered
    <3>2. CASE row[r].st # "queued"
      BY <2>6, <3>2, OnlyWaitersNeedAnswers
    <3>3. CASE row[r].task = NoTask
      BY <2>6, <3>3, OnlyWaitersNeedAnswers
    <3>4. CASE row[r].task = m.task /\ row[r].st = "queued"
      <4>1. Save(m.run, "running", row[m.run].task, row[m.run].reason)
        BY <1>11, <2>6, <3>4 DEF Deliver
      <4> QED BY <2>5, <2>6, <4>1
    <3> QED BY <3>1, <3>2, <3>3, <3>4
  <2> QED BY <1>0, <1>11, <2>4, <2>5, <2>6, DeliverStartsOne
<1> QED BY <1>4, <1>5, <1>7, <1>8, <1>9, <1>10, <1>11 DEF Execute

\* Beat, the recovery, users and losses.
LEMMA AccountedAfterOthers ==
    ASSUME RunsInv, IdsApart, \A q \in Run : Accounted(q), NEW r \in Run,
           \/ \E s \in Run : LeaseExpires(s) \/ Reconcile(s) \/ Rescue(s) \/ CancelRun(s)
                             \/ RevokeRun(s)
           \/ \E q, s \in AssetRun : Compact(q, s)
           \/ Rescuing \/ PurgeQueue \/ RedisIsLost
    PROVE  Accounted(r)'
<1> USE DEF redis, ghosts
<1>0. TypeOK
  BY DEF RunsInv
<1>1. ASSUME row'[r] = row[r] \/ row'[r].st # "queued" \/ row'[r].lapsed # FALSE,
             UNCHANGED <<marker, broker, sending, exec, stranded>>,
             UNCHANGED recovery \/ recovery.pc = "idle"
      PROVE  Accounted(r)'
  <2>1. AnswersKept(r)
    BY <1>1 DEF AnswersKept
  <2> QED BY <1>1, <2>1, RowsLeftAlone, OnlyWaitersNeedAnswers
<1>2. ASSUME NEW s \in Run, Reconcile(s) PROVE Accounted(r)'
  <2>1. PICK a, b : /\ a = [row[s] EXCEPT !.st = "queued", !.reason = "none", !.lapsed = TRUE]
                    /\ b = [row[s] EXCEPT !.st = "failed", !.reason = "time"]
    OBVIOUS
  <2>2. a.lapsed = TRUE /\ b.st = "failed"
    BY <1>0, <2>1 DEF TypeOK, Rows
  <2>3. row' = [row EXCEPT ![s] = a] \/ row' = [row EXCEPT ![s] = b]
    BY <1>0, <1>2, <2>1 DEF Reconcile, TypeOK
  <2>4. row'[r] = row[r] \/ row'[r].st = "failed" \/ row'[r].lapsed = TRUE
    BY <1>0, <2>2, <2>3 DEF TypeOK
  <2>5. UNCHANGED <<marker, broker, sending, exec, stranded, recovery>>
    BY <1>2 DEF Reconcile
  <2> QED BY <1>1, <2>4, <2>5
<1>3. ASSUME NEW s \in Run, CancelRun(s) PROVE Accounted(r)'
  <2>0. PICK a : a = [row[s] EXCEPT !.st = "cancelled", !.reason = "none", !.lapsed = FALSE]
    OBVIOUS
  <2>1. row'[r] = row[r] \/ row'[r].st = "cancelled"
    <3>1. a.st = "cancelled"
      BY <1>0, <2>0 DEF TypeOK, Rows
    <3>2. row' = [row EXCEPT ![s] = a]
      BY <1>0, <1>3, <2>0 DEF CancelRun, TypeOK
    <3> QED BY <1>0, <3>1, <3>2 DEF TypeOK
  <2>2. UNCHANGED <<marker, broker, sending, exec, stranded, recovery>>
    BY <1>3 DEF CancelRun
  <2> QED BY <1>1, <2>1, <2>2
<1>4. ASSUME NEW q \in AssetRun, NEW s \in AssetRun, Compact(q, s) PROVE Accounted(r)'
  <2>1. row'[r] = row[r] \/ row'[r].st = "coalesced"
    BY <1>0, <1>4 DEF Compact, TypeOK, Rows
  <2>2. UNCHANGED <<marker, broker, sending, exec, stranded, recovery>>
    BY <1>4 DEF Compact
  <2> QED BY <1>1, <2>1, <2>2
<1>5. ASSUME NEW s \in Run, LeaseExpires(s) \/ Rescue(s) PROVE Accounted(r)'
  <2>1. UNCHANGED <<row, marker, broker, sending, exec, stranded>>
    BY <1>5 DEF LeaseExpires, Rescue
  <2>2. UNCHANGED recovery \/ recovery.pc = "idle"
    BY <1>5 DEF LeaseExpires, Rescue, NoRescue
  <2>3. row'[r] = row[r]
    BY <2>1
  <2> QED BY <1>1, <2>1, <2>2, <2>3
<1>6. ASSUME NEW s \in Run, RevokeRun(s) PROVE Accounted(r)'
  <2>1. /\ row[s].st = "cancelled" /\ UNCHANGED <<row, marker, sending, recovery, stranded>>
        /\ \A m \in broker : m.run # s => m \in broker'
    BY <1>6 DEF RevokeRun
  <2>2. \A w \in Worker : exec[w].pc \in Doing /\ exec[w].run # s => exec'[w] = exec[w]
    BY <1>6 DEF RevokeRun, Works, Proc
  <2>3. CASE r = s
    BY <2>1, <2>3, OnlyWaitersNeedAnswers
  <2>4. CASE r # s
    <3>1. AnswersKept(r)
      BY <2>1, <2>2, <2>4 DEF AnswersKept
    <3> QED BY <2>1, <3>1, RowsLeftAlone
  <2> QED BY <2>3, <2>4
<1>7. CASE PurgeQueue
  <2>1. /\ stranded' = stranded \cup {m.run : m \in broker}
        /\ UNCHANGED <<row, marker, sending, exec, recovery>>
    BY <1>7 DEF PurgeQueue
  <2>2. AnswersKept(r)
    BY <2>1 DEF AnswersKept
  <2> QED BY <2>1, <2>2, RowsLeftAlone
<1>8. CASE RedisIsLost
  <2>1. marker'[r] = NoTask /\ UNCHANGED row
    BY <1>8 DEF RedisIsLost
  <2> QED BY <2>1 DEF Accounted, Waiting
<1>9. CASE Rescuing
  <2>1. recovery.pc # "idle" /\ UNCHANGED <<sending, exec>>
    BY <1>9 DEF Rescuing, RescueMarks, RescueSaves, RescuePublishes
  <2>2. /\ recovery \in [pc : {"mark", "save", "publish"}, run : Run, task : Task, copy : Rows]
        /\ recovery.run \in Run /\ recovery.task \in Task /\ recovery.task # NoTask
    BY <1>0, <2>1, CopiesOfRuns, TaskIds DEF Task
  <2>3. /\ recovery.copy.task \in Task \cup {NoTask} /\ recovery.copy.reason \in Reason
        /\ "queued" \in Status
    BY <2>2 DEF Rows, Status, Active
  <2>4. CASE RescueMarks
    <3>1. CASE /\ marker' = [marker EXCEPT ![recovery.run] = recovery.task]
               /\ recovery' = [recovery EXCEPT !.pc = "save"]
      <4>1. UNCHANGED <<row, broker, stranded>>
        BY <2>4 DEF RescueMarks
      <4>2. recovery'.pc = "save" /\ recovery'.run = recovery.run /\ recovery'.task = recovery.task
        BY <2>2, <3>1
      <4>3. AnswersKept(r)
        BY <2>1, <4>1, <4>2 DEF AnswersKept
      <4>4. marker'[r] = marker[r] \/ (r = recovery.run /\ marker'[r] = recovery.task)
        BY <1>0, <3>1 DEF TypeOK
      <4>5. CASE marker'[r] = marker[r]
        BY <4>1, <4>3, <4>5, RowsLeftAlone
      <4>6. CASE r = recovery.run /\ marker'[r] = recovery.task
        BY <4>1, <4>2, <4>6 DEF Accounted, Waiting, Answered
      <4> QED BY <4>4, <4>5, <4>6
    <3>2. CASE UNCHANGED marker /\ recovery' = NoRescue
      <4>1. /\ UNCHANGED <<row, broker, stranded>> /\ recovery.pc = "mark"
            /\ marker[recovery.run] # recovery.task
        BY <2>4 DEF RescueMarks, IdsApart
      <4>2. AnswersKept(r)
        BY <2>1, <3>2, <4>1 DEF AnswersKept
      <4> QED BY <3>2, <4>1, <4>2, RowsLeftAlone
    <3> QED BY <2>4, <3>1, <3>2 DEF RescueMarks
  <2>5. CASE RescueSaves
    <3>1. /\ Save(recovery.run, "queued", recovery.task, recovery.copy.reason)
          /\ recovery' = [recovery EXCEPT !.pc = "publish"]
          /\ UNCHANGED <<marker, broker, stranded>>
      BY <2>5 DEF RescueSaves
    <3>2. recovery'.pc = "publish" /\ recovery'.run = recovery.run /\ recovery'.task = recovery.task
      BY <2>2, <3>1
    <3>3. /\ \A q \in Run \ {recovery.run} : row'[q] = row[q]
          /\ row'[recovery.run].st = "cancelled" \/ row'[recovery.run].task = recovery.task
      BY <1>0, <2>2, <2>3, <3>1, SaveOrCancelled
    <3>4. AnswersKept(r)
      BY <2>1, <3>1, <3>2 DEF AnswersKept
    <3>5. CASE r = recovery.run
      BY <3>2, <3>3, <3>5, OnlyWaitersNeedAnswers DEF Accounted, Answered
    <3> QED BY <3>1, <3>3, <3>4, <3>5, RowsLeftAlone
  <2>6. CASE RescuePublishes
    <3>1. CASE /\ broker' = broker \cup {Message(recovery.run, recovery.task)}
               /\ stranded' = IF row[recovery.run].task = recovery.task
                              THEN stranded \ {recovery.run} ELSE stranded
               /\ UNCHANGED <<row, marker>>
      <4>1. AnswersKept(r)
        BY <2>1, <3>1 DEF AnswersKept
      <4> QED BY <3>1, <4>1, RowsLeftAlone
    <3>2. CASE /\ ClearMarker(recovery.run, recovery.task)
               /\ Save(recovery.run, "queued", recovery.copy.task, recovery.copy.reason)
               /\ stranded' = IF marker[recovery.run] = recovery.copy.task
                              THEN stranded \cup {recovery.run} ELSE stranded
               /\ UNCHANGED broker
      <4>1. /\ \A q \in Run \ {recovery.run} : row'[q] = row[q]
            /\ row'[recovery.run].st = "cancelled" \/ row'[recovery.run].task = recovery.copy.task
        BY <1>0, <2>2, <2>3, <3>2, SaveOrCancelled
      <4>2. /\ \A q \in Run \ {recovery.run} : marker'[q] = marker[q]
            /\ marker'[recovery.run] = IF marker[recovery.run] = recovery.task THEN NoTask
                                       ELSE marker[recovery.run]
        BY <1>0, <2>2, <3>2 DEF ClearMarker, TypeOK
      <4>3. CASE r = recovery.run
        BY <3>2, <4>1, <4>2, <4>3 DEF Accounted, Waiting, Answered
      <4>4. CASE r # recovery.run
        <5>1. AnswersKept(r)
          BY <2>1, <3>2, <4>4 DEF AnswersKept
        <5> QED BY <4>1, <4>2, <4>4, <5>1, RowsLeftAlone
      <4> QED BY <4>3, <4>4
    <3> QED BY <2>6, <3>1, <3>2 DEF RescuePublishes
  <2> QED BY <1>9, <2>4, <2>5, <2>6 DEF Rescuing
<1> QED BY <1>2, <1>3, <1>4, <1>5, <1>6, <1>7, <1>8, <1>9

\* A waiting run whose marker names its task is on its way, or its message was lost:
\* the recovery does not send it again and need not (worker.py,
\* recover_orphaned_queued_research_runs and the dispatches it watches).
THEOREM MarkersTellTheTruth == Spec => []MarkerTellsTheTruth
<1> DEFINE AllAccounted == \A r \in Run : Accounted(r)
<1>1. Init => IdsApart /\ AllAccounted
  BY DEF Init, IdsApart, NoRescue, NoRow, Accounted, Waiting
<1>2. RunsInv /\ IdsApart /\ AllAccounted /\ [Next]_runVars => IdsApart' /\ AllAccounted'
  <2> SUFFICES ASSUME RunsInv, IdsApart, AllAccounted, [Next]_runVars
               PROVE  IdsApart' /\ AllAccounted'
    OBVIOUS
  <2>1. TypeOK
    BY DEF RunsInv
  <2>2. ASSUME NEW r \in Run PROVE Accounted(r)'
    <3>1. CASE UNCHANGED runVars
      BY <3>1 DEF runVars, redis, ghosts, Accounted, Waiting, Answered
    <3>2. CASE Next
      BY <2>1, <3>2, AccountedAfterRequests, AccountedAfterDispatches, AccountedAfterExecutions,
         AccountedAfterOthers DEF Next, Run, Proc
    <3> QED BY <3>1, <3>2
  <2> QED BY <2>1, <2>2, IdsStayApart
<1>3. AllAccounted /\ RunsInv => MarkerTellsTheTruth
  BY DEF Accounted, Waiting, Answered, MarkerTellsTheTruth, Works, Doing, RunsInv, TypeOK, Rows
<1> QED BY <1>1, <1>2, <1>3, RunsInvHolds, PTL DEF Spec

===============================================================================
