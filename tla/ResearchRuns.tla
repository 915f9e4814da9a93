----------------------------- MODULE ResearchRuns -----------------------------
(***************************************************************************)
(* Research runs from admission to the end.  A run is a row of research_   *)
(* runs (an asset) or event_research_runs (an event); each dispatch of it  *)
(* is a Celery message with an id of its own, which the row, a marker in   *)
(* Redis and the worker that executes it all carry.  A worker holds a      *)
(* lease key in Redis; beat requeues the runs whose lease is gone and      *)
(* sends again the queued runs whose marker is gone; users admit, retry    *)
(* and cancel runs.                                                        *)
(*                                                                         *)
(* A worker, a dispatch and the recovery write the whole row from the copy *)
(* they loaded, with slow calls in between (models, health probes): these  *)
(* are separate steps.  A read and a write with nothing but SQL between    *)
(* them are one step.  COMPLETED stands for INSUFFICIENT_EVIDENCE too, and *)
(* RUNNING for VERIFYING.                                                  *)
(***************************************************************************)
EXTENDS Naturals, FiniteSets

CONSTANTS
    AssetRun, EventRun,  \* run ids, and the event runs among them
    AssetOf,             \* the asset an asset run is about
    Worker,              \* Celery workers of the research lane
    Api,                 \* API threads that execute a run inside a request
    NoTask,
    MaxTask,             \* bound: task ids (uuid4) in use at a time
    MaxRequests,         \* bound: what users ask for
    MaxUpsets            \* bound: deaths, failed calls, lost keys

ASSUME RunKinds  == AssetRun \cap EventRun = {}
ASSUME Processes == Worker \cap Api = {}
ASSUME TaskIds   == MaxTask \in Nat /\ NoTask \notin Nat
ASSUME Bounds    == MaxRequests \in Nat /\ MaxUpsets \in Nat

Run  == AssetRun \cup EventRun
Proc == Worker \cup Api
Task == 1 .. MaxTask

VARIABLES
    row,       \* the rows
    marker,    \* market-loop:research:dispatch:<run> in Redis
    lease,     \* market-loop:research:lease:<run> exists
    broker,    \* Celery messages
    sending,   \* dispatches under way
    recovery,  \* the run recover_orphaned_queued_research_runs works on
    exec,      \* what each process executes
    orders,    \* paper orders of a run: who wrote the drafts they follow
    requests, upsets,
    gap,       \* runs whose lease key was lost or deleted under a live worker
    stranded,  \* runs whose message was lost while their marker stands, or that a superseded
               \* execution or a failed rescue put back with the marker of another dispatch
    revived    \* asset runs that an old copy or a redelivery made active again

redis  == <<marker, lease, broker>>
ghosts == <<gap, stranded, revived>>
runVars == <<row, redis, sending, recovery, exec, orders, requests, upsets, ghosts>>

Active  == {"queued", "running"}
Settled == {"completed", "failed", "coalesced"}
Status  == Active \cup Settled \cup {"absent", "cancelled"}
Steps   == {"lease", "draft", "finish", "follow"}

Idle     == [pc |-> "idle", run |-> "none", task |-> NoTask, leased |-> FALSE,
             reason |-> "none", draft |-> "none"]
NoRescue == [pc |-> "idle", run |-> "none", task |-> NoTask, copy |-> "none"]
NoRow    == [st |-> "absent", task |-> NoTask, reason |-> "none",
             lapsed |-> FALSE]

Reason == {"none", "model", "time"}
Rows == [st : Status, task : Task \cup {NoTask}, reason : Reason, lapsed : BOOLEAN]
Messages   == [run : Run, task : Task]
Dispatches == [pc : {"save", "mark", "publish"}, run : Run, task : Task,
               back : Status, old : Task \cup {NoTask}]
Rescues    == {NoRescue} \cup [pc : {"mark", "save", "publish"}, run : Run, task : Task, copy : Rows]
Executions == {Idle} \cup [pc : Steps, run : Run, task : Task \cup {NoTask}, leased : BOOLEAN,
                           reason : Reason, draft : {"none", "llm", "rules"}]

TypeOK ==
    /\ row \in [Run -> Rows]
    /\ marker \in [Run -> Task \cup {NoTask}] /\ lease \in [Run -> BOOLEAN]
    /\ broker \subseteq Messages /\ sending \subseteq Dispatches
    /\ recovery \in Rescues /\ exec \in [Proc -> Executions]
    /\ orders \in [Run -> SUBSET {"llm", "rules"}]
    /\ requests \in 0 .. MaxRequests /\ upsets \in 0 .. MaxUpsets
    /\ gap \subseteq Run /\ stranded \subseteq Run /\ revived \subseteq AssetRun

Init ==
    /\ row = [r \in Run |-> NoRow]
    /\ marker = [r \in Run |-> NoTask] /\ lease = [r \in Run |-> FALSE]
    /\ broker = {} /\ sending = {} /\ recovery = NoRescue
    /\ exec = [p \in Proc |-> Idle]
    /\ orders = [r \in Run |-> {}]
    /\ requests = 0 /\ upsets = 0
    /\ gap = {} /\ stranded = {} /\ revived = {}

Request == requests < MaxRequests /\ requests' = requests + 1
Upset   == upsets < MaxUpsets /\ upsets' = upsets + 1

\* A task id nothing refers to.
InUse ==
    {row[r].task : r \in Run} \cup {marker[r] : r \in Run} \cup {m.task : m \in broker}
    \cup {d.task : d \in sending} \cup {d.old : d \in sending} \cup {exec[p].task : p \in Proc}
    \cup {recovery.task} \cup (IF recovery = NoRescue THEN {} ELSE {recovery.copy.task})
Spare == Task \ InUse
Fresh == CHOOSE t \in Spare : TRUE

\* The runs a process or a dispatch is busy with.
Works(p, r)  == exec[p].pc # "idle" /\ exec[p].run = r
Underway(r)  == {d \in sending : d.run = r}
Message(r, t) == [run |-> r, task |-> t]

-------------------------------------------------------------------------------
\* Defect: the row is written without looking at its status first.
SaveBlindly(r, st, task, reason) ==
    /\ row' = [row EXCEPT ![r] = [@ EXCEPT !.st = st, !.task = task, !.reason = reason,
                                           !.lapsed = FALSE]]
    /\ revived' = IF r \in AssetRun /\ row[r].st \in Settled /\ st \in Active
                  THEN revived \cup {r} ELSE revived

\* save_run, save_event_research_run: a cancelled row is left as it is, any
\* other is overwritten whole.
Save(r, st, task, reason) ==
    IF row[r].st = "cancelled" THEN UNCHANGED <<row, revived>>
    ELSE /\ row' = [row EXCEPT ![r] = [@ EXCEPT !.st = st, !.task = task, !.reason = reason,
                                                !.lapsed = FALSE]]
         /\ revived' = IF r \in AssetRun /\ row[r].st \in Settled /\ st \in Active
                       THEN revived \cup {r} ELSE revived

Insert(r, st, task) ==
    /\ row' = [row EXCEPT ![r] = [NoRow EXCEPT !.st = st, !.task = task]]
    /\ UNCHANGED revived

Send(pc, r, old) ==
    sending' = sending \cup {[pc |-> pc, run |-> r, task |-> Fresh, back |-> row[r].st,
                              old |-> old]}

\* active_asset_research.
ActiveOn(a) == {r \in AssetRun : AssetOf[r] = a /\ row[r].st \in Active}

-------------------------------------------------------------------------------
\* Defect: a second run is let in while one waits in the queue.
AdmitBesideQueued(r) ==
    /\ Request /\ Spare # {}
    /\ row[r].st = "absent"
    /\ \A q \in ActiveOn(AssetOf[r]) : row[q].st = "queued"
    /\ Insert(r, "queued", Fresh) /\ Send("mark", r, NoTask)
    /\ UNCHANGED <<redis, recovery, exec, orders, upsets, gap, stranded>>

\* enqueue_research under the advisory lock of the asset: no active run, then the
\* first commit is the insert.  The cooldown after a COMPLETED run depends on
\* the time since and on what the caller may bypass: it may or may not refuse.
Admit(r) ==
    /\ Request /\ Spare # {}
    /\ row[r].st = "absent" /\ ActiveOn(AssetOf[r]) = {}
    /\ Insert(r, "queued", Fresh) /\ Send("mark", r, NoTask)
    /\ UNCHANGED <<redis, recovery, exec, orders, upsets, gap, stranded>>

\* enqueue_research for an event on an asset that has an active run.
Coalesce(r) ==
    /\ Request
    /\ row[r].st = "absent" /\ ActiveOn(AssetOf[r]) # {}
    /\ \E q \in ActiveOn(AssetOf[r]) : Insert(r, "coalesced", row[q].task)
    /\ UNCHANGED <<redis, sending, recovery, exec, orders, upsets, gap, stranded>>

\* enqueue_event_report: one row for an event, whatever its status.
AdmitEvent(r) ==
    /\ Request /\ Spare # {}
    /\ row[r].st = "absent"
    /\ Insert(r, "queued", Fresh) /\ Send("mark", r, NoTask)
    /\ UNCHANGED <<redis, recovery, exec, orders, upsets, gap, stranded>>

\* retry_event_research_run, and research again from a conclusion: the row of the
\* event is checked, then an instance is probed before it is reset.
RetryEvent(r) ==
    /\ Request /\ Spare # {}
    /\ \/ row[r].st = "failed" \/ row[r].reason # "none" \/ row[r].st = "completed"
    /\ row[r].st \notin {"absent", "cancelled"}
    /\ Send("save", r, row[r].task)
    /\ UNCHANGED <<row, redis, recovery, exec, orders, upsets, ghosts>>

\* enqueue_event_research_retry, enqueue_event_research_refresh: the reset.
ResetEvent(d) ==
    /\ d \in sending /\ d.pc = "save"
    /\ Save(d.run, "queued", d.task, "none")
    /\ sending' = (sending \ {d}) \cup {[d EXCEPT !.pc = "mark"]}
    /\ UNCHANGED <<redis, recovery, exec, orders, requests, upsets, gap, stranded>>

\* _record_research_dispatch; without Redis the marker is not set.
RecordDispatch(d) ==
    /\ d \in sending /\ d.pc = "mark"
    /\ \/ marker' = [marker EXCEPT ![d.run] = d.task] /\ UNCHANGED upsets
       \/ UNCHANGED marker /\ Upset
    /\ sending' = (sending \ {d}) \cup {[d EXCEPT !.pc = "publish"]}
    /\ UNCHANGED <<row, lease, broker, recovery, exec, orders, requests, ghosts>>

\* apply_async.
PublishRun(d) ==
    /\ d \in sending /\ d.pc = "publish"
    /\ broker' = broker \cup {Message(d.run, d.task)}
    /\ sending' = sending \ {d}
    /\ stranded' = IF row[d.run].task = d.task THEN stranded \ {d.run} ELSE stranded
    /\ UNCHANGED <<row, marker, lease, recovery, exec, orders, requests, upsets,
                   gap, revived>>

\* _clear_research_dispatch.
ClearMarker(r, t) == marker' = [marker EXCEPT ![r] = IF @ = t THEN NoTask ELSE @]

\* apply_async raises: a new or a retried run ends FAILED, a refreshed report
\* gets its status and its task id back.
PublishFails(d) ==
    /\ Upset
    /\ d \in sending /\ d.pc = "publish"
    /\ ClearMarker(d.run, d.task)
    /\ IF d.back = "completed" THEN Save(d.run, "completed", d.old, "none")
       ELSE Save(d.run, "failed", d.task, row[d.run].reason)
    /\ sending' = sending \ {d}
    /\ UNCHANGED <<lease, broker, recovery, exec, orders, requests, gap, stranded>>

\* The process that dispatches dies.  After the marker was recorded nobody will
\* publish the message and nothing tells: the marker names the row's task.
DispatcherDies(d) ==
    /\ Upset
    /\ d \in sending
    /\ sending' = sending \ {d}
    /\ stranded' = IF d.pc = "publish" THEN stranded \cup {d.run} ELSE stranded
    /\ UNCHANGED <<row, redis, recovery, exec, orders, requests, gap, revived>>

-------------------------------------------------------------------------------
\* research_asset, research_event: a superseded delivery and one of a cancelled or
\* coalesced run are dropped; an event report that is there is kept, an asset
\* run is executed again.
Deliver(w, m) ==
    /\ exec[w].pc = "idle" /\ m \in broker
    /\ broker' = broker \ {m}
    /\ IF \/ row[m.run].task # NoTask /\ row[m.run].task # m.task
          \/ row[m.run].st \in {"cancelled", "coalesced"}
          \/ m.run \in EventRun /\ row[m.run].st = "completed"
       THEN /\ stranded' = IF marker[m.run] = m.task THEN stranded \cup {m.run} ELSE stranded
            /\ UNCHANGED <<row, revived, exec>>
       ELSE /\ Save(m.run, "running", row[m.run].task, row[m.run].reason)
            /\ exec' = [exec EXCEPT ![w] = [Idle EXCEPT !.pc = "lease", !.run = m.run,
                                            !.task = m.task, !.reason = row[m.run].reason]]
            /\ UNCHANGED stranded
    /\ UNCHANGED <<marker, lease, sending, recovery, orders, requests, upsets, gap>>

\* reserve_research_run and ResearchService.run in a request: the same gate, but
\* neither a task id nor a lease.
Reserve(p, r) ==
    /\ Request
    /\ exec[p].pc = "idle"
    /\ row[r].st = "absent" /\ ActiveOn(AssetOf[r]) = {}
    /\ Insert(r, "queued", NoTask)
    /\ exec' = [exec EXCEPT ![p] = [Idle EXCEPT !.pc = "draft", !.run = r]]
    /\ UNCHANGED <<redis, sending, recovery, orders, upsets, gap, stranded>>

-------------------------------------------------------------------------------
\* research_lease: the key is set and kept alive, unless Redis does not answer.
TakeLease(w) ==
    /\ exec[w].pc = "lease"
    /\ \/ /\ lease' = [lease EXCEPT ![exec[w].run] = TRUE]
          /\ exec' = [exec EXCEPT ![w].pc = "draft", ![w].leased = TRUE]
          /\ gap' = gap \ {exec[w].run} /\ UNCHANGED upsets
       \/ /\ Upset
          /\ exec' = [exec EXCEPT ![w].pc = "draft"]
          /\ UNCHANGED <<lease, gap>>
    /\ UNCHANGED <<row, marker, broker, sending, recovery, orders, requests,
                   stranded, revived>>

HeartbeatLease(w) ==
    /\ exec[w].leased /\ ~lease[exec[w].run]
    /\ lease' = [lease EXCEPT ![exec[w].run] = TRUE]
    /\ gap' = gap \ {exec[w].run}
    /\ UNCHANGED <<row, marker, broker, sending, recovery, exec, orders, requests,
                   upsets, stranded, revived>>

\* A step of the engine: it saves its copy with the status of the step.
Advance(p, from, to, st, reason, draft) ==
    /\ exec[p].pc = from
    /\ exec' = [exec EXCEPT ![p] = IF to = "idle" THEN Idle
                                   ELSE [@ EXCEPT !.pc = to, !.reason = reason, !.draft = draft]]
    /\ Save(exec[p].run, st, exec[p].task, reason)
    /\ UNCHANGED <<redis, sending, recovery, orders, requests, upsets, gap, stranded>>

\* Defect: a draft of the rules loses its mark when it is verified.
DraftUnmarks(p) ==
    \/ Advance(p, "draft", "finish", "running", exec[p].reason, "llm")
    \/ \E reason \in {"model", "none"} : Advance(p, "draft", "finish", "running", reason, "rules")

\* ResearchService.run to _verify, EventResearchService.run: without the model the
\* draft is written by rules and the run is marked; the claims of a run with a
\* mark are not verified, and the mark stays.
Draft(p) ==
    \/ Advance(p, "draft", "finish", "running", exec[p].reason, "llm")
    \/ Advance(p, "draft", "finish", "running", "model", "rules")

\* _finalize: a marked run is graded as rules; the recommendation and the run are
\* saved.  A request ends here.
Grade(e) == IF e.reason = "model" THEN "rules" ELSE "llm"

Finish(p) ==
    Advance(p, "finish", IF p \in Api THEN "idle" ELSE "follow", "completed",
            exec[p].reason, exec[p].draft)

\* The lease key is deleted whoever holds it; the message is acknowledged.
Leave(p) ==
    LET r == exec[p].run IN
    /\ exec' = [exec EXCEPT ![p] = Idle]
    /\ lease' = IF exec[p].leased THEN [lease EXCEPT ![r] = FALSE] ELSE lease
    /\ gap' = IF exec[p].leased /\ \E q \in Proc \ {p} : Works(q, r) /\ exec[q].leased
              THEN gap \cup {r} ELSE gap

\* research_asset looks at the row again before the automatic paper trade, which
\* only a recommendation of the model passes.  (What an event report enqueues
\* is an Admit or a Coalesce.)
Follow(p) ==
    /\ exec[p].pc = "follow"
    /\ Leave(p)
    /\ \/ /\ exec[p].run \in AssetRun /\ row[exec[p].run].st # "cancelled"
          /\ Grade(exec[p]) = "llm"
          /\ orders' = [orders EXCEPT ![exec[p].run] = @ \cup {exec[p].draft}]
       \/ UNCHANGED orders
    /\ UNCHANGED <<row, marker, broker, sending, recovery, requests, upsets, stranded, revived>>

\* An error in the engine, or the soft time limit.  The row is read again: an
\* asset run ends FAILED (retryable after a timeout), an event run waits for
\* the retry of its message, up to max_retries, or fails.
EngineFails(p) ==
    LET r == exec[p].run  m == Message(r, exec[p].task) IN
    /\ Upset
    /\ exec[p].pc \in {"draft", "finish"}
    /\ Leave(p)
    /\ IF r \in EventRun
       THEN /\ stranded' = IF row[r].task # m.task THEN stranded \cup {r} ELSE stranded
            /\ \/ Save(r, "queued", row[r].task, row[r].reason) /\ broker' = broker \cup {m}
               \/ Save(r, "failed", row[r].task, row[r].reason) /\ UNCHANGED broker
       ELSE /\ UNCHANGED <<broker, stranded>>
            /\ \/ Save(r, "failed", row[r].task, row[r].reason)
               \/ p \in Worker /\ row[r].st = "running" /\ Save(r, "failed", row[r].task, "time")
    /\ UNCHANGED <<marker, sending, recovery, orders, requests>>

\* The process dies; its message, not yet acknowledged, is delivered again.
ProcessDies(p) ==
    /\ Upset
    /\ exec[p].pc # "idle"
    /\ broker' = IF p \in Worker THEN broker \cup {Message(exec[p].run, exec[p].task)} ELSE broker
    /\ exec' = [exec EXCEPT ![p] = Idle]
    /\ UNCHANGED <<row, marker, lease, sending, recovery, orders, requests, ghosts>>

-------------------------------------------------------------------------------
\* The key expires once no thread refreshes it.
LeaseExpires(r) ==
    /\ lease[r] /\ \A p \in Proc : ~(Works(p, r) /\ exec[p].leased)
    /\ lease' = [lease EXCEPT ![r] = FALSE]
    /\ UNCHANGED <<row, marker, broker, sending, recovery, exec, orders, requests,
                   upsets, ghosts>>

\* Defect: the reconciliation does not ask Redis for the live runs.
ReconcileUnasked(r) ==
    /\ row[r].st = "running"
    /\ \A p \in Proc : Works(p, r) => exec[p].pc # "lease"
    /\ \/ row' = [row EXCEPT ![r].st = "queued", ![r].reason = "none", ![r].lapsed = TRUE]
       \/ r \in AssetRun /\ row' = [row EXCEPT ![r].st = "failed", ![r].reason = "time"]
    /\ UNCHANGED <<redis, sending, recovery, exec, orders, requests, upsets, ghosts>>

\* reconcile_stale_research_runs: a run without a lease, not saved for longer than
\* a lease lasts (one that starts was just saved).  Past the hard time limit an
\* asset run fails, else the run is queued again.
Reconcile(r) ==
    /\ row[r].st = "running" /\ ~lease[r]
    /\ \A p \in Proc : Works(p, r) => exec[p].pc # "lease"
    /\ \/ row' = [row EXCEPT ![r].st = "queued", ![r].reason = "none", ![r].lapsed = TRUE]
       \/ r \in AssetRun /\ row' = [row EXCEPT ![r].st = "failed", ![r].reason = "time"]
    /\ UNCHANGED <<redis, sending, recovery, exec, orders, requests, upsets, ghosts>>

\* Defect: a run whose lease lapsed is not sent again while its marker stands.
RescueUnmarked(r) ==
    /\ recovery = NoRescue
    /\ row[r].st = "queued"
    /\ \A d \in Underway(r) : d.back # "absent"
    /\ \A p \in Api : ~Works(p, r)
    /\ marker[r] = NoTask \/ marker[r] # row[r].task
    /\ Spare # {}
    /\ recovery' = [pc |-> "mark", run |-> r, task |-> Fresh, copy |-> row[r]]
    /\ UNCHANGED <<row, redis, sending, exec, orders, requests, upsets, ghosts>>

\* recover_orphaned_queued_research_runs: a queued run whose marker does not name
\* its task, or whose lease lapsed, gets a new one, past a grace that a first dispatch
\* does not need.  The row is the copy read here.
Rescue(r) ==
    /\ recovery = NoRescue
    /\ row[r].st = "queued"
    /\ \A d \in Underway(r) : d.back # "absent"
    /\ \A p \in Api : ~Works(p, r)
    /\ marker[r] = NoTask \/ marker[r] # row[r].task \/ row[r].lapsed
    /\ Spare # {}
    /\ recovery' = [pc |-> "mark", run |-> r, task |-> Fresh, copy |-> row[r]]
    /\ UNCHANGED <<row, redis, sending, exec, orders, requests, upsets, ghosts>>

RescueMarks ==
    /\ recovery.pc = "mark"
    /\ \/ /\ marker' = [marker EXCEPT ![recovery.run] = recovery.task]
          /\ recovery' = [recovery EXCEPT !.pc = "save"] /\ UNCHANGED upsets
       \/ Upset /\ recovery' = NoRescue /\ UNCHANGED marker
    /\ UNCHANGED <<row, lease, broker, sending, exec, orders, requests, ghosts>>

RescueSaves ==
    /\ recovery.pc = "save"
    /\ Save(recovery.run, "queued", recovery.task, recovery.copy.reason)
    /\ recovery' = [recovery EXCEPT !.pc = "publish"]
    /\ UNCHANGED <<redis, sending, exec, orders, requests, upsets, gap, stranded>>

\* Defect: a failed publish leaves the marker of the attempt.
RescueKeepsMarker ==
    /\ recovery.pc = "publish"
    /\ recovery' = NoRescue
    /\ \/ /\ broker' = broker \cup {Message(recovery.run, recovery.task)}
          /\ stranded' = IF row[recovery.run].task = recovery.task
                         THEN stranded \ {recovery.run} ELSE stranded
          /\ UNCHANGED <<row, marker, upsets, revived>>
       \/ Upset /\ UNCHANGED <<row, revived, marker, broker, stranded>>
    /\ UNCHANGED <<lease, sending, exec, orders, requests, gap>>

\* The publish; when it fails, the marker and the task id are taken back.
RescuePublishes ==
    /\ recovery.pc = "publish"
    /\ recovery' = NoRescue
    /\ \/ /\ broker' = broker \cup {Message(recovery.run, recovery.task)}
          /\ stranded' = IF row[recovery.run].task = recovery.task
                         THEN stranded \ {recovery.run} ELSE stranded
          /\ UNCHANGED <<row, marker, upsets, revived>>
       \/ /\ Upset /\ ClearMarker(recovery.run, recovery.task)
          /\ Save(recovery.run, "queued", recovery.copy.task, recovery.copy.reason)
          /\ stranded' = IF marker[recovery.run] = recovery.copy.task
                         THEN stranded \cup {recovery.run} ELSE stranded
          /\ UNCHANGED broker
    /\ UNCHANGED <<lease, sending, exec, orders, requests, gap>>

\* compact_queued_research_runs: one of two queued runs of an asset is merged.
Compact(q, r) ==
    /\ q # r /\ AssetOf[q] = AssetOf[r]
    /\ row[q].st = "queued" /\ row[r].st = "queued"
    /\ row' = [row EXCEPT ![r].st = "coalesced"]
    /\ UNCHANGED <<redis, sending, recovery, exec, orders, requests, upsets, ghosts>>

-------------------------------------------------------------------------------
\* cancel_research_tasks: the active runs, and with `clear' the failed ones.
CancelRun(r) ==
    /\ Request
    /\ row[r].st \in Active \cup {"failed"}
    /\ row' = [row EXCEPT ![r].st = "cancelled", ![r].reason = "none", ![r].lapsed = FALSE]
    /\ UNCHANGED <<redis, sending, recovery, exec, orders, upsets, ghosts>>

\* _revoke_research_tasks: at best the message is dropped and the worker that has
\* it stopped.
RevokeRun(r) ==
    /\ row[r].st = "cancelled"
    /\ \/ \E m \in broker : m.run = r /\ m.task = row[r].task
       \/ \E p \in Worker : Works(p, r) /\ exec[p].task = row[r].task
    /\ broker' = {m \in broker : ~(m.run = r /\ m.task = row[r].task)}
    /\ exec' = [p \in Proc |-> IF p \in Worker /\ Works(p, r) /\ exec[p].task = row[r].task
                               THEN Idle ELSE exec[p]]
    /\ UNCHANGED <<row, marker, lease, sending, recovery, orders, requests, upsets,
                   ghosts>>

\* clear_research_tasks purges the queue after the cancellation: the message of a
\* run admitted in between goes too, its marker stays.
PurgeQueue ==
    /\ Request
    /\ broker # {}
    /\ broker' = {}
    /\ stranded' = stranded \cup {m.run : m \in broker}
    /\ UNCHANGED <<row, marker, lease, sending, recovery, exec, orders, upsets,
                   gap, revived>>

\* Redis is lost: the markers, the leases and the queue with it.
RedisIsLost ==
    /\ Upset
    /\ marker' = [r \in Run |-> NoTask] /\ lease' = [r \in Run |-> FALSE] /\ broker' = {}
    /\ gap' = gap \cup {r \in Run : lease[r]}
    /\ UNCHANGED <<row, sending, recovery, exec, orders, requests, stranded, revived>>

-------------------------------------------------------------------------------
Dispatch(d) == ResetEvent(d) \/ RecordDispatch(d) \/ PublishRun(d)
Execute(p) == TakeLease(p) \/ Draft(p) \/ Finish(p) \/ Follow(p)
Rescuing == RescueMarks \/ RescueSaves \/ RescuePublishes

Next ==
    \/ \E r \in AssetRun : Admit(r) \/ Coalesce(r) \/ \E p \in Api : Reserve(p, r)
    \/ \E q, r \in AssetRun : Compact(q, r)
    \/ \E r \in EventRun : AdmitEvent(r) \/ RetryEvent(r)
    \/ \E d \in sending : Dispatch(d) \/ PublishFails(d) \/ DispatcherDies(d)
    \/ \E w \in Worker : HeartbeatLease(w) \/ \E m \in broker : Deliver(w, m)
    \/ \E p \in Proc : Execute(p) \/ EngineFails(p) \/ ProcessDies(p)
    \/ \E r \in Run : \/ LeaseExpires(r) \/ Reconcile(r) \/ Rescue(r)
                      \/ CancelRun(r) \/ RevokeRun(r)
    \/ Rescuing \/ PurgeQueue \/ RedisIsLost

Spec == Init /\ [][Next]_runVars

\* Dispatches and executions go on, workers take what waits, beat runs, time
\* passes.  Users and upsets have no fairness.
FairSpec ==
    /\ Spec
    /\ WF_runVars(\E d \in sending : Dispatch(d))
    /\ \A p \in Proc : WF_runVars(Execute(p))
    /\ \A w \in Worker : WF_runVars(HeartbeatLease(w)) /\ WF_runVars(\E m \in broker : Deliver(w, m))
    /\ \A r \in Run : /\ WF_runVars(LeaseExpires(r)) /\ WF_runVars(Reconcile(r))
                      /\ SF_runVars(Rescue(r))
    /\ WF_runVars(Rescuing)

-------------------------------------------------------------------------------
\* A cancelled run stays cancelled: no copy of the row loaded before, by a worker,
\* a dispatch or the recovery, brings it back.
CancelledStays ==
    [][\A r \in Run : row[r].st = "cancelled" => row'[r].st = "cancelled"]_runVars

\* An asset has one active run at most, except for runs that an old copy or a
\* redelivered message made active again.
OneActivePerAsset ==
    \A q, r \in AssetRun :
       q # r /\ AssetOf[q] = AssetOf[r] /\ {row[q].st, row[r].st} \subseteq Active
          => {q, r} \cap revived # {}

\* Beat takes a run from a worker that keeps its lease alive only after the key was
\* lost with Redis or deleted by another execution of the run.
LeaseProtectsWork ==
    [][\A r \in Run :
          /\ row[r].st = "running" /\ row'[r].st \in {"queued", "failed"}
          /\ UNCHANGED <<exec, sending, recovery, requests, upsets>>
          => r \in gap \/ \A p \in Proc : ~(Works(p, r) /\ exec[p].leased)]_runVars

\* While a run waits and its marker names its task, the message of that task is in
\* the queue, on its way to it, or with a worker: the recovery may leave the run alone.
MarkerTellsTheTruth ==
    \A r \in Run :
       /\ row[r].st = "queued" /\ ~row[r].lapsed
       /\ row[r].task # NoTask /\ marker[r] = row[r].task
       => \/ Message(r, row[r].task) \in broker
          \/ r \in stranded
          \/ \E w \in Worker : Works(w, r) /\ exec[w].task = row[r].task
          \/ \E d \in sending : d.run = r /\ d.task = row[r].task
          \/ recovery.run = r /\ recovery.task = row[r].task

\* No paper order follows a draft that rules wrote because the model failed.
RulesNeverTrade == \A r \in Run : "rules" \notin orders[r]

\* A queued run is executed or ends, unless its message was lost while its marker
\* stands; when it had run before and lost its lease, even then.
QueuedIsServed ==
    \A r \in Run :
       row[r].st = "queued" ~> row[r].st # "queued" \/ (r \in stranded /\ ~row[r].lapsed)
===============================================================================
