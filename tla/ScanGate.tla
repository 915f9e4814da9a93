------------------------------- MODULE ScanGate -------------------------------
(***************************************************************************)
(* The news scan loop over three Redis keys: SCAN_GATE_KEY (the lease, the *)
(* id of the one scan allowed to run), SCAN_PAUSE_KEY and SCAN_STATUS_KEY. *)
(* Beat runs ensure_scan_loop, which recovers a dead lease and enqueues the*)
(* next scan; the Go API enqueues one by hand; Operator pauses and resumes;*)
(* slots of the io worker execute scan_news messages.  No Redis call locks *)
(* anything, so everybody acts on values read some steps ago.              *)
(*                                                                         *)
(* One step is one Redis call, except that a read-modify-write of the      *)
(* status is one step (apart from the heartbeat thread's) and a scan's     *)
(* database work is one step.  Time is abstracted: `beat' tells whether    *)
(* heartbeat_at is recent, `due' whether next_scan_at is unset or past.    *)
(***************************************************************************)
EXTENDS Naturals, FiniteSets

CONSTANTS
    Scan,        \* task ids; an id that nothing refers to any more is reused
    NoScan,      \* an absent key, or no id
    Slot,        \* scan_news executions the io worker can run at once
    Beat, Api, Operator,
    MaxRetries,  \* scan_news.max_retries (3 in the code)
    MaxUpsets    \* bound: crashes, failed Redis or broker calls and undue delays,
                 \*   manual scans, pauses and resumptions, all together

ASSUME NoScanIsNotAScan == NoScan \notin Scan
ASSUME ProcessesDiffer ==
    /\ {Beat, Api, Operator} \cap Slot = {}
    /\ Beat # Api /\ Beat # Operator /\ Api # Operator
ASSUME BoundsAreNumbers == {MaxRetries, MaxUpsets} \subseteq Nat

VARIABLES
    gate, pause,
    status,      \* state, task, beat "never" | "recent" | "stale", whether a scan is due
    broker,      \* scan_news messages waiting for a slot
    at,          \* where each process is
    seen,        \* the status a slot's heartbeat thread has read
    upsets

vars == <<gate, pause, status, broker, at, seen, upsets>>
redis == <<gate, pause, status>>

Process == Slot \cup {Beat, Api, Operator}
Live == {"queued", "running", "retrying", "paused"}

\* The heartbeat thread of a slot: off, waiting, or between its read and its write.
NotSeen == [state |-> "idle", task |-> NoScan, beat |-> "never", due |-> TRUE]

Resting == [pc |-> "idle", task |-> NoScan, retries |-> 0, beating |-> FALSE]

Init ==
    /\ gate = NoScan /\ pause = NoScan /\ status = NotSeen
    /\ broker = {}
    /\ at = [p \in Process |-> Resting]
    /\ seen = [s \in Slot |-> NotSeen]
    /\ upsets = 0

-------------------------------------------------------------------------------
Goto(p, pc)  == at' = [at EXCEPT ![p].pc = pc]
Become(p, pc) == at' = [at EXCEPT ![p] = [Resting EXCEPT !.pc = pc]]
Stop(p)      == Become(p, "idle")
Upset        == upsets < MaxUpsets /\ upsets' = upsets + 1
Calm         == UNCHANGED upsets

\* _update_scan_status: a live state refreshes the heartbeat.  `due' is
\* next_scan_at = None (TRUE), a time in the future (FALSE) or left alone.
Updated(state, task, due) ==
    [state |-> state, task |-> task, due |-> due,
     beat  |-> IF state \in Live THEN "recent" ELSE status.beat]

InUse == {gate, pause, status.task} \cup {m.task : m \in broker}
         \cup {at[p].task : p \in Process} \cup {seen[s].task : s \in Slot}

\* A fresh uuid4.
NewId == CHOOSE t \in Scan : t \notin InUse

-------------------------------------------------------------------------------
\* _clear_scan_gate: the DELETE hits whatever the key holds by then.
ClearGate(p, afterwards) ==
    \/ /\ at[p].pc = "release"
       /\ Goto(p, IF gate = at[p].task THEN "delete" ELSE afterwards)
       /\ UNCHANGED gate
    \/ /\ at[p].pc = "delete"
       /\ gate' = NoScan
       /\ Goto(p, afterwards)

\* _clear_scan_pause, its GET and DELETE in one step.
ClearPause(p) == pause' = IF pause = at[p].task THEN NoScan ELSE pause

-------------------------------------------------------------------------------
\* ensure_scan_loop: recover a stale lease, or enqueue when the countdown is
\* over (the reads follow each other at once).  A lease that was never
\* heartbeaten is not stale: its TTL has to free it.
Stale == status.state # "paused" /\ status.beat = "stale"

Tick ==
    /\ at[Beat].pc = "idle"
    /\ \/ /\ gate # NoScan /\ Stale
          /\ at' = [at EXCEPT ![Beat] = [Resting EXCEPT !.pc = "interrupt", !.task = gate]]
       \/ /\ gate = NoScan /\ status.due
          /\ Become(Beat, "claim")
    /\ UNCHANGED <<redis, broker, seen>> /\ Calm

\* _recover_stale_scan_gate, after its decision.
Recover ==
    \/ /\ at[Beat].pc = "interrupt"
       /\ status' = Updated("interrupted", at[Beat].task, TRUE)
       /\ Goto(Beat, "release")
       /\ UNCHANGED <<gate, pause, broker, seen>> /\ Calm
    \/ /\ ClearGate(Beat, "unpause")
       /\ UNCHANGED <<pause, status, broker, seen>> /\ Calm
    \/ /\ at[Beat].pc = "unpause"
       /\ ClearPause(Beat) /\ Stop(Beat)
       /\ UNCHANGED <<gate, status, broker, seen>> /\ Calm

-------------------------------------------------------------------------------
\* enqueue_scan (Beat) and startScan of the Go API: an empty gate is claimed
\* with SETNX, the scan is announced and its message published.  Beat drops the
\* pause key before the SETNX, whatever becomes of it, the API after it.
ManualScan ==
    /\ at[Api].pc = "idle" /\ gate = NoScan
    /\ Upset
    /\ Become(Api, "claim")
    /\ UNCHANGED <<redis, broker, seen>>

ClaimNewGate(p) ==
    /\ at[p].pc = "claim"
    /\ IF gate # NoScan
       THEN Stop(p) /\ UNCHANGED gate
       ELSE /\ Scan \ InUse # {}
            /\ gate' = NewId
            /\ at' = [at EXCEPT ![p].pc = "announce", ![p].task = NewId]
    /\ pause' = IF p = Beat THEN NoScan ELSE pause
    /\ UNCHANGED <<status, broker, seen>> /\ Calm

Announce(p) ==
    /\ at[p].pc = "announce"
    /\ status' = Updated("queued", at[p].task, TRUE)
    /\ pause' = IF p = Api THEN NoScan ELSE pause
    /\ Goto(p, "publish")
    /\ UNCHANGED <<gate, broker, seen>> /\ Calm

Publish(p) ==
    /\ at[p].pc = "publish"
    /\ broker' = broker \cup {[task |-> at[p].task, retries |-> 0]}
    /\ Stop(p)
    /\ UNCHANGED <<redis, seen>> /\ Calm

\* The broker refuses.  Python records the failure and clears its own gate, Go
\* leaves the status and deletes the gate whoever holds it.
PublishFails(p) ==
    /\ at[p].pc = "publish"
    /\ Upset
    /\ IF p = Beat
       THEN /\ status' = Updated("failed", status.task, FALSE)
            /\ Goto(p, "withdraw")
       ELSE /\ UNCHANGED status
            /\ Goto(p, "drop")
    /\ UNCHANGED <<gate, pause, broker, seen>>

Withdraw(p) ==
    /\ \/ at[p].pc = "withdraw" /\ gate = at[p].task /\ Goto(p, "drop")
          /\ UNCHANGED gate
       \/ at[p].pc = "withdraw" /\ gate # at[p].task /\ Stop(p) /\ UNCHANGED gate
       \/ at[p].pc = "drop" /\ gate' = NoScan /\ Stop(p)
    /\ UNCHANGED <<pause, status, broker, seen>> /\ Calm

EnqueueScan(p) ==
    \/ ClaimNewGate(p) \/ Announce(p) \/ Publish(p) \/ PublishFails(p) \/ Withdraw(p)

-------------------------------------------------------------------------------
\* request_scan_pause and resume_scan as the Go API has them: the gate is read
\* first, the pause key and the status are written for that task later.
RequestReads ==
    /\ at[Operator].pc = "idle" /\ gate # NoScan
    /\ Upset
    /\ \E pc \in {"pausing", "resuming"} :
          at' = [at EXCEPT ![Operator] = [Resting EXCEPT !.pc = pc, !.task = gate]]
    /\ UNCHANGED <<redis, broker, seen>>

RequestPause ==
    /\ at[Operator].pc = "pausing"
    /\ pause' = at[Operator].task
    /\ status' = Updated("paused", at[Operator].task, TRUE)
    /\ Stop(Operator)
    /\ UNCHANGED <<gate, broker, seen>> /\ Calm

ResumeScan ==
    /\ at[Operator].pc = "resuming"
    /\ pause' = NoScan
    /\ status' = Updated("running", at[Operator].task, TRUE)
    /\ Stop(Operator)
    /\ UNCHANGED <<gate, broker, seen>> /\ Calm

OperatorStep == RequestReads \/ RequestPause \/ ResumeScan

-------------------------------------------------------------------------------
\* Defect: a task id does not recognise the gate its publisher claimed for it.
DeliverEmptyOnly(s, m) ==
    /\ at[s].pc = "idle" /\ seen[s] = NotSeen /\ m \in broker
    /\ broker' = broker \ {m}
    /\ IF gate = NoScan
       THEN /\ gate' = m.task
            /\ at' = [at EXCEPT ![s] = [pc |-> "start", task |-> m.task,
                                        retries |-> m.retries, beating |-> FALSE]]
       ELSE UNCHANGED <<gate, at>>
    /\ UNCHANGED <<pause, status, seen>> /\ Calm

\* scan_news.  A slot takes a message and claims an empty gate or its own;
\* otherwise the message is done (`already_running').
Deliver(s, m) ==
    /\ at[s].pc = "idle" /\ seen[s] = NotSeen /\ m \in broker
    /\ broker' = broker \ {m}
    /\ IF gate \in {NoScan, m.task}
       THEN /\ gate' = m.task
            /\ at' = [at EXCEPT ![s] = [pc |-> "start", task |-> m.task,
                                        retries |-> m.retries, beating |-> FALSE]]
       ELSE UNCHANGED <<gate, at>>
    /\ UNCHANGED <<pause, status, seen>> /\ Calm

Start(s) ==
    /\ at[s].pc = "start"
    /\ status' = Updated("running", at[s].task, TRUE)
    /\ Goto(s, "checkpoint")
    /\ UNCHANGED <<gate, pause, broker, seen>> /\ Calm

\* _require_scan_gate: ScanLeaseLost ends the task as `superseded'.
Owns(s) == gate = at[s].task

Superseded(s) ==
    /\ at[s].pc \in {"checkpoint", "paused", "dispatch"}
    /\ at[s].pc = "paused" => pause = at[s].task
    /\ ~Owns(s)
    /\ Stop(s)
    /\ UNCHANGED <<redis, broker, seen>> /\ Calm

\* _wait_if_scan_paused, and the start of the heartbeat thread.
BeginDiscovery(s) == at' = [at EXCEPT ![s].pc = "discover", ![s].beating = TRUE]

Checkpoint(s) ==
    /\ at[s].pc = "checkpoint" /\ Owns(s)
    /\ IF pause = at[s].task
       THEN /\ status' = Updated("paused", status.task, TRUE)
            /\ Goto(s, "paused")
       ELSE BeginDiscovery(s) /\ UNCHANGED status
    /\ UNCHANGED <<gate, pause, broker, seen>> /\ Calm

Unpaused(s) ==
    /\ at[s].pc = "paused" /\ pause # at[s].task
    /\ status' = Updated("running", status.task, TRUE)
    /\ BeginDiscovery(s)
    /\ UNCHANGED <<gate, pause, broker, seen>> /\ Calm

\* _touch_scan_heartbeat: the status read is written back with a new heartbeat.
\* join(timeout=1) does not wait for a write under way, so it may come after
\* the discovery; it does come before the slot takes another message.
BeatReads(s) ==
    /\ at[s].beating /\ seen[s] = NotSeen
    /\ IF Owns(s) /\ status.task = at[s].task /\ status.state \in Live
       THEN seen' = [seen EXCEPT ![s] = status] /\ UNCHANGED at
       ELSE at' = [at EXCEPT ![s].beating = FALSE] /\ UNCHANGED seen
    /\ UNCHANGED <<redis, broker>> /\ Calm

BeatWrites(s) ==
    /\ seen[s] # NotSeen
    /\ status' = [seen[s] EXCEPT !.beat = "recent"]
    /\ seen' = [seen EXCEPT ![s] = NotSeen]
    /\ UNCHANGED <<gate, pause, broker, at>> /\ Calm

\* A Redis error ends the thread, the discovery goes on.
BeatDies(s) ==
    /\ at[s].beating
    /\ Upset
    /\ at' = [at EXCEPT ![s].beating = FALSE]
    /\ seen' = [seen EXCEPT ![s] = NotSeen]
    /\ UNCHANGED <<redis, broker>>

\* Discovery returns and the thread is told to stop.
Discovered(s) ==
    /\ at[s].pc = "discover"
    /\ at' = [at EXCEPT ![s].pc = "dispatch", ![s].beating = FALSE]
    /\ UNCHANGED <<redis, broker, seen>> /\ Calm

\* The news are stored and dispatched; both begin with _require_scan_gate, of
\* which the last is modelled.
Dispatch(s) ==
    /\ at[s].pc = "dispatch" /\ Owns(s)
    /\ Goto(s, "complete")
    /\ UNCHANGED <<redis, broker, seen>> /\ Calm

\* _complete_scan: the gate is looked at once, then the status is written.
Complete(s) ==
    /\ at[s].pc = "complete"
    /\ IF Owns(s) THEN Goto(s, "close") ELSE Stop(s)
    /\ UNCHANGED <<redis, broker, seen>> /\ Calm

Close(s) ==
    /\ at[s].pc = "close"
    /\ status' = Updated("idle", at[s].task, FALSE)
    /\ Goto(s, "release")
    /\ UNCHANGED <<gate, pause, broker, seen>> /\ Calm

\* The exception path: anything from providers, database or broker.
Raises(s) ==
    /\ at[s].pc \in {"discover", "dispatch", "complete"}
    /\ at' = [at EXCEPT ![s].pc = "handle", ![s].beating = FALSE]
    /\ UNCHANGED <<redis, broker, seen>> /\ Calm

\* Nothing here looks at the gate.
HandleFailure(s) ==
    /\ at[s].pc = "handle"
    /\ IF at[s].retries < MaxRetries
       THEN /\ status' = Updated("retrying", at[s].task, status.due)
            /\ Goto(s, "retry")
       ELSE /\ status' = Updated("failed", at[s].task, FALSE)
            /\ Goto(s, "release")
    /\ UNCHANGED <<gate, pause, broker, seen>> /\ Calm

\* self.retry publishes the message again; if that fails the task just ends.
Retry(s) ==
    /\ at[s].pc = "retry"
    /\ \/ /\ broker' = broker \cup {[task |-> at[s].task, retries |-> at[s].retries + 1]}
          /\ Calm
       \/ Upset /\ UNCHANGED broker
    /\ Stop(s)
    /\ UNCHANGED <<redis, seen>>

Finish(s) ==
    \/ /\ ClearGate(s, "unpause")
       /\ UNCHANGED <<pause, status, broker, seen>> /\ Calm
    \/ /\ at[s].pc = "unpause"
       /\ ClearPause(s) /\ Stop(s)
       /\ UNCHANGED <<gate, status, broker, seen>> /\ Calm

PhaseStep(s) ==
    \/ \E m \in broker : Deliver(s, m)
    \/ Start(s) \/ Superseded(s) \/ Checkpoint(s) \/ Unpaused(s) \/ Dispatch(s)
    \/ Complete(s) \/ Close(s) \/ HandleFailure(s) \/ Retry(s)
    \/ Finish(s)

ScanStep(s) ==
    \/ PhaseStep(s) \/ BeatReads(s) \/ BeatWrites(s) \/ BeatDies(s)
    \/ Discovered(s) \/ Raises(s)

-------------------------------------------------------------------------------
\* A process dies.  task_acks_late: the broker delivers a slot's message again.
Crash(p) ==
    /\ at[p].pc # "idle"
    /\ Upset
    /\ Stop(p)
    /\ broker' = IF p \in Slot
                 THEN broker \cup {[task |-> at[p].task, retries |-> at[p].retries]}
                 ELSE broker
    /\ seen' = IF p \in Slot THEN [seen EXCEPT ![p] = NotSeen] ELSE seen
    /\ UNCHANGED <<redis>>

\* Somebody will still look after scan t.
Carried(t) ==
    \/ \E m \in broker : m.task = t
    \/ \E s \in Slot : at[s].task = t
    \/ \E p \in {Beat, Api} : /\ at[p].task = t
                             /\ at[p].pc \in {"announce", "publish"}

\* Defect: SET without EX.
GateStays == FALSE /\ UNCHANGED vars

\* The TTL of the gate, 12 hours, runs out when nobody renews it.  For a scan
\* whose message still waits that is a delay.
GateExpires ==
    /\ gate # NoScan
    /\ \A p \in Process : at[p].task # gate
    /\ IF Carried(gate) THEN Upset ELSE Calm
    /\ gate' = NoScan
    /\ UNCHANGED <<pause, status, broker, at, seen>>

\* A thread that beats for the scan the status names.
Beating == \E s \in Slot : /\ at[s].beating /\ Owns(s)
                          /\ status.task = at[s].task /\ status.state \in Live

\* Ten minutes pass without a write of a live state.  While somebody works on
\* the scan that is a delay, one of the bounded upsets.
HeartbeatAges ==
    /\ status.beat = "recent" /\ ~Beating
    /\ status' = [status EXCEPT !.beat = "stale"]
    /\ IF gate # NoScan /\ Carried(gate) THEN Upset ELSE Calm
    /\ UNCHANGED <<gate, pause, broker, at, seen>>

CountdownEnds ==
    /\ ~status.due
    /\ status' = [status EXCEPT !.due = TRUE]
    /\ UNCHANGED <<gate, pause, broker, at, seen>> /\ Calm

BeatStep == Tick \/ Recover \/ EnqueueScan(Beat)

Next ==
    \/ BeatStep
    \/ ManualScan \/ EnqueueScan(Api)
    \/ OperatorStep
    \/ \E s \in Slot : ScanStep(s)
    \/ \E p \in Process : Crash(p)
    \/ GateExpires \/ HeartbeatAges \/ CountdownEnds

Spec == Init /\ [][Next]_vars

\* Beat fires every five seconds, a started request or publication is carried
\* on, slots take messages and finish their phases (providers time out), the
\* heartbeat thread writes what it read, clocks advance.  Nobody has to press a
\* button and nothing has to fail.
Fairness ==
    /\ WF_vars(BeatStep)
    /\ WF_vars(EnqueueScan(Api))
    /\ WF_vars(RequestPause \/ ResumeScan)
    /\ \A s \in Slot : /\ WF_vars(BeatWrites(s))
                       /\ WF_vars(Discovered(s))
                       /\ WF_vars(PhaseStep(s))
    /\ WF_vars(GateExpires) /\ WF_vars(HeartbeatAges) /\ WF_vars(CountdownEnds)

FairSpec == Spec /\ Fairness

-------------------------------------------------------------------------------
\* The loop never stalls: whatever crashes, fails or is overtaken, news are
\* discovered again and again, unless an operator leaves a scan paused.
LoopKeepsScanning ==
    \/ []<>(\E s \in Slot : at[s].pc = "discover")
    \/ <>[](gate # NoScan /\ pause = gate)

\* A lease that nobody looks after any more does not stay, not even one that
\* was paused or never heartbeaten.
DeadLeaseEnds ==
    gate # NoScan /\ ~Carried(gate) ~> gate = NoScan \/ Carried(gate)

\* ScanLeaseLost: a stale task `must stop without changing the active scan
\* state'; here for the exception path of a task that lost its lease.
StaleFailureIsQuiet ==
    [][\A s \in Slot : at[s].pc = "handle" /\ at'[s] # at[s]
                            /\ gate \notin {NoScan, at[s].task}
                          => status' = status]_vars
===============================================================================
