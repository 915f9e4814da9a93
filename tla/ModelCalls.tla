---------------------------- MODULE ModelCalls ----------------------------
(***************************************************************************)
(* How a Celery task of one model lane reaches an Ollama instance:         *)
(* model_instance_task (worker.py) binds the delivery to an instance,      *)
(* select_model_instance (model_instances.py) picks the least loaded       *)
(* candidate, LlmGateway.generate_json (llm.py) makes at most two attempts *)
(* and GpuSemaphore holds the inference slots as leased Redis locks.       *)
(*                                                                         *)
(* One delivery makes one model call; a process serves one delivery at a   *)
(* time and its ten-second health cache is `seen'.  The cache is only read *)
(* fresh or as it was at the last probe of the same delivery.              *)
(***************************************************************************)
EXTENDS Integers, FiniteSets, FiniteSetsExt

CONSTANTS
  Task,        \* the deliveries of the lane (research_event, extract, ...)
  Instance,    \* the configured endpoints of the lane
  Capacity,    \* Settings: the concurrency of each instance
  MaxRetries,  \* max_retries of the Celery task
  MaxUpsets    \* bound: crashes, broken heartbeats, outages

ASSUME LaneAssumption ==
  /\ IsFiniteSet(Task) /\ IsFiniteSet(Instance) /\ Instance # {}
  /\ Capacity \in [Instance -> Nat \ {0}]   \* validate_ollama_instance_capacity
  /\ MaxRetries \in Nat /\ MaxUpsets \in Nat

Nobody == "nobody"
Dead == "dead"
Legacy == "legacy queue"

ASSUME NobodyIsNoName == Nobody \notin Task \union Instance /\ Dead \notin Task

SlotsOf(i) == {<<i, k>> : k \in 1..Capacity[i]}
Slot == UNION {SlotsOf(i) : i \in Instance}
NoSlot == <<Nobody, 0>>

VARIABLES
  up,        \* which instances answer and hold the model
  pc,        \* where each task is
  queue,     \* the broker queue its message is in, or came from
  pref,      \* the message's model_instance_id
  retries,   \* request.retries, capped one above MaxRetries
  assign,    \* the lane's assignment hash in Redis
  seen,      \* the health cache of the process serving the task
  inst,      \* the affinity of the delivery
  attempt,   \* 1 or 2 in generate_json
  failedAt,  \* the instance marked unhealthy by attempt 1
  owner,     \* the token in each slot's lock
  slot,      \* the slot whose lock object the call holds
  beating,   \* whether renew_lock still runs
  waiting,   \* the waiter entries of the task's calls
  upsets

queueVars == <<pc, queue, pref, retries>>
callVars  == <<seen, inst, attempt, failedAt>>
slotVars  == <<owner, slot, beating, waiting>>
vars == <<up, queueVars, assign, callVars, slotVars, upsets>>

Ended == {"completed", "failed", "dropped"}
Serving == {"ready", "again", "wait", "post"}
Active == {"queued", "running", "retrying"}

Unseen == [i \in Instance |-> "?"]
NoAssignment == [inst |-> Nobody, status |-> "none"]

Init ==
  /\ up \in [Instance -> BOOLEAN]
  /\ pc = [t \in Task |-> "new"]
  /\ queue = [t \in Task |-> Legacy]
  /\ pref = [t \in Task |-> Nobody]
  /\ retries = [t \in Task |-> 0]
  /\ assign = [t \in Task |-> NoAssignment]
  /\ seen = [t \in Task |-> Unseen]
  /\ inst = [t \in Task |-> Nobody]
  /\ attempt = [t \in Task |-> 1]
  /\ failedAt = [t \in Task |-> Nobody]
  /\ owner = [s \in Slot |-> Nobody]
  /\ slot = [t \in Task |-> NoSlot]
  /\ beating = [t \in Task |-> FALSE]
  /\ waiting = [t \in Task |-> {}]
  /\ upsets = 0

-----------------------------------------------------------------------------
(* Assignments and selection (model_instances.py). *)

Load(i) == Cardinality({t \in Task : assign[t].inst = i /\ assign[t].status \in Active})
LeastLoad(from) == Min({Load(i) : i \in from})

\* Defect: the preferred instance is kept whether it is a candidate or not.
SelectedPinned(from, preferred, rebalance) ==
  IF preferred \in Instance THEN {preferred} ELSE {i \in from : Load(i) = LeastLoad(from)}

\* The instances select_model_instance may return: the preferred one, unless
\* it is to be rebalanced away, else any of the least loaded (round robin).
Selected(from, preferred, rebalance) ==
  IF /\ preferred \in from
     /\ rebalance => Load(preferred) <= LeastLoad(from) + Capacity[preferred]
  THEN {preferred}
  ELSE {i \in from : Load(i) = LeastLoad(from)}

Assigned(t, i, status) == [assign EXCEPT ![t] = [inst |-> i, status |-> status]]

Preferred(t) == IF pref[t] # Nobody THEN pref[t] ELSE assign[t].inst

Healthy == {i \in Instance : up[i]}
Probed == [i \in Instance |-> IF up[i] THEN "up" ELSE "down"]

\* A dispatcher selects with a health probe, records the assignment and
\* publishes to the instance's queue; older messages sit in the lane's queue.
Dispatch(t) ==
  /\ pc[t] = "new"
  /\ pc' = [pc EXCEPT ![t] = "queued"]
  /\ \/ /\ \E i \in Selected(IF Healthy = {} THEN Instance ELSE Healthy, Nobody, FALSE) :
             /\ queue' = [queue EXCEPT ![t] = i]
             /\ pref' = [pref EXCEPT ![t] = i]
             /\ assign' = Assigned(t, i, "queued")
     \/ UNCHANGED <<queue, pref, assign>>
  /\ UNCHANGED <<up, retries, callVars, slotVars, upsets>>

\* self.retry of the wrapper: the message goes to another queue with one more
\* retry on its count, or MaxRetriesExceededError escapes before the try.
Republish(t, i, limited) ==
  IF limited /\ retries[t] + 1 > MaxRetries
  THEN /\ pc' = [pc EXCEPT ![t] = "dropped"]
       /\ UNCHANGED <<queue, pref, retries>>
  ELSE /\ queue' = [queue EXCEPT ![t] = i]
       /\ pref' = [pref EXCEPT ![t] = i]
       /\ retries' = [retries EXCEPT ![t] = Min({MaxRetries + 1, @ + 1})]
       /\ UNCHANGED pc

\* model_instance_task up to the try: select, wait for health, reroute to the
\* queue of the selected instance, or start.
Bind(t) ==
  /\ pc[t] = "queued"
  /\ \E rebalance \in {FALSE, retries[t] = 0} :
     \E i \in Selected(IF Healthy = {} THEN Instance ELSE Healthy, Preferred(t), rebalance) :
       \/ /\ ~up[i]
          /\ assign' = Assigned(t, i, "retrying")
          /\ Republish(t, i, FALSE)
          /\ UNCHANGED callVars
       \/ /\ up[i] /\ queue[t] # i
          /\ assign' = Assigned(t, i, "queued")
          /\ Republish(t, i, TRUE)
          /\ UNCHANGED callVars
       \/ /\ up[i] /\ queue[t] = i
          /\ assign' = Assigned(t, i, "running")
          /\ pc' = [pc EXCEPT ![t] = "ready"]
          /\ inst' = [inst EXCEPT ![t] = i]
          /\ seen' = [seen EXCEPT ![t] = Probed]
          /\ UNCHANGED <<queue, pref, retries, attempt, failedAt>>
  /\ UNCHANGED <<up, slotVars, upsets>>

\* The delivery leaves its process.
Leave(t, where) ==
  /\ pc' = [pc EXCEPT ![t] = where]
  /\ seen' = [seen EXCEPT ![t] = Unseen]
  /\ inst' = [inst EXCEPT ![t] = Nobody]
  /\ attempt' = [attempt EXCEPT ![t] = 1]
  /\ failedAt' = [failedAt EXCEPT ![t] = Nobody]

\* Defect: a finished task keeps its assignment.
CompletesStillAssigned(t) ==
  /\ Leave(t, "completed")
  /\ UNCHANGED <<queue, pref, retries, assign>>

Completes(t) ==
  /\ Leave(t, "completed")
  /\ assign' = Assigned(t, inst[t], "completed")
  /\ UNCHANGED <<queue, pref, retries>>

\* The call raised with the assignment at instance i: the task falls back and
\* completes, asks Celery for a retry while it has one left, or fails.
CallFails(t, i) ==
  \/ /\ Leave(t, "completed")
     /\ assign' = Assigned(t, i, "completed")
     /\ UNCHANGED <<queue, pref, retries>>
  \/ /\ retries[t] < MaxRetries
     /\ Leave(t, "queued")
     /\ retries' = [retries EXCEPT ![t] = @ + 1]
     /\ assign' = Assigned(t, i, "retrying")
     /\ UNCHANGED <<queue, pref>>
  \/ /\ retries[t] >= MaxRetries
     /\ Leave(t, "failed")
     /\ assign' = Assigned(t, i, "failed")
     /\ UNCHANGED <<queue, pref, retries>>

-----------------------------------------------------------------------------
(* One attempt of generate_json (llm.py). *)

\* _endpoint_status: each entry comes from the cache or from a new probe; a
\* mark set by attempt 1 half a second ago is still in the cache.
Views(t) ==
  {[i \in Instance |-> IF i \in kept /\ seen[t][i] # "?" THEN seen[t][i] ELSE Probed[i]] :
     kept \in {k \in SUBSET Instance : failedAt[t] = Nobody \/ failedAt[t] \in k}}

\* The call is bound to a ready instance, its own if it is ready, and waits
\* for a slot there; with none ready LlmError is raised and not retried.
Route(t) ==
  /\ pc[t] \in {"ready", "again"}
  /\ \E view \in Views(t) :
       LET ready == {i \in Instance : view[i] = "up"} IN
       \/ /\ ready = {}
          /\ CallFails(t, inst[t])
          /\ UNCHANGED waiting
       \/ \E i \in IF inst[t] \in ready THEN {inst[t]} ELSE Selected(ready, Nobody, FALSE) :
            /\ inst' = [inst EXCEPT ![t] = i]
            /\ assign' = IF i = inst[t] THEN assign ELSE Assigned(t, i, "running")
            /\ seen' = [seen EXCEPT ![t] = view]
            /\ pc' = [pc EXCEPT ![t] = "wait"]
            /\ waiting' = [waiting EXCEPT ![t] = @ \union {"own"}]
            /\ UNCHANGED <<queue, pref, retries, attempt, failedAt>>
  /\ UNCHANGED <<up, owner, slot, beating, upsets>>

\* GpuSemaphore.acquire takes the first free lock of the instance.
Acquire(t) ==
  /\ pc[t] = "wait"
  /\ \E s \in SlotsOf(inst[t]) :
       /\ owner[s] = Nobody
       /\ owner' = [owner EXCEPT ![s] = t]
       /\ slot' = [slot EXCEPT ![t] = s]
  /\ beating' = [beating EXCEPT ![t] = TRUE]
  /\ waiting' = [waiting EXCEPT ![t] = @ \ {"own"}]
  /\ pc' = [pc EXCEPT ![t] = "post"]
  /\ UNCHANGED <<up, queue, pref, retries, assign, callVars, upsets>>

\* Defect: a call that times out leaves its waiter entry behind.
GiveUpCounted(t) ==
  /\ pc[t] = "wait"
  /\ \A s \in SlotsOf(inst[t]) : owner[s] # Nobody
  /\ CallFails(t, inst[t])
  /\ UNCHANGED <<up, slotVars, upsets>>

\* The deadline passes with every slot taken: LlmError, the finally clause
\* removes the waiter, and there is no second attempt.
GiveUp(t) ==
  /\ pc[t] = "wait"
  /\ \A s \in SlotsOf(inst[t]) : owner[s] # Nobody
  /\ waiting' = [waiting EXCEPT ![t] = @ \ {"own"}]
  /\ CallFails(t, inst[t])
  /\ UNCHANGED <<up, owner, slot, beating, upsets>>

\* Defect: the lock is deleted without looking whose token it holds.
ReleaseBlindly(t) ==
  /\ owner' = [owner EXCEPT ![slot[t]] = Nobody]
  /\ slot' = [slot EXCEPT ![t] = NoSlot]
  /\ beating' = [beating EXCEPT ![t] = FALSE]

\* The finally clause of acquire: stop the heartbeat, release the lock if it
\* still holds this call's token.
Release(t) ==
  /\ owner' = IF owner[slot[t]] = t THEN [owner EXCEPT ![slot[t]] = Nobody] ELSE owner
  /\ slot' = [slot EXCEPT ![t] = NoSlot]
  /\ beating' = [beating EXCEPT ![t] = FALSE]

\* A usable answer.
Answer(t) ==
  /\ pc[t] = "post" /\ up[inst[t]]
  /\ Release(t)
  /\ Completes(t)
  /\ UNCHANGED <<up, waiting, upsets>>

\* An answer that is not JSON or not of the schema: one more attempt.
Garbled(t) ==
  /\ pc[t] = "post" /\ up[inst[t]]
  /\ Release(t)
  /\ \/ /\ attempt[t] = 1
        /\ attempt' = [attempt EXCEPT ![t] = 2]
        /\ pc' = [pc EXCEPT ![t] = "again"]
        /\ UNCHANGED <<queue, pref, retries, assign, seen, inst, failedAt>>
     \/ attempt[t] = 2 /\ CallFails(t, inst[t])
  /\ UNCHANGED <<up, waiting, upsets>>

\* Defect: the failed instance stays healthy in the cache.
MarkNothing(t) ==
  UNCHANGED seen

\* A transport error: the instance is marked unhealthy, the affinity and the
\* assignment move to one this attempt saw ready, and a lane of several
\* instances tries again, once.
MarkUnhealthy(t) ==
  seen' = [seen EXCEPT ![t][inst[t]] = "down"]

Replacements(t) ==
  LET others == {i \in Instance : seen[t][i] = "up"} \ {inst[t]} IN
  IF others = {} THEN {inst[t]} ELSE Selected(others, Nobody, FALSE)

TransportError(t) ==
  /\ pc[t] = "post"
  /\ up[inst[t]] => upsets < MaxUpsets
  /\ upsets' = IF up[inst[t]] THEN upsets + 1 ELSE upsets
  /\ Release(t)
  /\ \E i \in Replacements(t) :
       IF attempt[t] = 1 /\ Cardinality(Instance) > 1
       THEN /\ inst' = [inst EXCEPT ![t] = i]
            /\ assign' = Assigned(t, i, "running")
            /\ MarkUnhealthy(t)
            /\ failedAt' = [failedAt EXCEPT ![t] = inst[t]]
            /\ attempt' = [attempt EXCEPT ![t] = 2]
            /\ pc' = [pc EXCEPT ![t] = "again"]
            /\ UNCHANGED <<queue, pref, retries>>
       ELSE CallFails(t, i)
  /\ UNCHANGED <<up, waiting>>

-----------------------------------------------------------------------------
(* What goes wrong around the calls. *)

\* One failed extend ends renew_lock for good.
HeartbeatBreaks(t) ==
  /\ beating[t] /\ upsets < MaxUpsets
  /\ beating' = [beating EXCEPT ![t] = FALSE]
  /\ upsets' = upsets + 1
  /\ UNCHANGED <<up, queueVars, assign, callVars, owner, slot, waiting>>

\* A lock nobody renews expires.
Lapse(s) ==
  /\ owner[s] # Nobody
  /\ owner[s] \in Task => ~beating[owner[s]]
  /\ owner' = [owner EXCEPT ![s] = Nobody]
  /\ UNCHANGED <<up, queueVars, assign, callVars, slot, beating, waiting, upsets>>

\* The process dies: the message is delivered again (acks_late), the lock and
\* the waiter entry stay until they expire.
Crash(t) ==
  /\ pc[t] \in Serving /\ upsets < MaxUpsets
  /\ Leave(t, "queued")
  /\ owner' = [s \in Slot |-> IF owner[s] = t THEN Dead ELSE owner[s]]
  /\ slot' = [slot EXCEPT ![t] = NoSlot]
  /\ beating' = [beating EXCEPT ![t] = FALSE]
  /\ waiting' = [waiting EXCEPT ![t] = IF "own" \in @ THEN {"stale"} ELSE @]
  /\ upsets' = upsets + 1
  /\ UNCHANGED <<up, queue, pref, retries, assign>>

\* queue_status purges the entries whose deadline has passed.
Purge(t) ==
  /\ "stale" \in waiting[t]
  /\ waiting' = [waiting EXCEPT ![t] = @ \ {"stale"}]
  /\ UNCHANGED <<up, queueVars, assign, callVars, owner, slot, beating, upsets>>

Outage(i) ==
  /\ up[i] /\ upsets < MaxUpsets
  /\ up' = [up EXCEPT ![i] = FALSE]
  /\ upsets' = upsets + 1
  /\ UNCHANGED <<queueVars, assign, callVars, slotVars>>

ComesBack(i) ==
  /\ ~up[i]
  /\ up' = [up EXCEPT ![i] = TRUE]
  /\ UNCHANGED <<queueVars, assign, callVars, slotVars, upsets>>

-----------------------------------------------------------------------------
Serve(t) ==
  \/ Dispatch(t) \/ Bind(t) \/ Route(t) \/ Acquire(t) \/ GiveUp(t)
  \/ Answer(t) \/ Garbled(t) \/ TransportError(t)

Next ==
  \/ \E t \in Task : Serve(t) \/ HeartbeatBreaks(t) \/ Crash(t) \/ Purge(t)
  \/ \E s \in Slot : Lapse(s)
  \/ \E i \in Instance : Outage(i) \/ ComesBack(i)

Spec == Init /\ [][Next]_vars

\* Celery serves every message, a lock that nobody renews expires, a deadline
\* passes.  A business retry, an answer and an outage are choices of the world,
\* so nothing is promised about them but that a served task takes some step.
FairSpec ==
  /\ Spec
  /\ \A t \in Task : WF_vars(Serve(t))
  /\ \A t \in Task : WF_vars(Purge(t))
  /\ \A s \in Slot : WF_vars(Lapse(s) /\ (owner[s] = Dead))

-----------------------------------------------------------------------------
\* A call whose heartbeat still runs owns the lock of the slot it uses: the
\* release of a call that lost its own lease never frees it (llm.py, acquire).
\* So an instance never serves more such calls than it has slots.
LeaseHolds ==
  /\ \A t \in Task : beating[t] => pc[t] = "post" /\ owner[slot[t]] = t
  /\ \A i \in Instance :
       Cardinality({t \in Task : beating[t] /\ inst[t] = i}) <= Capacity[i]

\* The waiting count of an instance names calls that really wait for one of its
\* slots; only the entry of a process that died may outlive its call (llm.py).
WaitersWait == \A t \in Task : "own" \in waiting[t] => pc[t] = "wait"

\* After a transport error the second attempt never goes back to the instance
\* that failed, whatever the affinity and the other caches say (llm.py).
SecondTryElsewhere ==
  \A t \in Task : pc[t] \in {"wait", "post"} /\ failedAt[t] # Nobody => inst[t] # failedAt[t]

\* An assignment counted as load belongs to a task that will still run, or to
\* one whose reroute found no retry left: the wrapper records the assignment
\* before self.retry raises, and nothing takes it back (worker.py:417).
LoadIsOwed ==
  \A t \in Task :
    assign[t].status \in Active =>
      /\ pc[t] \notin {"completed", "failed"}
      /\ pc[t] = "dropped" => assign[t].status = "queued" /\ retries[t] >= MaxRetries

\* While instances are lost no more and one of them answers for good, every
\* task ends: waiting for health and slots is not for ever.
TaskEnds ==
  \A t \in Task : (<>[](\E i \in Instance : up[i])) => <>(pc[t] \in Ended)
=============================================================================
