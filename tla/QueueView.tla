----------------------------- MODULE QueueView -----------------------------
(***************************************************************************)
(* The queue overview (services/model_queue.py, services/research_queue.py)*)
(* puts run rows, registry records, event steps, broker lists and          *)
(* inference slots, none of which agree, onto one page per lane.           *)
(*                                                                         *)
(* The model changes the sources the way their writers do and states what  *)
(* a page computed at any moment shows.  Two lanes of the page stand for   *)
(* the four: research (run rows) and assist (records before event steps;   *)
(* extract and code merge theirs the same way).                            *)
(***************************************************************************)
EXTENDS Integers, Sequences, FiniteSets, FiniteSetsExt, Ranks

CONSTANTS
  Run,          \* research runs
  AssetOf,      \* [Run -> asset]
  Event,        \* events to map
  Instance,     \* model instances of the lane, as 1 .. n
  MaxTime,      \* bound: the clock, for each lane
  Retention     \* MODEL_TASK_RETENTION in ticks

Queued == {"queued", "proposed"}
Running == {"running", "generating", "testing", "merging"}
ActiveStatus == Queued \union Running \union {"retrying", "verifying"}
FailedStatus == {"failed", "rejected", "rolled_back"}
CompletedStatus == {"completed", "merged", "unmapped", "insufficient_evidence"}
Fields == {"queued", "running", "retrying", "verifying", "failed", "completed"}

VARIABLES
  lane,       \* the lane in view
  now,
  runs,       \* rows: status, last update, start and whether their lease lives
  records,    \* registry records of the lane, by event
  steps,      \* latest asset_mapping step of each event
  broker,     \* messages in the lane's Celery list
  slots       \* running and queued calls of each instance

viewVars == <<lane, now, runs, records, steps, broker, slots>>

NoRow == [status |-> "none", updated |-> 0, started |-> 0, live |-> FALSE]
NoTask == [status |-> "none", updated |-> 0]
NoCalls == [running |-> 0, queued |-> 0]

Init ==
  /\ lane \in {"research", "assist"} /\ now = 0
  /\ runs = [r \in Run |-> NoRow]
  /\ records = [e \in Event |-> NoTask] /\ steps = [e \in Event |-> NoTask]
  /\ broker = 0 /\ slots = [i \in Instance |-> NoCalls]

-----------------------------------------------------------------------------
\* The rows and records, as their writers change them.
Follows == [none |-> {"queued"}, queued |-> {"running", "failed"},
            running |-> {"verifying", "failed"},
            verifying |-> {"completed", "insufficient_evidence", "failed"},
            completed |-> {}, insufficient_evidence |-> {},
            failed |-> {"queued"}]

RunMoves(r, s) ==
  /\ lane = "research" /\ now < MaxTime[lane]
  /\ s \in Follows[runs[r].status]
  /\ now' = now + 1
  /\ runs' = [runs EXCEPT ![r] =
       [status |-> s, updated |-> now',
        started |-> IF s = "running" THEN now' ELSE @.started,
        live |-> s \in {"running", "verifying"}]]
  /\ UNCHANGED <<lane, records, steps, broker, slots>>

LeaseLapses(r) ==
  /\ runs[r].live
  /\ runs' = [runs EXCEPT ![r] = [@ EXCEPT !.live = FALSE]]
  /\ UNCHANGED <<lane, now, records, steps, broker, slots>>

RecordMoves(e, s) ==
  /\ lane = "assist" /\ now < MaxTime[lane] /\ now' = now + 1
  /\ s \in {"queued", "running", "retrying", "completed", "failed"} \ {records[e].status}
  /\ records' = [records EXCEPT ![e] = [status |-> s, updated |-> now']]
  /\ UNCHANGED <<lane, runs, steps, broker, slots>>

StepMoves(e, s) ==
  /\ lane = "assist" /\ now < MaxTime[lane] /\ now' = now + 1
  /\ s \in {"queued", "running", "unmapped", "failed"} \ {steps[e].status}
  /\ steps' = [steps EXCEPT ![e] = [status |-> s, updated |-> now']]
  /\ UNCHANGED <<lane, runs, records, broker, slots>>

CallsMove(i, running, queued) ==
  /\ lane = "assist" /\ now < MaxTime[lane] /\ now' = now + 1
  /\ slots' = [slots EXCEPT ![i] = [running |-> running, queued |-> queued]]
  /\ UNCHANGED <<lane, runs, records, steps, broker>>

BrokerMoves(n) ==
  /\ lane = "assist" /\ now < MaxTime[lane] /\ now' = now + 1
  /\ broker' = n
  /\ UNCHANGED <<lane, runs, records, steps, slots>>

Next ==
  \/ \E r \in Run : (\E s \in DOMAIN Follows : RunMoves(r, s)) \/ LeaseLapses(r)
  \/ \E e \in Event, s \in ActiveStatus \union FailedStatus \union CompletedStatus :
       RecordMoves(e, s) \/ StepMoves(e, s)
  \/ \E i \in Instance, k, n \in 0 .. 1 : CallsMove(i, k, n)
  \/ \E n \in 0 .. 2 : BrokerMoves(n)

-----------------------------------------------------------------------------
Recent(updated) == updated >= now - Retention

\* _research_tasks: a running row counts only while its lease lives.
ActiveRuns ==
  {r \in Run : \/ runs[r].status = "queued"
               \/ runs[r].status \in {"running", "verifying"} /\ runs[r].live}

EndedRuns ==
  {r \in Run : /\ runs[r].status \in FailedStatus \union CompletedStatus
               /\ Recent(runs[r].updated)}

\* build_research_queue: one item per asset, for its furthest, then latest run.
Progress == [queued |-> 1, running |-> 2, verifying |-> 3]
Representative(a) ==
  CHOOSE r \in {q \in ActiveRuns : AssetOf[q] = a} :
    \A q \in {p \in ActiveRuns : AssetOf[p] = a} :
      \/ Progress[runs[q].status] < Progress[runs[r].status]
      \/ /\ runs[q].status = runs[r].status
         /\ runs[q].updated <= runs[r].updated

Task(kind, id, entity, row, took) ==
  [kind |-> kind, id |-> id, entity |-> entity, status |-> row.status,
   updated |-> row.updated, took |-> took]

\* _duration_ms: nothing for a run that never started.
TimeTaken(row) == IF row.started = 0 THEN 0 ELSE row.updated - row.started

ResearchTasks ==
  {LET r == Representative(a) IN Task("asset", <<"asset", r>>, a, runs[r], 0)
     : a \in {AssetOf[q] : q \in ActiveRuns}}
  \union {Task("asset", <<"run", r>>, AssetOf[r], runs[r], TimeTaken(runs[r]))
            : r \in EndedRuns}

\* _event_mapping_tasks and _merge_tasks: the records first, and an event's
\* step only if no record, of whatever status, names the event.
StepTask(e) ==
  Task("mapping", <<"event", e>>, e,
       [steps[e] EXCEPT !.status = IF @ = "unmapped" THEN "completed" ELSE @], 0)
MappingTasks ==
  {Task("mapping", <<"record", e>>, e, records[e], 0)
     : e \in {f \in Event : records[f].status # "none"
                            /\ (records[f].status \in ActiveStatus \/ Recent(records[f].updated))}}
  \union {StepTask(e)
     : e \in {f \in Event : /\ steps[f].status # "none"
                            /\ steps[f].status \in ActiveStatus \/ Recent(steps[f].updated)
                            /\ ~(records[f].status # "none"
                                 /\ (records[f].status \in ActiveStatus \/ Recent(records[f].updated)))}}

Tasks == IF lane = "research" THEN ResearchTasks ELSE MappingTasks

-----------------------------------------------------------------------------
\* _counts.
FieldOf(s) ==
  CASE s \in Queued -> "queued" [] s \in Running -> "running"
    [] s \in FailedStatus -> "failed" [] s \in CompletedStatus -> "completed"
    [] OTHER -> s
Count(tasks, f) == Cardinality({t \in tasks : FieldOf(t.status) = f})
Total(counts) == MapThenSumSet(LAMBDA i : counts[i], DOMAIN counts)

\* A task without an assignment is put on an instance by its name.
InstanceOf(t) == 1 + (t.entity % Cardinality(Instance))
TasksOn(i) == {t \in Tasks : InstanceOf(t) = i}

\* What the lane claims, before its instances are looked at ...
Claimed(f) ==
  CASE f = "queued" -> Max({Count(Tasks, f), broker})
    [] f = "running" ->
         Max({Count(Tasks, f), Total([i \in Instance |-> slots[i].running])})
    [] OTHER -> Count(Tasks, f)

Counted(i, f) ==
  IF f = "running" THEN Max({Count(TasksOn(i), f), slots[i].running})
  ELSE Count(TasksOn(i), f)

\* Defect: what no instance has is left to nobody.
InstanceCountUndistributed(i, f) == Counted(i, f)

\* ... and the instances, the first of which takes what none of them has.
InstanceCount(i, f) ==
  LET total == Total([j \in Instance |-> Counted(j, f)])
  IN  Counted(i, f) + (IF i = 1 /\ Claimed(f) > total THEN Claimed(f) - total ELSE 0)

QueueCount(f) == Total([i \in Instance |-> InstanceCount(i, f)])

\* _state, of the lane.
State ==
  LET working == QueueCount("running") + QueueCount("verifying")
      waiting == QueueCount("queued") + QueueCount("retrying")
  IN  CASE working > 0 -> "running"
        [] working = 0 /\ (waiting > 0 \/ \E i \in Instance : slots[i].queued > 0) -> "queued"
        [] OTHER -> IF QueueCount("failed") > 0 THEN "failed" ELSE "idle"

\* _visible_tasks and _sort_tasks; active tasks of one priority stand in some
\* order, the model has no queued_at.
Priority(t) ==
  CASE t.status \in Running -> 0 [] t.status \in {"retrying", "verifying"} -> 1
    [] t.status \in Queued -> 2 [] OTHER -> 3
Sooner(t, u) ==
  \/ Priority(t) < Priority(u)
  \/ /\ Priority(t) = Priority(u) /\ t # u
     /\ IF t.status \in FailedStatus THEN t.updated > u.updated ELSE t.updated < u.updated
Sorted ==
  LET visible == {t \in Tasks : t.status \in ActiveStatus \union FailedStatus}
  IN  InOrder(visible, {p \in visible \X visible : Sooner(p[1], p[2])})

LatestEnded(a) ==
  LET ended == {t \in Tasks : t.entity = a /\ t.status \in FailedStatus \union CompletedStatus}
  IN  {t \in ended : \A u \in ended : u.updated <= t.updated}

Superseded(t) ==
  /\ t.status \in FailedStatus
  /\ \E u \in LatestEnded(t.entity) : u.status \in CompletedStatus

\* Defect: any completion of the asset hides its failures.
CardsAfterAnySuccess ==
  LET cards == Sorted
      Shown(i) ==
        /\ \A j \in 1 .. i - 1 : cards[j].entity # cards[i].entity
        /\ ~(cards[i].status \in FailedStatus
             /\ \E u \in Tasks : u.entity = cards[i].entity /\ u.status \in CompletedStatus)
  IN  {cards[i] : i \in {j \in DOMAIN cards : Shown(j)}}

\* _deduplicate_asset_research_tasks: the first card of each asset, unless it
\* is a failure that a later completion has made up for.
Cards ==
  LET cards == Sorted
      Shown(i) ==
        /\ \A j \in 1 .. i - 1 :
             cards[j].entity = cards[i].entity => Superseded(cards[j])
        /\ ~Superseded(cards[i])
  IN  {cards[i] : i \in {j \in DOMAIN cards : lane = "research" => Shown(j)}}

\* _metrics: the execution times of ended tasks and their percentiles.
Durations ==
  LET ended == {t \in Tasks : t.status \in FailedStatus \union CompletedStatus /\ t.took > 0}
      order == InOrder(ended, {p \in ended \X ended :
                 \/ p[1].took < p[2].took
                 \/ p[1].took = p[2].took /\ p[1].id[2] < p[2].id[2]})
  IN  [i \in DOMAIN order |-> order[i].took]
Percentile(ds, num, den) ==
  ds[Max({1, Min({Len(ds), (Len(ds) * num + den - 1) \div den})})]

-----------------------------------------------------------------------------
\* The page tells the truth about the research runs: an asset with a run at
\* work or in the queue has exactly one card and it is active; an asset whose
\* last recent run failed has exactly one card and it is a failure; an asset
\* that has succeeded since has none.  A percentile is one: at least that share
\* of the runs took no longer, and fewer took less (model_queue.py,
\* _deduplicate_asset_research_tasks, _sort_tasks, _metrics).
CardsTellTheTruth ==
  lane = "research" =>
    LET all == Cards
        ds == Durations
    IN
    /\ \A a \in {AssetOf[r] : r \in Run} :
         LET cards == {t \in all : t.entity = a}
             ended == {r \in EndedRuns : AssetOf[r] = a}
             last == CHOOSE r \in ended : \A q \in ended : runs[q].updated <= runs[r].updated
         IN  IF \E r \in ActiveRuns : AssetOf[r] = a
             THEN Cardinality(cards) = 1 /\ \A t \in cards : t.status \in ActiveStatus
             ELSE IF ended # {} /\ runs[last].status = "failed"
                  THEN Cardinality(cards) = 1 /\ \A t \in cards : t.status = "failed"
                  ELSE cards = {}
    /\ ds # <<>> =>
         \A q \in {<<1, 2>>, <<9, 10>>} :
           LET p == Percentile(ds, q[1], q[2])
               NoMore == Cardinality({i \in DOMAIN ds : ds[i] <= p})
               Less == Cardinality({i \in DOMAIN ds : ds[i] < p})
           IN  q[2] * NoMore >= q[1] * Len(ds) /\ q[2] * Less < q[1] * Len(ds)

\* No work is lost between the sources and the page: the counts of a lane are
\* the sums over its instances, and at least what the tasks, the broker and the
\* inference slots say each; a mapping that only its event knows of is shown
\* (model_queue.py, _queue_item, _merge_tasks).
NoWorkIsLost ==
  /\ \A f \in Fields : QueueCount(f) >= Count(Tasks, f)
  /\ QueueCount("queued") >= broker
  /\ QueueCount("running") >= Total([i \in Instance |-> slots[i].running])
  /\ State = "idle" =>
       /\ broker = 0
       /\ \A e \in Event : records[e].status \notin ActiveStatus
       /\ \A r \in Run : runs[r].status # "queued"
       /\ \A i \in Instance : slots[i] = NoCalls
  /\ lane = "assist" =>
       \A e \in Event :
         steps[e].status \in ActiveStatus /\ records[e].status = "none" =>
           \E t \in Cards : t.entity = e /\ t.status = steps[e].status

\* Both at every moment: no task of any source is missing from the page of its
\* lane, and no card of it says anything its rows do not (model_queue.py,
\* build_model_queue_overview).
PageIsFaithful == CardsTellTheTruth /\ NoWorkIsLost
=============================================================================
