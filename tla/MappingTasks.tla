---------------------------- MODULE MappingTasks ----------------------------
(***************************************************************************)
(* Asset mapping and the full refresh of an event.  Every task of the      *)
(* extraction and mapping lanes has a record in a Redis hash, which the    *)
(* dashboard shows and the lease reconciliation trusts; the message itself *)
(* is in the broker, the progress of the mapping in the steps of the       *)
(* event, and that of a full refresh (extract again, map again, research   *)
(* again) in a step of the event report.  Each of the four is written by   *)
(* handlers, their heartbeat threads, beat and operators.                  *)
(*                                                                         *)
(* An enqueue saves the event it was given, from before a health probe.    *)
(* Reading and writing a record are one step, except for the heartbeat,    *)
(* whose thread is not waited for.  What follows in the research lane is   *)
(* ResearchRuns; here it ends (ResearchEnds).                              *)
(***************************************************************************)
EXTENDS Naturals, FiniteSets

CONSTANTS
    Event,
    Worker,       \* slots of the extraction and mapping workers
    NoTask,
    MaxTask,      \* bound: task ids (uuid4) in use at a time
    MaxTries,     \* max_retries + 1
    MaxRequests,  \* bound: what operators ask for
    MaxUpsets     \* bound: deaths, failed calls, failed and slow heartbeats

ASSUME MappingTaskIds == MaxTask \in Nat /\ NoTask \notin Nat

Task == 1 .. MaxTask

VARIABLES
    rec,       \* the Redis hashes: a record per task: status, event, kind, whether
               \* its heartbeat is fresh
    msgs,      \* messages in the broker
    event,     \* queue step `q', mapping step `m', whether the mapping step is the
               \* later one, whether there are candidates
    report,    \* its report: does it exist, where is its full refresh
    hand,      \* the handler each worker runs
    touching,  \* heartbeats that have read `running' and not written yet
    sending,   \* enqueue_asset_mapping under way
    sweep,     \* the replacement reconcile_asset_mapping_leases is busy with
    requests, upsets,
    silenced,  \* events whose mapping was cancelled with nothing in its place, or its message lost
    dropped    \* events whose full refresh lost its task to a cancellation or replacement

work  == <<hand, touching>>
count == <<requests, upsets>>
ghost == <<silenced, dropped>>
mappingVars == <<rec, msgs, event, report, work, sending, sweep, count, ghost>>

Active(r) == r.st \in {"queued", "running", "retrying"}
Leased(r) == r.st \in {"running", "retrying"}

Idle    == [pc |-> "idle"]
NoSweep == [pc |-> "idle"]

NewEvent == [q |-> "none", m |-> "none", later |-> FALSE, cand |-> FALSE]

Init ==
    /\ \E e \in Event :
          rec = [t \in Task |-> [st |-> "none", ev |-> e, kind |-> "map", fresh |-> FALSE]]
    /\ msgs = {} /\ event = [e \in Event |-> NewEvent]
    /\ report = [e \in Event |-> [there |-> FALSE, stage |-> "none", task |-> NoTask]]
    /\ hand = [w \in Worker |-> Idle] /\ touching = {}
    /\ sending = {} /\ sweep = NoSweep
    /\ requests = 0 /\ upsets = 0 /\ silenced = {} /\ dropped = {}

\* The step of the report that says where its full refresh is.
RefreshActive(e) == report[e].stage # "none"
Begun(e, task) == [report EXCEPT ![e].stage = "extract", ![e].task = task]
InStage(e, stage) == [report EXCEPT ![e].stage = stage]

Request == requests < MaxRequests /\ requests' = requests + 1
Upset   == upsets < MaxUpsets /\ upsets' = upsets + 1

\* A task id that nothing refers to and whose record is over (or is of the extraction
\* lane: no reconciliation looks at those, and one that a heartbeat revived stays).
Busy  == {w \in Worker : hand[w] # Idle}
InUse == {m.task : m \in msgs} \cup {hand[w].msg.task : w \in Busy} \cup touching
         \cup {s.task : s \in sending} \cup {report[e].task : e \in Event}
         \cup (IF sweep = NoSweep THEN {} ELSE {sweep.old, sweep.new})
Spare == {t \in Task \ InUse : ~Active(rec[t]) \/ rec[t].kind = "extract"}
Fresh == CHOOSE t \in Spare : \A u \in Spare : t <= u

-------------------------------------------------------------------------------
\* Defect: the update does not look for a cancellation.
TrackedBlindly(r, st) == [r EXCEPT !.st = st, !.fresh = st \in {"running", "retrying"}]

\* update_model_task: a cancelled record is left alone.
Tracked(r, st) == IF r.st = "cancelled" THEN r 
                  ELSE [r EXCEPT !.st = st, !.fresh = st \in {"running", "retrying"}]

\* record_model_task, under a new id.
Recorded(e, kind) == [st |-> "queued", ev |-> e, kind |-> kind, fresh |-> FALSE]

\* cancel_model_task with the revocation of the message; cancel_model_tasks (the failed too).
Cancelled(r) == IF Active(r) THEN [r EXCEPT !.st = "cancelled", !.fresh = FALSE] ELSE r
Revoked(t) == msgs' = {m \in msgs : m.task # t}
Cleared(r, kind) == IF r.kind = kind /\ (Active(r) \/ r.st = "failed")
                    THEN [r EXCEPT !.st = "cancelled", !.fresh = FALSE] ELSE r

\* Defect: a mapping whose last attempt failed still counts as under way.
InMappingQueued(x) == x.q = "queued"

\* _asset_mapping_is_terminal, _asset_mapping_is_active.
Terminal(x) == \/ x.cand \/ x.q = "completed"
               \/ x.m = "done" /\ (x.q = "none" \/ x.later)

InMapping(x) == x.q = "queued" /\ (x.m = "none" \/ ~x.later \/ x.m = "busy")

\* Another task maps the event of t; if not, t is missed where the event waits for it.
Replaced(t) == \E u \in Task \ {t} : rec[u].kind = "map" /\ rec[u].ev = rec[t].ev /\ Active(rec[u])
Missed(t)   == IF Replaced(t) \/ ~InMapping(event[rec[t].ev]) THEN {} ELSE {rec[t].ev}

-------------------------------------------------------------------------------
\* enqueue_asset_mapping: an instance is probed first.
Enqueue(by, e, copy, force, full) ==
    /\ Spare # {}
    /\ sending' = sending \cup {[by |-> by, task |-> Fresh, ev |-> e, copy |-> copy,
                                 force |-> force, full |-> full, pc |-> "save"]}

\* Then the event and the record are written, then the message.
SaveQueued(s) ==
    /\ s \in sending /\ s.pc = "save"
    /\ event' = [event EXCEPT ![s.ev] = [s.copy EXCEPT !.q = "queued", !.later = FALSE]]
    /\ rec' = [rec EXCEPT ![s.task] = Recorded(s.ev, "map")]
    /\ sending' = (sending \ {s}) \cup {[s EXCEPT !.pc = "publish"]}
    /\ UNCHANGED <<msgs, report, work, sweep, count, ghost>>

\* The caller of a finished enqueue: a re-extraction is done with it or raises, the
\* reconciliation goes on to cancel or gives up.
Resume(s, ok) ==
    /\ hand' = IF s.by \notin Worker THEN hand
               ELSE [hand EXCEPT ![s.by] = IF ok THEN Idle ELSE [@ EXCEPT !.pc = "raise"]]
    /\ sweep' = IF s.by # "sweep" THEN sweep
                ELSE IF ok THEN [sweep EXCEPT !.pc = "cancel"] ELSE NoSweep

\* A message whose task was cancelled and revoked before is not executed.
PublishMapping(s) ==
    /\ s \in sending /\ s.pc = "publish"
    /\ msgs' = IF rec[s.task].st = "cancelled" THEN msgs
               ELSE msgs \cup {[task |-> s.task, ev |-> s.ev, kind |-> "map",
                                force |-> s.force, full |-> s.full, try |-> 1]}
    /\ rec' = IF s.by \notin Worker THEN rec
              ELSE [rec EXCEPT ![hand[s.by].msg.task] = Tracked(@, "completed")]
    /\ Resume(s, TRUE)
    /\ sending' = sending \ {s}
    /\ UNCHANGED <<event, report, touching, count, ghost>>

PublishFails(s) ==
    /\ Upset
    /\ s \in sending /\ s.pc = "publish"
    /\ rec' = [rec EXCEPT ![s.task] = Tracked(@, "failed")]
    /\ event' = [event EXCEPT ![s.ev] = [s.copy EXCEPT !.q = "failed", !.later = FALSE]]
    /\ Resume(s, FALSE)
    /\ sending' = sending \ {s}
    /\ UNCHANGED <<msgs, report, touching, requests, ghost>>

\* The process dies: the record stays `queued', which no reconciliation looks at.
SenderDies(s) ==
    /\ Upset
    /\ s \in sending /\ s.by \notin Worker
    /\ sending' = sending \ {s}
    /\ sweep' = IF s.by = "sweep" THEN NoSweep ELSE sweep
    /\ silenced' = silenced \cup {s.ev}
    /\ UNCHANGED <<rec, msgs, event, report, work, requests, dropped>>

\* dispatch_event_followups, recover_stranded_event_followups: an event without a
\* report gets one, or a mapping first.
Follow(e) ==
    /\ ~report[e].there /\ ~InMapping(event[e])
    /\ \A s \in sending : s.by # "beat"
    /\ IF Terminal(event[e])
       THEN report' = [report EXCEPT ![e].there = TRUE] /\ UNCHANGED sending
       ELSE /\ Enqueue("beat", e, event[e], event[e].q # "none", FALSE)
            /\ UNCHANGED report
    /\ UNCHANGED <<rec, msgs, event, work, sweep, count, ghost>>

-------------------------------------------------------------------------------
Take(w, m, pc) ==
    /\ rec' = [rec EXCEPT ![m.task] = Tracked(@, "running")]
    /\ hand' = [hand EXCEPT ![w] = [pc |-> pc, msg |-> m, beat |-> TRUE, copy |->
                                    IF pc = "extract" THEN event[m.ev] ELSE NewEvent]]

\* model_instance_task and the start of resolve_event_assets: a task that has its
\* candidates and is not forced goes straight to the report.
DeliverMapping(w, m) ==
    /\ hand[w] = Idle /\ m \in msgs /\ m.kind = "map"
    /\ msgs' = msgs \ {m}
    /\ IF rec[m.task].st = "cancelled"
       THEN silenced' = silenced \cup Missed(m.task) /\ UNCHANGED <<rec, hand, event, report>>
       ELSE /\ UNCHANGED silenced
            /\ report' = InStage(m.ev, IF m.full THEN "mapping" ELSE report[m.ev].stage)
            /\ IF m.force \/ ~event[m.ev].cand
               THEN /\ event' = [event EXCEPT ![m.ev].m = "busy", ![m.ev].later = TRUE]
                    /\ Take(w, m, "map")
               ELSE Take(w, m, "report") /\ UNCHANGED event
    /\ UNCHANGED <<touching, sending, sweep, count, dropped>>

\* The start of reextract_event: one that was cancelled fails the refresh, one that
\* another refresh superseded just ends.
DeliverExtraction(w, m) ==
    /\ hand[w] = Idle /\ m \in msgs /\ m.kind = "extract"
    /\ msgs' = msgs \ {m}
    /\ IF rec[m.task].st = "cancelled"
       THEN report' = InStage(m.ev, "none") /\ UNCHANGED <<rec, hand>>
       ELSE IF report[m.ev].task # m.task
       THEN rec' = [rec EXCEPT ![m.task] = Tracked(@, "completed")] /\ UNCHANGED <<hand, report>>
       ELSE Take(w, m, "extract") /\ report' = InStage(m.ev, "extract")
    /\ UNCHANGED <<event, touching, sending, sweep, count, ghost>>

\* The model has answered: the event is saved with what was found.
MapDone(w) ==
    /\ hand[w].pc = "map"
    /\ \E c \in BOOLEAN, m \in {"done", "other"} :
          event' = [event EXCEPT ![hand[w].msg.ev] =
                       [q |-> "completed", m |-> m, later |-> FALSE, cand |-> c]]
    /\ hand' = [hand EXCEPT ![w].pc = "report"]
    /\ UNCHANGED <<rec, msgs, report, touching, sending, sweep, count, ghost>>

\* enqueue_event_research_refresh for a refresh of a report, else enqueue_event_report.
Reported(x, full) == IF full /\ x.there THEN [x EXCEPT !.stage = "research"]
                     ELSE [x EXCEPT !.there = TRUE]

QueueReport(w) ==
    /\ hand[w].pc = "report"
    /\ LET m == hand[w].msg IN
       /\ report' = [report EXCEPT ![m.ev] = Reported(@, m.full)]
       /\ rec' = [rec EXCEPT ![m.task] = Tracked(@, "completed")]
    /\ hand' = [hand EXCEPT ![w] = Idle]
    /\ UNCHANGED <<msgs, event, touching, sending, sweep, count, ghost>>

\* rebuild_event_from_extractions: the facts are new, the candidates gone, the steps
\* stay; then the mapping is enqueued with the same copy.
Extracted(w) ==
    /\ hand[w].pc = "extract"
    /\ LET e == hand[w].msg.ev  copy == [hand[w].copy EXCEPT !.cand = FALSE] IN
       /\ event' = [event EXCEPT ![e] = copy]
       /\ report' = InStage(e, "mapping")
       /\ Enqueue(w, e, copy, TRUE, TRUE)
    /\ hand' = [hand EXCEPT ![w].pc = "wait"]
    /\ UNCHANGED <<rec, msgs, touching, sweep, count, ghost>>

Again(w, t) == msgs' = msgs \cup {[hand[w].msg EXCEPT !.try = t]}

\* Defect: the last attempt ends without failing the refresh.
ExtractionFailsQuietly(w) ==
    LET m == hand[w].msg  last == m.try = MaxTries IN
    /\ m.kind = "extract"
    /\ rec' = [rec EXCEPT ![m.task] = Tracked(@, IF last THEN "failed" ELSE "retrying")]
    /\ IF last THEN UNCHANGED msgs ELSE Again(w, m.try + 1)
    /\ report' = InStage(m.ev, "extract")
    /\ UNCHANGED event

\* The exception path of reextract_event.
ExtractionFails(w) ==
    LET m == hand[w].msg  last == m.try = MaxTries IN
    /\ m.kind = "extract"
    /\ rec' = [rec EXCEPT ![m.task] = Tracked(@, IF last THEN "failed" ELSE "retrying")]
    /\ IF last THEN UNCHANGED msgs ELSE Again(w, m.try + 1)
    /\ report' = InStage(m.ev, IF last THEN "none" ELSE "extract")
    /\ UNCHANGED event

\* That of resolve_event_assets: after the last attempt the report is queued all the
\* same, and the wrapper calls the task completed; unless that fails too.
MappingFails(w) ==
    LET m == hand[w].msg  last == m.try = MaxTries IN
    /\ m.kind = "map"
    /\ event' = [event EXCEPT ![m.ev].m = IF last THEN "other" ELSE "busy", ![m.ev].later = TRUE]
    /\ \/ /\ last /\ UNCHANGED msgs
          /\ \/ /\ report' = [report EXCEPT ![m.ev] = Reported(@, m.full)]
                /\ rec' = [rec EXCEPT ![m.task] = Tracked(@, "completed")]
             \/ /\ report' = InStage(m.ev, IF m.full THEN "none" ELSE report[m.ev].stage)
                /\ rec' = [rec EXCEPT ![m.task] = Tracked(@, "failed")]
       \/ /\ ~last /\ Again(w, m.try + 1) /\ UNCHANGED report
          /\ rec' = [rec EXCEPT ![m.task] = Tracked(@, "retrying")]

HandlerFails(w) ==
    /\ \/ hand[w].pc \in {"map", "report", "extract"} /\ Upset
       \/ hand[w].pc = "raise" /\ UNCHANGED upsets
    /\ ExtractionFails(w) \/ MappingFails(w)
    /\ hand' = [hand EXCEPT ![w] = Idle]
    /\ UNCHANGED <<touching, sending, sweep, requests, ghost>>

\* Acknowledged late: the message of a worker that died comes back.
WorkerDies(w) ==
    /\ Upset
    /\ hand[w] # Idle
    /\ msgs' = msgs \cup {hand[w].msg}
    /\ hand' = [hand EXCEPT ![w] = Idle]
    /\ sending' = {s \in sending : s.by # w}
    /\ UNCHANGED <<rec, event, report, touching, sweep, requests, ghost>>

-------------------------------------------------------------------------------
\* touch_model_task keeps the record fresh.  One that is slow refreshes what it read, and
\* a record that ended or was cancelled in between runs again.
TouchReads(w) ==
    /\ Upset
    /\ hand[w] # Idle /\ hand[w].beat
    /\ LET t == hand[w].msg.task IN
       /\ rec[t].st = "running" /\ t \notin touching
       /\ touching' = touching \cup {t}
    /\ UNCHANGED <<rec, msgs, event, report, hand, sending, sweep, requests, ghost>>

TouchWrites(t) ==
    /\ t \in touching
    /\ rec' = [rec EXCEPT ![t].st = "running", ![t].fresh = TRUE]
    /\ touching' = touching \ {t}
    /\ UNCHANGED <<msgs, event, report, hand, sending, sweep, count, ghost>>

\* A heartbeat that fails is the last one.
BeatStops(w) ==
    /\ Upset
    /\ hand[w] # Idle /\ hand[w].beat
    /\ hand' = [hand EXCEPT ![w].beat = FALSE]
    /\ UNCHANGED <<rec, msgs, event, report, touching, sending, sweep, requests, ghost>>

LeaseLapses(t) ==
    /\ Leased(rec[t]) /\ rec[t].fresh
    /\ \A w \in Busy : hand[w].msg.task = t => ~hand[w].beat
    /\ rec' = [rec EXCEPT ![t].fresh = FALSE]
    /\ UNCHANGED <<msgs, event, report, work, sending, sweep, count, ghost>>

Stale(t) == rec[t].kind = "map" /\ Leased(rec[t]) /\ ~rec[t].fresh

\* Defect: a stale task of an event that is done with is left alone.
ReconcileUnfinished(t) ==
    LET e == rec[t].ev IN
    /\ sweep = NoSweep /\ Stale(t) /\ ~Terminal(event[e])
    /\ Enqueue("sweep", e, event[e], TRUE, FALSE)
    /\ sweep' = [pc |-> "enqueue", old |-> t, new |-> Fresh]
    /\ UNCHANGED <<rec, msgs, event, report, work, count, ghost>>

\* reconcile_asset_mapping_leases: the stale task of an event that is done with, or
\* has another task, is cancelled; else a replacement is enqueued, without the flags of
\* a full refresh, and the stale task cancelled after it.  An event with candidates that
\* is being mapped again counts as done with.
Reconcile(t) ==
    LET e == rec[t].ev IN
    /\ sweep = NoSweep /\ Stale(t)
    /\ IF Terminal(event[e]) \/ Replaced(t)
       THEN /\ rec' = [rec EXCEPT ![t] = Cancelled(@)] /\ Revoked(t)
            /\ dropped' = dropped \cup {e}
            /\ silenced' = silenced \cup Missed(t)
            /\ UNCHANGED <<sending, sweep>>
       ELSE /\ Enqueue("sweep", e, event[e], TRUE, FALSE)
            /\ sweep' = [pc |-> "enqueue", old |-> t, new |-> Fresh]
            /\ UNCHANGED <<rec, msgs, ghost>>
    /\ UNCHANGED <<event, report, work, count>>

\* The stale task ended meanwhile: the replacement is withdrawn, but the event was
\* saved as it had been before the stale task ended.
Supersede ==
    /\ sweep.pc = "cancel"
    /\ LET e == rec[sweep.old].ev IN
       IF Active(rec[sweep.old])
       THEN /\ rec' = [rec EXCEPT ![sweep.old] = Cancelled(@)] /\ Revoked(sweep.old)
            /\ dropped' = dropped \cup {e} /\ silenced' = silenced \cup Missed(sweep.old)
       ELSE /\ rec' = [rec EXCEPT ![sweep.new] = Cancelled(@)] /\ Revoked(sweep.new)
            /\ silenced' = silenced \cup {e} /\ UNCHANGED dropped
    /\ sweep' = NoSweep
    /\ UNCHANGED <<event, report, work, sending, count>>

-------------------------------------------------------------------------------
\* cancel_asset_mapping_task: what the task was part of is not told.
CancelMapping(t) ==
    /\ Request
    /\ rec[t].kind = "map" /\ Active(rec[t])
    /\ rec' = [rec EXCEPT ![t] = Cancelled(@)] /\ Revoked(t)
    /\ silenced' = silenced \cup {rec[t].ev} /\ dropped' = dropped \cup {rec[t].ev}
    /\ UNCHANGED <<event, report, work, sending, sweep, upsets>>

\* retry_model_queue_task for a mapping that shows an error.
RetryMapping(t) ==
    /\ Request
    /\ rec[t].kind = "map" /\ rec[t].st \in {"failed", "retrying"}
    /\ rec' = [rec EXCEPT ![t] = Cancelled(@)] /\ Revoked(t)
    /\ Enqueue("api", rec[t].ev, event[rec[t].ev], TRUE, FALSE)
    /\ dropped' = dropped \cup {rec[t].ev}
    /\ UNCHANGED <<event, report, work, sweep, upsets, silenced>>

\* clear_model_queue: the records are cancelled and the messages purged.
ClearQueue(kind) ==
    /\ Request
    /\ \E t \in Task : rec[t].kind = kind /\ (Active(rec[t]) \/ rec[t].st = "failed")
    /\ rec' = [t \in Task |-> Cleared(rec[t], kind)]
    /\ msgs' = {m \in msgs : m.kind # kind}
    /\ silenced' = silenced \cup {rec[t].ev : t \in {u \in Task : rec[u].kind = kind}}
    /\ dropped' = dropped \cup {rec[t].ev : t \in {u \in Task : rec[u].kind = kind}}
    /\ UNCHANGED <<event, report, work, sending, sweep, upsets>>

\* enqueue_full_event_research: one at a time, by the step of the report.
FullResearch(e) ==
    /\ Request
    /\ report[e].there /\ ~RefreshActive(e) /\ Spare # {}
    /\ \/ /\ report' = Begun(e, Fresh)
          /\ rec' = [rec EXCEPT ![Fresh] = Recorded(e, "extract")]
          /\ msgs' = msgs \cup {[task |-> Fresh, ev |-> e, kind |-> "extract", force |-> TRUE,
                                 full |-> TRUE, try |-> 1]}
       \/ /\ report' = [report EXCEPT ![e].task = Fresh]
          /\ rec' = [rec EXCEPT ![Fresh] = [Recorded(e, "extract") EXCEPT !.st = "failed"]]
          /\ UNCHANGED msgs
    /\ UNCHANGED <<event, work, sending, sweep, upsets, ghost>>

\* The research lane is done with the refresh.
ResearchEnds(e) ==
    /\ report[e].stage = "research"
    /\ report' = InStage(e, "none")
    /\ UNCHANGED <<rec, msgs, event, work, sending, sweep, count, ghost>>

-------------------------------------------------------------------------------
Send(s) == SaveQueued(s) \/ PublishMapping(s)
Handle(w) == MapDone(w) \/ QueueReport(w) \/ Extracted(w) \/ (hand[w].pc = "raise" /\ HandlerFails(w))
Deliver(w, m) == DeliverMapping(w, m) \/ DeliverExtraction(w, m)

Next ==
    \/ \E s \in sending : Send(s) \/ PublishFails(s) \/ SenderDies(s)
    \/ \E w \in Worker : \/ Handle(w) \/ HandlerFails(w) \/ WorkerDies(w)
                         \/ TouchReads(w) \/ BeatStops(w)
                         \/ \E m \in msgs : Deliver(w, m)
    \/ \E t \in Task : \/ TouchWrites(t) \/ LeaseLapses(t) \/ Reconcile(t)
                       \/ CancelMapping(t) \/ RetryMapping(t)
    \/ \E e \in Event : Follow(e) \/ FullResearch(e) \/ ResearchEnds(e)
    \/ \E kind \in {"extract", "map"} : ClearQueue(kind)
    \/ Supersede

Spec == Init /\ [][Next]_mappingVars

\* Calls under way go on, workers take what waits, beat runs every minute, time
\* passes.  Operators, upsets and heartbeats have no fairness.
FairSpec ==
    /\ Spec
    /\ WF_mappingVars(\E s \in sending : Send(s))
    /\ \A w \in Worker : /\ WF_mappingVars(Handle(w))
                         /\ WF_mappingVars(\E m \in msgs : Deliver(w, m))
    /\ WF_mappingVars(\E t \in Task : TouchWrites(t))
    /\ WF_mappingVars(\E t \in Task : LeaseLapses(t))
    /\ SF_mappingVars(\E t \in Task : Reconcile(t)) /\ WF_mappingVars(Supersede)
    /\ SF_mappingVars(\E e \in Event : Follow(e))
    /\ WF_mappingVars(\E e \in Event : ResearchEnds(e))

-------------------------------------------------------------------------------
\* A cancelled task stays cancelled whatever its handler, its retry or the end of its
\* enqueue report later; only a heartbeat that had read the record before revives it.
OnlyBeatsRevive ==
    [][\A t \in Task : rec[t].st = "cancelled" /\ Active(rec'[t])
          => t \in touching \/ rec'[t].st = "queued"]_mappingVars

\* A mapping task that is shown as running or retrying with nobody behind it, be it
\* dead or revived by a late heartbeat, does not stay so.
GhostsEnd ==
    \A t \in Task :
       rec[t].kind = "map" /\ Leased(rec[t]) ~> ~Leased(rec[t])

\* An event whose mapping was queued gets its report, whatever dies, fails or is replaced
\* in between, unless the mapping was cancelled with nothing in its place or its
\* message was lost: then it counts as being mapped for ever.
MappingIsFollowed ==
    \A e \in Event :
       event[e].q = "queued" ~> report[e].there \/ e \in silenced

\* A full refresh ends, and the next can be asked for, unless one of its tasks was
\* cancelled or replaced: then its step stays active for ever.
RefreshEnds ==
    \A e \in Event :
       report[e].stage # "none" ~> report[e].stage = "none" \/ e \in dropped
===============================================================================
