----------------------------- MODULE NewsPipeline -----------------------------
(***************************************************************************)
(* From a discovered news item to its event.  A scan stores the item with  *)
(* a dispatch intent (`outbox') and a processing row (`proc'); dispatchers *)
(* turn intents into jobs of the extract queue; processNews, the handler   *)
(* of those jobs, extracts the event; a task that beat runs every minute   *)
(* recovers what was left behind; an operator retries one item by hand or  *)
(* clears the queue.  The jobs and their workers are those of GoJobs.      *)
(*                                                                         *)
(* One step is one committed transaction, with the Redis call next to it.  *)
(* A dispatcher claims a batch and works it off claim by claim: each claim *)
(* is a process of its own here.  The scan's progress list is left out.    *)
(***************************************************************************)
EXTENDS GoJobs, Sequences

CONSTANTS
    News,
    NoNews,       \* no item in hand
    NewsOf,       \* the item a job extracts
    IdOf,         \* IdOf[n][k]: uuid5 of the outbox row of n and its attempt k
    Dispatcher,   \* outbox dispatches that may be under way at once
    MaxRequests,  \* bound: manual retries, queue clearings and rediscoveries
    MaxUpsets     \* bound: those, crashes, errors and undue delays, all together

ASSUME JobsExtractNews == NewsOf \in [Job -> News] /\ NoNews \notin News
ASSUME OneQueueKeyedByNews ==
    \A j, k \in Job : /\ QueueOf[j] = QueueOf[k] /\ KeyOf[j] # NoKey
                      /\ KeyOf[j] = KeyOf[k] <=> NewsOf[j] = NewsOf[k]
ASSUME IdsAreDistinct ==
    /\ IdOf \in [News -> Seq(Job)]
    /\ \A n \in News : \A k \in 1 .. Len(IdOf[n]) : NewsOf[IdOf[n][k]] = n
    /\ \A n \in News : \A k, l \in 1 .. Len(IdOf[n]) : IdOf[n][k] = IdOf[n][l] => k = l
ASSUME BoundsAreNumbers == {MaxRequests, MaxUpsets} \subseteq Nat

VARIABLES
    event,        \* item -> a news_events row names it
    followed,     \* item -> mapping or research of its event was enqueued
    proc,         \* news_processing
    outbox,       \* news_processing_outbox
    tracked,      \* the status of a task in the Redis hash of the model queue
    step,         \* worker -> where its handler is
    hand,         \* dispatcher -> the claim it works on
    plan,         \* item -> what recover_orphaned_news is about to write
    retry,        \* the request that retries one item by hand
    clearing,     \* an operator is clearing the queue
    upsets, requests

pipeline == <<event, followed, proc, outbox, tracked, step, hand, plan, retry, clearing>>
newsVars == <<vars, pipeline, upsets, requests>>
stores   == <<event, followed, proc, outbox, tracked>>
bounds   == <<upsets, requests>>

ActiveNews == {"queued", "running", "retrying"}
NewsStatus == ActiveNews \cup {"none", "dispatch_pending", "completed", "dispatch_failed",
                               "extraction_failed", "cancelled"}
OutboxStatus == {"none", "pending", "dispatching", "dispatched", "failed"}
OutboxDue    == {"pending", "failed"}

\* The attempts the instance has ids for.
Attempts(n) == Len(IdOf[n])

NoClaim == [pc |-> "idle", news |-> NoNews, attempt |-> 0]
NoRetry == [pc |-> "idle", news |-> NoNews]
NoPlan  == [to |-> "nothing", proc |-> "none", outbox |-> "none"]

NewsTypeOK ==
    /\ event \in [News -> BOOLEAN] /\ followed \in [News -> BOOLEAN]
    /\ proc \in [News -> [status : NewsStatus, fresh : BOOLEAN]]
    /\ outbox \in [News -> [status : OutboxStatus, due : BOOLEAN, attempts : Nat]]
    /\ tracked \in [Job -> {"none", "live", "completed", "failed", "cancelled"}]
    /\ step \in [Worker -> {"check", "start", "ingest", "follow", "finish", "ok", "error"}]
    /\ hand \in [Dispatcher -> [pc : {"idle", "record", "enqueue", "mark", "fail"},
                                news : News \cup {NoNews}, attempt : Nat]]
    /\ plan \in [News -> [to : {"nothing", "complete", "stage"},
                          proc : NewsStatus, outbox : OutboxStatus]]
    /\ retry \in [pc : {"idle", "outbox", "enqueue", "failed", "queued", "dispatched"},
                  news : News \cup {NoNews}]
    /\ clearing \in {"no", "rows"}
    /\ upsets \in 0 .. MaxUpsets /\ requests \in 0 .. MaxRequests

NewsInit ==
    /\ Init
    /\ event = [n \in News |-> FALSE] /\ followed = [n \in News |-> FALSE]
    /\ proc = [n \in News |-> [status |-> "none", fresh |-> FALSE]]
    /\ outbox = [n \in News |-> [status |-> "none", due |-> FALSE, attempts |-> 0]]
    /\ tracked = [j \in Job |-> "none"]
    /\ step = [w \in Worker |-> "check"]
    /\ hand = [d \in Dispatcher |-> NoClaim]
    /\ plan = [n \in News |-> NoPlan]
    /\ retry = NoRetry /\ clearing = "no"
    /\ upsets = 0 /\ requests = 0

Upset   == upsets < MaxUpsets /\ upsets' = upsets + 1 /\ UNCHANGED requests
Request == /\ requests < MaxRequests /\ requests' = requests + 1
           /\ upsets < MaxUpsets /\ upsets' = upsets + 1
Calm    == UNCHANGED bounds

-------------------------------------------------------------------------------
\* mark_news_processing and markNewsProcessing: the status and a new heartbeat.
Mark(n, status) == proc' = [proc EXCEPT ![n] = [status |-> status, fresh |-> TRUE]]

\* _outbox_row: the intent of n is pending again; the attempts are kept.
Intent(n) == outbox' = [outbox EXCEPT ![n].status = "pending", ![n].due = TRUE]

\* updateTrackedTask and update_model_task: a cancelled task stays cancelled.
Track(j, status) ==
    tracked' = [tracked EXCEPT ![j] = IF @ = "cancelled" THEN @ ELSE status]

-------------------------------------------------------------------------------
\* stage_news_for_extraction, by a scan.  An item that is known already but has
\* no event is staged again, whatever its processing status is.
Stage(n) ==
    /\ ~event[n]
    /\ IF outbox[n].status = "none" THEN Calm ELSE Request
    /\ Mark(n, "dispatch_pending") /\ Intent(n)
    /\ UNCHANGED <<vars, event, followed, tracked, step, hand, plan, retry, clearing>>

-------------------------------------------------------------------------------
\* Defect: the attempt is counted when the dispatch succeeds.
ClaimDispatchUncounted(d, n) ==
    /\ hand[d].pc = "idle"
    /\ outbox[n].status \in OutboxDue /\ outbox[n].due
    /\ outbox[n].attempts < Attempts(n)
    /\ outbox' = [outbox EXCEPT ![n].status = "dispatching",
                                ![n].attempts = IF @ = 0 THEN 1 ELSE @]
    /\ hand' = [hand EXCEPT ![d] = [pc |-> "record", news |-> n,
                                    attempt |-> outbox'[n].attempts]]
    /\ UNCHANGED <<vars, event, followed, proc, tracked, step, plan, retry, clearing>>
    /\ Calm

\* claim_news_dispatches: FOR UPDATE SKIP LOCKED gives an intent to one dispatcher.
ClaimDispatch(d, n) ==
    /\ hand[d].pc = "idle"
    /\ outbox[n].status \in OutboxDue /\ outbox[n].due
    /\ outbox[n].attempts < Attempts(n)
    /\ outbox' = [outbox EXCEPT ![n].status = "dispatching", ![n].attempts = @ + 1]
    /\ hand' = [hand EXCEPT ![d] = [pc |-> "record", news |-> n,
                                    attempt |-> outbox[n].attempts + 1]]
    /\ UNCHANGED <<vars, event, followed, proc, tracked, step, plan, retry, clearing>>
    /\ Calm

Id(d) == IdOf[hand[d].news][hand[d].attempt]
Hold(d, pc) == hand' = [hand EXCEPT ![d].pc = pc]

\* enqueue_news_extraction_retry: the task is recorded, or no model instance is
\* healthy and the dispatch fails.
RecordTask(d) ==
    /\ hand[d].pc = "record"
    /\ \/ Track(Id(d), "live") /\ Hold(d, "enqueue") /\ Calm
       \/ Hold(d, "fail") /\ UNCHANGED tracked /\ Upset
    /\ UNCHANGED <<vars, event, followed, proc, outbox, step, plan, retry, clearing>>

\* _enqueue_go_model_job: a conflict returns the id of the job that is there.
EnqueueOrJoin(j) ==
    \/ Enqueue(j)
    \/ (row[j].status # "absent" \/ Holders(j) # {}) /\ UNCHANGED row

EnqueueExtraction(d) ==
    /\ hand[d].pc = "enqueue"
    /\ \/ EnqueueOrJoin(Id(d)) /\ Hold(d, "mark") /\ UNCHANGED tracked /\ Calm
       \/ UNCHANGED row /\ Hold(d, "fail") /\ Track(Id(d), "failed") /\ Upset
    /\ UNCHANGED <<worker, event, followed, proc, outbox, step, plan, retry, clearing>>

\* mark_news_dispatched comes after the job is there: the handler may have
\* started or finished in between, and its status is overwritten.
MarkDispatched(d) ==
    /\ hand[d].pc = "mark"
    /\ outbox' = [outbox EXCEPT ![hand[d].news].status = "dispatched"]
    /\ Mark(hand[d].news, "queued")
    /\ hand' = [hand EXCEPT ![d] = NoClaim]
    /\ UNCHANGED <<vars, event, followed, tracked, step, plan, retry, clearing>> /\ Calm

\* mark_news_dispatch_failed: the intent is due again after a delay.
MarkDispatchFailed(d) ==
    /\ hand[d].pc = "fail"
    /\ outbox' = [outbox EXCEPT ![hand[d].news].status = "failed",
                                ![hand[d].news].due = FALSE]
    /\ Mark(hand[d].news, "dispatch_failed")
    /\ hand' = [hand EXCEPT ![d] = NoClaim]
    /\ UNCHANGED <<vars, event, followed, tracked, step, plan, retry, clearing>> /\ Calm

DispatcherDies(d) ==
    /\ hand[d].pc # "idle"
    /\ hand' = [hand EXCEPT ![d] = NoClaim]
    /\ UNCHANGED <<vars, stores, step, plan, retry, clearing>> /\ Upset

CarryOn(d) ==
    RecordTask(d) \/ EnqueueExtraction(d) \/ MarkDispatched(d) \/ MarkDispatchFailed(d)

-------------------------------------------------------------------------------
\* processNews, in the hands of worker w.  Under a cancelled context none of its
\* database and Redis calls gets through.
Item(w)      == NewsOf[worker[w].job]
At(w, place) == worker[w].pc = "handling" /\ step[w] = place
To(w, place) == step' = [step EXCEPT ![w] = place]
Live(w)      == worker[w].live

CheckTask(w) ==
    /\ At(w, "check")
    /\ IF Live(w) /\ tracked[worker[w].job] = "cancelled"
       THEN Mark(Item(w), "cancelled") /\ To(w, "ok")
       ELSE To(w, "start") /\ UNCHANGED proc
    /\ UNCHANGED <<event, followed, tracked>> /\ Calm

\* failNews decides from the attempt in the worker's copy of the job.
FailNews(w) ==
    /\ LET last == worker[w].attempt >= MaxAttempts IN
       /\ Mark(Item(w), IF last THEN "extraction_failed" ELSE "retrying")
       /\ Track(worker[w].job, IF last THEN "failed" ELSE "live")
    /\ To(w, "error")
    /\ UNCHANGED <<event, followed>> /\ Upset

\* loadNews and markNewsProcessing may fail as well.
StartNews(w) ==
    /\ At(w, "start")
    /\ \/ /\ Live(w)
          /\ Track(worker[w].job, "live") /\ Mark(Item(w), "running")
          /\ To(w, "ingest")
          /\ UNCHANGED <<event, followed>> /\ Calm
       \/ ~Live(w) /\ To(w, "error") /\ UNCHANGED <<event, followed, proc, tracked>> /\ Calm
       \/ Live(w) /\ FailNews(w)

\* ingestNews finds or extracts and saves the event.  A context cancelled
\* meanwhile, for whatever reason, is taken for a cancellation of the item.
Ingest(w) ==
    /\ At(w, "ingest")
    /\ \/ /\ Live(w)
          /\ event' = [event EXCEPT ![Item(w)] = TRUE]
          /\ To(w, "follow")
          /\ UNCHANGED <<followed, proc, tracked>> /\ Calm
       \/ /\ ~Live(w)
          /\ Mark(Item(w), "cancelled") /\ Track(worker[w].job, "cancelled")
          /\ To(w, "ok")
          /\ UNCHANGED <<event, followed>> /\ Calm
       \/ Live(w) /\ FailNews(w)

\* dispatchEvent: its errors are dropped.
FollowUp(w) ==
    /\ At(w, "follow")
    /\ \/ Live(w) /\ followed' = [followed EXCEPT ![Item(w)] = TRUE] /\ Calm
       \/ ~Live(w) /\ UNCHANGED followed /\ Calm
       \/ Live(w) /\ UNCHANGED followed /\ Upset
    /\ To(w, "finish")
    /\ UNCHANGED <<event, proc, tracked>>

FinishNews(w) ==
    /\ At(w, "finish")
    /\ \/ /\ Live(w)
          /\ Mark(Item(w), "completed") /\ Track(worker[w].job, "completed")
          /\ To(w, "ok")
          /\ UNCHANGED <<event, followed>> /\ Calm
       \/ ~Live(w) /\ To(w, "error") /\ UNCHANGED <<event, followed, proc, tracked>> /\ Calm
       \/ Live(w) /\ FailNews(w)

ProcessNews(w) ==
    /\ CheckTask(w) \/ StartNews(w) \/ Ingest(w) \/ FollowUp(w) \/ FinishNews(w)
    /\ UNCHANGED <<vars, outbox, hand, plan, retry, clearing>>

-------------------------------------------------------------------------------
\* The worker around the handler is that of GoJobs; the bounds count its errors,
\* crashes and delays.
Execute(w) == \E j \in Job : ClaimAndExecute(w, j) /\ To(w, "check") /\ Calm

BeatOrLose(w) ==
    /\ Beat(w)
    /\ IF Alive(w, worker[w].job) /\ ~worker'[w].live THEN Upset ELSE Calm
    /\ UNCHANGED step

Return(w) ==
    /\ step[w] \in {"ok", "error"}
    /\ HandlerReturns(w)
    /\ worker'[w].failed = (step[w] = "error")
    /\ UNCHANGED step /\ Calm

LookForCancellation(w) ==
    /\ CheckCancellation(w)
    /\ IF CancellationRequested(worker[w].job) /\ worker'[w].pc = "settling"
       THEN Upset ELSE Calm
    /\ UNCHANGED step

SettleJob(w) == (Settle(w) \/ SettleCancellation(w)) /\ UNCHANGED step /\ Calm

Work(w) ==
    /\ \/ Execute(w) \/ BeatOrLose(w) \/ Return(w) \/ LookForCancellation(w)
       \/ SettleJob(w)
       \/ Crash(w) /\ UNCHANGED step /\ Upset
    /\ UNCHANGED <<stores, hand, plan, retry, clearing>>

\* Nobody works on job j.
Dropped(j) == \A w \in Worker : worker[w].job = j => ~Holds(w, j)

Lapse(j) ==
    /\ LeaseLapses(j) /\ UNCHANGED <<worker, pipeline>>
    /\ IF Dropped(j) THEN Calm ELSE Upset

Wake(j) == BecomesDue(j) /\ UNCHANGED <<worker, pipeline>> /\ Calm

ReconcileJobs == Reconcile /\ UNCHANGED pipeline /\ Calm

-------------------------------------------------------------------------------
\* Defect: a claimed intent is trusted to be dispatched.
RecoveryTrusting(n) ==
    LET idle == /\ proc[n].status \notin {"cancelled", "dispatch_pending"}
                /\ ~(proc[n].status \in ActiveNews /\ proc[n].fresh)
    IN CASE event[n] /\ proc[n].status # "completed" -> "complete"
         [] ~event[n] /\ idle                        -> "stage"
         [] OTHER                                    -> "nothing"

\* Defect: an item that has its event is left alone.
RecoveryUnhealed(n) ==
    LET idle == /\ proc[n].status # "cancelled"
                /\ ~(proc[n].status \in ActiveNews /\ proc[n].fresh)
                /\ ~(proc[n].status = "dispatch_pending" /\ outbox[n].status \in OutboxDue)
    IN IF ~event[n] /\ idle THEN "stage" ELSE "nothing"

\* recover_orphaned_news: reads the events, then each row, and commits at the
\* end.  Items older than a week are left alone; that is not modelled.  Reading
\* an item whose dispatch is under way counts as an undue delay.
RecoveryOf(n) ==
    LET idle == /\ proc[n].status # "cancelled"
                /\ ~(proc[n].status \in ActiveNews /\ proc[n].fresh)
                /\ ~(proc[n].status = "dispatch_pending" /\ outbox[n].status \in OutboxDue)
    IN CASE event[n] /\ proc[n].status # "completed" -> "complete"
         [] ~event[n] /\ idle                        -> "stage"
         [] OTHER                                    -> "nothing"

InFlight(n) ==
    \/ \E d \in Dispatcher : hand[d].pc # "idle" /\ hand[d].news = n
    \/ retry.pc # "idle" /\ retry.news = n
    \/ clearing # "no"

RecoverReads(n) ==
    /\ outbox[n].status # "none" /\ plan[n] = NoPlan
    /\ RecoveryOf(n) # "nothing"
    /\ plan' = [plan EXCEPT ![n] = [to |-> RecoveryOf(n), proc |-> proc[n].status,
                                    outbox |-> outbox[n].status]]
    /\ IF InFlight(n) THEN Upset ELSE Calm
    /\ UNCHANGED <<vars, stores, step, hand, retry, clearing>>

\* The session writes a column only when it differs from what was read.
Flushed(current, read, new) == IF read = new THEN current ELSE new

RecoverWrites(n) ==
    /\ \/ plan[n].to = "complete" /\ Mark(n, "completed") /\ UNCHANGED outbox
       \/ /\ plan[n].to = "stage"
          /\ Mark(n, Flushed(proc[n].status, plan[n].proc, "dispatch_pending"))
          /\ outbox' = [outbox EXCEPT
                ![n].status = Flushed(@, plan[n].outbox, "pending"), ![n].due = TRUE]
    /\ plan' = [plan EXCEPT ![n] = NoPlan]
    /\ UNCHANGED <<vars, event, followed, tracked, step, hand, retry, clearing>> /\ Calm

\* Defect: a completed item is taken to have been followed up.
RecoverFollowupsUnfinished(n) ==
    /\ event[n] /\ ~followed[n] /\ proc[n].status # "completed"
    /\ followed' = [followed EXCEPT ![n] = TRUE]
    /\ UNCHANGED <<vars, event, proc, outbox, tracked, step, hand, plan, retry, clearing>>
    /\ Calm

\* recover_stranded_event_followups
RecoverFollowups(n) ==
    /\ event[n] /\ ~followed[n]
    /\ followed' = [followed EXCEPT ![n] = TRUE]
    /\ UNCHANGED <<vars, event, proc, outbox, tracked, step, hand, plan, retry, clearing>>
    /\ Calm

RecoveryDies(n) ==
    /\ plan[n] # NoPlan
    /\ plan' = [plan EXCEPT ![n] = NoPlan]
    /\ UNCHANGED <<vars, stores, step, hand, retry, clearing>> /\ Upset

-------------------------------------------------------------------------------
\* queueNewsRetryWithOptions: five statements and an Enqueue, none of them in
\* one transaction.  retryNewsProcessing refuses an active item, retryModelTask
\* goes by a cached snapshot: any item can be retried.
RetryRequested(n) ==
    /\ retry.pc = "idle" /\ outbox[n].status # "none"
    /\ Mark(n, "dispatch_pending")
    /\ retry' = [pc |-> "outbox", news |-> n]
    /\ UNCHANGED <<vars, event, followed, outbox, tracked, step, hand, plan, clearing>>
    /\ Request

RetryIntent ==
    /\ retry.pc = "outbox"
    /\ Intent(retry.news)
    /\ retry' = [retry EXCEPT !.pc = "enqueue"]
    /\ UNCHANGED <<vars, event, followed, proc, tracked, step, hand, plan, clearing>>
    /\ Calm

\* uuid.NewString: an id that no dispatch will use.
Unused(n) == {j \in Job : /\ NewsOf[j] = n
                          /\ \A k \in 1 .. Attempts(n) : IdOf[n][k] # j
                          /\ row[j].status = "absent" /\ tracked[j] = "none"}

RetryEnqueue ==
    /\ retry.pc = "enqueue"
    /\ \E j \in Unused(retry.news) :
          /\ tracked' = [tracked EXCEPT ![j] = "live"]
          /\ \/ /\ EnqueueOrJoin(j) /\ Calm
                /\ retry' = [retry EXCEPT !.pc = "queued"]
             \/ /\ UNCHANGED row /\ Upset
                /\ retry' = [retry EXCEPT !.pc = "failed"]
    /\ UNCHANGED <<worker, event, followed, proc, outbox, step, hand, plan, clearing>>

RetryFails ==
    /\ retry.pc = "failed"
    /\ outbox' = [outbox EXCEPT ![retry.news].attempts = @ + 1, ![retry.news].due = FALSE]
    /\ proc' = [proc EXCEPT ![retry.news].status = "dispatch_pending"]
    /\ retry' = NoRetry
    /\ UNCHANGED <<vars, event, followed, tracked, step, hand, plan, clearing>> /\ Calm

RetryQueued ==
    /\ retry.pc = "queued"
    /\ Mark(retry.news, "queued")
    /\ retry' = [retry EXCEPT !.pc = "dispatched"]
    /\ UNCHANGED <<vars, event, followed, outbox, tracked, step, hand, plan, clearing>>
    /\ Calm

RetryDispatched ==
    /\ retry.pc = "dispatched"
    /\ outbox' = [outbox EXCEPT ![retry.news].status = "dispatched",
                                ![retry.news].attempts = @ + 1]
    /\ retry' = NoRetry
    /\ UNCHANGED <<vars, event, followed, proc, tracked, step, hand, plan, clearing>>
    /\ Calm

RetryAborts ==
    /\ retry.pc # "idle"
    /\ retry' = NoRetry
    /\ UNCHANGED <<vars, stores, step, hand, plan, clearing>> /\ Upset

RetryStep == RetryIntent \/ RetryEnqueue \/ RetryFails \/ RetryQueued \/ RetryDispatched

\* clearModelQueue: the tracked tasks are cancelled, then the jobs.
ClearTasks ==
    /\ clearing = "no"
    /\ \E j \in Job : tracked[j] \in {"live", "failed"}
    /\ tracked' = [j \in Job |-> IF tracked[j] \in {"live", "failed"}
                                 THEN "cancelled" ELSE tracked[j]]
    /\ clearing' = "rows"
    /\ UNCHANGED <<vars, event, followed, proc, outbox, step, hand, plan, retry>>
    /\ Request

ClearRows ==
    /\ clearing = "rows"
    /\ \/ ClearQueue
       \/ (\A j \in Job : row[j].status \notin Active) /\ UNCHANGED vars
    /\ clearing' = "no"
    /\ UNCHANGED <<stores, step, hand, plan, retry>> /\ Calm

-------------------------------------------------------------------------------
\* Ten minutes without a mark.  While a job of the item is active and not
\* parked, or a request or dispatch is under way, that is a delay.
Forgotten(n) ==
    /\ \A j \in Job : NewsOf[j] = n => row[j].status \notin Active \/ Parked(j)
    /\ ~InFlight(n)

MarkAges(n) ==
    /\ proc[n].status \in ActiveNews /\ proc[n].fresh
    /\ proc' = [proc EXCEPT ![n].fresh = FALSE]
    /\ IF Forgotten(n) THEN Calm ELSE Upset
    /\ UNCHANGED <<vars, event, followed, outbox, tracked, step, hand, plan, retry, clearing>>

IntentFallsDue(n) ==
    /\ outbox[n].status \in OutboxDue /\ ~outbox[n].due
    /\ outbox' = [outbox EXCEPT ![n].due = TRUE]
    /\ UNCHANGED <<vars, event, followed, proc, tracked, step, hand, plan, retry, clearing>>
    /\ Calm

DispatchStep(n) ==
    \/ \E d \in Dispatcher : ClaimDispatch(d, n)
    \/ IntentFallsDue(n)

NewsNext ==
    \/ \E n \in News :
          \/ Stage(n) \/ DispatchStep(n) \/ MarkAges(n)
          \/ RecoverReads(n) \/ RecoverWrites(n) \/ RecoverFollowups(n) \/ RecoveryDies(n)
          \/ RetryRequested(n)
    \/ \E d \in Dispatcher : CarryOn(d) \/ DispatcherDies(d)
    \/ \E w \in Worker : ProcessNews(w) \/ Work(w)
    \/ \E j \in Job : Lapse(j) \/ Wake(j)
    \/ ReconcileJobs
    \/ RetryStep \/ RetryAborts
    \/ ClearTasks \/ ClearRows

NewsSpec == NewsInit /\ [][NewsNext]_newsVars

\* The recovery runs every minute and dispatches what is due; dispatches,
\* requests and handlers that have begun are carried on; workers poll, the
\* scheduler reconciles, clocks advance.  No scan needs to find an item twice,
\* and nobody needs to retry or clear anything.
NewsFairness ==
    /\ \A n \in News :
          /\ WF_newsVars(\E d \in Dispatcher : ClaimDispatch(d, n))
          /\ WF_newsVars(IntentFallsDue(n))
          /\ WF_newsVars(RecoverReads(n)) /\ WF_newsVars(RecoverWrites(n))
          /\ WF_newsVars(RecoverFollowups(n))
          /\ WF_newsVars(Forgotten(n) /\ MarkAges(n))
    /\ \A d \in Dispatcher : WF_newsVars(CarryOn(d))
    /\ WF_newsVars(RetryStep) /\ WF_newsVars(ClearRows)
    /\ \A w \in Worker : WF_newsVars(ProcessNews(w) \/ Work(w))
    /\ WF_newsVars(ReconcileJobs)
    /\ \A j \in Job : WF_newsVars(Wake(j)) /\ WF_newsVars(Dropped(j) /\ Lapse(j))

NewsFairSpec == NewsSpec /\ NewsFairness

-------------------------------------------------------------------------------
\* The id of a dispatch is uuid5 of intent and attempt, so that a repeated
\* dispatch finds its own job.  No two claims, and no claim and an earlier job,
\* may share one, whoever staged the intent again in the meantime: Enqueue would
\* hand out the finished job and the item would wait for nothing.
DispatchIdIsFresh ==
    /\ \A d \in Dispatcher : hand[d].pc \in {"record", "enqueue"}
                               => row[Id(d)].status = "absent"
    /\ \A d, e \in Dispatcher : /\ d # e
                                /\ hand[d].pc # "idle" /\ hand[e].pc # "idle"
                                => Id(d) # Id(e)

\* Whatever crashes or fails between the scan and the event, an item that was
\* stored gets its event, is marked as cancelled, or is blocked: a parked job of
\* its holds the dedupe key, and every new dispatch joins that job.
Blocked(n) == \E j \in Job : NewsOf[j] = n /\ Parked(j)

NewsReachesEvent ==
    \A n \in News : outbox[n].status # "none"
                      ~> event[n] \/ proc[n].status = "cancelled" \/ Blocked(n)

\* Late marks of dispatchers, zombies and retries overwrite each other, but an
\* item with an event ends up, and stays, completed.
StatusSettles ==
    \A n \in News : <>[](event[n] => proc[n].status = "completed")

\* An event gets its mapping or its research, though the handler drops the
\* error of that step and may die before it.
EventIsFollowed == \A n \in News : event[n] ~> followed[n]

\* recover_orphaned_news is there for `durable news that never reached an event':
\* what was stored gets its event.  To be checked where nobody cancels anything.
NewsIsNotLost == \A n \in News : outbox[n].status # "none" ~> event[n]
===============================================================================
