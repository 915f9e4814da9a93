-------------------------- MODULE MappingTasksProofs --------------------------
(***************************************************************************)
(* Proofs about the mapping tasks and full refreshes, for any events,      *)
(* workers, tasks and requests: types, and who waits for an enqueue;       *)
(* a cancellation is final but for a late heartbeat; a message fits the    *)
(* record of its task; a full refresh has one message, and an event that   *)
(* counts as being mapped has somebody who maps it.                        *)
(***************************************************************************)
EXTENDS MappingTasks, WellFoundedInduction, TLAPS

Status == {"none", "queued", "running", "retrying", "completed", "failed", "cancelled"}
Kind == {"map", "extract"}
Stage == {"none", "extract", "mapping", "research"}

TaskRecord == [st : Status, ev : Event, kind : Kind, fresh : BOOLEAN]
Steps == [q : {"none", "queued", "completed", "failed"}, m : {"none", "busy", "done", "other"},
          later : BOOLEAN, cand : BOOLEAN]
Report == [there : BOOLEAN, stage : Stage, task : Task \cup {NoTask}]
Message == [task : Task, ev : Event, kind : Kind, force : BOOLEAN, full : BOOLEAN, try : Nat]
Handler == [pc : {"map", "report", "extract", "wait", "raise"}, msg : Message,
            beat : BOOLEAN, copy : Steps]
Caller == {"beat", "sweep", "api"}
Sending == [by : Worker \cup Caller, task : Task, ev : Event, copy : Steps,
            force : BOOLEAN, full : BOOLEAN, pc : {"save", "publish"}]
Replacing == [pc : {"enqueue", "cancel"}, old : Task, new : Task]

\* Beat, the API and the reconciliation are no workers.
CallersApart == Caller \cap Worker = {}

StoresTyped ==
  /\ rec \in [Task -> TaskRecord] /\ msgs \subseteq Message
  /\ event \in [Event -> Steps] /\ report \in [Event -> Report]
HandsTyped == hand \in [Worker -> Handler \cup {Idle}] /\ touching \subseteq Task
CallsTyped == sending \subseteq Sending /\ sweep \in Replacing \cup {NoSweep}

\* Who has an enqueue under way waits for it, and for no other.
CallersWait ==
  /\ \A s \in sending : s.by \in Worker => hand[s.by].pc = "wait"
  /\ \A s \in sending : s.by = "sweep" => sweep.pc = "enqueue"
  /\ \A s, u \in sending : s.by = u.by /\ s.by \in Worker \cup {"sweep"} => s = u

MappingInv == StoresTyped /\ HandsTyped /\ CallsTyped /\ CallersWait

-----------------------------------------------------------------------------
\* What the helpers make of records of their types.
LEMMA RecordsStayTyped ==
    ASSUME NEW r \in TaskRecord
    PROVE  /\ \A st \in Status : Tracked(r, st) \in TaskRecord
           /\ Cancelled(r) \in TaskRecord
           /\ \A kind \in Kind : Cleared(r, kind) \in TaskRecord
           /\ [r EXCEPT !.fresh = FALSE] \in TaskRecord
           /\ [r EXCEPT !.st = "running", !.fresh = TRUE] \in TaskRecord
<1>1. \A st \in Status, f \in BOOLEAN : [r EXCEPT !.st = st, !.fresh = f] \in TaskRecord
  BY DEF TaskRecord
<1>2. ASSUME NEW st \in Status PROVE Tracked(r, st) \in TaskRecord
  <2>1. (st \in {"running", "retrying"}) \in BOOLEAN
    OBVIOUS
  <2>2. [r EXCEPT !.st = st, !.fresh = st \in {"running", "retrying"}] \in TaskRecord
    BY <1>1, <2>1
  <2> QED BY <2>2 DEF Tracked
<1>3. [r EXCEPT !.st = "cancelled", !.fresh = FALSE] \in TaskRecord
  BY <1>1 DEF Status
<1>4. [r EXCEPT !.st = "running", !.fresh = TRUE] \in TaskRecord
  BY <1>1 DEF Status
<1>5. [r EXCEPT !.fresh = FALSE] \in TaskRecord
  BY DEF TaskRecord
<1>6. Cancelled(r) \in TaskRecord /\ \A kind \in Kind : Cleared(r, kind) \in TaskRecord
  BY <1>3 DEF Cancelled, Cleared
<1> QED BY <1>2, <1>4, <1>5, <1>6

LEMMA StepsStayTyped ==
    ASSUME NEW x \in Steps
    PROVE  /\ \A q \in {"queued", "failed"} : [x EXCEPT !.q = q, !.later = FALSE] \in Steps
           /\ \A m \in {"busy", "other"} : [x EXCEPT !.m = m, !.later = TRUE] \in Steps
           /\ [x EXCEPT !.cand = FALSE] \in Steps
BY DEF Steps

LEMMA ReportsStayTyped ==
    ASSUME NEW x \in Report
    PROVE  /\ \A stage \in Stage : [x EXCEPT !.stage = stage] \in Report
           /\ \A full \in BOOLEAN : Reported(x, full) \in Report
           /\ [x EXCEPT !.there = TRUE] \in Report
           /\ \A t \in Task : /\ [x EXCEPT !.task = t] \in Report
                              /\ [x EXCEPT !.stage = "extract", !.task = t] \in Report
BY DEF Report, Stage, Reported

LEMMA HandlersStayTyped ==
    ASSUME NEW h \in Handler
    PROVE  /\ \A pc \in {"report", "wait", "raise"} :
                [h EXCEPT !.pc = pc] \in Handler /\ [h EXCEPT !.pc = pc].pc = pc
           /\ [h EXCEPT !.beat = FALSE] \in Handler /\ [h EXCEPT !.beat = FALSE].pc = h.pc
           /\ \A n \in Nat : [h.msg EXCEPT !.try = n] \in Message
BY DEF Handler, Message

\* A worker that does something has a message.
LEMMA BusyHandsHandle ==
    ASSUME HandsTyped, NEW w \in Worker, hand[w] # Idle \/ hand[w].pc # "idle"
    PROVE  /\ hand[w] \in Handler /\ hand[w].msg \in Message
           /\ hand[w].msg.task \in Task /\ hand[w].msg.ev \in Event /\ hand[w].msg.try \in Nat
           /\ hand[w].msg.full \in BOOLEAN
           /\ hand[w].copy \in Steps
BY DEF HandsTyped, Handler, Message, Idle

\* A fresh task id is a spare one.
LEMMA FreshIsTask == Spare # {} => Fresh \in Spare /\ Fresh \in Task
<1> SUFFICES ASSUME Spare # {} PROVE Fresh \in Spare /\ Fresh \in Task
  OBVIOUS
<1>1. Spare \subseteq Nat /\ Spare \subseteq Task
  BY MappingTaskIds DEF Spare, Task
<1>2. PICK t \in Spare : \A u \in Spare : ~(<<u, t>> \in OpToRel(<, Nat))
  BY <1>1, NatLessThanWellFounded, WFMin
<1>3. ASSUME NEW u \in Spare PROVE t <= u
  <2>1. u \in Nat /\ t \in Nat
    BY <1>1
  <2>2. ~(u < t)
    BY <1>2, <2>1 DEF OpToRel
  <2> QED BY <2>1, <2>2
<1>4. Fresh \in Spare
  BY <1>3 DEF Fresh
<1> QED BY <1>1, <1>4

\* An enqueue of somebody who has none under way.
LEMMA EnqueueTypes ==
    ASSUME CallsTyped, NEW by \in Worker \cup Caller, NEW e \in Event, NEW copy \in Steps,
           NEW force \in BOOLEAN, NEW full \in BOOLEAN, Enqueue(by, e, copy, force, full)
    PROVE  \E n \in Sending : n.by = by /\ sending' = sending \cup {n}
<1> DEFINE n == [by |-> by, task |-> Fresh, ev |-> e, copy |-> copy,
                 force |-> force, full |-> full, pc |-> "save"]
<1>1. n \in Sending
  BY FreshIsTask DEF Enqueue, Sending
<1> QED BY <1>1 DEF Enqueue

-----------------------------------------------------------------------------
LEMMA MappingInit ==
    ASSUME Init
    PROVE  MappingInv
<1>1. rec \in [Task -> TaskRecord]
  BY DEF Init, TaskRecord, Status, Kind
<1>2. StoresTyped
  BY <1>1 DEF Init, StoresTyped, NewEvent, Steps, Report, Stage
<1>3. HandsTyped /\ CallsTyped /\ CallersWait
  BY DEF Init, HandsTyped, CallsTyped, CallersWait
<1> QED BY <1>2, <1>3 DEF MappingInv

LEMMA SendKeeps ==
    ASSUME CallersApart, MappingInv, NEW s \in sending,
           SaveQueued(s) \/ PublishMapping(s) \/ PublishFails(s) \/ SenderDies(s)
    PROVE  MappingInv'
<1> USE DEF MappingInv
<1>1. /\ s \in Sending /\ s.by \in Worker \cup Caller /\ s.task \in Task /\ s.ev \in Event
      /\ s.copy \in Steps /\ s.force \in BOOLEAN /\ s.full \in BOOLEAN
  BY DEF CallsTyped, Sending
<1>2. s.by \in Worker => hand[s.by] \in Handler /\ hand[s.by].pc = "wait" /\ hand[s.by].msg.task \in Task
  BY BusyHandsHandle DEF CallersWait
<1>3. s.by = "sweep" => sweep \in Replacing /\ s.by \notin Worker
  BY DEF CallersWait, CallsTyped, NoSweep, CallersApart, Caller
<1>4. ASSUME SaveQueued(s) PROVE MappingInv'
  <2>1. Recorded(s.ev, "map") \in TaskRecord
    BY <1>1 DEF Recorded, TaskRecord, Status, Kind
  <2>2. [s.copy EXCEPT !.q = "queued", !.later = FALSE] \in Steps
    BY <1>1, StepsStayTyped
  <2>3. StoresTyped'
    BY <1>1, <1>4, <2>1, <2>2 DEF SaveQueued, StoresTyped
  <2>4. PICK n : n = [s EXCEPT !.pc = "publish"]
    OBVIOUS
  <2>5. n \in Sending /\ n.by = s.by
    BY <1>1, <2>4 DEF Sending
  <2>6. sending' = (sending \ {s}) \cup {n} /\ UNCHANGED <<hand, touching, sweep>>
    BY <1>4, <2>4 DEF SaveQueued, work
  <2>7. HandsTyped' /\ CallsTyped'
    BY <2>5, <2>6 DEF HandsTyped, CallsTyped
  <2>8. CallersWait'
    BY <2>5, <2>6 DEF CallersWait
  <2> QED BY <2>3, <2>7, <2>8
<1>5. ASSUME NEW ok \in BOOLEAN, Resume(s, ok), sending' = sending \ {s}, UNCHANGED touching
      PROVE  HandsTyped' /\ CallsTyped' /\ CallersWait'
  <2>1. CASE s.by \in Worker
    <3>1. PICK h : h = IF ok THEN Idle ELSE [hand[s.by] EXCEPT !.pc = "raise"]
      OBVIOUS
    <3>2. h \in Handler \cup {Idle}
      BY <1>2, <2>1, <3>1, HandlersStayTyped
    <3>3. hand' = [hand EXCEPT ![s.by] = h] /\ UNCHANGED sweep
      BY <1>3, <1>5, <2>1, <3>1 DEF Resume
    <3>4. HandsTyped' /\ CallsTyped'
      BY <1>5, <3>2, <3>3 DEF HandsTyped, CallsTyped
    <3>5. CallersWait'
      BY <1>5, <2>1, <3>3 DEF CallersWait, HandsTyped
    <3> QED BY <3>4, <3>5
  <2>2. CASE s.by = "sweep"
    <3>1. PICK r : r = IF ok THEN [sweep EXCEPT !.pc = "cancel"] ELSE NoSweep
      OBVIOUS
    <3>2. r \in Replacing \cup {NoSweep}
      BY <1>3, <2>2, <3>1 DEF Replacing
    <3>3. UNCHANGED hand /\ sweep' = r
      BY <1>3, <1>5, <2>2, <3>1 DEF Resume
    <3> QED BY <1>5, <2>2, <3>2, <3>3 DEF HandsTyped, CallsTyped, CallersWait
  <2>3. CASE s.by \notin Worker /\ s.by # "sweep"
    <3>1. UNCHANGED <<hand, sweep>>
      BY <1>5, <2>3 DEF Resume
    <3> QED BY <1>5, <3>1 DEF HandsTyped, CallsTyped, CallersWait
  <2> QED BY <2>1, <2>2, <2>3
<1>6. ASSUME PublishMapping(s) PROVE MappingInv'
  <2>1. PICK m : m = [task |-> s.task, ev |-> s.ev, kind |-> "map",
                      force |-> s.force, full |-> s.full, try |-> 1]
    OBVIOUS
  <2>2. m \in Message
    BY <1>1, <2>1 DEF Message, Kind
  <2>3. msgs' \subseteq Message
    BY <1>6, <2>1, <2>2 DEF PublishMapping, StoresTyped
  <2>4. rec' \in [Task -> TaskRecord]
    <3>1. CASE s.by \in Worker
      <4>1. PICK r : r = Tracked(rec[hand[s.by].msg.task], "completed")
        OBVIOUS
      <4>2. r \in TaskRecord
        BY <1>2, <3>1, <4>1, RecordsStayTyped DEF StoresTyped, Status
      <4> QED BY <1>6, <3>1, <4>1, <4>2 DEF PublishMapping, StoresTyped
    <3> QED BY <1>6, <3>1 DEF PublishMapping, StoresTyped
  <2>5. StoresTyped'
    BY <1>6, <2>3, <2>4 DEF PublishMapping, StoresTyped
  <2> QED BY <1>5, <1>6, <2>5 DEF PublishMapping
<1>7. ASSUME PublishFails(s) PROVE MappingInv'
  <2>1. Tracked(rec[s.task], "failed") \in TaskRecord
    BY <1>1, RecordsStayTyped DEF StoresTyped, Status
  <2>2. [s.copy EXCEPT !.q = "failed", !.later = FALSE] \in Steps
    BY <1>1, StepsStayTyped
  <2>3. StoresTyped'
    BY <1>1, <1>7, <2>1, <2>2 DEF PublishFails, StoresTyped
  <2> QED BY <1>5, <1>7, <2>3 DEF PublishFails
<1>8. ASSUME SenderDies(s) PROVE MappingInv'
  <2>1. /\ UNCHANGED <<rec, msgs, event, report, hand, touching>> /\ sending' = sending \ {s}
        /\ s.by \notin Worker /\ sweep' = IF s.by = "sweep" THEN NoSweep ELSE sweep
    BY <1>8 DEF SenderDies, work
  <2> QED BY <2>1 DEF StoresTyped, HandsTyped, CallsTyped, CallersWait
<1> QED BY <1>4, <1>6, <1>7, <1>8

\* A worker that waits for no enqueue goes on with something else.
LEMMA HandMoves ==
    ASSUME MappingInv, NEW w \in Worker, NEW h \in Handler \cup {Idle},
           hand[w].pc # "wait" \/ h.pc = "wait",
           hand' = [hand EXCEPT ![w] = h], UNCHANGED <<touching, sending, sweep>>
    PROVE  HandsTyped' /\ CallsTyped' /\ CallersWait'
<1> USE DEF MappingInv
<1>1. HandsTyped' /\ CallsTyped'
  BY DEF HandsTyped, CallsTyped
<1>2. CallersWait'
  BY DEF HandsTyped, CallersWait
<1> QED BY <1>1, <1>2

\* A step of the stores alone.
LEMMA NobodyMoves ==
    ASSUME MappingInv, UNCHANGED <<hand, touching, sending, sweep>>
    PROVE  HandsTyped' /\ CallsTyped' /\ CallersWait'
BY DEF MappingInv, HandsTyped, CallsTyped, CallersWait

LEMMA TakeTypes ==
    ASSUME MappingInv, NEW w \in Worker, NEW m \in Message,
           NEW pc \in {"map", "report", "extract"}, hand[w] = Idle, Take(w, m, pc),
           UNCHANGED <<touching, sending, sweep>>
    PROVE  rec' \in [Task -> TaskRecord] /\ HandsTyped' /\ CallsTyped' /\ CallersWait'
<1> USE DEF MappingInv
<1>1. m.task \in Task /\ m.ev \in Event
  BY DEF Message
<1>2. Tracked(rec[m.task], "running") \in TaskRecord
  BY <1>1, RecordsStayTyped DEF StoresTyped, Status
<1>3. rec' \in [Task -> TaskRecord]
  BY <1>2 DEF Take, StoresTyped
<1>4. PICK c : c = IF pc = "extract" THEN event[m.ev] ELSE NewEvent
  OBVIOUS
<1>5. c \in Steps
  BY <1>1, <1>4 DEF StoresTyped, NewEvent, Steps
<1>6. PICK h : h = [pc |-> pc, msg |-> m, beat |-> TRUE, copy |-> c]
  OBVIOUS
<1>7. h \in Handler
  BY <1>5, <1>6 DEF Handler
<1>8. hand' = [hand EXCEPT ![w] = h] /\ hand[w].pc # "wait"
  BY <1>4, <1>6 DEF Take, Idle
<1> QED BY <1>3, <1>7, <1>8, HandMoves

LEMMA DeliverKeeps ==
    ASSUME MappingInv, NEW w \in Worker, NEW m \in msgs, Deliver(w, m)
    PROVE  MappingInv'
<1> USE DEF MappingInv
<1>1. m \in Message /\ m.task \in Task /\ m.ev \in Event /\ m.full \in BOOLEAN
  BY DEF StoresTyped, Message
<1>2. report[m.ev] \in Report /\ event[m.ev] \in Steps
  BY <1>1 DEF StoresTyped
<1>3. \A stage \in Stage : InStage(m.ev, stage) \in [Event -> Report]
  BY <1>1, <1>2, ReportsStayTyped DEF InStage, StoresTyped
<1>4. report[m.ev].stage \in Stage
  BY <1>2 DEF Report
<1>5. CASE DeliverMapping(w, m)
  <2>1. hand[w] = Idle /\ msgs' \subseteq Message /\ UNCHANGED <<touching, sending, sweep>>
    BY <1>5 DEF DeliverMapping, StoresTyped
  <2>2. CASE UNCHANGED <<rec, hand, event, report>>
    <3>1. StoresTyped'
      BY <2>1, <2>2 DEF StoresTyped
    <3> QED BY <2>1, <2>2, <3>1, NobodyMoves
  <2>3. CASE ~UNCHANGED <<rec, hand, event, report>>
    <3>1. PICK stage : stage = IF m.full THEN "mapping" ELSE report[m.ev].stage
      OBVIOUS
    <3>2. report' = InStage(m.ev, stage) /\ stage \in Stage
      BY <1>4, <1>5, <2>3, <3>1 DEF DeliverMapping, Stage
    <3>3. report' \in [Event -> Report]
      BY <1>3, <3>2
    <3>4. [event[m.ev] EXCEPT !.m = "busy", !.later = TRUE] \in Steps
      BY <1>2, StepsStayTyped
    <3>5. event' \in [Event -> Steps] /\ (Take(w, m, "map") \/ Take(w, m, "report"))
      BY <1>1, <1>5, <2>3, <3>4 DEF DeliverMapping, StoresTyped
    <3>6. rec' \in [Task -> TaskRecord] /\ HandsTyped' /\ CallsTyped' /\ CallersWait'
      BY <1>1, <2>1, <3>5, TakeTypes
    <3>7. StoresTyped'
      BY <2>1, <3>3, <3>5, <3>6 DEF StoresTyped
    <3> QED BY <3>6, <3>7
  <2> QED BY <2>2, <2>3
<1>6. CASE DeliverExtraction(w, m)
  <2>1. hand[w] = Idle /\ msgs' \subseteq Message /\ UNCHANGED <<event, touching, sending, sweep>>
    BY <1>6 DEF DeliverExtraction, StoresTyped
  <2>2. CASE report' = InStage(m.ev, "none") /\ UNCHANGED <<rec, hand>>
    <3>1. StoresTyped'
      BY <1>3, <2>1, <2>2 DEF StoresTyped, Stage
    <3> QED BY <2>1, <2>2, <3>1, NobodyMoves
  <2>3. CASE rec' = [rec EXCEPT ![m.task] = Tracked(@, "completed")] /\ UNCHANGED <<hand, report>>
    <3>1. Tracked(rec[m.task], "completed") \in TaskRecord
      BY <1>1, RecordsStayTyped DEF StoresTyped, Status
    <3>2. StoresTyped'
      BY <1>1, <2>1, <2>3, <3>1 DEF StoresTyped
    <3> QED BY <2>1, <2>3, <3>2, NobodyMoves
  <2>4. CASE Take(w, m, "extract") /\ report' = InStage(m.ev, "extract")
    <3>1. rec' \in [Task -> TaskRecord] /\ HandsTyped' /\ CallsTyped' /\ CallersWait'
      BY <1>1, <2>1, <2>4, TakeTypes
    <3>2. StoresTyped'
      BY <1>3, <2>1, <2>4, <3>1 DEF StoresTyped, Stage
    <3> QED BY <3>1, <3>2
  <2> QED BY <1>6, <2>2, <2>3, <2>4 DEF DeliverExtraction
<1> QED BY <1>5, <1>6 DEF Deliver

LEMMA HandleKeeps ==
    ASSUME CallersApart, MappingInv, NEW w \in Worker, MapDone(w) \/ QueueReport(w) \/ Extracted(w)
    PROVE  MappingInv'
<1> USE DEF MappingInv
<1>1. /\ hand[w] \in Handler /\ hand[w].msg.task \in Task /\ hand[w].msg.ev \in Event
      /\ hand[w].msg.full \in BOOLEAN /\ hand[w].copy \in Steps /\ hand[w].pc # "wait"
  <2>1. hand[w].pc \in {"map", "report", "extract"}
    BY DEF MapDone, QueueReport, Extracted
  <2> QED BY <2>1, BusyHandsHandle
<1>2. CASE MapDone(w)
  <2>1. PICK c \in BOOLEAN, m \in {"done", "other"} :
           event' = [event EXCEPT ![hand[w].msg.ev] =
                       [q |-> "completed", m |-> m, later |-> FALSE, cand |-> c]]
    BY <1>2 DEF MapDone
  <2>2. [q |-> "completed", m |-> m, later |-> FALSE, cand |-> c] \in Steps
    BY DEF Steps
  <2>3. StoresTyped'
    BY <1>1, <1>2, <2>1, <2>2 DEF MapDone, StoresTyped
  <2>4. PICK h : h = [hand[w] EXCEPT !.pc = "report"]
    OBVIOUS
  <2>5. h \in Handler /\ hand' = [hand EXCEPT ![w] = h]
    BY <1>1, <1>2, <2>4, HandlersStayTyped DEF MapDone
  <2> QED BY <1>1, <1>2, <2>3, <2>5, HandMoves DEF MapDone
<1>3. CASE QueueReport(w)
  <2>1. Tracked(rec[hand[w].msg.task], "completed") \in TaskRecord
    BY <1>1, RecordsStayTyped DEF StoresTyped, Status
  <2>2. Reported(report[hand[w].msg.ev], hand[w].msg.full) \in Report
    BY <1>1, ReportsStayTyped DEF StoresTyped
  <2>3. StoresTyped'
    BY <1>1, <1>3, <2>1, <2>2 DEF QueueReport, StoresTyped
  <2> QED BY <1>1, <1>3, <2>3, HandMoves DEF QueueReport
<1>4. CASE Extracted(w)
  <2>1. PICK copy : copy = [hand[w].copy EXCEPT !.cand = FALSE]
    OBVIOUS
  <2>2. copy \in Steps
    BY <1>1, <2>1, StepsStayTyped
  <2>3. InStage(hand[w].msg.ev, "mapping") \in [Event -> Report]
    BY <1>1, ReportsStayTyped DEF InStage, StoresTyped, Stage
  <2>4. StoresTyped'
    BY <1>1, <1>4, <2>1, <2>2, <2>3 DEF Extracted, StoresTyped
  <2>5. PICK n \in Sending : n.by = w /\ sending' = sending \cup {n}
    BY <1>1, <1>4, <2>1, <2>2, EnqueueTypes DEF Extracted
  <2>6. PICK h : h = [hand[w] EXCEPT !.pc = "wait"]
    OBVIOUS
  <2>7. h \in Handler /\ h.pc = "wait"
    BY <1>1, <2>6, HandlersStayTyped
  <2>8. hand' = [hand EXCEPT ![w] = h] /\ UNCHANGED <<touching, sweep>>
    BY <1>4, <2>6 DEF Extracted
  <2>9. HandsTyped' /\ CallsTyped'
    BY <2>5, <2>7, <2>8 DEF HandsTyped, CallsTyped
  <2>10. \A s \in sending : s.by # w
    BY <1>1 DEF CallersWait
  <2>11. w # "sweep"
    BY DEF CallersApart, Caller
  <2>12. CallersWait'
    BY <2>5, <2>7, <2>8, <2>10, <2>11 DEF CallersWait, HandsTyped
  <2> QED BY <2>4, <2>9, <2>12
<1> QED BY <1>2, <1>3, <1>4

LEMMA FailureKeeps ==
    ASSUME MappingInv, NEW w \in Worker, HandlerFails(w)
    PROVE  MappingInv'
<1> USE DEF MappingInv
<1>1. hand[w].pc \in {"map", "report", "extract", "raise"}
  BY DEF HandlerFails
<1>2. /\ hand[w] \in Handler /\ hand[w].msg.task \in Task /\ hand[w].msg.ev \in Event
      /\ hand[w].msg.full \in BOOLEAN /\ hand[w].msg.try \in Nat
  BY <1>1, BusyHandsHandle
<1>3. HandsTyped' /\ CallsTyped' /\ CallersWait'
  BY <1>1, HandMoves DEF HandlerFails
<1> DEFINE m == hand[w].msg
<1>4. /\ \A st \in Status : Tracked(rec[m.task], st) \in TaskRecord
      /\ \A stage \in Stage : InStage(m.ev, stage) \in [Event -> Report]
      /\ Reported(report[m.ev], m.full) \in Report
      /\ report[m.ev].stage \in Stage
  <2>1. report[m.ev] \in Report /\ rec[m.task] \in TaskRecord
    BY <1>2 DEF StoresTyped
  <2> QED BY <1>2, <2>1, RecordsStayTyped, ReportsStayTyped DEF InStage, StoresTyped, Report
<1>5. \A st \in Status : [rec EXCEPT ![m.task] = Tracked(@, st)] \in [Task -> TaskRecord]
  BY <1>2, <1>4 DEF StoresTyped
<1>6. Again(w, m.try + 1) => msgs' \subseteq Message
  <2>1. PICK n \in Nat : n = m.try + 1
    BY <1>2
  <2>2. [m EXCEPT !.try = n] \in Message
    BY <1>2, HandlersStayTyped
  <2>3. [m EXCEPT !.try = m.try + 1] \in Message
    BY <2>1, <2>2
  <2> QED BY <2>3 DEF Again, StoresTyped
<1>7. CASE ExtractionFails(w)
  <2>1. rec' \in [Task -> TaskRecord]
    <3>1. PICK st : st = IF m.try = MaxTries THEN "failed" ELSE "retrying"
      OBVIOUS
    <3>2. st \in Status /\ rec' = [rec EXCEPT ![m.task] = Tracked(@, st)]
      BY <1>7, <3>1 DEF ExtractionFails, Status
    <3> QED BY <1>5, <3>2
  <2>2. report' \in [Event -> Report] /\ msgs' \subseteq Message /\ UNCHANGED event
    BY <1>4, <1>6, <1>7 DEF ExtractionFails, Stage, StoresTyped
  <2> QED BY <1>3, <2>1, <2>2 DEF StoresTyped
<1>8. CASE MappingFails(w)
  <2>1. event' \in [Event -> Steps]
    <3>1. PICK k \in {"busy", "other"} :
             event' = [event EXCEPT ![m.ev].m = k, ![m.ev].later = TRUE]
      BY <1>8 DEF MappingFails
    <3>2. [event[m.ev] EXCEPT !.m = k, !.later = TRUE] \in Steps
      BY <1>2, StepsStayTyped DEF StoresTyped
    <3> QED BY <1>2, <3>1, <3>2 DEF StoresTyped
  <2>2. PICK st \in Status : rec' = [rec EXCEPT ![m.task] = Tracked(@, st)]
    BY <1>8 DEF MappingFails, Status
  <2>3. report' \in [Event -> Report]
    <3>1. CASE UNCHANGED report
      BY <3>1 DEF StoresTyped
    <3>2. CASE report' = [report EXCEPT ![m.ev] = Reported(@, m.full)]
      BY <1>2, <1>4, <3>2 DEF StoresTyped
    <3>3. CASE report' = InStage(m.ev, IF m.full THEN "none" ELSE report[m.ev].stage)
      BY <1>4, <3>3 DEF Stage
    <3> QED BY <1>8, <3>1, <3>2, <3>3 DEF MappingFails
  <2>4. msgs' \subseteq Message
    BY <1>6, <1>8 DEF MappingFails, StoresTyped
  <2> QED BY <1>3, <1>5, <2>1, <2>2, <2>3, <2>4 DEF StoresTyped
<1> QED BY <1>7, <1>8 DEF HandlerFails

LEMMA DeathKeeps ==
    ASSUME MappingInv, NEW w \in Worker, WorkerDies(w)
    PROVE  MappingInv'
<1> USE DEF MappingInv
<1>1. hand[w].msg \in Message
  BY BusyHandsHandle DEF WorkerDies
<1>2. StoresTyped'
  BY <1>1 DEF WorkerDies, StoresTyped
<1>3. HandsTyped' /\ CallsTyped'
  BY DEF WorkerDies, HandsTyped, CallsTyped
<1>4. CallersWait'
  BY DEF WorkerDies, HandsTyped, CallersWait
<1> QED BY <1>2, <1>3, <1>4

\* Heartbeats, the clock, and what the research lane does.
LEMMA TimeKeeps ==
    ASSUME MappingInv,
           \/ \E w \in Worker : TouchReads(w) \/ BeatStops(w)
           \/ \E t \in Task : TouchWrites(t) \/ LeaseLapses(t)
           \/ \E e \in Event : ResearchEnds(e)
    PROVE  MappingInv'
<1> USE DEF MappingInv
<1>1. ASSUME NEW w \in Worker, TouchReads(w) PROVE MappingInv'
  <2>1. hand[w].msg.task \in Task
    BY <1>1, BusyHandsHandle DEF TouchReads
  <2> QED BY <1>1, <2>1 DEF TouchReads, StoresTyped, HandsTyped, CallsTyped, CallersWait
<1>2. ASSUME NEW w \in Worker, BeatStops(w) PROVE MappingInv'
  <2>1. hand[w] \in Handler
    BY <1>2, BusyHandsHandle DEF BeatStops
  <2>2. PICK h : h = [hand[w] EXCEPT !.beat = FALSE]
    OBVIOUS
  <2>3. h \in Handler /\ h.pc = hand[w].pc /\ hand' = [hand EXCEPT ![w] = h]
    BY <1>2, <2>1, <2>2, HandlersStayTyped DEF BeatStops
  <2>4. StoresTyped'
    BY <1>2 DEF BeatStops, StoresTyped
  <2> QED BY <1>2, <2>3, <2>4, HandMoves DEF BeatStops
<1>3. ASSUME NEW t \in Task, TouchWrites(t) PROVE MappingInv'
  <2>1. [rec[t] EXCEPT !.st = "running", !.fresh = TRUE] \in TaskRecord
    BY RecordsStayTyped DEF StoresTyped
  <2>2. StoresTyped'
    BY <1>3, <2>1 DEF TouchWrites, StoresTyped
  <2> QED BY <1>3, <2>2 DEF TouchWrites, HandsTyped, CallsTyped, CallersWait
<1>4. ASSUME NEW t \in Task, LeaseLapses(t) PROVE MappingInv'
  <2>1. [rec[t] EXCEPT !.fresh = FALSE] \in TaskRecord
    BY RecordsStayTyped DEF StoresTyped
  <2>2. StoresTyped'
    BY <1>4, <2>1 DEF LeaseLapses, StoresTyped
  <2> QED BY <1>4, <2>2, NobodyMoves DEF LeaseLapses, work
<1>5. ASSUME NEW e \in Event, ResearchEnds(e) PROVE MappingInv'
  <2>1. InStage(e, "none") \in [Event -> Report]
    BY ReportsStayTyped DEF InStage, StoresTyped, Stage
  <2>2. StoresTyped'
    BY <1>5, <2>1 DEF ResearchEnds, StoresTyped
  <2> QED BY <1>5, <2>2, NobodyMoves DEF ResearchEnds, work
<1> QED BY <1>1, <1>2, <1>3, <1>4, <1>5

\* An enqueue of beat, of an operator or of the reconciliation, which is at rest.
LEMMA OthersEnqueue ==
    ASSUME CallersApart, MappingInv, NEW by \in Caller, NEW n \in Sending, n.by = by,
           sending' = sending \cup {n}, UNCHANGED <<hand, touching>>,
           sweep' \in Replacing \cup {NoSweep},
           IF by = "sweep" THEN sweep = NoSweep /\ sweep'.pc = "enqueue" ELSE UNCHANGED sweep
    PROVE  HandsTyped' /\ CallsTyped' /\ CallersWait'
<1> USE DEF MappingInv
<1>1. HandsTyped' /\ CallsTyped'
  BY DEF HandsTyped, CallsTyped
<1>2. by \notin Worker
  BY DEF CallersApart
<1>3. by = "sweep" => \A s \in sending : s.by # "sweep"
  BY DEF CallersWait, NoSweep
<1>4. CallersWait'
  BY <1>2, <1>3 DEF CallersWait
<1> QED BY <1>1, <1>4

LEMMA FollowKeeps ==
    ASSUME CallersApart, MappingInv, NEW e \in Event, Follow(e)
    PROVE  MappingInv'
<1> USE DEF MappingInv
<1>1. UNCHANGED <<rec, msgs, event, hand, touching, sweep>>
  BY DEF Follow, work
<1>2. CASE UNCHANGED sending
  <2>1. [report[e] EXCEPT !.there = TRUE] \in Report
    BY ReportsStayTyped DEF StoresTyped
  <2>2. report' \in [Event -> Report]
    BY <2>1 DEF Follow, StoresTyped
  <2> QED BY <1>1, <1>2, <2>2, NobodyMoves DEF StoresTyped
<1>3. CASE Enqueue("beat", e, event[e], event[e].q # "none", FALSE) /\ UNCHANGED report
  <2>1. event[e] \in Steps /\ (event[e].q # "none") \in BOOLEAN /\ "beat" \in Caller
    BY DEF StoresTyped, Caller
  <2>2. PICK n \in Sending : n.by = "beat" /\ sending' = sending \cup {n}
    BY <1>3, <2>1, EnqueueTypes
  <2>3. HandsTyped' /\ CallsTyped' /\ CallersWait'
    BY <1>1, <2>1, <2>2, OthersEnqueue DEF CallsTyped
  <2> QED BY <1>1, <1>3, <2>3 DEF StoresTyped
<1> QED BY <1>2, <1>3 DEF Follow

LEMMA ReconcileKeeps ==
    ASSUME CallersApart, MappingInv, NEW t \in Task, Reconcile(t)
    PROVE  MappingInv'
<1> USE DEF MappingInv
<1>1. rec[t] \in TaskRecord /\ rec[t].ev \in Event /\ UNCHANGED <<event, report, hand, touching>>
  BY DEF StoresTyped, TaskRecord, Reconcile, work
<1>2. CASE rec' = [rec EXCEPT ![t] = Cancelled(@)] /\ Revoked(t) /\ UNCHANGED <<sending, sweep>>
  <2>1. Cancelled(rec[t]) \in TaskRecord
    BY <1>1, RecordsStayTyped
  <2>2. StoresTyped'
    BY <1>1, <1>2, <2>1 DEF StoresTyped, Revoked
  <2> QED BY <1>1, <1>2, <2>2, NobodyMoves
<1>3. CASE /\ Enqueue("sweep", rec[t].ev, event[rec[t].ev], TRUE, FALSE)
           /\ sweep' = [pc |-> "enqueue", old |-> t, new |-> Fresh]
           /\ UNCHANGED <<rec, msgs>>
  <2>1. event[rec[t].ev] \in Steps /\ "sweep" \in Caller /\ sweep = NoSweep
    BY <1>1 DEF StoresTyped, Caller, Reconcile
  <2>2. PICK n \in Sending : n.by = "sweep" /\ sending' = sending \cup {n}
    BY <1>1, <1>3, <2>1, EnqueueTypes
  <2>3. sweep' \in Replacing /\ sweep'.pc = "enqueue"
    BY <1>3, FreshIsTask DEF Enqueue, Replacing
  <2>4. HandsTyped' /\ CallsTyped' /\ CallersWait'
    BY <1>1, <2>1, <2>2, <2>3, OthersEnqueue
  <2> QED BY <1>1, <1>3, <2>4 DEF StoresTyped
<1> QED BY <1>2, <1>3 DEF Reconcile, ghost

LEMMA SupersedeKeeps ==
    ASSUME MappingInv, Supersede
    PROVE  MappingInv'
<1> USE DEF MappingInv
<1>1. sweep \in Replacing /\ sweep.old \in Task /\ sweep.new \in Task
  BY DEF CallsTyped, NoSweep, Replacing, Supersede
<1>2. \A t \in Task : Cancelled(rec[t]) \in TaskRecord
  BY RecordsStayTyped DEF StoresTyped
<1>3. StoresTyped'
  BY <1>1, <1>2 DEF Supersede, StoresTyped, Revoked
<1>4. HandsTyped' /\ CallsTyped' /\ CallersWait'
  BY DEF Supersede, work, HandsTyped, CallsTyped, CallersWait
<1> QED BY <1>3, <1>4

LEMMA RequestKeeps ==
    ASSUME CallersApart, MappingInv,
           \/ \E t \in Task : CancelMapping(t) \/ RetryMapping(t)
           \/ \E e \in Event : FullResearch(e)
           \/ \E kind \in Kind : ClearQueue(kind)
    PROVE  MappingInv'
<1> USE DEF MappingInv
<1>1. ASSUME NEW t \in Task, CancelMapping(t) PROVE MappingInv'
  <2>1. Cancelled(rec[t]) \in TaskRecord
    BY RecordsStayTyped DEF StoresTyped
  <2>2. StoresTyped'
    BY <1>1, <2>1 DEF CancelMapping, StoresTyped, Revoked
  <2> QED BY <1>1, <2>2, NobodyMoves DEF CancelMapping, work
<1>2. ASSUME NEW t \in Task, RetryMapping(t) PROVE MappingInv'
  <2>1. Cancelled(rec[t]) \in TaskRecord /\ rec[t].ev \in Event
    BY RecordsStayTyped DEF StoresTyped, TaskRecord
  <2>2. StoresTyped'
    BY <1>2, <2>1 DEF RetryMapping, StoresTyped, Revoked
  <2>3. event[rec[t].ev] \in Steps /\ "api" \in Caller
    BY <2>1 DEF StoresTyped, Caller
  <2>4. PICK n \in Sending : n.by = "api" /\ sending' = sending \cup {n}
    BY <1>2, <2>1, <2>3, EnqueueTypes DEF RetryMapping
  <2>5. UNCHANGED <<hand, touching, sweep>>
    BY <1>2 DEF RetryMapping, work
  <2> QED BY <2>2, <2>3, <2>4, <2>5, OthersEnqueue DEF CallsTyped
<1>3. ASSUME NEW e \in Event, FullResearch(e) PROVE MappingInv'
  <2>1. Fresh \in Task
    BY <1>3, FreshIsTask DEF FullResearch
  <2>2. /\ Recorded(e, "extract") \in TaskRecord
        /\ [Recorded(e, "extract") EXCEPT !.st = "failed"] \in TaskRecord
    BY DEF Recorded, TaskRecord, Status, Kind
  <2>3. PICK m : m = [task |-> Fresh, ev |-> e, kind |-> "extract", force |-> TRUE,
                      full |-> TRUE, try |-> 1]
    OBVIOUS
  <2>4. m \in Message
    BY <2>1, <2>3 DEF Message, Kind
  <2>5. /\ [report[e] EXCEPT !.task = Fresh] \in Report
        /\ [report[e] EXCEPT !.stage = "extract", !.task = Fresh] \in Report
    BY <2>1, ReportsStayTyped DEF StoresTyped
  <2>6. rec' \in [Task -> TaskRecord] /\ msgs' \subseteq Message /\ UNCHANGED event
    BY <1>3, <2>1, <2>2, <2>3, <2>4 DEF FullResearch, StoresTyped
  <2>7. report' \in [Event -> Report]
    BY <1>3, <2>5 DEF FullResearch, StoresTyped, Begun
  <2> QED BY <1>3, <2>6, <2>7, NobodyMoves DEF FullResearch, work, StoresTyped
<1>4. ASSUME NEW kind \in Kind, ClearQueue(kind) PROVE MappingInv'
  <2>1. \A t \in Task : Cleared(rec[t], kind) \in TaskRecord
    BY RecordsStayTyped DEF StoresTyped
  <2>2. StoresTyped'
    BY <1>4, <2>1 DEF ClearQueue, StoresTyped
  <2> QED BY <1>4, <2>2, NobodyMoves DEF ClearQueue, work
<1> QED BY <1>1, <1>2, <1>3, <1>4

-----------------------------------------------------------------------------
\* Whoever waits for an enqueue has exactly one under way, through deaths, failures and
\* the reconciliation; and the stores keep their types (worker.py, enqueue_asset_mapping,
\* reextract_event, reconcile_asset_mapping_leases).
THEOREM MappingInvariant ==
    ASSUME CallersApart
    PROVE  Spec => []MappingInv
<1>1. Init => MappingInv
  BY MappingInit
<1>2. MappingInv /\ [Next]_mappingVars => MappingInv'
  <2> SUFFICES ASSUME MappingInv, [Next]_mappingVars PROVE MappingInv'
    OBVIOUS
  <2>1. CASE UNCHANGED mappingVars
    BY <2>1 DEF mappingVars, work, MappingInv, StoresTyped, HandsTyped, CallsTyped, CallersWait
  <2>2. ASSUME NEW s \in sending, Send(s) \/ PublishFails(s) \/ SenderDies(s) PROVE MappingInv'
    BY <2>2, SendKeeps DEF Send
  <2>3. ASSUME NEW w \in Worker, Handle(w) \/ HandlerFails(w) \/ WorkerDies(w) PROVE MappingInv'
    BY <2>3, HandleKeeps, FailureKeeps, DeathKeeps DEF Handle
  <2>4. ASSUME NEW w \in Worker, NEW m \in msgs, Deliver(w, m) PROVE MappingInv'
    BY <2>4, DeliverKeeps
  <2>5. ASSUME NEW w \in Worker, TouchReads(w) \/ BeatStops(w) PROVE MappingInv'
    BY <2>5, TimeKeeps
  <2>6. ASSUME NEW t \in Task, TouchWrites(t) \/ LeaseLapses(t) PROVE MappingInv'
    BY <2>6, TimeKeeps
  <2>7. ASSUME NEW t \in Task, Reconcile(t) \/ CancelMapping(t) \/ RetryMapping(t) PROVE MappingInv'
    BY <2>7, ReconcileKeeps, RequestKeeps
  <2>8. ASSUME NEW e \in Event, Follow(e) \/ FullResearch(e) \/ ResearchEnds(e) PROVE MappingInv'
    BY <2>8, FollowKeeps, RequestKeeps, TimeKeeps
  <2>9. ASSUME NEW kind \in {"extract", "map"}, ClearQueue(kind) PROVE MappingInv'
    BY <2>9, RequestKeeps DEF Kind
  <2>10. CASE Supersede
    BY <2>10, SupersedeKeeps
  <2> QED BY <2>1, <2>2, <2>3, <2>4, <2>5, <2>6, <2>7, <2>8, <2>9, <2>10 DEF Next
<1> QED BY <1>1, <1>2, PTL DEF Spec

\* What a step does to a cancelled record that no heartbeat has read: nothing, or a new
\* record under its id, or the mark of a failed start.
Stays(t) == rec[t].st = "cancelled" => ~Active(rec'[t]) \/ rec'[t].st = "queued"

LEMMA UpdatesLeaveCancelled ==
    ASSUME StoresTyped, NEW t \in Task, NEW x,
           \/ UNCHANGED rec
           \/ \E st \in Status : rec' = [rec EXCEPT ![x] = Tracked(@, st)]
           \/ rec' = [rec EXCEPT ![x] = Cancelled(@)]
           \/ rec' = [rec EXCEPT ![x].fresh = FALSE]
    PROVE  Stays(t)
<1> USE DEF StoresTyped, TaskRecord, Stays, Active
<1>1. CASE UNCHANGED rec
  BY <1>1
<1>2. ASSUME NEW st \in Status, rec' = [rec EXCEPT ![x] = Tracked(@, st)] PROVE Stays(t)
  BY <1>2 DEF Tracked
<1>3. CASE rec' = [rec EXCEPT ![x] = Cancelled(@)]
  BY <1>3 DEF Cancelled
<1>4. CASE rec' = [rec EXCEPT ![x].fresh = FALSE]
  BY <1>4
<1> QED BY <1>1, <1>2, <1>3, <1>4

LEMMA CancelledStay ==
    ASSUME MappingInv, Next, NEW t \in Task, t \notin touching
    PROVE  Stays(t)
<1> USE DEF MappingInv
<1>1. ASSUME NEW s \in sending, Send(s) \/ PublishFails(s) \/ SenderDies(s) PROVE Stays(t)
  <2>1. CASE SaveQueued(s)
    BY <2>1 DEF SaveQueued, Recorded, Stays, StoresTyped, Active
  <2>2. CASE PublishMapping(s)
    BY <2>2, UpdatesLeaveCancelled DEF PublishMapping, Status
  <2>3. CASE PublishFails(s)
    BY <2>3, UpdatesLeaveCancelled DEF PublishFails, Status
  <2>4. CASE SenderDies(s)
    BY <2>4, UpdatesLeaveCancelled DEF SenderDies
  <2> QED BY <1>1, <2>1, <2>2, <2>3, <2>4 DEF Send
<1>2. ASSUME NEW w \in Worker, Handle(w) \/ HandlerFails(w) \/ WorkerDies(w) \/ TouchReads(w) \/ BeatStops(w)
      PROVE  Stays(t)
  <2>1. CASE MapDone(w) \/ Extracted(w) \/ WorkerDies(w) \/ TouchReads(w) \/ BeatStops(w)
    BY <2>1, UpdatesLeaveCancelled DEF MapDone, Extracted, WorkerDies, TouchReads, BeatStops
  <2>2. CASE QueueReport(w)
    BY <2>2, UpdatesLeaveCancelled DEF QueueReport, Status
  <2>3. CASE HandlerFails(w)
    <3>1. CASE ExtractionFails(w)
      <4>1. PICK st : st = IF hand[w].msg.try = MaxTries THEN "failed" ELSE "retrying"
        OBVIOUS
      <4>2. st \in Status /\ rec' = [rec EXCEPT ![hand[w].msg.task] = Tracked(@, st)]
        BY <3>1, <4>1 DEF ExtractionFails, Status
      <4> QED BY <4>2, UpdatesLeaveCancelled
    <3>2. CASE MappingFails(w)
      <4>1. PICK st \in Status : rec' = [rec EXCEPT ![hand[w].msg.task] = Tracked(@, st)]
        BY <3>2 DEF MappingFails, Status
      <4> QED BY <4>1, UpdatesLeaveCancelled
    <3> QED BY <2>3, <3>1, <3>2 DEF HandlerFails
  <2> QED BY <1>2, <2>1, <2>2, <2>3 DEF Handle
<1>3. ASSUME NEW w \in Worker, NEW m \in msgs, Deliver(w, m) PROVE Stays(t)
  <2>1. \/ UNCHANGED rec
        \/ \E st \in Status : rec' = [rec EXCEPT ![m.task] = Tracked(@, st)]
    BY <1>3 DEF Deliver, DeliverMapping, DeliverExtraction, Take, Status
  <2> QED BY <2>1, UpdatesLeaveCancelled
<1>4. ASSUME NEW u \in Task, TouchWrites(u) \/ LeaseLapses(u) PROVE Stays(t)
  <2>1. CASE TouchWrites(u)
    BY <2>1 DEF TouchWrites, Stays, StoresTyped, Active
  <2>2. CASE LeaseLapses(u)
    BY <2>2, UpdatesLeaveCancelled DEF LeaseLapses
  <2> QED BY <1>4, <2>1, <2>2
<1>5. ASSUME NEW u \in Task, Reconcile(u) \/ CancelMapping(u) \/ RetryMapping(u) PROVE Stays(t)
  BY <1>5, UpdatesLeaveCancelled DEF Reconcile, CancelMapping, RetryMapping
<1>6. ASSUME NEW e \in Event, Follow(e) \/ ResearchEnds(e) PROVE Stays(t)
  BY <1>6, UpdatesLeaveCancelled DEF Follow, ResearchEnds
<1>7. ASSUME NEW e \in Event, FullResearch(e) PROVE Stays(t)
  <2>1. CASE rec' = [rec EXCEPT ![Fresh] = Recorded(e, "extract")]
    BY <2>1 DEF Recorded, Stays, StoresTyped, Active
  <2>2. CASE rec' = [rec EXCEPT ![Fresh] = [Recorded(e, "extract") EXCEPT !.st = "failed"]]
    BY <2>2 DEF Recorded, Stays, StoresTyped, Active
  <2> QED BY <1>7, <2>1, <2>2 DEF FullResearch
<1>8. ASSUME NEW kind, ClearQueue(kind) PROVE Stays(t)
  BY <1>8 DEF ClearQueue, Cleared, Stays, StoresTyped, Active
<1>9. CASE Supersede
  <2>1. \E x : rec' = [rec EXCEPT ![x] = Cancelled(@)]
    BY <1>9 DEF Supersede
  <2> QED BY <2>1, UpdatesLeaveCancelled
<1> QED BY <1>1, <1>2, <1>3, <1>4, <1>5, <1>6, <1>7, <1>8, <1>9 DEF Next

\* A cancelled task stays cancelled whatever its handler, its retry or its enqueue report
\* later; only a heartbeat that had read the record before revives it
\* (services/model_queue.py, update_model_task, touch_model_task, cancel_model_task).
THEOREM CancelledTasksStay ==
    ASSUME CallersApart
    PROVE  Spec => OnlyBeatsRevive
<1> DEFINE Revived == \A t \in Task : rec[t].st = "cancelled" /\ Active(rec'[t])
                                     => t \in touching \/ rec'[t].st = "queued"
<1>1. MappingInv /\ [Next]_mappingVars => [Revived]_mappingVars
  <2> SUFFICES ASSUME MappingInv, Next PROVE Revived
    OBVIOUS
  <2> QED BY CancelledStay DEF Stays
<1> QED BY <1>1, MappingInvariant, PTL DEF Spec, OnlyBeatsRevive

-----------------------------------------------------------------------------
\* The messages that wait or are being handled.
Held == msgs \cup {hand[w].msg : w \in Busy}

\* A message is of its record; only a re-extraction and the mapping it asked for are part of
\* a full refresh, of an event that has its report; a replacement is not.
Fits(m) ==
  /\ rec[m.task].kind = m.kind /\ rec[m.task].ev = m.ev
  /\ m.kind = "extract" => m.full
  /\ m.full => report[m.ev].there
  /\ m.full /\ sweep # NoSweep => m.task # sweep.new

\* The id of an enqueue is its own.
Apart(s) ==
  /\ s.task \notin touching /\ \A m \in Held : m.task # s.task
  /\ sweep # NoSweep => s.task # sweep.old /\ (s.task = sweep.new => s.by = "sweep")

\* Its record waits, or was cancelled by an operator, once it is written.
Enqueued(s) ==
  /\ s.pc = "save" => ~(rec[s.task].kind = "map" /\ Active(rec[s.task]))
  /\ s.pc = "publish" =>
       /\ rec[s.task].kind = "map" /\ rec[s.task].ev = s.ev
       /\ \/ rec[s.task].st = "queued"
          \/ rec[s.task].st = "cancelled" /\ s.ev \in silenced \cap dropped

\* A worker asks for the mapping of the event it extracted again, the reconciliation for
\* that of the task it replaces.
AskedBy(s) ==
  /\ s.full <=> s.by \in Worker
  /\ s.by \in Worker => hand[s.by].msg.ev = s.ev
  /\ s.by = "sweep" => s.task = sweep.new /\ s.ev = rec[sweep.old].ev

TasksInv ==
  /\ \A m \in Held : Fits(m)
  /\ \A s \in sending : Apart(s) /\ Enqueued(s) /\ AskedBy(s)
  /\ \A s, u \in sending : s.task = u.task => s = u
  /\ \A w \in Busy : hand[w].pc \in {"extract", "wait", "raise"} <=> hand[w].msg.kind = "extract"
  /\ sweep # NoSweep => rec[sweep.old].kind = "map"
  /\ sweep.pc = "cancel" => rec[sweep.new].kind = "map" /\ rec[sweep.new].ev = rec[sweep.old].ev

\* The same message, but for the attempt.
Like(m, n) == m.task = n.task /\ m.ev = n.ev /\ m.kind = n.kind /\ m.full = n.full

\* What a step leaves of the records, the messages and the enqueues that are under way.
SubjectsStay == \A t \in Task \cap InUse : rec'[t].kind = rec[t].kind /\ rec'[t].ev = rec[t].ev
HeldStay ==
  \A n \in Held' : \/ \E m \in Held : Like(m, n)
                   \/ Fits(n)' /\ \A s \in sending' : s.task # n.task
StoresStay ==
  /\ \A e \in Event : report[e].there => report'[e].there
  /\ silenced \subseteq silenced' /\ dropped \subseteq dropped'
  /\ \A t \in touching' : t \in touching \/ \E m \in Held : m.task = t
EnqueueStays(s) ==
  /\ \/ rec'[s.task].st = rec[s.task].st
     \/ rec'[s.task].st = "cancelled" /\ rec[s.task].ev \in silenced' \cap dropped'
  /\ s.by \in Worker => hand'[s.by].msg = hand[s.by].msg
SendingStays ==
  /\ \A s \in sending' : \/ s \in sending /\ EnqueueStays(s)
                         \/ Apart(s)' /\ Enqueued(s)' /\ AskedBy(s)'
  /\ \A s, u \in sending' : s.task = u.task => s = u
SweepStays ==
  \/ sweep' = sweep
  \/ sweep' = NoSweep /\ \A s \in sending' : s.by # "sweep"
  \/ /\ sweep = NoSweep /\ sweep'.pc = "enqueue" /\ rec'[sweep'.old].kind = "map"
     /\ \A n \in Held' : n.task # sweep'.new
     /\ \A s \in sending \cap sending' : s.task \notin {sweep'.old, sweep'.new}
  \/ /\ sweep # NoSweep /\ sweep'.old = sweep.old /\ sweep'.new = sweep.new
     /\ rec[sweep.new].kind = "map" /\ rec[sweep.new].ev = rec[sweep.old].ev
     /\ \A s \in sending' : s.by # "sweep"
HandsStay ==
  \A w \in Busy' : hand'[w].pc \in {"extract", "wait", "raise"} <=> hand'[w].msg.kind = "extract"

\* The ids that are referred to.
LEMMA InUseFacts ==
    ASSUME MappingInv
    PROVE  /\ \A m \in Held : /\ m \in Message /\ m.task \in Task \cap InUse /\ m.ev \in Event
                              /\ m.kind \in Kind /\ m.full \in BOOLEAN
           /\ \A w \in Busy : hand[w].msg \in Held /\ w \in Worker
           /\ \A s \in sending : s.task \in Task \cap InUse /\ s.ev \in Event
           /\ sweep # NoSweep => sweep.old \in Task \cap InUse /\ sweep.new \in Task \cap InUse
           /\ touching \subseteq InUse
<1> USE DEF MappingInv
<1>1. \A w \in Busy : hand[w].msg \in Held /\ w \in Worker /\ hand[w].msg \in Message
  BY BusyHandsHandle DEF Busy, Held
<1>2. ASSUME NEW m \in Held
      PROVE  m \in Message /\ m.task \in Task \cap InUse /\ m.ev \in Event /\ m.kind \in Kind /\ m.full \in BOOLEAN
  <2>1. m \in Message /\ m.task \in InUse
    BY <1>1 DEF Held, StoresTyped, InUse
  <2> QED BY <2>1 DEF Message
<1>3. \A s \in sending : s.task \in Task \cap InUse /\ s.ev \in Event
  BY DEF CallsTyped, Sending, InUse
<1>4. sweep # NoSweep => sweep.old \in Task \cap InUse /\ sweep.new \in Task \cap InUse
  BY DEF CallsTyped, Replacing, InUse
<1>5. touching \subseteq InUse
  BY DEF InUse
<1> QED BY <1>1, <1>2, <1>3, <1>4, <1>5

\* A fresh id is nobody else's, and its record is over or of the extraction lane.
LEMMA FreshIsApart ==
    ASSUME MappingInv, Spare # {}
    PROVE  /\ Fresh \in Task /\ Fresh \notin InUse /\ ~(rec[Fresh].kind = "map" /\ Active(rec[Fresh]))
           /\ Fresh \notin touching
           /\ \A m \in Held : m.task # Fresh
           /\ \A s \in sending : s.task # Fresh
           /\ sweep # NoSweep => Fresh # sweep.old /\ Fresh # sweep.new
           /\ \A e \in Event : report[e].task # Fresh
<1>1. Fresh \in Spare /\ Fresh \in Task
  BY FreshIsTask
<1>2. Fresh \notin InUse /\ ~(rec[Fresh].kind = "map" /\ Active(rec[Fresh]))
  BY <1>1 DEF Spare
<1>3. \A e \in Event : report[e].task \in InUse
  BY DEF InUse
<1> QED BY <1>1, <1>2, <1>3, InUseFacts

\* What is enough for a step to keep the ids apart.
LEMMA TasksStay ==
    ASSUME MappingInv, MappingInv', TasksInv, SubjectsStay, HeldStay, StoresStay,
           SendingStays, SweepStays, HandsStay
    PROVE  TasksInv'
<1>1. /\ \A m \in Held : m.task \in Task \cap InUse /\ m.ev \in Event
      /\ \A s \in sending : s.task \in Task \cap InUse
      /\ sweep # NoSweep => sweep.old \in Task \cap InUse /\ sweep.new \in Task \cap InUse
  BY InUseFacts
<1>2. sweep' # NoSweep /\ sweep # NoSweep => sweep'.old = sweep.old /\ sweep'.new = sweep.new
  BY DEF SweepStays
<1>3. sweep = NoSweep /\ sweep' # NoSweep =>
        /\ \A n \in Held' : n.task # sweep'.new
        /\ \A s \in sending \cap sending' : s.task \notin {sweep'.old, sweep'.new}
  BY DEF SweepStays
<1>4. ASSUME NEW n \in Held' PROVE Fits(n)'
  <2>1. CASE \E m \in Held : Like(m, n)
    <3>1. PICK m \in Held : Like(m, n)
      BY <2>1
    <3>2. Fits(m) /\ m.task \in Task \cap InUse /\ m.ev \in Event
      BY <1>1 DEF TasksInv
    <3>3. rec'[n.task].kind = n.kind /\ rec'[n.task].ev = n.ev
      BY <3>1, <3>2 DEF Fits, Like, SubjectsStay
    <3>4. (n.kind = "extract" => n.full) /\ (n.full => report'[n.ev].there)
      BY <3>1, <3>2 DEF Fits, Like, StoresStay
    <3>5. n.full /\ sweep' # NoSweep => n.task # sweep'.new
      BY <1>2, <1>3, <3>1, <3>2 DEF Fits, Like
    <3> QED BY <3>3, <3>4, <3>5 DEF Fits
  <2> QED BY <2>1 DEF HeldStay
<1>5. ASSUME NEW s \in sending', s \in sending, EnqueueStays(s)
      PROVE  Apart(s)' /\ Enqueued(s)' /\ AskedBy(s)'
  <2>1. Apart(s) /\ Enqueued(s) /\ AskedBy(s) /\ s.task \in Task \cap InUse
    BY <1>1, <1>5 DEF TasksInv
  <2>2. Apart(s)'
    <3>1. s.task \notin touching'
      BY <2>1 DEF Apart, StoresStay
    <3>2. \A n \in Held' : n.task # s.task
      BY <2>1 DEF Apart, HeldStay, Like
    <3>3. sweep' # NoSweep => s.task # sweep'.old /\ (s.task = sweep'.new => s.by = "sweep")
      BY <1>2, <1>3, <1>5, <2>1 DEF Apart
    <3> QED BY <3>1, <3>2, <3>3 DEF Apart
  <2>3. Enqueued(s)'
    BY <1>5, <2>1 DEF Enqueued, EnqueueStays, SubjectsStay, StoresStay, Active
  <2>4. s.by = "sweep" => sweep # NoSweep /\ sweep' = sweep
    BY <1>5 DEF MappingInv, CallersWait, NoSweep, SweepStays
  <2>5. AskedBy(s)'
    BY <1>1, <1>5, <2>1, <2>4 DEF AskedBy, EnqueueStays, SubjectsStay
  <2> QED BY <2>2, <2>3, <2>5
<1>6. \A s \in sending' : Apart(s)' /\ Enqueued(s)' /\ AskedBy(s)'
  BY <1>5 DEF SendingStays
<1>7. sweep' # NoSweep => rec'[sweep'.old].kind = "map"
  BY <1>1 DEF TasksInv, SubjectsStay, SweepStays
<1>8. sweep'.pc = "cancel" => rec'[sweep'.new].kind = "map" /\ rec'[sweep'.new].ev = rec'[sweep'.old].ev
  <2>1. CASE sweep' = sweep
    <3>1. sweep'.pc = "cancel" => sweep # NoSweep
      BY <2>1 DEF NoSweep
    <3> QED BY <1>1, <2>1, <3>1 DEF TasksInv, SubjectsStay
  <2>2. CASE /\ sweep # NoSweep /\ sweep'.old = sweep.old /\ sweep'.new = sweep.new
             /\ rec[sweep.new].kind = "map" /\ rec[sweep.new].ev = rec[sweep.old].ev
    BY <1>1, <2>2 DEF SubjectsStay
  <2>3. CASE sweep' = NoSweep \/ sweep'.pc = "enqueue"
    BY <2>3 DEF NoSweep
  <2> QED BY <2>1, <2>2, <2>3 DEF SweepStays
<1>9. \A s, u \in sending' : s.task = u.task => s = u
  BY DEF SendingStays
<1> QED BY <1>4, <1>6, <1>7, <1>8, <1>9 DEF TasksInv, HandsStay

LEMMA TasksInit ==
    ASSUME Init
    PROVE  TasksInv
BY DEF Init, TasksInv, Held, Busy, Idle, NoSweep

\* An update of a record is about the same event.
LEMMA UpdatesKeepSubject ==
    ASSUME NEW r \in TaskRecord
    PROVE  /\ \A st : Tracked(r, st).kind = r.kind /\ Tracked(r, st).ev = r.ev
           /\ Cancelled(r).kind = r.kind /\ Cancelled(r).ev = r.ev
           /\ \A kind : Cleared(r, kind).kind = r.kind /\ Cleared(r, kind).ev = r.ev
BY DEF TaskRecord, Tracked, Cancelled, Cleared

\* A worker that waits for no enqueue goes on with its message, or takes one.
LEMMA MessageMoves ==
    ASSUME MappingInv, TasksInv, NEW w \in Worker, NEW h, hand' = [hand EXCEPT ![w] = h],
           h = Idle \/ (/\ \E m \in Held : Like(m, h.msg)
                        /\ h.pc \in {"extract", "wait", "raise"} <=> h.msg.kind = "extract"),
           hand[w].pc # "wait", \A n \in msgs' : \E m \in Held : Like(m, n)
    PROVE  /\ HeldStay /\ HandsStay
           /\ \A s \in sending : s.by \in Worker => hand'[s.by].msg = hand[s.by].msg
<1> USE DEF MappingInv
<1>1. \A v \in Worker : hand'[v] = IF v = w THEN h ELSE hand[v]
  BY DEF HandsTyped
<1>2. \A v \in Busy' : v \in Worker /\ (v = w => h # Idle) /\ (v # w => v \in Busy)
  BY <1>1 DEF Busy
<1>3. HeldStay
  BY <1>1, <1>2 DEF HeldStay, Held, Like
<1>4. HandsStay
  BY <1>1, <1>2 DEF HandsStay, TasksInv
<1>5. \A s \in sending : s.by \in Worker => hand'[s.by].msg = hand[s.by].msg
  BY <1>1 DEF CallersWait
<1> QED BY <1>3, <1>4, <1>5

LEMMA MessagesRest ==
    ASSUME TasksInv, UNCHANGED hand, msgs' \subseteq msgs
    PROVE  /\ HeldStay /\ HandsStay
           /\ \A s : hand'[s.by].msg = hand[s.by].msg
<1>1. Held' \subseteq Held /\ Busy' = Busy
  BY DEF Held, Busy
<1>2. \A m : Like(m, m)
  BY DEF Like
<1> QED BY <1>1, <1>2 DEF HeldStay, HandsStay, TasksInv

LEMMA SendingShrinks ==
    ASSUME TasksInv, sending' \subseteq sending, \A s \in sending' : EnqueueStays(s)
    PROVE  SendingStays
BY DEF SendingStays, TasksInv

\* A new enqueue, under a fresh id.
LEMMA SendingGrows ==
    ASSUME MappingInv, TasksInv, Spare # {}, NEW n, n.task = Fresh, n.pc = "save",
           sending' = sending \cup {n}, \A s \in sending : EnqueueStays(s), AskedBy(n)',
           \A k \in Held' : \E m \in Held : Like(m, k), UNCHANGED touching,
           rec'[Fresh] = rec[Fresh],
           sweep' = sweep \/ (sweep'.new = Fresh /\ n.by = "sweep" /\ sweep'.old # Fresh)
    PROVE  SendingStays
<1>1. /\ ~(rec[Fresh].kind = "map" /\ Active(rec[Fresh])) /\ Fresh \notin touching
      /\ \A m \in Held : m.task # Fresh
      /\ \A s \in sending : s.task # Fresh
      /\ sweep # NoSweep => Fresh # sweep.old /\ Fresh # sweep.new
  BY FreshIsApart
<1>2. Apart(n)'
  BY <1>1 DEF Apart, Like
<1>3. Enqueued(n)'
  BY <1>1 DEF Enqueued, Active
<1>4. \A s, u \in sending' : s.task = u.task => s = u
  BY <1>1 DEF TasksInv
<1> QED BY <1>2, <1>3, <1>4 DEF SendingStays

-----------------------------------------------------------------------------
LEMMA DeliverStays ==
    ASSUME MappingInv, MappingInv', TasksInv, NEW w \in Worker, NEW m \in msgs, Deliver(w, m)
    PROVE  TasksInv'
<1> USE DEF MappingInv
<1>1. m \in Held /\ m.task \in Task /\ m.ev \in Event /\ rec[m.task] \in TaskRecord
  BY InUseFacts DEF Held, StoresTyped
<1>2. /\ hand[w] = Idle /\ msgs' = msgs \ {m} /\ UNCHANGED <<touching, sending, sweep>>
      /\ silenced \subseteq silenced' /\ dropped \subseteq dropped'
  BY DEF Deliver, DeliverMapping, DeliverExtraction, ghost
<1>3. \A e \in Event : report'[e].there = report[e].there
  BY <1>1 DEF Deliver, DeliverMapping, DeliverExtraction, InStage, StoresTyped, Report
<1>4. SubjectsStay /\ \A u \in Task : u # m.task => rec'[u] = rec[u]
  <2>1. UNCHANGED rec \/ \E st : rec' = [rec EXCEPT ![m.task] = Tracked(rec[m.task], st)]
    BY DEF Deliver, DeliverMapping, DeliverExtraction, Take
  <2>2. CASE UNCHANGED rec
    BY <2>2 DEF SubjectsStay
  <2>3. ASSUME NEW st, rec' = [rec EXCEPT ![m.task] = Tracked(rec[m.task], st)]
        PROVE  SubjectsStay /\ \A u \in Task : u # m.task => rec'[u] = rec[u]
    <3>1. PICK r : r = Tracked(rec[m.task], st)
      OBVIOUS
    <3>2. r.kind = rec[m.task].kind /\ r.ev = rec[m.task].ev /\ rec' = [rec EXCEPT ![m.task] = r]
      BY <1>1, <2>3, <3>1, UpdatesKeepSubject
    <3> QED BY <1>1, <3>2 DEF SubjectsStay, StoresTyped
  <2> QED BY <2>1, <2>2, <2>3
<1>5. /\ HeldStay /\ HandsStay
      /\ \A s \in sending : s.by \in Worker => hand'[s.by].msg = hand[s.by].msg
  <2>1. CASE UNCHANGED hand
    BY <1>2, <2>1, MessagesRest
  <2>2. ASSUME NEW pc, Take(w, m, pc), pc \in {"extract", "wait", "raise"} <=> m.kind = "extract"
        PROVE  /\ HeldStay /\ HandsStay
               /\ \A s \in sending : s.by \in Worker => hand'[s.by].msg = hand[s.by].msg
    <3>2. PICK h : h = [pc |-> pc, msg |-> m, beat |-> TRUE, copy |->
                        IF pc = "extract" THEN event[m.ev] ELSE NewEvent]
      OBVIOUS
    <3>3. hand' = [hand EXCEPT ![w] = h] /\ h.msg = m /\ h.pc = pc
      BY <2>2, <3>2 DEF Take
    <3>4. Like(m, h.msg) /\ (h.pc \in {"extract", "wait", "raise"} <=> h.msg.kind = "extract")
      BY <2>2, <3>3 DEF Like
    <3>5. \A n \in msgs' : \E k \in Held : Like(k, n)
      BY <1>2 DEF Held, Like
    <3>6. hand[w].pc # "wait"
      BY <1>2 DEF Idle
    <3> QED BY <1>1, <3>3, <3>4, <3>5, <3>6, MessageMoves
  <2>3. DeliverMapping(w, m) => UNCHANGED hand \/ (m.kind = "map" /\ (Take(w, m, "map") \/ Take(w, m, "report")))
    BY DEF DeliverMapping
  <2>4. DeliverExtraction(w, m) => UNCHANGED hand \/ (m.kind = "extract" /\ Take(w, m, "extract"))
    BY DEF DeliverExtraction
  <2> QED BY <2>1, <2>2, <2>3, <2>4 DEF Deliver
<1>6. \A s \in sending : s.task \in Task /\ s.task # m.task
  BY <1>1, InUseFacts DEF TasksInv, Apart
<1>7. SendingStays
  BY <1>2, <1>4, <1>5, <1>6, SendingShrinks DEF EnqueueStays
<1>8. StoresStay /\ SweepStays
  BY <1>2, <1>3 DEF StoresStay, SweepStays
<1> QED BY <1>4, <1>5, <1>7, <1>8, TasksStay

\* A handler goes on or fails: it updates the record of its own task.
LEMMA HandlerStays ==
    ASSUME MappingInv, MappingInv', TasksInv, NEW w \in Worker,
           MapDone(w) \/ QueueReport(w) \/ HandlerFails(w)
    PROVE  TasksInv'
<1> USE DEF MappingInv
<1> DEFINE m == hand[w].msg
<1>1. hand[w].pc \in {"map", "report", "extract", "raise"} /\ w \in Busy
  BY DEF MapDone, QueueReport, HandlerFails, Busy, Idle
<1>2. /\ m \in Held /\ m \in Message /\ m.task \in Task /\ m.ev \in Event /\ rec[m.task] \in TaskRecord
      /\ hand[w] \in Handler /\ report[m.ev] \in Report
  BY <1>1, InUseFacts, BusyHandsHandle DEF StoresTyped
<1>3. UNCHANGED <<touching, sending, sweep, silenced, dropped>>
  BY DEF MapDone, QueueReport, HandlerFails, ghost
<1>4. SubjectsStay /\ \A u \in Task : u # m.task => rec'[u] = rec[u]
  <2>1. UNCHANGED rec \/ \E st : rec' = [rec EXCEPT ![m.task] = Tracked(rec[m.task], st)]
    BY DEF MapDone, QueueReport, HandlerFails, MappingFails, ExtractionFails
  <2>2. CASE UNCHANGED rec
    BY <2>2 DEF SubjectsStay
  <2>3. ASSUME NEW st, rec' = [rec EXCEPT ![m.task] = Tracked(rec[m.task], st)]
        PROVE  SubjectsStay /\ \A u \in Task : u # m.task => rec'[u] = rec[u]
    <3>1. PICK r : r = Tracked(rec[m.task], st)
      OBVIOUS
    <3>2. r.kind = rec[m.task].kind /\ r.ev = rec[m.task].ev /\ rec' = [rec EXCEPT ![m.task] = r]
      BY <1>2, <2>3, <3>1, UpdatesKeepSubject
    <3> QED BY <1>2, <3>2 DEF SubjectsStay, StoresTyped
  <2> QED BY <2>1, <2>2, <2>3
<1>5. \A n \in msgs' : \E k \in Held : Like(k, n)
  <2>1. msgs' = msgs \/ \E t : msgs' = msgs \cup {[m EXCEPT !.try = t]}
    BY DEF MapDone, QueueReport, HandlerFails, MappingFails, ExtractionFails, Again
  <2>2. \A t : Like(m, [m EXCEPT !.try = t])
    BY <1>2 DEF Like, Message
  <2>3. \A n \in msgs : n \in Held /\ Like(n, n)
    BY DEF Held, Like
  <2> QED BY <1>2, <2>1, <2>2, <2>3
<1>6. PICK h : h = IF MapDone(w) THEN [hand[w] EXCEPT !.pc = "report"] ELSE Idle
  OBVIOUS
<1>7. hand' = [hand EXCEPT ![w] = h]
  BY <1>6 DEF MapDone, QueueReport, HandlerFails
<1>8. h = Idle \/ (/\ \E k \in Held : Like(k, h.msg)
                   /\ h.pc \in {"extract", "wait", "raise"} <=> h.msg.kind = "extract")
  <2>1. CASE MapDone(w)
    <3>1. h.pc = "report" /\ h.msg = m
      BY <1>2, <1>6, <2>1 DEF Handler
    <3>2. m.kind # "extract"
      BY <1>1, <2>1 DEF TasksInv, MapDone
    <3> QED BY <1>2, <3>1, <3>2 DEF Like
  <2> QED BY <1>6, <2>1
<1>9. /\ HeldStay /\ HandsStay
      /\ \A s \in sending : s.by \in Worker => hand'[s.by].msg = hand[s.by].msg
  BY <1>1, <1>5, <1>7, <1>8, MessageMoves
<1>10. \A s \in sending : s.task \in Task /\ s.task # m.task
  BY <1>2, InUseFacts DEF TasksInv, Apart
<1>11. SendingStays
  BY <1>3, <1>4, <1>9, <1>10, SendingShrinks DEF EnqueueStays
<1>12. \A e \in Event : report[e].there => report'[e].there
  <2>1. \/ UNCHANGED report
        \/ report' = [report EXCEPT ![m.ev] = Reported(report[m.ev], m.full)]
        \/ \E stage : report' = [report EXCEPT ![m.ev].stage = stage]
    BY DEF MapDone, QueueReport, HandlerFails, MappingFails, ExtractionFails, InStage
  <2>2. report[m.ev].there => Reported(report[m.ev], m.full).there
    BY <1>2 DEF Reported, Report
  <2>3. CASE report' = [report EXCEPT ![m.ev] = Reported(report[m.ev], m.full)]
    BY <2>2, <2>3 DEF StoresTyped
  <2>4. ASSUME NEW stage, report' = [report EXCEPT ![m.ev].stage = stage]
        PROVE  \A e \in Event : report[e].there => report'[e].there
    BY <1>2, <2>4 DEF StoresTyped, Report
  <2> QED BY <2>1, <2>3, <2>4
<1>13. StoresStay /\ SweepStays
  BY <1>3, <1>12 DEF StoresStay, SweepStays
<1> QED BY <1>4, <1>9, <1>11, <1>13, TasksStay

\* A worker that dies gives its message back; the enqueue it waited for is gone.
LEMMA DeathStays ==
    ASSUME MappingInv, MappingInv', TasksInv, NEW w \in Worker, WorkerDies(w)
    PROVE  TasksInv'
<1> USE DEF MappingInv
<1>1. /\ hand[w] # Idle /\ msgs' = msgs \cup {hand[w].msg} /\ hand' = [hand EXCEPT ![w] = Idle]
      /\ sending' = {s \in sending : s.by # w}
      /\ UNCHANGED <<rec, report, touching, sweep, silenced, dropped>>
  BY DEF WorkerDies, ghost
<1>2. \A v \in Worker : hand'[v] = IF v = w THEN Idle ELSE hand[v]
  BY <1>1 DEF HandsTyped
<1>3. hand[w].msg \in Held /\ \A m : Like(m, m)
  BY <1>1 DEF Held, Busy, Like
<1>4. Busy' = Busy \ {w} /\ Held' \subseteq Held
  BY <1>1, <1>2, <1>3 DEF Busy, Held
<1>5. HeldStay /\ HandsStay
  BY <1>2, <1>3, <1>4 DEF HeldStay, HandsStay, TasksInv, Busy
<1>6. SendingStays
  BY <1>1, <1>2, SendingShrinks DEF EnqueueStays
<1>7. SubjectsStay /\ StoresStay /\ SweepStays
  BY <1>1 DEF SubjectsStay, StoresStay, SweepStays
<1> QED BY <1>5, <1>6, <1>7, TasksStay

\* Heartbeats, the clock and the research lane.
LEMMA TimeStays ==
    ASSUME MappingInv, MappingInv', TasksInv,
           \/ \E w \in Worker : TouchReads(w) \/ BeatStops(w)
           \/ \E t \in Task : TouchWrites(t) \/ LeaseLapses(t)
           \/ \E e \in Event : ResearchEnds(e)
    PROVE  TasksInv'
<1> USE DEF MappingInv
<1>1. /\ UNCHANGED <<msgs, sending, sweep, silenced, dropped>>
      /\ \A e \in Event : report'[e].there = report[e].there
  <2>1. UNCHANGED <<msgs, sending, sweep, silenced, dropped>>
    BY DEF TouchReads, BeatStops, TouchWrites, LeaseLapses, ResearchEnds, ghost
  <2>2. UNCHANGED report \/ \E e \in Event : ResearchEnds(e)
    BY DEF TouchReads, BeatStops, TouchWrites, LeaseLapses
  <2>3. ASSUME NEW e \in Event, ResearchEnds(e)
        PROVE  \A f \in Event : report'[f].there = report[f].there
    BY <2>3 DEF ResearchEnds, InStage, StoresTyped, Report
  <2> QED BY <2>1, <2>2, <2>3
<1>2. UNCHANGED hand \/ \E w \in Worker : BeatStops(w)
  BY DEF TouchReads, TouchWrites, LeaseLapses, ResearchEnds, work
<1>3. ASSUME NEW w \in Worker, BeatStops(w)
      PROVE  /\ HeldStay /\ HandsStay
             /\ \A v \in Worker : hand'[v].msg = hand[v].msg
  <2>1. hand[w] \in Handler /\ hand[w] # Idle /\ hand' = [hand EXCEPT ![w].beat = FALSE]
    BY <1>3, BusyHandsHandle DEF BeatStops
  <2>2. \A v \in Worker : /\ hand'[v].msg = hand[v].msg /\ hand'[v].pc = hand[v].pc
                          /\ v # w => hand'[v] = hand[v]
    BY <2>1 DEF HandsTyped, Handler
  <2>3. Busy' \subseteq Busy
    BY <2>1, <2>2 DEF Busy
  <2>4. Held' \subseteq Held /\ \A m : Like(m, m)
    BY <1>1, <2>2, <2>3 DEF Held, Busy, Like
  <2>5. HandsStay
    BY <2>2, <2>3 DEF HandsStay, TasksInv, Busy
  <2> QED BY <2>2, <2>4, <2>5 DEF HeldStay
<1>4. HeldStay /\ HandsStay /\ \A v \in Worker : hand'[v].msg = hand[v].msg
  BY <1>1, <1>2, <1>3, MessagesRest
<1>5. /\ SubjectsStay
      /\ \A t \in Task : t \notin touching => rec'[t].st = rec[t].st
  <2>1. CASE UNCHANGED rec
    BY <2>1 DEF SubjectsStay
  <2>2. ASSUME NEW t \in Task, TouchWrites(t) \/ LeaseLapses(t)
        PROVE  /\ \A u \in Task : rec'[u].kind = rec[u].kind /\ rec'[u].ev = rec[u].ev
               /\ \A u \in Task : u \notin touching => rec'[u].st = rec[u].st
    BY <2>2 DEF TouchWrites, LeaseLapses, StoresTyped, TaskRecord
  <2>3. UNCHANGED rec \/ \E t \in Task : TouchWrites(t) \/ LeaseLapses(t)
    BY DEF TouchReads, BeatStops, ResearchEnds
  <2> QED BY <2>1, <2>2, <2>3 DEF SubjectsStay
<1>6. \A s \in sending : s.task \in Task /\ s.task \notin touching
  BY InUseFacts DEF TasksInv, Apart
<1>7. SendingStays
  BY <1>1, <1>4, <1>5, <1>6, SendingShrinks DEF EnqueueStays
<1>8. \A t \in touching' : t \in touching \/ \E m \in Held : m.task = t
  BY InUseFacts DEF TouchReads, BeatStops, TouchWrites, LeaseLapses, ResearchEnds, work, Busy
<1>9. StoresStay /\ SweepStays
  BY <1>1, <1>8 DEF StoresStay, SweepStays
<1> QED BY <1>4, <1>5, <1>7, <1>9, TasksStay

\* A worker that has extracted an event again asks for its mapping.
LEMMA ExtractedStays ==
    ASSUME CallersApart, MappingInv, MappingInv', TasksInv, NEW w \in Worker, Extracted(w)
    PROVE  TasksInv'
<1> USE DEF MappingInv
<1> DEFINE m == hand[w].msg
<1>1. hand[w].pc = "extract" /\ w \in Busy /\ hand[w] \in Handler /\ m.ev \in Event /\ m \in Held
  BY InUseFacts, BusyHandsHandle DEF Extracted, Busy, Idle
<1>2. PICK copy : Enqueue(w, m.ev, copy, TRUE, TRUE)
  BY DEF Extracted
<1>3. PICK n : n = [by |-> w, task |-> Fresh, ev |-> m.ev, copy |-> copy,
                    force |-> TRUE, full |-> TRUE, pc |-> "save"]
  OBVIOUS
<1>4. /\ Spare # {} /\ sending' = sending \cup {n}
      /\ n.by = w /\ n.task = Fresh /\ n.pc = "save" /\ n.ev = m.ev /\ n.full
  BY <1>2, <1>3 DEF Enqueue
<1>5. /\ UNCHANGED <<rec, msgs, touching, sweep, silenced, dropped>>
      /\ \A e \in Event : report'[e].there = report[e].there
  BY <1>1 DEF Extracted, ghost, InStage, StoresTyped, Report
<1>6. PICK h : h = [hand[w] EXCEPT !.pc = "wait"]
  OBVIOUS
<1>7. hand' = [hand EXCEPT ![w] = h] /\ h.msg = m /\ h.pc = "wait"
  BY <1>1, <1>6 DEF Extracted, Handler
<1>8. m.kind = "extract"
  BY <1>1 DEF TasksInv
<1>9. \A k \in Held : Like(k, k)
  BY DEF Like
<1>10. /\ HeldStay /\ HandsStay
       /\ \A s \in sending : s.by \in Worker => hand'[s.by].msg = hand[s.by].msg
  BY <1>1, <1>5, <1>7, <1>8, <1>9, MessageMoves DEF Held
<1>11. \A k \in Held' : \E j \in Held : Like(j, k)
  BY <1>1, <1>5, <1>7, <1>9 DEF Held, Busy, HandsTyped
<1>12. w # "sweep"
  BY DEF CallersApart, Caller
<1>13. AskedBy(n)'
  BY <1>4, <1>7, <1>12 DEF AskedBy, HandsTyped
<1>14. Fresh \in Task /\ \A s \in sending : EnqueueStays(s)
  BY <1>4, <1>5, <1>10, FreshIsTask DEF EnqueueStays
<1>15. SendingStays
  BY <1>4, <1>5, <1>11, <1>13, <1>14, SendingGrows
<1>16. SubjectsStay /\ StoresStay /\ SweepStays
  BY <1>5 DEF SubjectsStay, StoresStay, SweepStays
<1> QED BY <1>10, <1>15, <1>16, TasksStay

\* Beat, or an operator, asks for a mapping: the task it was asked for ends first.
LEMMA AskStays ==
    ASSUME CallersApart, MappingInv, MappingInv', TasksInv,
           \/ \E e \in Event : Follow(e)
           \/ \E t \in Task : RetryMapping(t)
    PROVE  TasksInv'
<1> USE DEF MappingInv
<1>1. UNCHANGED <<hand, touching, sweep, silenced>> /\ dropped \subseteq dropped' /\ msgs' \subseteq msgs
  BY DEF Follow, RetryMapping, work, ghost, Revoked
<1>2. /\ HeldStay /\ HandsStay
      /\ \A s : hand'[s.by].msg = hand[s.by].msg
  BY <1>1, MessagesRest
<1>3. Held' \subseteq Held /\ \A k \in Held : Like(k, k)
  BY <1>1 DEF Held, Busy, Like
<1>4. /\ SubjectsStay
      /\ \A u \in Task : \/ rec'[u] = rec[u]
                         \/ rec[u].kind = "map" /\ rec[u].st = "retrying"
  <2>1. CASE UNCHANGED rec
    BY <2>1 DEF SubjectsStay
  <2>2. ASSUME NEW t \in Task, RetryMapping(t)
        PROVE  /\ \A u \in Task : rec'[u].kind = rec[u].kind /\ rec'[u].ev = rec[u].ev
               /\ \A u \in Task : \/ rec'[u] = rec[u]
                                  \/ rec[u].kind = "map" /\ rec[u].st = "retrying"
    <3>1. /\ rec[t].kind = "map" /\ rec[t].st \in {"failed", "retrying"} /\ rec[t] \in TaskRecord
          /\ \A u \in Task : rec'[u] = IF u = t THEN Cancelled(rec[t]) ELSE rec[u]
      BY <2>2 DEF RetryMapping, StoresTyped
    <3>2. rec[t].st = "failed" => Cancelled(rec[t]) = rec[t]
      BY DEF Cancelled, Active
    <3> QED BY <3>1, <3>2, UpdatesKeepSubject
  <2>3. UNCHANGED rec \/ \E t \in Task : RetryMapping(t)
    BY DEF Follow
  <2> QED BY <2>1, <2>2, <2>3 DEF SubjectsStay
<1>5. ASSUME NEW s \in sending PROVE EnqueueStays(s) /\ rec'[s.task] = rec[s.task]
  <2>1. s.task \in Task /\ Enqueued(s) /\ s \in Sending
    BY InUseFacts DEF TasksInv, CallsTyped
  <2>2. s.pc = "save" \/ s.pc = "publish"
    BY <2>1 DEF Sending
  <2>3. ~(rec[s.task].kind = "map" /\ rec[s.task].st = "retrying")
    BY <2>1, <2>2 DEF Enqueued, Active
  <2> QED BY <1>2, <1>4, <2>1, <2>3 DEF EnqueueStays
<1>6. SendingStays
  <2>1. CASE UNCHANGED sending
    BY <1>5, <2>1, SendingShrinks
  <2>2. ASSUME NEW by \in {"beat", "api"}, NEW e, NEW copy, NEW force, Enqueue(by, e, copy, force, FALSE)
        PROVE  SendingStays
    <3>1. PICK n : n = [by |-> by, task |-> Fresh, ev |-> e, copy |-> copy,
                        force |-> force, full |-> FALSE, pc |-> "save"]
      OBVIOUS
    <3>2. /\ Spare # {} /\ sending' = sending \cup {n}
          /\ n.by = by /\ n.task = Fresh /\ n.pc = "save" /\ ~n.full
      BY <2>2, <3>1 DEF Enqueue
    <3>3. AskedBy(n)'
      BY <3>2 DEF AskedBy, CallersApart, Caller
    <3>4. rec'[Fresh] = rec[Fresh]
      BY <1>4, <3>2, FreshIsApart DEF Active
    <3>5. \A k \in Held' : \E m \in Held : Like(m, k)
      BY <1>3
    <3> QED BY <1>1, <1>5, <3>2, <3>3, <3>4, <3>5, SendingGrows
  <2> QED BY <2>1, <2>2 DEF Follow, RetryMapping
<1>7. StoresStay /\ SweepStays
  <2>1. \A e \in Event : report[e].there => report'[e].there
    BY DEF Follow, RetryMapping, StoresTyped, Report
  <2> QED BY <1>1, <2>1 DEF StoresStay, SweepStays
<1> QED BY <1>2, <1>4, <1>6, <1>7, TasksStay

\* Tasks are cancelled, with their messages.
LEMMA CancelStays ==
    ASSUME MappingInv, MappingInv', TasksInv,
           UNCHANGED <<report, hand, touching, sending>>, msgs' \subseteq msgs,
           silenced \subseteq silenced', dropped \subseteq dropped',
           \A t \in Task : \/ rec'[t] = rec[t]
                           \/ /\ rec'[t].kind = rec[t].kind /\ rec'[t].ev = rec[t].ev
                              /\ \/ rec'[t].st = "cancelled" /\ rec[t].ev \in silenced' \cap dropped'
                                 \/ \A s \in sending : s.task # t,
           sweep' = sweep \/ (sweep' = NoSweep /\ \A s \in sending : s.by # "sweep")
    PROVE  TasksInv'
<1> USE DEF MappingInv
<1>1. /\ HeldStay /\ HandsStay
      /\ \A s : hand'[s.by].msg = hand[s.by].msg
  BY MessagesRest
<1>2. SubjectsStay
  BY DEF SubjectsStay
<1>3. ASSUME NEW s \in sending PROVE EnqueueStays(s)
  <2>1. s.task \in Task
    BY InUseFacts
  <2> QED BY <1>1, <2>1 DEF EnqueueStays
<1>4. SendingStays
  BY <1>3, SendingShrinks
<1>5. StoresStay /\ SweepStays
  BY DEF StoresStay, SweepStays
<1> QED BY <1>1, <1>2, <1>4, <1>5, TasksStay

\* An enqueue never shows as running or retrying.
LEMMA EnqueuesAreNotLeased ==
    ASSUME MappingInv, TasksInv, NEW s \in sending
    PROVE  ~(rec[s.task].kind = "map" /\ Leased(rec[s.task]))
<1>1. Enqueued(s) /\ s \in Sending
  BY DEF MappingInv, TasksInv, CallsTyped
<1>2. s.pc = "save" \/ s.pc = "publish"
  BY <1>1 DEF Sending
<1> QED BY <1>1, <1>2 DEF Enqueued, Active, Leased

LEMMA ClearStays ==
    ASSUME MappingInv, MappingInv', TasksInv,
           \/ \E t \in Task : CancelMapping(t)
           \/ \E kind \in Kind : ClearQueue(kind)
    PROVE  TasksInv'
<1> USE DEF MappingInv
<1>1. ASSUME NEW t \in Task, CancelMapping(t) PROVE TasksInv'
  <2>1. /\ UNCHANGED <<report, hand, touching, sending, sweep>> /\ msgs' \subseteq msgs
        /\ silenced' = silenced \cup {rec[t].ev} /\ dropped' = dropped \cup {rec[t].ev}
    BY <1>1 DEF CancelMapping, work, Revoked
  <2>2. \A u \in Task : rec'[u] = IF u = t THEN [rec[t] EXCEPT !.st = "cancelled", !.fresh = FALSE]
                                  ELSE rec[u]
    BY <1>1 DEF CancelMapping, Cancelled, StoresTyped
  <2>3. \A u \in Task : \/ rec'[u] = rec[u]
                        \/ /\ rec'[u].kind = rec[u].kind /\ rec'[u].ev = rec[u].ev
                           /\ rec'[u].st = "cancelled" /\ rec[u].ev \in silenced' \cap dropped'
    <3>1. rec[t] \in TaskRecord
      BY DEF StoresTyped
    <3>2. PICK r : r = [rec[t] EXCEPT !.st = "cancelled", !.fresh = FALSE]
      OBVIOUS
    <3>3. r.kind = rec[t].kind /\ r.ev = rec[t].ev /\ r.st = "cancelled"
      BY <3>1, <3>2 DEF TaskRecord
    <3> QED BY <2>1, <2>2, <3>2, <3>3
  <2> QED BY <2>1, <2>3, CancelStays
<1>2. ASSUME NEW kind \in Kind, ClearQueue(kind) PROVE TasksInv'
  <2>1. /\ UNCHANGED <<report, hand, touching, sending, sweep>> /\ msgs' \subseteq msgs
        /\ silenced \subseteq silenced' /\ dropped \subseteq dropped'
    BY <1>2 DEF ClearQueue, work
  <2>2. ASSUME NEW u \in Task
        PROVE  \/ rec'[u] = rec[u]
               \/ /\ rec'[u].kind = rec[u].kind /\ rec'[u].ev = rec[u].ev
                  /\ rec'[u].st = "cancelled" /\ rec[u].ev \in silenced' \cap dropped'
    BY <1>2 DEF ClearQueue, Cleared, StoresTyped, TaskRecord
  <2> QED BY <2>1, <2>2, CancelStays
<1> QED BY <1>1, <1>2

LEMMA SupersedeStays ==
    ASSUME MappingInv, MappingInv', TasksInv, Supersede
    PROVE  TasksInv'
<1> USE DEF MappingInv
<1>1. /\ UNCHANGED <<report, hand, touching, sending>> /\ sweep' = NoSweep /\ msgs' \subseteq msgs
      /\ silenced \subseteq silenced' /\ dropped \subseteq dropped'
  BY DEF Supersede, work, Revoked
<1>2. sweep # NoSweep /\ sweep.old \in Task /\ sweep.new \in Task
  BY InUseFacts DEF Supersede, NoSweep
<1>3. \A s \in sending : s.by # "sweep"
  BY DEF Supersede, CallersWait
<1>4. \A s \in sending : s.task # sweep.old /\ s.task # sweep.new
  BY <1>2, <1>3 DEF TasksInv, Apart
<1>5. PICK t \in {sweep.old, sweep.new} : rec' = [rec EXCEPT ![t] = Cancelled(rec[t])]
  BY DEF Supersede
<1>6. \A u \in Task : \/ rec'[u] = rec[u]
                      \/ u = t /\ rec'[u].kind = rec[u].kind /\ rec'[u].ev = rec[u].ev
  BY <1>2, <1>5, UpdatesKeepSubject DEF StoresTyped
<1> QED BY <1>1, <1>3, <1>4, <1>6, CancelStays

LEMMA ReconcileStays ==
    ASSUME CallersApart, MappingInv, MappingInv', TasksInv, NEW t \in Task, Reconcile(t)
    PROVE  TasksInv'
<1> USE DEF MappingInv
<1>1. /\ UNCHANGED <<report, hand, touching>> /\ sweep = NoSweep
      /\ silenced \subseteq silenced' /\ dropped \subseteq dropped'
      /\ rec[t].kind = "map" /\ Leased(rec[t])
  BY DEF Reconcile, work, Stale, ghost
<1>2. \A s \in sending : s.task # t
  BY <1>1, EnqueuesAreNotLeased
<1>3. CASE rec' = [rec EXCEPT ![t] = Cancelled(@)] /\ Revoked(t) /\ UNCHANGED <<sending, sweep>>
  <2>1. \A u \in Task : \/ rec'[u] = rec[u]
                        \/ u = t /\ rec'[u].kind = rec[u].kind /\ rec'[u].ev = rec[u].ev
    BY <1>3, UpdatesKeepSubject DEF StoresTyped
  <2>2. msgs' \subseteq msgs
    BY <1>3 DEF Revoked
  <2> QED BY <1>1, <1>2, <1>3, <2>1, <2>2, CancelStays
<1>4. CASE /\ Enqueue("sweep", rec[t].ev, event[rec[t].ev], TRUE, FALSE)
           /\ sweep' = [pc |-> "enqueue", old |-> t, new |-> Fresh]
           /\ UNCHANGED <<rec, msgs, ghost>>
  <2>1. PICK n : n = [by |-> "sweep", task |-> Fresh, ev |-> rec[t].ev, copy |-> event[rec[t].ev],
                      force |-> TRUE, full |-> FALSE, pc |-> "save"]
    OBVIOUS
  <2>2. /\ Spare # {} /\ sending' = sending \cup {n}
        /\ n.by = "sweep" /\ n.task = Fresh /\ n.pc = "save" /\ ~n.full /\ n.ev = rec[t].ev
    BY <1>4, <2>1 DEF Enqueue
  <2>3. sweep'.pc = "enqueue" /\ sweep'.old = t /\ sweep'.new = Fresh
    BY <1>4
  <2>4. /\ Fresh # t /\ \A m \in Held : m.task # Fresh
        /\ \A s \in sending : s.task # Fresh
    BY <1>1, <2>2, FreshIsApart DEF Leased, Active
  <2>5. AskedBy(n)'
    BY <1>4, <2>2, <2>3 DEF AskedBy, CallersApart, Caller
  <2>6. Held' = Held /\ \A k \in Held : Like(k, k)
    BY <1>1, <1>4 DEF Held, Busy, Like
  <2>7. HeldStay /\ HandsStay /\ \A s : hand'[s.by].msg = hand[s.by].msg
    BY <1>1, <1>4, MessagesRest
  <2>8. \A s \in sending : EnqueueStays(s)
    BY <1>4, <2>7 DEF EnqueueStays
  <2>9. SendingStays
    BY <1>1, <1>4, <2>2, <2>3, <2>4, <2>5, <2>6, <2>8, SendingGrows
  <2>10. SubjectsStay /\ StoresStay
    BY <1>1, <1>4 DEF SubjectsStay, StoresStay
  <2>11. SweepStays
    BY <1>1, <1>2, <1>4, <2>3, <2>4, <2>6 DEF SweepStays
  <2> QED BY <2>7, <2>9, <2>10, <2>11, TasksStay
<1> QED BY <1>3, <1>4 DEF Reconcile

\* A full refresh is asked for: its first task has a fresh id.
LEMMA FullResearchStays ==
    ASSUME MappingInv, MappingInv', TasksInv, NEW e \in Event, FullResearch(e)
    PROVE  TasksInv'
<1> USE DEF MappingInv
<1>1. /\ UNCHANGED <<hand, touching, sending, sweep, silenced, dropped>> /\ Spare # {}
      /\ report[e].there /\ \A f \in Event : report'[f].there = report[f].there
  BY DEF FullResearch, work, ghost, StoresTyped, Report, Begun
<1>2. /\ Fresh \in Task /\ Fresh \notin InUse
      /\ \A s \in sending : s.task # Fresh
      /\ sweep # NoSweep => Fresh # sweep.new
  BY <1>1, FreshIsApart
<1>3. /\ \A u \in Task : u # Fresh => rec'[u] = rec[u]
      /\ rec'[Fresh].kind = "extract" /\ rec'[Fresh].ev = e
  BY <1>2 DEF FullResearch, Recorded, StoresTyped
<1>4. SubjectsStay
  BY <1>2, <1>3 DEF SubjectsStay
<1>5. PICK n : n = [task |-> Fresh, ev |-> e, kind |-> "extract", force |-> TRUE,
                    full |-> TRUE, try |-> 1]
  OBVIOUS
<1>6. n.task = Fresh /\ n.ev = e /\ n.kind = "extract" /\ n.full
  BY <1>5
<1>7. msgs' \subseteq msgs \cup {n} /\ Busy' = Busy
  BY <1>1, <1>5 DEF FullResearch, Busy
<1>8. Fits(n)'
  BY <1>1, <1>2, <1>3, <1>6 DEF Fits
<1>9. HeldStay
  BY <1>1, <1>2, <1>6, <1>7, <1>8 DEF HeldStay, Held, Like
<1>10. HandsStay
  BY <1>1, <1>7 DEF HandsStay, TasksInv
<1>11. \A s \in sending : EnqueueStays(s)
  BY <1>1, <1>2, <1>3, InUseFacts DEF EnqueueStays
<1>12. SendingStays
  BY <1>1, <1>11, SendingShrinks
<1>13. StoresStay /\ SweepStays
  BY <1>1 DEF StoresStay, SweepStays
<1> QED BY <1>4, <1>9, <1>10, <1>12, <1>13, TasksStay

\* The event and the record of an enqueue are written.
LEMMA SaveStays ==
    ASSUME MappingInv, MappingInv', TasksInv, NEW s \in sending, SaveQueued(s)
    PROVE  TasksInv'
<1> USE DEF MappingInv
<1>1. PICK n : n = [s EXCEPT !.pc = "publish"]
  OBVIOUS
<1>2. s \in Sending /\ s.pc = "save" /\ s.task \in Task /\ Apart(s) /\ AskedBy(s)
  BY DEF SaveQueued, CallsTyped, Sending, TasksInv
<1>3. /\ n.by = s.by /\ n.task = s.task /\ n.ev = s.ev /\ n.full = s.full /\ n.pc = "publish"
      /\ sending' = (sending \ {s}) \cup {n}
      /\ UNCHANGED <<msgs, report, hand, touching, sweep, silenced, dropped>>
  BY <1>1, <1>2 DEF SaveQueued, Sending, work, ghost
<1>4. /\ \A u \in Task : u # s.task => rec'[u] = rec[u]
      /\ rec'[s.task].kind = "map" /\ rec'[s.task].ev = s.ev /\ rec'[s.task].st = "queued"
  BY <1>2 DEF SaveQueued, Recorded, StoresTyped
<1>5. Held' = Held /\ Busy' = Busy
  BY <1>3 DEF Held, Busy
<1>6. \A m \in Held' : Fits(m)'
  <2> SUFFICES ASSUME NEW m \in Held PROVE Fits(m)'
    BY <1>5
  <2>1. Fits(m) /\ m.task # s.task /\ m.task \in Task
    BY <1>2, InUseFacts DEF TasksInv, Apart
  <2> QED BY <1>3, <1>4, <2>1 DEF Fits
<1>7. sweep # NoSweep => /\ sweep.old \in Task /\ sweep.new \in Task /\ sweep.old # s.task
                         /\ (s.task = sweep.new => s.by = "sweep")
  BY <1>2, InUseFacts DEF Apart
<1>8. s.by = "sweep" => sweep # NoSweep /\ sweep.pc = "enqueue"
  BY DEF CallersWait, NoSweep
<1>9. ASSUME NEW u \in sending \ {s} PROVE Apart(u)' /\ Enqueued(u)' /\ AskedBy(u)'
  <2>1. Apart(u) /\ Enqueued(u) /\ AskedBy(u) /\ u.task \in Task /\ u.task # s.task
    BY InUseFacts DEF TasksInv
  <2>2. u.by = "sweep" => sweep # NoSweep
    BY DEF CallersWait, NoSweep
  <2> QED BY <1>3, <1>4, <1>5, <1>7, <2>1, <2>2 DEF Apart, Enqueued, AskedBy, Active
<1>10. Apart(n)' /\ Enqueued(n)' /\ AskedBy(n)'
  BY <1>2, <1>3, <1>4, <1>5, <1>7, <1>8 DEF Apart, Enqueued, AskedBy
<1>11. \A u, v \in sending' : u.task = v.task => u = v
  BY <1>3 DEF TasksInv
<1>12. sweep' # NoSweep => rec'[sweep'.old].kind = "map"
  BY <1>3, <1>4, <1>7 DEF TasksInv
<1>13. sweep'.pc = "cancel" => rec'[sweep'.new].kind = "map" /\ rec'[sweep'.new].ev = rec'[sweep'.old].ev
  <2>1. sweep.pc = "cancel" => sweep # NoSweep /\ s.task # sweep.new
    BY <1>7, <1>8 DEF NoSweep
  <2> QED BY <1>3, <1>4, <1>7, <2>1 DEF TasksInv
<1>14. \A w \in Busy' : hand'[w].pc \in {"extract", "wait", "raise"} <=> hand'[w].msg.kind = "extract"
  BY <1>3, <1>5 DEF TasksInv
<1> QED BY <1>3, <1>6, <1>9, <1>10, <1>11, <1>12, <1>13, <1>14 DEF TasksInv

\* An enqueue ends, or its process dies: whoever waited for it goes on.
LEMMA SendStays ==
    ASSUME CallersApart, MappingInv, MappingInv', TasksInv, NEW s \in sending,
           PublishMapping(s) \/ PublishFails(s) \/ SenderDies(s)
    PROVE  TasksInv'
<1> USE DEF MappingInv
<1>1. s \in Sending /\ s.task \in Task /\ s.ev \in Event /\ Apart(s) /\ Enqueued(s) /\ AskedBy(s)
  BY InUseFacts DEF CallsTyped, TasksInv
<1>2. /\ sending' = sending \ {s} /\ UNCHANGED <<report, touching>>
      /\ silenced \subseteq silenced' /\ dropped \subseteq dropped'
  BY DEF PublishMapping, PublishFails, SenderDies, work, ghost
<1>3. s.by \in Worker => s.by \in Busy /\ hand[s.by] \in Handler /\ hand[s.by].msg \in Held
                         /\ hand[s.by].pc = "wait"
  BY InUseFacts, BusyHandsHandle DEF CallersWait, Busy, Idle
<1>4. \A w \in Worker : \/ hand'[w] = hand[w]
                        \/ hand'[w] = Idle /\ w = s.by
                        \/ /\ w = s.by /\ hand'[w].pc = "raise" /\ hand'[w].msg = hand[w].msg
  <2>1. CASE UNCHANGED hand
    BY <2>1
  <2>2. CASE s.by \in Worker
    <3>1. PICK h : h = [hand[s.by] EXCEPT !.pc = "raise"]
      OBVIOUS
    <3>2. hand' = [hand EXCEPT ![s.by] = Idle] \/ hand' = [hand EXCEPT ![s.by] = h]
      BY <2>2, <3>1 DEF PublishMapping, PublishFails, SenderDies, Resume
    <3>3. h.pc = "raise" /\ h.msg = hand[s.by].msg
      BY <1>3, <2>2, <3>1 DEF Handler
    <3> QED BY <2>2, <3>2, <3>3 DEF HandsTyped
  <2> QED BY <2>1, <2>2 DEF PublishMapping, PublishFails, SenderDies, Resume, work
<1>5. HandsStay
  <2> SUFFICES ASSUME NEW w \in Busy'
               PROVE  hand'[w].pc \in {"extract", "wait", "raise"} <=> hand'[w].msg.kind = "extract"
    BY DEF HandsStay
  <2>1. w \in Worker /\ hand'[w] # Idle
    BY DEF Busy
  <2>2. CASE hand'[w] = hand[w]
    BY <2>1, <2>2 DEF TasksInv, Busy
  <2>3. CASE w = s.by /\ hand'[w].pc = "raise" /\ hand'[w].msg = hand[w].msg
    BY <1>3, <2>1, <2>3 DEF TasksInv
  <2> QED BY <1>4, <2>1, <2>2, <2>3
<1>6. \A u \in sending' : u \in sending /\ u # s /\ u.task # s.task /\ u.task \in Task
                          /\ (u.by \in Worker => u.by # s.by)
  BY <1>2, InUseFacts DEF TasksInv, CallersWait
<1>7. /\ SubjectsStay
      /\ \A t \in Task : rec'[t] = rec[t] \/ t = s.task \/ \E m \in Held : m.task = t
  <2>1. CASE UNCHANGED rec
    BY <2>1 DEF SubjectsStay
  <2>2. ASSUME NEW t \in Task, NEW st, rec' = [rec EXCEPT ![t] = Tracked(rec[t], st)],
               t = s.task \/ \E m \in Held : m.task = t
        PROVE  /\ SubjectsStay
               /\ \A u \in Task : rec'[u] = rec[u] \/ u = s.task \/ \E m \in Held : m.task = u
    <3>1. \A u \in Task : rec'[u] = rec[u] \/ (u = t /\ rec'[u].kind = rec[u].kind /\ rec'[u].ev = rec[u].ev)
      BY <2>2, UpdatesKeepSubject DEF StoresTyped
    <3> QED BY <2>2, <3>1 DEF SubjectsStay
  <2>3. CASE PublishMapping(s)
    <3>1. CASE s.by \in Worker
      <4>1. rec' = [rec EXCEPT ![hand[s.by].msg.task] = Tracked(rec[hand[s.by].msg.task], "completed")]
        BY <2>3, <3>1 DEF PublishMapping
      <4> QED BY <1>3, <2>2, <3>1, <4>1, InUseFacts
    <3> QED BY <2>1, <2>3, <3>1 DEF PublishMapping
  <2>4. CASE PublishFails(s)
    <3>1. rec' = [rec EXCEPT ![s.task] = Tracked(rec[s.task], "failed")]
      BY <2>4 DEF PublishFails
    <3> QED BY <1>1, <2>2, <3>1
  <2> QED BY <2>1, <2>3, <2>4 DEF SenderDies
<1>8. \A u \in sending' : EnqueueStays(u)
  <2> SUFFICES ASSUME NEW u \in sending' PROVE EnqueueStays(u)
    OBVIOUS
  <2>1. rec'[u.task] = rec[u.task]
    BY <1>6, <1>7 DEF TasksInv, Apart
  <2>2. u.by \in Worker => hand'[u.by] = hand[u.by]
    <3>1. CASE UNCHANGED hand
      BY <3>1
    <3>2. CASE s.by \in Worker /\ \E h : hand' = [hand EXCEPT ![s.by] = h]
      BY <1>6, <3>2 DEF HandsTyped
    <3> QED BY <3>1, <3>2 DEF PublishMapping, PublishFails, SenderDies, Resume, work
  <2> QED BY <2>1, <2>2 DEF EnqueueStays
<1>9. SendingStays
  BY <1>2, <1>8, SendingShrinks
<1>10. \A u \in sending' : s.by = "sweep" => u.by # "sweep"
  BY <1>2 DEF CallersWait
<1>11. SweepStays
  <2>1. CASE s.by # "sweep"
    BY <2>1 DEF PublishMapping, PublishFails, SenderDies, Resume, SweepStays
  <2>2. CASE s.by = "sweep"
    <3>1. s.by \notin Worker /\ sweep # NoSweep /\ sweep \in Replacing
      BY <2>2 DEF CallersApart, Caller, CallersWait, NoSweep, CallsTyped
    <3>2. CASE sweep' = NoSweep
      BY <1>10, <2>2, <3>2 DEF SweepStays
    <3>3. CASE PublishMapping(s)
      <4>1. s.pc = "publish" /\ sweep' = [sweep EXCEPT !.pc = "cancel"]
        BY <2>2, <3>3 DEF PublishMapping, Resume
      <4>2. sweep'.old = sweep.old /\ sweep'.new = sweep.new
        BY <3>1, <4>1 DEF Replacing
      <4>3. rec[sweep.new].kind = "map" /\ rec[sweep.new].ev = rec[sweep.old].ev
        BY <1>1, <2>2, <4>1 DEF Enqueued, AskedBy
      <4> QED BY <1>10, <2>2, <3>1, <4>2, <4>3 DEF SweepStays
    <3>4. CASE PublishFails(s) \/ SenderDies(s)
      <4>1. sweep' = NoSweep
        BY <2>2, <3>4 DEF PublishFails, SenderDies, Resume
      <4> QED BY <3>2, <4>1
    <3> QED BY <3>3, <3>4
  <2> QED BY <2>1, <2>2
<1>12. HeldStay
  <2>1. \A w \in Busy' : hand'[w].msg \in Held
    BY <1>3, <1>4, InUseFacts DEF Busy
  <2>2. \A k \in Held : Like(k, k)
    BY DEF Like
  <2>3. CASE msgs' \subseteq msgs
    BY <2>1, <2>2, <2>3 DEF HeldStay, Held
  <2>4. CASE ~(msgs' \subseteq msgs)
    <3>1. PublishMapping(s) /\ s.pc = "publish" /\ rec[s.task].st # "cancelled"
      BY <2>4 DEF PublishMapping, PublishFails, SenderDies
    <3>2. PICK n : n = [task |-> s.task, ev |-> s.ev, kind |-> "map",
                        force |-> s.force, full |-> s.full, try |-> 1]
      OBVIOUS
    <3>3. /\ n.task = s.task /\ n.ev = s.ev /\ n.kind = "map" /\ n.full = s.full
          /\ msgs' = msgs \cup {n}
      BY <3>1, <3>2 DEF PublishMapping
    <3>4. rec'[s.task].kind = "map" /\ rec'[s.task].ev = s.ev
      BY <1>1, <1>7, <3>1, InUseFacts DEF Enqueued, SubjectsStay
    <3>5. s.full => report'[s.ev].there
      <4>1. s.full => hand[s.by].msg.ev = s.ev /\ hand[s.by].msg \in Held /\ hand[s.by].msg.full
        BY <1>1, <1>3 DEF AskedBy, TasksInv, Fits
      <4> QED BY <1>2, <4>1 DEF TasksInv, Fits
    <3>6. s.full /\ sweep' # NoSweep => s.task # sweep'.new
      <4>1. s.full => s.by \in Worker /\ s.by # "sweep"
        BY <1>1 DEF AskedBy, CallersApart, Caller
      <4>2. s.full => UNCHANGED sweep
        BY <3>1, <4>1 DEF PublishMapping, Resume
      <4> QED BY <1>1, <4>1, <4>2 DEF Apart
    <3>7. Fits(n)'
      BY <3>3, <3>4, <3>5, <3>6 DEF Fits
    <3>8. \A u \in sending' : u.task # n.task
      BY <1>6, <3>3
    <3> QED BY <2>1, <2>2, <3>3, <3>7, <3>8 DEF HeldStay, Held
  <2> QED BY <2>3, <2>4
<1>13. StoresStay
  BY <1>2 DEF StoresStay
<1> QED BY <1>5, <1>7, <1>9, <1>11, <1>12, <1>13, TasksStay

LEMMA TasksInductive ==
    ASSUME CallersApart, MappingInv, MappingInv', TasksInv, [Next]_mappingVars
    PROVE  TasksInv'
<1>1. CASE UNCHANGED mappingVars
  <2>1. UNCHANGED <<rec, msgs, report, hand, touching, sending, sweep, silenced, dropped>>
    BY <1>1 DEF mappingVars, work, ghost
  <2> QED BY <2>1, CancelStays
<1>2. ASSUME NEW s \in sending, Send(s) \/ PublishFails(s) \/ SenderDies(s) PROVE TasksInv'
  BY <1>2, SaveStays, SendStays DEF Send
<1>3. ASSUME NEW w \in Worker, Handle(w) \/ HandlerFails(w) \/ WorkerDies(w) PROVE TasksInv'
  BY <1>3, HandlerStays, ExtractedStays, DeathStays DEF Handle
<1>4. ASSUME NEW w \in Worker, NEW m \in msgs, Deliver(w, m) PROVE TasksInv'
  BY <1>4, DeliverStays
<1>5. ASSUME NEW w \in Worker, TouchReads(w) \/ BeatStops(w) PROVE TasksInv'
  BY <1>5, TimeStays
<1>6. ASSUME NEW t \in Task, TouchWrites(t) \/ LeaseLapses(t) PROVE TasksInv'
  BY <1>6, TimeStays
<1>7. ASSUME NEW t \in Task, Reconcile(t) \/ CancelMapping(t) \/ RetryMapping(t) PROVE TasksInv'
  BY <1>7, ReconcileStays, ClearStays, AskStays
<1>8. ASSUME NEW e \in Event, Follow(e) \/ FullResearch(e) \/ ResearchEnds(e) PROVE TasksInv'
  BY <1>8, AskStays, FullResearchStays, TimeStays
<1>9. ASSUME NEW kind \in {"extract", "map"}, ClearQueue(kind) PROVE TasksInv'
  BY <1>9, ClearStays DEF Kind
<1>10. CASE Supersede
  BY <1>10, SupersedeStays
<1> QED BY <1>1, <1>2, <1>3, <1>4, <1>5, <1>6, <1>7, <1>8, <1>9, <1>10 DEF Next

\* A message is always of the event and the kind that the record of its task shows, no two
\* enqueues share an id, and an id is given again only when nothing holds it any more: what
\* a revocation by task id relies on (worker.py, enqueue_asset_mapping,
\* services/model_queue.py, record_model_task).
THEOREM TasksAreOfTheirRecords ==
    ASSUME CallersApart
    PROVE  Spec => []TasksInv
<1>1. Init => TasksInv
  BY TasksInit
<1>2. MappingInv /\ MappingInv' /\ TasksInv /\ [Next]_mappingVars => TasksInv'
  BY TasksInductive
<1> QED BY <1>1, <1>2, MappingInvariant, PTL DEF Spec

-----------------------------------------------------------------------------
\* A message of the full refresh of an event.
Whole(m, e) == m.ev = e /\ m.full

\* Its refresh is under way, it is the extraction the report knows, and it was not cancelled.
Live(m) ==
  /\ rec[m.task].st # "cancelled" /\ report[m.ev].stage \in {"extract", "mapping"}
  /\ m.kind = "extract" => report[m.ev].task = m.task

\* There is one such message, waiting or being handled, and none without a refresh.
Alone(e) ==
  /\ \A m, n \in msgs : Whole(m, e) /\ Whole(n, e) => m = n
  /\ \A v, w \in Busy : Whole(hand[v].msg, e) /\ Whole(hand[w].msg, e) => v = w
  /\ \A m \in msgs, w \in Busy : ~(Whole(m, e) /\ Whole(hand[w].msg, e))
CarriedOnce(e) ==
  /\ Alone(e)
  /\ \A m \in Held : Whole(m, e) => Live(m)
  /\ report[e].stage \in {"extract", "mapping"} => \E m \in Held : Whole(m, e)

RefreshInv == \A e \in Event \ dropped : CarriedOnce(e)

\* A step that leaves the message of a refresh where it is.
Rests(e) ==
  /\ \A m \in msgs \cup msgs' : Whole(m, e) => m \in msgs /\ m \in msgs'
  /\ \A w \in Worker : (w \in Busy /\ Whole(hand[w].msg, e)) \/ (w \in Busy' /\ Whole(hand'[w].msg, e))
                       => w \in Busy /\ w \in Busy' /\ hand'[w].msg = hand[w].msg
  /\ report'[e].task = report[e].task
  /\ report'[e].stage \in {"extract", "mapping"} <=> report[e].stage \in {"extract", "mapping"}
  /\ \A m \in Held : Whole(m, e) /\ rec'[m.task].st = "cancelled" => rec[m.task].st = "cancelled"

LEMMA RefreshRests ==
    ASSUME NEW e \in Event, CarriedOnce(e), Rests(e)
    PROVE  CarriedOnce(e)'
<1>1. /\ \A m \in msgs' : Whole(m, e) => m \in msgs
      /\ \A w \in Busy' : Whole(hand'[w].msg, e) => w \in Busy /\ hand'[w].msg = hand[w].msg
  BY DEF Rests, Busy
<1>2. \A m \in Held' : Whole(m, e) => m \in Held
  BY <1>1 DEF Held
<1>3. \A m \in Held : Whole(m, e) => m \in Held'
  BY DEF Held, Rests, Busy
<1>4. Alone(e)'
  BY <1>1 DEF CarriedOnce, Alone
<1>5. \A m \in Held' : Whole(m, e) => Live(m)'
  BY <1>2 DEF CarriedOnce, Live, Rests, Whole
<1>6. report'[e].stage \in {"extract", "mapping"} => \E m \in Held' : Whole(m, e)
  BY <1>3 DEF CarriedOnce, Rests
<1> QED BY <1>4, <1>5, <1>6 DEF CarriedOnce

\* The message waits, a worker handles it, or it is gone with its refresh.
LEMMA RefreshWaits ==
    ASSUME NEW e \in Event, NEW n \in msgs', Whole(n, e), Live(n)',
           \A k \in msgs' : Whole(k, e) => k = n,
           \A v \in Busy' : ~Whole(hand'[v].msg, e)
    PROVE  CarriedOnce(e)'
BY DEF CarriedOnce, Alone, Held

LEMMA RefreshIsHandled ==
    ASSUME NEW e \in Event, NEW w \in Busy', Whole(hand'[w].msg, e), Live(hand[w].msg)',
           \A k \in msgs' : ~Whole(k, e),
           \A v \in Busy' : Whole(hand'[v].msg, e) => v = w
    PROVE  CarriedOnce(e)'
BY DEF CarriedOnce, Alone, Held

LEMMA RefreshIsOver ==
    ASSUME NEW e \in Event, report'[e].stage \notin {"extract", "mapping"},
           \A k \in msgs' : ~Whole(k, e), \A v \in Busy' : ~Whole(hand'[v].msg, e)
    PROVE  CarriedOnce(e)'
BY DEF CarriedOnce, Alone, Held

\* Only cancellations cancel.
NothingCancelled == \A t \in Task : rec'[t].st = "cancelled" => rec[t].st = "cancelled"

LEMMA UpdatesDoNotCancel ==
    ASSUME MappingInv, NEW t \in Task,
           UNCHANGED rec \/ \E st \in Status \ {"cancelled"} : rec' = [rec EXCEPT ![t] = Tracked(@, st)]
    PROVE  NothingCancelled
BY DEF MappingInv, StoresTyped, TaskRecord, Tracked, NothingCancelled

\* Handlers that go on, calls, beats and the clock: the refresh rests.
LEMMA RefreshRestsInQuiet ==
    ASSUME MappingInv, RefreshInv, msgs' = msgs, dropped' = dropped, NothingCancelled,
           \A w \in Worker : (w \in Busy' <=> w \in Busy) /\ (w \in Busy => hand'[w].msg = hand[w].msg),
           \A e \in Event : /\ report'[e].task = report[e].task
                            /\ report'[e].stage # report[e].stage =>
                                  report[e].stage = "research" /\ report'[e].stage = "none"
    PROVE  RefreshInv'
<1> SUFFICES ASSUME NEW e \in Event \ dropped PROVE CarriedOnce(e)'
  BY DEF RefreshInv
<1>1. \A m \in Held : m.task \in Task
  BY InUseFacts
<1>2. Rests(e)
  BY <1>1 DEF Rests, NothingCancelled
<1> QED BY <1>2, RefreshRests DEF RefreshInv

LEMMA QuietKeepsRefresh ==
    ASSUME CallersApart, MappingInv, TasksInv, RefreshInv,
           \/ \E s \in sending : SaveQueued(s) \/ PublishFails(s) \/ SenderDies(s)
           \/ \E w \in Worker : MapDone(w) \/ TouchReads(w) \/ BeatStops(w)
           \/ \E t \in Task : TouchWrites(t) \/ LeaseLapses(t)
           \/ \E e \in Event : Follow(e) \/ ResearchEnds(e)
    PROVE  RefreshInv'
<1> USE DEF MappingInv
<1>1. msgs' = msgs /\ dropped' = dropped
  BY DEF SaveQueued, PublishFails, SenderDies, MapDone, TouchReads, BeatStops, TouchWrites,
         LeaseLapses, Follow, ResearchEnds, ghost
<1>2. \A e \in Event : /\ report'[e].task = report[e].task
                       /\ report'[e].stage # report[e].stage =>
                             report[e].stage = "research" /\ report'[e].stage = "none"
  <2>1. UNCHANGED report \/ \E e \in Event : Follow(e) \/ ResearchEnds(e)
    BY DEF SaveQueued, PublishFails, SenderDies, MapDone, TouchReads, BeatStops, TouchWrites, LeaseLapses
  <2>2. ASSUME NEW e \in Event, Follow(e) \/ ResearchEnds(e)
        PROVE  \A f \in Event : /\ report'[f].task = report[f].task
                                /\ report'[f].stage # report[f].stage =>
                                      report[f].stage = "research" /\ report'[f].stage = "none"
    <3>1. report[e] \in Report
      BY DEF StoresTyped
    <3>2. CASE Follow(e)
      <4>1. UNCHANGED report \/ report' = [report EXCEPT ![e].there = TRUE]
        BY <3>2 DEF Follow
      <4> QED BY <3>1, <4>1 DEF StoresTyped, Report
    <3>3. CASE ResearchEnds(e)
      BY <3>1, <3>3 DEF ResearchEnds, InStage, StoresTyped, Report
    <3> QED BY <2>2, <3>2, <3>3
  <2> QED BY <2>1, <2>2
<1>3. NothingCancelled
  <2>1. CASE UNCHANGED rec
    BY <2>1 DEF NothingCancelled
  <2>2. ASSUME NEW s \in sending, SaveQueued(s) \/ PublishFails(s) PROVE NothingCancelled
    <3>1. s.task \in Task
      BY InUseFacts
    <3>2. CASE SaveQueued(s)
      BY <3>1, <3>2 DEF SaveQueued, Recorded, StoresTyped, NothingCancelled
    <3>3. CASE PublishFails(s)
      BY <3>1, <3>3, UpdatesDoNotCancel DEF PublishFails, Status
    <3> QED BY <2>2, <3>2, <3>3
  <2>3. ASSUME NEW t \in Task, TouchWrites(t) \/ LeaseLapses(t) PROVE NothingCancelled
    BY <2>3 DEF TouchWrites, LeaseLapses, StoresTyped, TaskRecord, NothingCancelled
  <2> QED BY <2>1, <2>2, <2>3 DEF SenderDies, MapDone, TouchReads, BeatStops, Follow, ResearchEnds
<1>4. \A w \in Worker : (w \in Busy' <=> w \in Busy) /\ (w \in Busy => hand'[w].msg = hand[w].msg)
  <2>1. CASE UNCHANGED hand
    BY <2>1 DEF Busy
  <2>2. ASSUME NEW w \in Worker, NEW h, hand' = [hand EXCEPT ![w] = h], h # Idle, hand[w] # Idle,
               h.msg = hand[w].msg
        PROVE  \A v \in Worker : (v \in Busy' <=> v \in Busy) /\ (v \in Busy => hand'[v].msg = hand[v].msg)
    BY <2>2 DEF HandsTyped, Busy
  <2>3. ASSUME NEW w \in Worker, MapDone(w) \/ BeatStops(w)
        PROVE  \A v \in Worker : (v \in Busy' <=> v \in Busy) /\ (v \in Busy => hand'[v].msg = hand[v].msg)
    <3>1. hand[w] \in Handler /\ hand[w] # Idle
      BY <2>3, BusyHandsHandle DEF MapDone, BeatStops, Idle
    <3>2. PICK h : h = IF MapDone(w) THEN [hand[w] EXCEPT !.pc = "report"] ELSE [hand[w] EXCEPT !.beat = FALSE]
      OBVIOUS
    <3>3. h \in Handler /\ h.msg = hand[w].msg
      BY <3>1, <3>2 DEF Handler
    <3>4. hand' = [hand EXCEPT ![w] = h] /\ h # Idle
      BY <2>3, <3>2, <3>3 DEF MapDone, BeatStops, Handler, Idle
    <3> QED BY <2>2, <3>1, <3>3, <3>4
  <2>4. ASSUME NEW s \in sending, PublishFails(s), s.by \in Worker
        PROVE  \A v \in Worker : (v \in Busy' <=> v \in Busy) /\ (v \in Busy => hand'[v].msg = hand[v].msg)
    <3>1. hand[s.by] \in Handler
      BY <2>4, BusyHandsHandle DEF CallersWait
    <3>2. PICK h : h = [hand[s.by] EXCEPT !.pc = "raise"]
      OBVIOUS
    <3>3. h \in Handler /\ h.msg = hand[s.by].msg
      BY <3>1, <3>2, HandlersStayTyped DEF Handler
    <3>4. hand' = [hand EXCEPT ![s.by] = h] /\ h # Idle /\ hand[s.by] # Idle
      <4>1. hand' = [hand EXCEPT ![s.by] = h]
        BY <2>4, <3>2 DEF PublishFails, Resume
      <4>2. h.pc # "idle" /\ hand[s.by].pc # "idle"
        BY <3>1, <3>3 DEF Handler
      <4> QED BY <4>1, <4>2 DEF Idle
    <3> QED BY <2>2, <2>4, <3>3, <3>4
  <2> QED BY <2>1, <2>3, <2>4 DEF SaveQueued, PublishFails, SenderDies, TouchReads,
             TouchWrites, LeaseLapses, Follow, ResearchEnds, Resume, work
<1> QED BY <1>1, <1>2, <1>3, <1>4, RefreshRestsInQuiet

\* A message whose task is cancelled is not of a refresh that may still end.
LEMMA CancelKeepsRefresh ==
    ASSUME MappingInv, TasksInv, RefreshInv, UNCHANGED <<hand, report>>,
           dropped \subseteq dropped', msgs' \subseteq msgs, NEW G \in SUBSET Task,
           \A m \in msgs : m.task \notin G => m \in msgs',
           \A t \in Task \ G : rec'[t] = rec[t],
           \A m \in Held : m.full /\ m.task \in G => m.ev \in dropped'
    PROVE  RefreshInv'
<1> SUFFICES ASSUME NEW e \in Event \ dropped' PROVE CarriedOnce(e)'
  BY DEF RefreshInv
<1>1. \A m \in Held : Whole(m, e) => m.task \in Task \ G
  BY InUseFacts DEF Whole
<1>2. Busy' = Busy /\ msgs \subseteq Held
  BY DEF Busy, Held
<1>3. Rests(e)
  BY <1>1, <1>2 DEF Rests
<1> QED BY <1>3, RefreshRests DEF RefreshInv

LEMMA CancellationsKeepRefresh ==
    ASSUME MappingInv, TasksInv, RefreshInv,
           \/ \E t \in Task : Reconcile(t) \/ CancelMapping(t) \/ RetryMapping(t)
           \/ \E kind \in Kind : ClearQueue(kind)
           \/ Supersede
    PROVE  RefreshInv'
<1> USE DEF MappingInv
<1>1. UNCHANGED <<hand, report>> /\ dropped \subseteq dropped' /\ msgs' \subseteq msgs
  BY DEF Reconcile, CancelMapping, RetryMapping, ClearQueue, Supersede, work, ghost, Revoked
<1>2. \A m \in Held : rec[m.task].ev = m.ev /\ rec[m.task].kind = m.kind /\ m.task \in Task
                      /\ (m.full /\ sweep # NoSweep => m.task # sweep.new)
  BY InUseFacts DEF TasksInv, Fits
<1>3. ASSUME NEW t \in Task, rec' = [rec EXCEPT ![t] = Cancelled(@)], Revoked(t),
             rec[t].ev \in dropped' \/ (sweep # NoSweep /\ t = sweep.new)
      PROVE  RefreshInv'
  <2>1. \A u \in Task \ {t} : rec'[u] = rec[u]
    BY <1>3 DEF StoresTyped
  <2>2. \A m \in msgs : m.task \notin {t} => m \in msgs'
    BY <1>3 DEF Revoked
  <2>3. \A m \in Held : m.full /\ m.task \in {t} => m.ev \in dropped'
    BY <1>2, <1>3
  <2> QED BY <1>1, <2>1, <2>2, <2>3, CancelKeepsRefresh
<1>4. ASSUME NEW t \in Task, CancelMapping(t) \/ RetryMapping(t) PROVE RefreshInv'
  BY <1>3, <1>4 DEF CancelMapping, RetryMapping
<1>5. ASSUME NEW t \in Task, Reconcile(t) PROVE RefreshInv'
  <2>1. CASE rec' = [rec EXCEPT ![t] = Cancelled(@)] /\ Revoked(t) /\ dropped' = dropped \cup {rec[t].ev}
    BY <1>3, <2>1
  <2>2. CASE UNCHANGED <<rec, msgs, ghost>>
    <3>1. PICK G \in SUBSET Task : G = {}
      OBVIOUS
    <3> QED BY <1>1, <2>2, <3>1, CancelKeepsRefresh DEF ghost
  <2> QED BY <1>5, <2>1, <2>2 DEF Reconcile
<1>6. CASE Supersede
  <2>1. sweep # NoSweep /\ sweep.old \in Task /\ sweep.new \in Task
    BY <1>6, InUseFacts DEF Supersede, NoSweep
  <2> QED BY <1>3, <1>6, <2>1 DEF Supersede
<1>7. ASSUME NEW kind \in Kind, ClearQueue(kind) PROVE RefreshInv'
  <2>1. PICK G : G = {u \in Task : rec[u].kind = kind}
    OBVIOUS
  <2>2. \A u \in Task \ G : rec'[u] = rec[u]
    BY <1>7, <2>1 DEF ClearQueue, Cleared, StoresTyped
  <2>3. \A m \in msgs : m.task \notin G => m \in msgs'
    BY <1>2, <1>7, <2>1 DEF ClearQueue, Held
  <2>4. \A m \in Held : m.full /\ m.task \in G => m.ev \in dropped'
    BY <1>2, <1>7, <2>1 DEF ClearQueue
  <2> QED BY <1>1, <2>1, <2>2, <2>3, <2>4, CancelKeepsRefresh
<1> QED BY <1>4, <1>5, <1>6, <1>7

\* A worker takes a message: it has not been cancelled, and is that of the refresh.
LEMMA DeliverKeepsRefresh ==
    ASSUME MappingInv, TasksInv, RefreshInv, NEW w \in Worker, NEW m \in msgs, Deliver(w, m)
    PROVE  RefreshInv'
<1> USE DEF MappingInv
<1>1. /\ m \in Held /\ m \in Message /\ m.task \in Task /\ m.ev \in Event /\ rec[m.task] \in TaskRecord
      /\ Fits(m) /\ report[m.ev] \in Report
  BY InUseFacts DEF Held, StoresTyped, TasksInv
<1>2. hand[w] = Idle /\ w \notin Busy /\ msgs' = msgs \ {m} /\ dropped' = dropped
  <2>1. hand[w] = Idle /\ msgs' = msgs \ {m} /\ dropped' = dropped
    BY DEF Deliver, DeliverMapping, DeliverExtraction, ghost
  <2> QED BY <2>1 DEF Busy
<1>3. m.kind = "extract" => m.full
  BY <1>1 DEF Fits
<1>4. NothingCancelled
  BY <1>1, UpdatesDoNotCancel DEF Deliver, DeliverMapping, DeliverExtraction, Take, Status
<1>5. \A v \in Worker : v # w => hand'[v] = hand[v]
  BY DEF Deliver, DeliverMapping, DeliverExtraction, Take, HandsTyped
<1>6. hand'[w] = hand[w] \/ hand'[w].msg = m
  BY DEF Deliver, DeliverMapping, DeliverExtraction, Take, HandsTyped
<1>7. /\ \A e \in Event \ {m.ev} : report'[e] = report[e]
      /\ report'[m.ev].task = report[m.ev].task
      /\ ~m.full => report'[m.ev].stage = report[m.ev].stage
  BY <1>1, <1>3 DEF Deliver, DeliverMapping, DeliverExtraction, InStage, StoresTyped, Report
<1> SUFFICES ASSUME NEW e \in Event \ dropped PROVE CarriedOnce(e)'
  BY <1>2 DEF RefreshInv
<1>8. CarriedOnce(e)
  BY DEF RefreshInv
<1>9. CASE ~Whole(m, e)
  <2>1. \A k \in msgs \cup msgs' : Whole(k, e) => k \in msgs /\ k \in msgs'
    BY <1>2, <1>9
  <2>2. \A v \in Worker : (v \in Busy /\ Whole(hand[v].msg, e)) \/ (v \in Busy' /\ Whole(hand'[v].msg, e))
                          => v \in Busy /\ v \in Busy' /\ hand'[v].msg = hand[v].msg
    BY <1>2, <1>5, <1>6, <1>9 DEF Busy
  <2>3. report'[e].task = report[e].task /\ report'[e].stage = report[e].stage
    BY <1>7, <1>9 DEF Whole
  <2>4. \A k \in Held : Whole(k, e) /\ rec'[k.task].st = "cancelled" => rec[k.task].st = "cancelled"
    BY <1>4, InUseFacts DEF NothingCancelled
  <2>5. Rests(e)
    BY <2>1, <2>2, <2>3, <2>4 DEF Rests
  <2> QED BY <1>8, <2>5, RefreshRests
<1>10. CASE Whole(m, e)
  <2>1. Live(m) /\ m.ev = e /\ m.full
    BY <1>1, <1>8, <1>10 DEF CarriedOnce, Whole
  <2>2. PICK pc \in {"map", "report", "extract"}, stage \in {"extract", "mapping"} :
           Take(w, m, pc) /\ report' = InStage(m.ev, stage)
    BY <2>1 DEF Deliver, DeliverMapping, DeliverExtraction, Live
  <2>3. hand'[w].pc = pc /\ hand'[w].msg = m
    BY <2>2 DEF Take, HandsTyped
  <2>4. w \in Busy'
    BY <2>3 DEF Busy, Idle
  <2>5. report'[e].stage = stage /\ report'[e].task = report[e].task
    BY <1>1, <2>1, <2>2 DEF InStage, StoresTyped, Report
  <2>6. Live(hand[w].msg)'
    BY <1>1, <1>4, <2>1, <2>3, <2>5 DEF Live, NothingCancelled
  <2>7. \A k \in msgs' : ~Whole(k, e)
    BY <1>2, <1>8, <1>10 DEF CarriedOnce, Alone
  <2>8. \A v \in Busy' : Whole(hand'[v].msg, e) => v = w
    BY <1>5, <1>8, <1>10 DEF CarriedOnce, Alone, Busy
  <2> QED BY <1>10, <2>3, <2>4, <2>6, <2>7, <2>8, RefreshIsHandled
<1> QED BY <1>9, <1>10

\* The others' messages, while worker w does something with its own.
LEMMA OthersRest ==
    ASSUME MappingInv, NEW w \in Busy, NEW e \in Event, ~Whole(hand[w].msg, e), CarriedOnce(e),
           NothingCancelled, msgs \subseteq msgs',
           \A n \in msgs' \ msgs : ~Whole(n, e),
           NEW h, hand' = [hand EXCEPT ![w] = h], h = Idle \/ h.msg = hand[w].msg,
           report'[e].task = report[e].task, report'[e].stage = report[e].stage
    PROVE  CarriedOnce(e)'
<1> USE DEF MappingInv
<1>1. \A v \in Worker : hand'[v] = IF v = w THEN h ELSE hand[v]
  BY DEF HandsTyped
<1>2. \A v \in Worker : (v \in Busy /\ Whole(hand[v].msg, e)) \/ (v \in Busy' /\ Whole(hand'[v].msg, e))
                        => v \in Busy /\ v \in Busy' /\ hand'[v].msg = hand[v].msg
  BY <1>1 DEF Busy
<1>3. \A k \in Held : Whole(k, e) /\ rec'[k.task].st = "cancelled" => rec[k.task].st = "cancelled"
  BY InUseFacts DEF NothingCancelled
<1>4. Rests(e)
  BY <1>2, <1>3 DEF Rests
<1> QED BY <1>4, RefreshRests

LEMMA HandlerKeepsRefresh ==
    ASSUME MappingInv, TasksInv, RefreshInv, NEW w \in Worker,
           QueueReport(w) \/ HandlerFails(w) \/ Extracted(w) \/ WorkerDies(w)
    PROVE  RefreshInv'
<1> USE DEF MappingInv
<1> DEFINE m == hand[w].msg
<1>1. w \in Busy
  <2>1. hand[w] # Idle \/ hand[w].pc \in {"map", "report", "extract", "raise"}
    BY DEF QueueReport, HandlerFails, Extracted, WorkerDies
  <2> QED BY <2>1 DEF Busy, Idle
<1>2. /\ m \in Held /\ m \in Message /\ m.task \in Task /\ m.ev \in Event /\ rec[m.task] \in TaskRecord
      /\ hand[w] \in Handler /\ report[m.ev] \in Report /\ Fits(m) /\ m.kind \in Kind
  BY <1>1, InUseFacts, BusyHandsHandle DEF Busy, StoresTyped, TasksInv
<1>3. dropped' = dropped
  BY DEF QueueReport, HandlerFails, Extracted, WorkerDies, ghost
<1>4. NothingCancelled
  <2>1. UNCHANGED rec \/ \E st \in Status \ {"cancelled"} : rec' = [rec EXCEPT ![m.task] = Tracked(@, st)]
    BY DEF QueueReport, HandlerFails, ExtractionFails, MappingFails, Extracted, WorkerDies, Status
  <2> QED BY <1>2, <2>1, UpdatesDoNotCancel
<1>5. PICK h : h = IF Extracted(w) THEN [hand[w] EXCEPT !.pc = "wait"] ELSE Idle
  OBVIOUS
<1>6. hand' = [hand EXCEPT ![w] = h] /\ (h = Idle \/ (Extracted(w) /\ h.msg = m /\ h # Idle))
  <2>1. Extracted(w) => h.pc = "wait" /\ h.msg = m
    BY <1>2, <1>5 DEF Handler
  <2> QED BY <1>5, <2>1 DEF QueueReport, HandlerFails, Extracted, WorkerDies, Idle
<1>7. msgs \subseteq msgs' /\ \A n \in msgs' \ msgs : Like(m, n)
  <2>1. msgs' = msgs \/ msgs' = msgs \cup {m} \/ \E t : msgs' = msgs \cup {[m EXCEPT !.try = t]}
    BY DEF QueueReport, HandlerFails, ExtractionFails, MappingFails, Extracted, WorkerDies, Again
  <2>2. \A t : Like(m, [m EXCEPT !.try = t])
    BY <1>2 DEF Like, Message
  <2>3. Like(m, m)
    BY DEF Like
  <2> QED BY <2>1, <2>2, <2>3
<1>8. /\ \A e \in Event \ {m.ev} : report'[e] = report[e]
      /\ report'[m.ev].task = report[m.ev].task
      /\ ~m.full => report'[m.ev].stage = report[m.ev].stage
  <2>1. \/ UNCHANGED report
        \/ report' = [report EXCEPT ![m.ev] = Reported(report[m.ev], m.full)]
        \/ \E stage : /\ report' = [report EXCEPT ![m.ev].stage = stage]
                      /\ ~m.full => m.kind = "extract" \/ stage = report[m.ev].stage
    <3>1. Extracted(w) => m.kind = "extract"
      BY <1>1 DEF Extracted, TasksInv
    <3> QED BY <3>1 DEF QueueReport, HandlerFails, ExtractionFails, MappingFails, Extracted, WorkerDies, InStage
  <2>2. /\ Reported(report[m.ev], m.full).task = report[m.ev].task
        /\ ~m.full => Reported(report[m.ev], m.full).stage = report[m.ev].stage
    BY <1>2 DEF Reported, Report
  <2>3. m.kind = "extract" => m.full
    BY <1>2 DEF Fits
  <2>4. CASE report' = [report EXCEPT ![m.ev] = Reported(report[m.ev], m.full)]
    BY <1>2, <2>2, <2>4 DEF StoresTyped
  <2>5. ASSUME NEW stage, report' = [report EXCEPT ![m.ev].stage = stage],
               ~m.full => stage = report[m.ev].stage
        PROVE  /\ \A e \in Event \ {m.ev} : report'[e] = report[e]
               /\ report'[m.ev].task = report[m.ev].task
               /\ ~m.full => report'[m.ev].stage = report[m.ev].stage
    BY <1>2, <2>5 DEF StoresTyped, Report
  <2> QED BY <2>1, <2>3, <2>4, <2>5
<1> SUFFICES ASSUME NEW e \in Event \ dropped PROVE CarriedOnce(e)'
  BY <1>3 DEF RefreshInv
<1>9. CarriedOnce(e)
  BY DEF RefreshInv
<1>10. CASE ~Whole(m, e)
  <2>1. \A n \in msgs' \ msgs : ~Whole(n, e)
    BY <1>7, <1>10 DEF Like, Whole
  <2>2. report'[e].task = report[e].task /\ report'[e].stage = report[e].stage
    BY <1>8, <1>10 DEF Whole
  <2> QED BY <1>1, <1>4, <1>6, <1>7, <1>9, <1>10, <2>1, <2>2, OthersRest
<1>11. CASE Whole(m, e)
  <2>1. m.ev = e /\ m.full /\ Live(m) /\ report[e].there
    BY <1>2, <1>9, <1>11 DEF CarriedOnce, Whole, Fits
  <2>2. \A k \in msgs : ~Whole(k, e)
    BY <1>1, <1>9, <1>11 DEF CarriedOnce, Alone
  <2>3. \A v \in Busy' : Whole(hand'[v].msg, e) => v = w
    BY <1>1, <1>6, <1>9, <1>11 DEF CarriedOnce, Alone, Busy, HandsTyped
  <2>4. h = Idle => \A v \in Busy' : ~Whole(hand'[v].msg, e)
    BY <1>6, <2>3 DEF Busy, HandsTyped
  <2>5. report'[e].stage \in {"extract", "mapping"} =>
           \A n : Like(m, n) => Live(n)'
    BY <1>2, <1>4, <1>8, <2>1 DEF Live, Like, NothingCancelled
  <2>6. CASE \E n \in msgs' : n \notin msgs
    <3>1. PICK n \in msgs' : n \notin msgs
      BY <2>6
    <3>2. ~QueueReport(w) /\ ~Extracted(w)
      BY <2>6 DEF QueueReport, Extracted
    <3>3. report'[e].stage \in {"extract", "mapping"}
      <4>1. WorkerDies(w) => UNCHANGED report
        BY DEF WorkerDies
      <4>2. HandlerFails(w) => UNCHANGED report \/ report' = InStage(m.ev, "extract")
        BY <2>6 DEF HandlerFails, ExtractionFails, MappingFails
      <4>3. report' = InStage(m.ev, "extract") => report'[e].stage = "extract"
        BY <1>2, <2>1 DEF InStage, StoresTyped, Report
      <4> QED BY <2>1, <3>2, <4>1, <4>2, <4>3 DEF Live
    <3>4. Like(m, n) /\ \A k \in msgs' \ msgs : k = n
      <4>1. \E x : msgs' \subseteq msgs \cup {x}
        BY DEF QueueReport, HandlerFails, ExtractionFails, MappingFails, Extracted, WorkerDies, Again
      <4> QED BY <1>7, <3>1, <4>1
    <3>5. Live(n)' /\ Whole(n, e)
      BY <1>11, <2>5, <3>3, <3>4 DEF Like, Whole
    <3>6. \A k \in msgs' : Whole(k, e) => k = n
      BY <2>2, <3>4
    <3> QED BY <1>5, <2>4, <3>1, <3>2, <3>5, <3>6, RefreshWaits
  <2>7. CASE msgs' = msgs /\ Extracted(w)
    <3>1. report'[e].stage = "mapping"
      BY <1>2, <2>1, <2>7 DEF Extracted, InStage, StoresTyped, Report
    <3>2. w \in Busy' /\ hand'[w].msg = m
      BY <1>5, <1>6, <2>7 DEF Busy, HandsTyped, Extracted, Idle
    <3>3. Live(hand[w].msg)'
      BY <2>5, <3>1, <3>2 DEF Like
    <3> QED BY <1>11, <2>2, <2>3, <2>7, <3>2, <3>3, RefreshIsHandled
  <2>8. CASE msgs' = msgs /\ ~Extracted(w)
    <3>1. report'[e].stage \notin {"extract", "mapping"}
      <4>1. ~WorkerDies(w)
        <5>1. m \notin msgs
          BY <1>11, <2>2
        <5> QED BY <2>8, <5>1 DEF WorkerDies
      <4>2. \/ report' = [report EXCEPT ![m.ev] = Reported(report[m.ev], m.full)]
            \/ report' = InStage(m.ev, "none")
        <5>1. QueueReport(w) => report' = [report EXCEPT ![m.ev] = Reported(report[m.ev], m.full)]
          BY DEF QueueReport
        <5>2. ASSUME HandlerFails(w), m.try # MaxTries PROVE FALSE
          <6>1. \E t : [m EXCEPT !.try = t] \in msgs'
            BY <5>2 DEF HandlerFails, ExtractionFails, MappingFails, Again
          <6>2. \A t : Whole([m EXCEPT !.try = t], e)
            BY <1>2, <1>11 DEF Whole, Message
          <6> QED BY <2>2, <2>8, <6>1, <6>2
        <5>3. HandlerFails(w) /\ m.try = MaxTries =>
                \/ report' = [report EXCEPT ![m.ev] = Reported(report[m.ev], m.full)]
                \/ report' = InStage(m.ev, "none")
          BY <2>1 DEF HandlerFails, ExtractionFails, MappingFails
        <5> QED BY <2>8, <4>1, <5>1, <5>2, <5>3
      <4>3. Reported(report[m.ev], m.full).stage = "research"
        BY <1>2, <2>1 DEF Reported, Report
      <4>4. report' = InStage(m.ev, "none") => report'[e].stage = "none"
        BY <1>2, <2>1 DEF InStage, StoresTyped, Report
      <4>5. report' = [report EXCEPT ![m.ev] = Reported(report[m.ev], m.full)] =>
              report'[e].stage = "research"
        BY <1>2, <2>1, <4>3 DEF StoresTyped
      <4> QED BY <4>2, <4>4, <4>5
    <3> QED BY <1>5, <2>2, <2>4, <2>8, <3>1, RefreshIsOver
  <2> QED BY <1>7, <2>6, <2>7, <2>8
<1> QED BY <1>10, <1>11

\* The mapping of a refresh takes over from its extraction, unless it was cancelled.
LEMMA PublishKeepsRefresh ==
    ASSUME CallersApart, MappingInv, TasksInv, RefreshInv, NEW s \in sending, PublishMapping(s)
    PROVE  RefreshInv'
<1> USE DEF MappingInv
<1>1. /\ s \in Sending /\ s.pc = "publish" /\ s.task \in Task /\ s.ev \in Event
      /\ Apart(s) /\ Enqueued(s) /\ AskedBy(s)
  BY InUseFacts DEF PublishMapping, CallsTyped, TasksInv
<1>2. dropped' = dropped /\ UNCHANGED report
  BY DEF PublishMapping, ghost
<1>3. PICK n : n = [task |-> s.task, ev |-> s.ev, kind |-> "map",
                    force |-> s.force, full |-> s.full, try |-> 1]
  OBVIOUS
<1>4. /\ n.task = s.task /\ n.ev = s.ev /\ n.kind = "map" /\ n.full = s.full
      /\ msgs' = IF rec[s.task].st = "cancelled" THEN msgs ELSE msgs \cup {n}
  BY <1>3 DEF PublishMapping
<1> SUFFICES ASSUME NEW e \in Event \ dropped PROVE CarriedOnce(e)'
  BY <1>2 DEF RefreshInv
<1>5. CarriedOnce(e)
  BY DEF RefreshInv
<1>6. CASE s.by \notin Worker
  <2>1. UNCHANGED <<hand, rec>> /\ ~s.full
    BY <1>1, <1>6 DEF PublishMapping, Resume, AskedBy
  <2>2. ~Whole(n, e)
    BY <1>4, <2>1 DEF Whole
  <2>3. Rests(e)
    BY <1>2, <1>4, <2>1, <2>2 DEF Rests, Busy
  <2> QED BY <1>5, <2>3, RefreshRests
<1>7. CASE s.by \in Worker
  <2> DEFINE w == s.by
             m == hand[w].msg
  <2>1. /\ w \in Busy /\ m \in Held /\ m.task \in Task /\ m.ev = s.ev /\ s.full
        /\ rec[m.task] \in TaskRecord /\ hand[w].pc = "wait"
    <3>1. hand[w].pc = "wait" /\ m.ev = s.ev /\ s.full
      BY <1>1, <1>7 DEF CallersWait, AskedBy
    <3>2. w \in Busy
      BY <1>7, <3>1 DEF Busy, Idle
    <3> QED BY <3>1, <3>2, InUseFacts DEF StoresTyped
  <2>2. m.kind = "extract" /\ m.full
    BY <2>1 DEF TasksInv, Fits
  <2>3. PICK h : h = Idle
    OBVIOUS
  <2>4. hand' = [hand EXCEPT ![w] = h] /\ h = Idle
    BY <1>7, <2>3 DEF PublishMapping, Resume
  <2>5. rec' = [rec EXCEPT ![m.task] = Tracked(@, "completed")]
    BY <1>7 DEF PublishMapping
  <2>6. NothingCancelled
    BY <2>1, <2>5, UpdatesDoNotCancel DEF Status
  <2>7. m.task # s.task
    BY <1>1, <2>1 DEF Apart
  <2>8. CASE e # s.ev
    <3>1. ~Whole(m, e) /\ ~Whole(n, e)
      BY <1>4, <2>1, <2>8 DEF Whole
    <3> QED BY <1>2, <1>4, <1>5, <2>1, <2>4, <2>6, <3>1, OthersRest
  <2>9. CASE e = s.ev
    <3>1. Whole(m, e) /\ Whole(n, e) /\ Live(m)
      BY <1>4, <1>5, <2>1, <2>2, <2>9 DEF Whole, CarriedOnce
    <3>2. rec[s.task].st # "cancelled"
      BY <1>1, <2>9 DEF Enqueued
    <3>3. Live(n)'
      BY <1>1, <1>2, <1>4, <2>1, <2>6, <3>1, <3>2 DEF Live, NothingCancelled
    <3>4. n \in msgs' /\ \A k \in msgs' : Whole(k, e) => k = n
      BY <1>4, <1>5, <2>1, <3>1, <3>2 DEF CarriedOnce, Alone
    <3>5. \A v \in Busy' : ~Whole(hand'[v].msg, e)
      BY <1>5, <2>1, <2>4, <3>1 DEF CarriedOnce, Alone, Busy, HandsTyped
    <3> QED BY <3>1, <3>3, <3>4, <3>5, RefreshWaits
  <2> QED BY <2>8, <2>9
<1> QED BY <1>6, <1>7

\* A refresh that begins finds no message of an earlier one.
LEMMA FullResearchKeepsRefresh ==
    ASSUME MappingInv, TasksInv, RefreshInv, NEW f \in Event, FullResearch(f)
    PROVE  RefreshInv'
<1> USE DEF MappingInv
<1>1. /\ UNCHANGED hand /\ dropped' = dropped /\ Spare # {} /\ report[f].stage = "none"
      /\ Busy' = Busy
  BY DEF FullResearch, work, ghost, RefreshActive, Busy
<1>2. Fresh \in Task /\ \A m \in Held : m.task # Fresh
  BY <1>1, FreshIsApart
<1>3. \A u \in Task : u # Fresh => rec'[u] = rec[u]
  BY <1>2 DEF FullResearch, StoresTyped
<1>4. PICK n : n = [task |-> Fresh, ev |-> f, kind |-> "extract", force |-> TRUE,
                    full |-> TRUE, try |-> 1]
  OBVIOUS
<1>5. n.task = Fresh /\ n.ev = f /\ n.kind = "extract" /\ n.full
  BY <1>4
<1>6. /\ \A e \in Event \ {f} : report'[e] = report[e]
      /\ \/ msgs' = msgs /\ report'[f].stage = "none"
         \/ /\ msgs' = msgs \cup {n} /\ report'[f].stage = "extract" /\ report'[f].task = Fresh
            /\ rec'[Fresh].st = "queued"
  BY <1>1, <1>2, <1>4 DEF FullResearch, Begun, Recorded, StoresTyped, Report
<1> SUFFICES ASSUME NEW e \in Event \ dropped PROVE CarriedOnce(e)'
  BY <1>1 DEF RefreshInv
<1>7. CarriedOnce(e)
  BY DEF RefreshInv
<1>8. CASE e # f
  <2>1. ~Whole(n, e)
    BY <1>5, <1>8 DEF Whole
  <2>2. \A m \in Held : rec'[m.task] = rec[m.task]
    BY <1>2, <1>3, InUseFacts
  <2>3. Rests(e)
    BY <1>1, <1>6, <1>8, <2>1, <2>2 DEF Rests
  <2> QED BY <1>7, <2>3, RefreshRests
<1>9. CASE e = f
  <2>1. \A m \in Held : ~Whole(m, e)
    BY <1>1, <1>7, <1>9 DEF CarriedOnce, Live, Whole
  <2>2. \A v \in Busy' : ~Whole(hand'[v].msg, e)
    BY <1>1, <2>1 DEF Held
  <2>3. \A k \in msgs : ~Whole(k, e)
    BY <2>1 DEF Held
  <2>4. CASE msgs' = msgs /\ report'[f].stage = "none"
    BY <1>9, <2>2, <2>3, <2>4, RefreshIsOver
  <2>5. CASE /\ msgs' = msgs \cup {n} /\ report'[f].stage = "extract" /\ report'[f].task = Fresh
             /\ rec'[Fresh].st = "queued"
    <3>1. Whole(n, e) /\ Live(n)' /\ n \in msgs'
      BY <1>5, <1>9, <2>5 DEF Whole, Live
    <3>2. \A k \in msgs' : Whole(k, e) => k = n
      BY <2>3, <2>5
    <3> QED BY <2>2, <3>1, <3>2, RefreshWaits
  <2> QED BY <1>6, <2>4, <2>5
<1> QED BY <1>8, <1>9

LEMMA RefreshInductive ==
    ASSUME CallersApart, MappingInv, TasksInv, RefreshInv, [Next]_mappingVars
    PROVE  RefreshInv'
<1>1. CASE UNCHANGED mappingVars
  BY <1>1 DEF mappingVars, work, ghost, RefreshInv, CarriedOnce, Alone, Live, Held, Busy
<1>2. ASSUME NEW s \in sending, Send(s) \/ PublishFails(s) \/ SenderDies(s) PROVE RefreshInv'
  BY <1>2, QuietKeepsRefresh, PublishKeepsRefresh DEF Send
<1>3. ASSUME NEW w \in Worker, Handle(w) \/ HandlerFails(w) \/ WorkerDies(w) PROVE RefreshInv'
  BY <1>3, QuietKeepsRefresh, HandlerKeepsRefresh DEF Handle
<1>4. ASSUME NEW w \in Worker, NEW m \in msgs, Deliver(w, m) PROVE RefreshInv'
  BY <1>4, DeliverKeepsRefresh
<1>5. ASSUME NEW w \in Worker, TouchReads(w) \/ BeatStops(w) PROVE RefreshInv'
  BY <1>5, QuietKeepsRefresh
<1>6. ASSUME NEW t \in Task, TouchWrites(t) \/ LeaseLapses(t) PROVE RefreshInv'
  BY <1>6, QuietKeepsRefresh
<1>7. ASSUME NEW t \in Task, Reconcile(t) \/ CancelMapping(t) \/ RetryMapping(t) PROVE RefreshInv'
  BY <1>7, CancellationsKeepRefresh
<1>8. ASSUME NEW e \in Event, Follow(e) \/ FullResearch(e) \/ ResearchEnds(e) PROVE RefreshInv'
  BY <1>8, QuietKeepsRefresh, FullResearchKeepsRefresh
<1>9. ASSUME NEW kind \in {"extract", "map"}, ClearQueue(kind) PROVE RefreshInv'
  BY <1>9, CancellationsKeepRefresh DEF Kind
<1>10. CASE Supersede
  BY <1>10, CancellationsKeepRefresh
<1> QED BY <1>1, <1>2, <1>3, <1>4, <1>5, <1>6, <1>7, <1>8, <1>9, <1>10 DEF Next

\* A full refresh whose step is active has exactly one message, waiting or in the hands of
\* a worker, through deaths, redeliveries, failed attempts and replacements: until one of
\* its tasks is cancelled it cannot be left without one, nor be carried twice (worker.py,
\* enqueue_full_event_research, reextract_event, resolve_event_assets).
RefreshIsCarried ==
  \A e \in Event \ dropped :
     /\ report[e].stage \in {"extract", "mapping"} <=> \E m \in Held : Whole(m, e)
     /\ Alone(e)

THEOREM RefreshesAreCarried ==
    ASSUME CallersApart
    PROVE  Spec => []RefreshIsCarried
<1>1. Init => RefreshInv
  BY DEF Init, RefreshInv, CarriedOnce, Alone, Held, Busy, Idle
<1>2. MappingInv /\ TasksInv /\ RefreshInv /\ [Next]_mappingVars => RefreshInv'
  BY RefreshInductive
<1>3. RefreshInv => RefreshIsCarried
  BY DEF RefreshInv, CarriedOnce, Live, Whole, RefreshIsCarried
<1> QED BY <1>1, <1>2, <1>3, MappingInvariant, TasksAreOfTheirRecords, PTL DEF Spec

-----------------------------------------------------------------------------
\* A mapping task of an event, one that waits, and who carries the mapping on: a message,
\* an enqueue under way, or a task that runs, retries or will be found stale.
Maps(t, e) == rec[t].kind = "map" /\ rec[t].ev = e
QueuedCarried(e) ==
  \A t \in Task : Maps(t, e) /\ rec[t].st = "queued" =>
     \/ \E m \in msgs : m.task = t
     \/ \E s \in sending : s.task = t /\ s.pc = "publish"
Carried(e) ==
  \/ \E m \in Held : m.ev = e /\ m.kind = "map"
  \/ \E s \in sending : s.ev = e
  \/ \E t \in Task : Maps(t, e) /\ Leased(rec[t])
Followed(e) == QueuedCarried(e) /\ (InMapping(event[e]) => Carried(e))

FollowInv == \A e \in Event \ silenced : ~report[e].there => Followed(e)

\* What is enough for a step to leave an event with a carrier.
LEMMA FollowedStays ==
    ASSUME NEW e \in Event, Followed(e),
           \A t \in Task : Maps(t, e)' /\ rec'[t].st = "queued" =>
              \/ \E m \in msgs' : m.task = t
              \/ \E s \in sending' : s.task = t /\ s.pc = "publish"
              \/ /\ Maps(t, e) /\ rec[t].st = "queued"
                 /\ \A m \in msgs : m.task = t => m \in msgs'
                 /\ \A s \in sending : s.task = t => s \in sending',
           InMapping(event'[e]) => InMapping(event[e]) \/ Carried(e)',
           InMapping(event'[e]) /\ Carried(e) => Carried(e)'
    PROVE  Followed(e)'
<1>1. QueuedCarried(e)'
  BY DEF Followed, QueuedCarried
<1>2. InMapping(event[e])' => Carried(e)'
  BY DEF Followed
<1> QED BY <1>1, <1>2 DEF Followed

\* What a report or a missing mapping is, stays.
LEMMA StoresGrow ==
    ASSUME MappingInv, [Next]_mappingVars
    PROVE  /\ silenced \subseteq silenced'
           /\ \A e \in Event : report[e].there => report'[e].there
<1> USE DEF MappingInv
<1> DEFINE Grow == /\ silenced \subseteq silenced'
                   /\ \A e \in Event : report[e].there => report'[e].there
<1> SUFFICES Grow
  OBVIOUS
<1> HIDE DEF Grow
<1>1. ASSUME silenced \subseteq silenced',
             \/ UNCHANGED report
             \/ \E f, stage : report' = [report EXCEPT ![f].stage = stage]
             \/ \E f, full : report' = [report EXCEPT ![f] = Reported(report[f], full)]
             \/ \E f : report' = [report EXCEPT ![f].there = TRUE]
             \/ \E f, t : report' = [report EXCEPT ![f].task = t]
             \/ \E f, t : report' = [report EXCEPT ![f].stage = "extract", ![f].task = t]
      PROVE  Grow
  <2>1. \A f \in Event : report[f] \in Report
    BY DEF StoresTyped
  <2>2. \A x \in Report : \A full : x.there => Reported(x, full).there
    BY DEF Reported, Report
  <2>3. CASE UNCHANGED report
    BY <1>1, <2>3 DEF Grow
  <2>4. ASSUME NEW f, NEW stage, report' = [report EXCEPT ![f].stage = stage] PROVE Grow
    BY <1>1, <2>1, <2>4 DEF Grow, StoresTyped, Report
  <2>5. ASSUME NEW f, NEW full, report' = [report EXCEPT ![f] = Reported(report[f], full)] PROVE Grow
    BY <1>1, <2>1, <2>2, <2>5 DEF Grow, StoresTyped
  <2>6. ASSUME NEW f, report' = [report EXCEPT ![f].there = TRUE] PROVE Grow
    BY <1>1, <2>1, <2>6 DEF Grow, StoresTyped, Report
  <2>7. ASSUME NEW f, NEW t, report' = [report EXCEPT ![f].task = t] PROVE Grow
    BY <1>1, <2>1, <2>7 DEF Grow, StoresTyped, Report
  <2>8. ASSUME NEW f, NEW t, report' = [report EXCEPT ![f].stage = "extract", ![f].task = t] PROVE Grow
    BY <1>1, <2>1, <2>8 DEF Grow, StoresTyped, Report
  <2> QED BY <1>1, <2>3, <2>4, <2>5, <2>6, <2>7, <2>8
<1>2. CASE UNCHANGED mappingVars
  BY <1>1, <1>2 DEF mappingVars, ghost
<1>3. ASSUME NEW s \in sending, Send(s) \/ PublishFails(s) \/ SenderDies(s) PROVE Grow
  BY <1>1, <1>3 DEF Send, SaveQueued, PublishMapping, PublishFails, SenderDies, ghost
<1>4. ASSUME NEW w \in Worker, HandlerFails(w) PROVE Grow
  <2>1. silenced' = silenced
    BY <1>4 DEF HandlerFails, ghost
  <2>2. CASE UNCHANGED report \/ report' = [report EXCEPT ![hand[w].msg.ev] = Reported(@, hand[w].msg.full)]
    BY <1>1, <2>1, <2>2
  <2>3. CASE \E stage : report' = InStage(hand[w].msg.ev, stage)
    BY <1>1, <2>1, <2>3 DEF InStage
  <2> QED BY <1>4, <2>2, <2>3 DEF HandlerFails, ExtractionFails, MappingFails
<1>5. ASSUME NEW w \in Worker, Handle(w) \/ WorkerDies(w) PROVE Grow
  BY <1>1, <1>5, <1>4 DEF Handle, MapDone, QueueReport, Extracted, WorkerDies, InStage, ghost
<1>6. ASSUME NEW w \in Worker, NEW m \in msgs, Deliver(w, m) PROVE Grow
  BY <1>1, <1>6 DEF Deliver, DeliverMapping, DeliverExtraction, InStage, ghost
<1>7. ASSUME NEW w \in Worker, TouchReads(w) \/ BeatStops(w) PROVE Grow
  BY <1>1, <1>7 DEF TouchReads, BeatStops, ghost
<1>8. ASSUME NEW t \in Task, \/ TouchWrites(t) \/ LeaseLapses(t) \/ Reconcile(t)
                             \/ CancelMapping(t) \/ RetryMapping(t)
      PROVE  Grow
  BY <1>1, <1>8 DEF TouchWrites, LeaseLapses, Reconcile, CancelMapping, RetryMapping, ghost
<1>9. ASSUME NEW e \in Event, Follow(e) \/ FullResearch(e) \/ ResearchEnds(e) PROVE Grow
  BY <1>1, <1>9 DEF Follow, FullResearch, ResearchEnds, InStage, Begun, ghost
<1>10. ASSUME NEW kind, ClearQueue(kind) PROVE Grow
  BY <1>1, <1>10 DEF ClearQueue
<1>11. CASE Supersede
  BY <1>1, <1>11 DEF Supersede
<1> QED BY <1>2, <1>3, <1>4, <1>5, <1>6, <1>7, <1>8, <1>9, <1>10, <1>11 DEF Next

\* Heartbeats, the clock, the research lane, beat.
LEMMA QuietFollows ==
    ASSUME MappingInv, TasksInv, NEW e \in Event, Followed(e), ~report'[e].there,
           \/ \E w \in Worker : TouchReads(w) \/ BeatStops(w)
           \/ \E t \in Task : TouchWrites(t) \/ LeaseLapses(t)
           \/ \E f \in Event : Follow(f) \/ ResearchEnds(f) \/ FullResearch(f)
    PROVE  Followed(e)'
<1> USE DEF MappingInv
<1>1. msgs \subseteq msgs' /\ sending \subseteq sending' /\ UNCHANGED event
  BY DEF TouchReads, BeatStops, TouchWrites, LeaseLapses, Follow, ResearchEnds, FullResearch, Enqueue
<1>2. ASSUME NEW m \in Held PROVE \E n \in Held' : Like(m, n)
  <2>1. CASE UNCHANGED hand
    BY <1>1, <2>1 DEF Held, Busy, Like
  <2>2. ASSUME NEW w \in Worker, BeatStops(w) PROVE \E n \in Held' : Like(m, n)
    <3>1. hand[w] \in Handler /\ hand[w] # Idle /\ hand' = [hand EXCEPT ![w].beat = FALSE]
      BY <2>2, BusyHandsHandle DEF BeatStops
    <3>2. hand[w].pc # "idle"
      BY <3>1 DEF Handler
    <3>3. \A v \in Worker : /\ hand'[v].msg = hand[v].msg /\ hand'[v].pc = hand[v].pc
                            /\ v # w => hand'[v] = hand[v]
      BY <3>1 DEF HandsTyped, Handler
    <3>4. Busy \subseteq Busy'
      BY <3>2, <3>3 DEF Busy, Idle
    <3>5. Held \subseteq Held'
      BY <1>1, <3>3, <3>4 DEF Held, Busy
    <3> QED BY <3>5 DEF Like
  <2> QED BY <2>1, <2>2 DEF TouchReads, TouchWrites, LeaseLapses, Follow, ResearchEnds, FullResearch, work
<1>3. /\ \A t \in Task : Maps(t, e)' /\ rec'[t].st = "queued" => Maps(t, e) /\ rec[t].st = "queued"
      /\ \A t \in Task : Maps(t, e) /\ Leased(rec[t]) => Maps(t, e)' /\ Leased(rec'[t])
  <2>1. CASE UNCHANGED rec
    BY <2>1 DEF Maps
  <2>2. ASSUME NEW t \in Task, TouchWrites(t) \/ LeaseLapses(t)
        PROVE  /\ \A u \in Task : Maps(u, e)' /\ rec'[u].st = "queued" => Maps(u, e) /\ rec[u].st = "queued"
               /\ \A u \in Task : Maps(u, e) /\ Leased(rec[u]) => Maps(u, e)' /\ Leased(rec'[u])
    BY <2>2 DEF TouchWrites, LeaseLapses, StoresTyped, TaskRecord, Maps, Leased
  <2>3. ASSUME NEW f \in Event, FullResearch(f)
        PROVE  /\ \A u \in Task : Maps(u, e)' /\ rec'[u].st = "queued" => Maps(u, e) /\ rec[u].st = "queued"
               /\ \A u \in Task : Maps(u, e) /\ Leased(rec[u]) => Maps(u, e)' /\ Leased(rec'[u])
    <3>1. Fresh \in Task /\ ~(rec[Fresh].kind = "map" /\ Active(rec[Fresh]))
      BY <2>3, FreshIsApart DEF FullResearch
    <3>2. rec'[Fresh].kind = "extract" /\ \A u \in Task : u # Fresh => rec'[u] = rec[u]
      BY <2>3, <3>1 DEF FullResearch, Recorded, StoresTyped
    <3> QED BY <3>1, <3>2 DEF Maps, Leased, Active
  <2> QED BY <2>1, <2>2, <2>3 DEF TouchReads, BeatStops, Follow, ResearchEnds
<1>4. Carried(e) => Carried(e)'
  BY <1>1, <1>2, <1>3 DEF Carried, Like
<1> QED BY <1>1, <1>3, <1>4, FollowedStays

LEMMA SaveFollows ==
    ASSUME MappingInv, TasksInv, NEW e \in Event, Followed(e), NEW s \in sending, SaveQueued(s)
    PROVE  Followed(e)'
<1> USE DEF MappingInv
<1>1. PICK n : n = [s EXCEPT !.pc = "publish"]
  OBVIOUS
<1>2. s \in Sending /\ s.pc = "save" /\ s.task \in Task /\ s.ev \in Event /\ Enqueued(s)
  BY DEF SaveQueued, CallsTyped, Sending, TasksInv
<1>3. /\ n.task = s.task /\ n.ev = s.ev /\ n.pc = "publish"
      /\ sending' = (sending \ {s}) \cup {n} /\ UNCHANGED <<msgs, hand>>
  BY <1>1, <1>2 DEF SaveQueued, Sending, work
<1>4. /\ \A u \in Task : u # s.task => rec'[u] = rec[u]
      /\ rec'[s.task].kind = "map" /\ rec'[s.task].ev = s.ev /\ rec'[s.task].st = "queued"
  BY <1>2 DEF SaveQueued, Recorded, StoresTyped
<1>5. event'[e] = event[e] \/ e = s.ev
  BY DEF SaveQueued, StoresTyped
<1>6. Held' = Held
  BY <1>3 DEF Held, Busy
<1>7. \A u \in Task : Maps(u, e) /\ Leased(rec[u]) => u # s.task
  BY EnqueuesAreNotLeased DEF Maps
<1>8. Carried(e) => Carried(e)'
  BY <1>3, <1>4, <1>6, <1>7 DEF Carried, Maps
<1>9. e = s.ev => Carried(e)'
  BY <1>3 DEF Carried
<1>10. \A t \in Task : Maps(t, e)' /\ rec'[t].st = "queued" =>
          \/ \E u \in sending' : u.task = t /\ u.pc = "publish"
          \/ Maps(t, e) /\ rec[t].st = "queued" /\ \A u \in sending : u.task = t => u \in sending'
  BY <1>3, <1>4 DEF Maps
<1> QED BY <1>3, <1>5, <1>8, <1>9, <1>10, FollowedStays

\* An enqueue ends or dies: its message waits, the event shows the failure, or it is missed.
LEMMA SendFollows ==
    ASSUME MappingInv, TasksInv, NEW e \in Event, Followed(e), ~report[e].there, e \notin silenced',
           NEW s \in sending, PublishMapping(s) \/ PublishFails(s) \/ SenderDies(s)
    PROVE  Followed(e)'
<1> USE DEF MappingInv
<1>1. s \in Sending /\ s.task \in Task /\ s.ev \in Event /\ Apart(s) /\ Enqueued(s) /\ AskedBy(s)
  BY InUseFacts DEF CallsTyped, TasksInv
<1>2. sending' = sending \ {s} /\ msgs \subseteq msgs'
  BY DEF PublishMapping, PublishFails, SenderDies
<1>3. s.by \in Worker => /\ s.by \in Busy /\ hand[s.by] \in Handler /\ hand[s.by].pc = "wait"
                         /\ hand[s.by].msg \in Held /\ hand[s.by].msg.kind = "extract"
                         /\ hand[s.by].msg.ev = s.ev /\ report[s.ev].there
  <2> SUFFICES ASSUME s.by \in Worker
               PROVE  /\ s.by \in Busy /\ hand[s.by] \in Handler /\ hand[s.by].pc = "wait"
                      /\ hand[s.by].msg \in Held /\ hand[s.by].msg.kind = "extract"
                      /\ hand[s.by].msg.ev = s.ev /\ report[s.ev].there
    OBVIOUS
  <2>1. hand[s.by].pc = "wait" /\ hand[s.by].msg.ev = s.ev
    BY <1>1 DEF CallersWait, AskedBy
  <2>2. s.by \in Busy /\ hand[s.by] \in Handler /\ hand[s.by].msg \in Held
    BY <2>1, InUseFacts, BusyHandsHandle DEF Busy, Idle
  <2>3. hand[s.by].msg.kind = "extract" /\ Fits(hand[s.by].msg)
    BY <2>1, <2>2 DEF TasksInv
  <2> QED BY <2>1, <2>2, <2>3 DEF Fits
<1>4. \A u \in Task : Maps(u, e) => rec'[u] = rec[u] \/ u = s.task
  <2>1. CASE s.by \in Worker
    <3>1. rec[hand[s.by].msg.task].kind = "extract"
      BY <1>3, <2>1 DEF TasksInv, Fits
    <3> QED BY <2>1, <3>1 DEF PublishMapping, PublishFails, SenderDies, Maps, StoresTyped
  <2>2. CASE s.by \notin Worker
    BY <2>2 DEF PublishMapping, PublishFails, SenderDies, StoresTyped
  <2> QED BY <2>1, <2>2
<1>5. \A m \in Held : m.ev = e => m \in Held'
  <2>1. \A w \in Worker : w # s.by => hand'[w] = hand[w]
    BY DEF PublishMapping, PublishFails, SenderDies, Resume, work, HandsTyped
  <2>2. \A w \in Busy : hand[w].msg.ev = e => w # s.by
    BY <1>3 DEF Busy
  <2> QED BY <1>2, <2>1, <2>2 DEF Held, Busy
<1>6. \A t \in Task : rec'[t].kind = rec[t].kind /\ rec'[t].ev = rec[t].ev
  <2>1. UNCHANGED rec \/ \E t \in Task : \E st : rec' = [rec EXCEPT ![t] = Tracked(rec[t], st)]
    BY <1>1, <1>3, InUseFacts DEF PublishMapping, PublishFails, SenderDies
  <2>2. ASSUME NEW t \in Task, NEW st, rec' = [rec EXCEPT ![t] = Tracked(rec[t], st)]
        PROVE  \A u \in Task : rec'[u].kind = rec[u].kind /\ rec'[u].ev = rec[u].ev
    BY <2>2, UpdatesKeepSubject DEF StoresTyped
  <2> QED BY <2>1, <2>2
<1>7. \A u \in Task : Maps(u, e) /\ Leased(rec[u]) => rec'[u] = rec[u]
  BY <1>4, EnqueuesAreNotLeased DEF Maps
<1>8. CASE e # s.ev
  <2>1. event'[e] = event[e]
    BY <1>8 DEF PublishMapping, PublishFails, SenderDies, StoresTyped
  <2>2. s.pc = "publish" => ~Maps(s.task, e)
    BY <1>1, <1>8 DEF Enqueued, Maps
  <2>3. \A t \in Task : Maps(t, e)' /\ rec'[t].st = "queued" =>
           /\ Maps(t, e) /\ rec[t].st = "queued"
           /\ \A m \in msgs : m.task = t => m \in msgs'
           /\ \A u \in sending : u.task = t => u \in sending'
    <3> SUFFICES ASSUME NEW t \in Task, Maps(t, e)', rec'[t].st = "queued"
                 PROVE  /\ Maps(t, e) /\ rec[t].st = "queued"
                        /\ \A m \in msgs : m.task = t => m \in msgs'
                        /\ \A u \in sending : u.task = t => u \in sending'
      OBVIOUS
    <3>1. Maps(t, e)
      BY <1>6 DEF Maps
    <3>2. t # s.task
      <4>1. s.pc = "save" => SenderDies(s) /\ ~(rec[s.task].kind = "map" /\ Active(rec[s.task]))
        BY <1>1 DEF Enqueued, PublishMapping, PublishFails
      <4>2. s.pc = "save" => UNCHANGED rec
        BY <4>1 DEF SenderDies
      <4>3. s.pc = "save" \/ s.pc = "publish"
        BY <1>1 DEF Sending
      <4> QED BY <2>2, <3>1, <4>1, <4>2, <4>3 DEF Maps, Active
    <3> QED BY <1>2, <1>4, <3>1, <3>2
  <2>4. Carried(e) => Carried(e)'
    BY <1>2, <1>5, <1>6, <1>7, <1>8 DEF Carried, Maps
  <2> QED BY <2>1, <2>3, <2>4, FollowedStays
<1>9. CASE e = s.ev
  <2>1. ~SenderDies(s)
    BY <1>9 DEF SenderDies
  <2>2. s.pc = "publish" /\ Maps(s.task, e) /\ s.by \notin Worker
    BY <1>1, <1>3, <1>9, <2>1 DEF PublishMapping, PublishFails, Enqueued, Maps
  <2>3. \A t \in Task : t # s.task /\ Maps(t, e)' /\ rec'[t].st = "queued" =>
           /\ Maps(t, e) /\ rec[t].st = "queued"
           /\ \A m \in msgs : m.task = t => m \in msgs'
           /\ \A u \in sending : u.task = t => u \in sending'
    BY <1>2, <1>4, <1>6 DEF Maps
  <2>4. CASE PublishMapping(s)
    <3>1. e \notin silenced
      BY <2>4 DEF PublishMapping, ghost
    <3>2. rec[s.task].st # "cancelled"
      BY <1>1, <1>9, <2>2, <3>1 DEF Enqueued
    <3>3. PICK n : n = [task |-> s.task, ev |-> s.ev, kind |-> "map",
                        force |-> s.force, full |-> s.full, try |-> 1]
      OBVIOUS
    <3>4. n.task = s.task /\ n.ev = s.ev /\ n.kind = "map" /\ n \in msgs'
      BY <2>4, <3>2, <3>3 DEF PublishMapping
    <3>5. Carried(e)'
      BY <1>9, <3>4 DEF Carried, Held
    <3> QED BY <2>3, <3>4, <3>5, FollowedStays
  <2>5. CASE PublishFails(s)
    <3>1. event'[e].q = "failed"
      <4>1. s.copy \in Steps
        BY <1>1 DEF Sending
      <4> QED BY <1>9, <2>5, <4>1 DEF PublishFails, StoresTyped, Steps
    <3>2. ~InMapping(event'[e])
      BY <3>1 DEF InMapping
    <3>3. rec'[s.task].st # "queued"
      BY <1>1, <2>5 DEF PublishFails, Tracked, StoresTyped, TaskRecord
    <3> QED BY <2>3, <3>2, <3>3, FollowedStays
  <2> QED BY <2>1, <2>4, <2>5
<1> QED BY <1>8, <1>9

\* A mapping that is replaced or no longer waited for is not missed.
LEMMA MissedFollows ==
    ASSUME MappingInv, TasksInv, NEW e \in Event, Followed(e), NEW t \in Task,
           rec[t].ev = e => e \notin Missed(t),
           rec' = rec \/ rec' = [rec EXCEPT ![t] = Cancelled(@)],
           rec[t].kind = "map",
           UNCHANGED <<event, hand, sending>>, msgs' \subseteq msgs,
           \A m \in msgs : m.task # t => m \in msgs',
           rec'[t].st # "queued", rec' = rec => ~Active(rec[t])
    PROVE  Followed(e)'
<1> USE DEF MappingInv
<1>1. \A u \in Task : u # t => rec'[u] = rec[u]
  BY DEF StoresTyped
<1>2. \A m \in Held : m.task \in Task /\ rec[m.task].kind = m.kind /\ rec[m.task].ev = m.ev
  BY InUseFacts DEF TasksInv, Fits
<1>3. \A m \in Held : m.task # t \/ m \notin msgs => m \in Held'
  BY DEF Held, Busy
<1>4. Maps(t, e)' => Maps(t, e)
  BY UpdatesKeepSubject DEF Maps, StoresTyped
<1>5. \A u \in Task : Maps(u, e)' /\ rec'[u].st = "queued" =>
         /\ Maps(u, e) /\ rec[u].st = "queued"
         /\ \A m \in msgs : m.task = u => m \in msgs'
         /\ \A s \in sending : s.task = u => s \in sending'
  BY <1>1 DEF Maps
<1>6. CASE InMapping(event[e]) /\ rec[t].ev = e
  <2>1. Replaced(t)
    BY <1>6 DEF Missed
  <2>2. PICK u \in Task \ {t} : Maps(u, e) /\ Active(rec[u])
    BY <1>6, <2>1 DEF Replaced, Maps
  <2>3. Carried(e)'
    <3>1. CASE Leased(rec[u])
      BY <1>1, <2>2, <3>1 DEF Carried, Maps
    <3>2. CASE rec[u].st = "queued"
      <4>1. \/ \E m \in msgs : m.task = u
            \/ \E s \in sending : s.task = u /\ s.pc = "publish"
        BY <2>2, <3>2 DEF Followed, QueuedCarried
      <4>2. ASSUME NEW m \in msgs, m.task = u PROVE Carried(e)'
        <5>1. m \in Held /\ m \in msgs' /\ m.ev = e /\ m.kind = "map"
          BY <1>2, <2>2, <4>2 DEF Held, Maps
        <5> QED BY <5>1 DEF Carried, Held
      <4>3. ASSUME NEW s \in sending, s.task = u, s.pc = "publish" PROVE Carried(e)'
        BY <2>2, <4>3 DEF TasksInv, Enqueued, Maps, Carried
      <4> QED BY <4>1, <4>2, <4>3
    <3> QED BY <2>2, <3>1, <3>2 DEF Active, Leased
  <2> QED BY <1>5, <2>3, FollowedStays
<1>7. CASE ~InMapping(event[e])
  BY <1>5, <1>7, FollowedStays
<1>8. CASE rec[t].ev # e
  <2>1. \A m \in Held : m.ev = e /\ m.kind = "map" => m \in Held'
    BY <1>2, <1>3, <1>8
  <2>2. \A u \in Task : Maps(u, e) => rec'[u] = rec[u]
    BY <1>1, <1>8 DEF Maps
  <2>3. Carried(e) => Carried(e)'
    BY <2>1, <2>2 DEF Carried, Maps
  <2> QED BY <1>5, <2>3, FollowedStays
<1> QED BY <1>6, <1>7, <1>8

\* The reconciliation cancels a stale task, or asks for its replacement.
LEMMA ReconcileFollows ==
    ASSUME MappingInv, TasksInv, NEW e \in Event, Followed(e), e \notin silenced',
           NEW t \in Task, Reconcile(t)
    PROVE  Followed(e)'
<1> USE DEF MappingInv
<1>1. rec[t].kind = "map" /\ Leased(rec[t]) /\ UNCHANGED <<event, hand>>
  BY DEF Reconcile, Stale, work
<1>2. CASE /\ rec' = [rec EXCEPT ![t] = Cancelled(@)] /\ Revoked(t)
           /\ silenced' = silenced \cup Missed(t) /\ UNCHANGED sending
  <2>1. rec'[t].st = "cancelled" /\ Active(rec[t])
    BY <1>1, <1>2 DEF Cancelled, Leased, Active, StoresTyped, TaskRecord
  <2>2. msgs' \subseteq msgs /\ \A m \in msgs : m.task # t => m \in msgs'
    BY <1>2 DEF Revoked
  <2>3. e \notin Missed(t) /\ (rec' = rec => ~Active(rec[t]))
    BY <1>2, <2>1 DEF Active
  <2> QED BY <1>1, <1>2, <2>1, <2>2, <2>3, MissedFollows
<1>3. CASE sending \subseteq sending' /\ UNCHANGED <<rec, msgs>>
  <2>1. Held' = Held
    BY <1>1, <1>3 DEF Held, Busy
  <2>2. Carried(e) => Carried(e)'
    BY <1>3, <2>1 DEF Carried, Maps
  <2>3. \A u \in Task : Maps(u, e)' /\ rec'[u].st = "queued" =>
           /\ Maps(u, e) /\ rec[u].st = "queued"
           /\ \A m \in msgs : m.task = u => m \in msgs'
           /\ \A s \in sending : s.task = u => s \in sending'
    BY <1>3 DEF Maps
  <2> QED BY <1>1, <2>2, <2>3, FollowedStays
<1> QED BY <1>2, <1>3 DEF Reconcile, Enqueue

LEMMA SupersedeFollows ==
    ASSUME MappingInv, TasksInv, NEW e \in Event, Followed(e), e \notin silenced', Supersede
    PROVE  Followed(e)'
<1> USE DEF MappingInv
<1>1. /\ sweep # NoSweep /\ sweep.pc = "cancel" /\ sweep.old \in Task /\ sweep.new \in Task
      /\ UNCHANGED <<event, hand, sending>>
  BY InUseFacts DEF Supersede, NoSweep, work
<1>2. /\ rec[sweep.old].kind = "map" /\ rec[sweep.new].kind = "map"
      /\ rec[sweep.new].ev = rec[sweep.old].ev
  BY <1>1 DEF TasksInv
<1>3. PICK t \in {sweep.old, sweep.new} :
         /\ rec' = [rec EXCEPT ![t] = Cancelled(@)] /\ Revoked(t)
         /\ \/ Active(rec[t]) /\ silenced' = silenced \cup Missed(t)
            \/ rec[t].ev \in silenced'
  BY <1>2 DEF Supersede
<1>4. msgs' \subseteq msgs /\ \A m \in msgs : m.task # t => m \in msgs'
  BY <1>3 DEF Revoked
<1>5. rec'[t].st # "queued" /\ (rec' = rec => ~Active(rec[t]))
  <2>1. rec'[t] = Cancelled(rec[t]) /\ rec[t] \in TaskRecord
    BY <1>1, <1>3 DEF StoresTyped
  <2>2. Cancelled(rec[t]).st # "queued" /\ (Cancelled(rec[t]) = rec[t] => ~Active(rec[t]))
    BY <2>1 DEF Cancelled, Active, TaskRecord
  <2> QED BY <2>1, <2>2
<1>6. rec[t].ev = e => e \notin Missed(t)
  BY <1>3
<1> QED BY <1>1, <1>2, <1>3, <1>4, <1>5, <1>6, MissedFollows

\* What operators do.
LEMMA RequestFollows ==
    ASSUME MappingInv, TasksInv, NEW e \in Event, Followed(e), e \notin silenced',
           \/ \E t \in Task : CancelMapping(t) \/ RetryMapping(t)
           \/ \E kind \in Kind : ClearQueue(kind)
    PROVE  Followed(e)'
<1> USE DEF MappingInv
<1>1. UNCHANGED <<event, hand>> /\ sending \subseteq sending' /\ msgs' \subseteq msgs
  BY DEF CancelMapping, RetryMapping, ClearQueue, Enqueue, work, Revoked
<1>2. \A m \in Held : m.task \in Task /\ rec[m.task].kind = m.kind /\ rec[m.task].ev = m.ev
  BY InUseFacts DEF TasksInv, Fits
<1>3. ASSUME NEW t \in Task, CancelMapping(t) \/ RetryMapping(t) PROVE Followed(e)'
  <2>1. /\ rec' = [rec EXCEPT ![t] = Cancelled(@)] /\ Revoked(t)
        /\ Active(rec[t]) \/ rec[t].st = "failed"
    BY <1>3 DEF CancelMapping, RetryMapping, Active
  <2>2. rec'[t].st # "queued" /\ \A u \in Task : u # t => rec'[u] = rec[u]
    <3>1. rec'[t] = Cancelled(rec[t]) /\ rec[t] \in TaskRecord
      BY <2>1 DEF StoresTyped
    <3>2. Cancelled(rec[t]).st # "queued"
      BY <2>1, <3>1 DEF Cancelled, Active, TaskRecord
    <3> QED BY <2>1, <3>1, <3>2 DEF StoresTyped
  <2>3. \A m \in msgs : m.task # t => m \in msgs'
    BY <2>1 DEF Revoked
  <2>4. \A u \in Task : Maps(u, e)' /\ rec'[u].st = "queued" =>
           /\ Maps(u, e) /\ rec[u].st = "queued"
           /\ \A m \in msgs : m.task = u => m \in msgs'
           /\ \A s \in sending : s.task = u => s \in sending'
    BY <1>1, <2>2, <2>3 DEF Maps
  <2>5. CASE rec[t].ev = e
    <3>1. RetryMapping(t)
      BY <1>3, <2>5 DEF CancelMapping
    <3>2. Carried(e)'
      <4>1. \E n \in sending' : n.ev = rec[t].ev
        <5>1. PICK n : n = [by |-> "api", task |-> Fresh, ev |-> rec[t].ev, copy |-> event[rec[t].ev],
                            force |-> TRUE, full |-> FALSE, pc |-> "save"]
          OBVIOUS
        <5>2. n.ev = rec[t].ev /\ n \in sending'
          BY <3>1, <5>1 DEF RetryMapping, Enqueue
        <5> QED BY <5>2
      <4> QED BY <2>5, <4>1 DEF Carried
    <3> QED BY <2>4, <3>2, FollowedStays
  <2>6. CASE rec[t].ev # e
    <3>1. \A m \in Held : m.ev = e => m \in Held'
      BY <1>1, <1>2, <2>3, <2>6 DEF Held, Busy
    <3>2. \A u \in Task : Maps(u, e) => rec'[u] = rec[u]
      BY <2>2, <2>6 DEF Maps
    <3>3. Carried(e) => Carried(e)'
      BY <1>1, <3>1, <3>2 DEF Carried, Maps
    <3> QED BY <1>1, <2>4, <3>3, FollowedStays
  <2> QED BY <2>5, <2>6
<1>4. ASSUME NEW kind \in Kind, ClearQueue(kind) PROVE Followed(e)'
  <2>1. \A u \in Task : \/ rec'[u] = rec[u]
                        \/ rec[u].kind = kind /\ rec'[u].kind = kind /\ rec'[u].st # "queued"
    <3> SUFFICES ASSUME NEW u \in Task
                 PROVE  \/ rec'[u] = rec[u]
                        \/ rec[u].kind = kind /\ rec'[u].kind = kind /\ rec'[u].st # "queued"
      OBVIOUS
    <3>1. rec'[u] = Cleared(rec[u], kind) /\ rec[u] \in TaskRecord
      BY <1>4 DEF ClearQueue, StoresTyped
    <3> QED BY <3>1 DEF Cleared, TaskRecord
  <2>2. \A u \in Task : Maps(u, e) => kind # "map"
    BY <1>4 DEF ClearQueue, Maps
  <2>3. \A u \in Task : Maps(u, e) => rec'[u] = rec[u]
    BY <2>1, <2>2 DEF Maps
  <2>4. \A m \in msgs : m.kind # kind => m \in msgs'
    BY <1>4 DEF ClearQueue
  <2>5. \A m \in Held : m.ev = e /\ m.kind = "map" => m \in Held'
    BY <1>1, <1>2, <2>2, <2>4 DEF Held, Busy, Maps
  <2>6. \A u \in Task : Maps(u, e)' /\ rec'[u].st = "queued" =>
           /\ Maps(u, e) /\ rec[u].st = "queued"
           /\ \A m \in msgs : m.task = u => m \in msgs'
           /\ \A s \in sending : s.task = u => s \in sending'
    <3> SUFFICES ASSUME NEW u \in Task, Maps(u, e)', rec'[u].st = "queued"
                 PROVE  /\ Maps(u, e) /\ rec[u].st = "queued"
                        /\ \A m \in msgs : m.task = u => m \in msgs'
                        /\ \A s \in sending : s.task = u => s \in sending'
      OBVIOUS
    <3>1. Maps(u, e) /\ rec[u].st = "queued"
      BY <2>1 DEF Maps
    <3>2. \A m \in msgs : m.task = u => m.kind = "map"
      BY <1>2, <3>1 DEF Held, Maps
    <3> QED BY <1>1, <2>2, <2>4, <3>1, <3>2
  <2>7. Carried(e) => Carried(e)'
    BY <1>1, <2>3, <2>5 DEF Carried, Maps
  <2> QED BY <1>1, <2>6, <2>7, FollowedStays
<1> QED BY <1>3, <1>4

LEMMA DeliverFollows ==
    ASSUME MappingInv, TasksInv, NEW e \in Event, Followed(e), e \notin silenced',
           NEW w \in Worker, NEW m \in msgs, Deliver(w, m)
    PROVE  Followed(e)'
<1> USE DEF MappingInv
<1>1. /\ m \in Held /\ m.task \in Task /\ m.ev \in Event
      /\ rec[m.task].kind = m.kind /\ rec[m.task].ev = m.ev /\ rec[m.task] \in TaskRecord
  BY InUseFacts DEF Held, StoresTyped, TasksInv, Fits
<1>2. /\ hand[w] = Idle /\ msgs' = msgs \ {m} /\ UNCHANGED sending
      /\ \A f \in Event : f # m.ev => event'[f] = event[f]
  BY DEF Deliver, DeliverMapping, DeliverExtraction, StoresTyped
<1>3. \A u \in Task : u # m.task => rec'[u] = rec[u]
  BY DEF Deliver, DeliverMapping, DeliverExtraction, Take, StoresTyped
<1>4. \A v \in Worker : v # w => hand'[v] = hand[v]
  BY DEF Deliver, DeliverMapping, DeliverExtraction, Take, HandsTyped
<1>5. \A k \in Held : k # m => k \in Held'
  <2>1. \A v \in Busy : v # w
    BY <1>2 DEF Busy
  <2> QED BY <1>2, <1>4, <2>1 DEF Held, Busy
<1>6. \A u \in Task : u # m.task /\ Maps(u, e)' /\ rec'[u].st = "queued" =>
         /\ Maps(u, e) /\ rec[u].st = "queued"
         /\ \A k \in msgs : k.task = u => k \in msgs'
         /\ \A s \in sending : s.task = u => s \in sending'
  BY <1>2, <1>3 DEF Maps
<1>7. CASE m.kind = "map" /\ rec[m.task].st = "cancelled"
  <2>1. DeliverMapping(w, m)
    BY <1>7 DEF Deliver, DeliverExtraction
  <2>2. UNCHANGED <<rec, hand, event>> /\ e \notin Missed(m.task)
    BY <1>7, <2>1 DEF DeliverMapping
  <2>3. /\ msgs' \subseteq msgs /\ \A k \in msgs : k.task # m.task => k \in msgs'
        /\ rec'[m.task].st # "queued" /\ ~Active(rec[m.task])
    BY <1>2, <1>7, <2>2 DEF Active
  <2> QED BY <1>1, <1>2, <1>7, <2>2, <2>3, MissedFollows
<1>8. CASE m.kind = "map" /\ rec[m.task].st # "cancelled"
  <2>1. DeliverMapping(w, m)
    BY <1>8 DEF Deliver, DeliverExtraction
  <2>2. PICK pc \in {"map", "report"} : Take(w, m, pc)
    BY <1>8, <2>1 DEF DeliverMapping
  <2>3. hand'[w].msg = m /\ hand'[w].pc = pc /\ rec'[m.task] = Tracked(rec[m.task], "running")
    BY <1>1, <2>2 DEF Take, HandsTyped, StoresTyped
  <2>4. m \in Held'
    BY <2>3 DEF Held, Busy, Idle
  <2>5. rec'[m.task].st = "running" /\ rec'[m.task].kind = "map" /\ rec'[m.task].ev = m.ev
    BY <1>1, <1>8, <2>3 DEF Tracked, TaskRecord
  <2>6. e = m.ev => Carried(e)'
    BY <1>8, <2>4 DEF Carried
  <2>7. Carried(e) => Carried(e)'
    <3>1. \A k \in Held : k \in Held'
      BY <1>5, <2>4
    <3>2. \A u \in Task : Maps(u, e) /\ Leased(rec[u]) => Maps(u, e)' /\ Leased(rec'[u])
      BY <1>1, <1>3, <2>5 DEF Maps, Leased
    <3> QED BY <1>2, <3>1, <3>2 DEF Carried
  <2> QED BY <1>2, <1>6, <2>5, <2>6, <2>7, FollowedStays
<1>9. CASE m.kind # "map"
  <2>1. DeliverExtraction(w, m) /\ UNCHANGED event
    BY <1>9 DEF Deliver, DeliverMapping, DeliverExtraction
  <2>2. rec'[m.task].kind # "map"
    <3>1. \/ rec'[m.task] = rec[m.task]
          \/ \E st : rec'[m.task] = Tracked(rec[m.task], st)
      BY <1>1, <2>1 DEF DeliverExtraction, Take, StoresTyped
    <3> QED BY <1>1, <1>9, <3>1, UpdatesKeepSubject
  <2>3. Carried(e) => Carried(e)'
    BY <1>1, <1>2, <1>3, <1>5, <1>9 DEF Carried, Maps
  <2> QED BY <1>6, <2>1, <2>2, <2>3, FollowedStays DEF Maps
<1> QED BY <1>7, <1>8, <1>9

\* A handler goes on, fails or dies: the mapping is over, tried again or given back.
LEMMA HandlerFollows ==
    ASSUME CallersApart, MappingInv, TasksInv, NEW e \in Event, Followed(e), ~report[e].there, ~report'[e].there,
           NEW w \in Worker, Handle(w) \/ HandlerFails(w) \/ WorkerDies(w)
    PROVE  Followed(e)'
<1> USE DEF MappingInv
<1> DEFINE m == hand[w].msg
<1>1. w \in Busy
  <2>1. hand[w] # Idle \/ hand[w].pc \in {"map", "report", "extract", "raise"}
    BY DEF Handle, MapDone, QueueReport, HandlerFails, Extracted, WorkerDies
  <2> QED BY <2>1 DEF Busy, Idle
<1>2. /\ m \in Held /\ m \in Message /\ m.task \in Task /\ m.ev \in Event /\ rec[m.task] \in TaskRecord
      /\ hand[w] \in Handler /\ report[m.ev] \in Report /\ Fits(m) /\ m.kind \in Kind
      /\ rec[m.task].kind = m.kind /\ rec[m.task].ev = m.ev
  <2>1. m \in Held
    BY <1>1, InUseFacts
  <2>2. Fits(m)
    BY <2>1 DEF TasksInv
  <2> QED BY <1>1, <2>1, <2>2, InUseFacts, BusyHandsHandle DEF Busy, StoresTyped, Fits
<1>3. /\ \A f \in Event : f # m.ev => event'[f] = event[f]
      /\ msgs \subseteq msgs'
  BY DEF Handle, MapDone, QueueReport, HandlerFails, ExtractionFails, MappingFails, Extracted, WorkerDies,
         Again, StoresTyped
<1>4. UNCHANGED rec \/ \E st \in Status \ {"queued"} : rec' = [rec EXCEPT ![m.task] = Tracked(@, st)]
  BY DEF Handle, MapDone, QueueReport, HandlerFails, ExtractionFails, MappingFails, Extracted, WorkerDies, Status
<1>5. /\ \A u \in Task : u # m.task => rec'[u] = rec[u]
      /\ rec'[m.task].kind = rec[m.task].kind /\ rec'[m.task].ev = rec[m.task].ev
      /\ rec'[m.task].st = "queued" => UNCHANGED rec \/ rec'[m.task] = rec[m.task]
  <2>1. CASE UNCHANGED rec
    BY <2>1
  <2>2. ASSUME NEW st \in Status \ {"queued"}, rec' = [rec EXCEPT ![m.task] = Tracked(@, st)]
        PROVE  /\ \A u \in Task : u # m.task => rec'[u] = rec[u]
               /\ rec'[m.task].kind = rec[m.task].kind /\ rec'[m.task].ev = rec[m.task].ev
               /\ rec'[m.task].st = "queued" => rec'[m.task] = rec[m.task]
    <3>1. rec'[m.task] = Tracked(rec[m.task], st) /\ \A u \in Task : u # m.task => rec'[u] = rec[u]
      BY <1>2, <2>2 DEF StoresTyped
    <3>2. Tracked(rec[m.task], st).st # "queued" \/ Tracked(rec[m.task], st) = rec[m.task]
      BY <1>2 DEF Tracked, TaskRecord
    <3> QED BY <1>2, <3>1, <3>2, UpdatesKeepSubject
  <2> QED BY <1>4, <2>1, <2>2
<1>6. \A k \in Held : k # m => k \in Held'
  <2>1. \A v \in Worker : v # w => hand'[v] = hand[v]
    BY DEF Handle, MapDone, QueueReport, HandlerFails, Extracted, WorkerDies, HandsTyped
  <2> QED BY <1>3, <2>1 DEF Held, Busy
<1>7. \A s \in sending : s \in sending' \/ (s.by = w /\ s.ev = m.ev /\ m.kind = "extract")
  <2>1. ASSUME NEW s \in sending, s.by = w PROVE s.ev = m.ev /\ hand[w].pc = "wait"
    BY <2>1 DEF TasksInv, AskedBy, CallersWait
  <2>2. hand[w].pc = "wait" => m.kind = "extract"
    BY <1>1 DEF TasksInv
  <2>3. sending \subseteq sending' \/ sending' = {s \in sending : s.by # w}
    BY DEF Handle, MapDone, QueueReport, HandlerFails, Extracted, WorkerDies, Enqueue
  <2> QED BY <2>1, <2>2, <2>3
<1>8. \A s \in sending, t \in Task : s.task = t /\ Maps(t, e) /\ rec[t].st = "queued" => s.ev = e
  <2> SUFFICES ASSUME NEW s \in sending, NEW t \in Task, s.task = t, Maps(t, e), rec[t].st = "queued"
               PROVE  s.ev = e
    OBVIOUS
  <2>1. Enqueued(s) /\ (s.pc = "save" \/ s.pc = "publish")
    BY DEF TasksInv, CallsTyped, Sending
  <2> QED BY <2>1 DEF Enqueued, Maps, Active
<1>9. CASE e # m.ev
  <2>1. \A u \in Task : Maps(u, e)' => Maps(u, e) /\ rec'[u] = rec[u]
    BY <1>2, <1>5, <1>9 DEF Maps
  <2>2. \A u \in Task : Maps(u, e) => Maps(u, e)' /\ rec'[u] = rec[u]
    BY <1>2, <1>5, <1>9 DEF Maps
  <2>3. \A s \in sending : s.ev = e => s \in sending'
    BY <1>7, <1>9
  <2>4. Carried(e) => Carried(e)'
    BY <1>6, <1>9, <2>2, <2>3 DEF Carried
  <2>5. \A u \in Task : Maps(u, e)' /\ rec'[u].st = "queued" =>
           /\ Maps(u, e) /\ rec[u].st = "queued"
           /\ \A k \in msgs : k.task = u => k \in msgs'
           /\ \A s \in sending : s.task = u => s \in sending'
    BY <1>3, <1>8, <2>1, <2>3
  <2> QED BY <1>3, <1>9, <2>4, <2>5, FollowedStays
<1>10. CASE e = m.ev
  <2>1. ~m.full /\ m.kind = "map"
    BY <1>2, <1>10 DEF Fits, Kind
  <2>2. sending \subseteq sending'
    BY <1>7, <2>1
  <2>3. \A u \in Task : Maps(u, e)' /\ rec'[u].st = "queued" =>
           /\ Maps(u, e) /\ rec[u].st = "queued"
           /\ \A k \in msgs : k.task = u => k \in msgs'
           /\ \A s \in sending : s.task = u => s \in sending'
    BY <1>3, <1>5, <2>2 DEF Maps
  <2>4. CASE \E t : [m EXCEPT !.try = t] \in msgs'
    <3>1. \A t : [m EXCEPT !.try = t].ev = m.ev /\ [m EXCEPT !.try = t].kind = m.kind
      BY <1>2 DEF Message
    <3>2. Carried(e)'
      BY <1>10, <2>1, <2>4, <3>1 DEF Carried, Held
    <3> QED BY <2>3, <3>2, FollowedStays
  <2>5. CASE m \in msgs'
    <3>1. Carried(e)'
      BY <1>10, <2>1, <2>5 DEF Carried, Held
    <3> QED BY <2>3, <3>1, FollowedStays
  <2>6. CASE ~InMapping(event'[e])
    BY <2>3, <2>6, FollowedStays
  <2>7. event[e] \in Steps
    BY DEF StoresTyped
  <2>8. MapDone(w) => ~InMapping(event'[e])
    <3> SUFFICES ASSUME MapDone(w) PROVE event'[e].q = "completed"
      BY DEF InMapping
    <3> QED BY <1>10 DEF MapDone, StoresTyped
  <2>9. ~QueueReport(w)
    <3> SUFFICES ASSUME QueueReport(w) PROVE FALSE
      OBVIOUS
    <3>1. report'[e] = Reported(report[e], m.full)
      BY <1>2, <1>10 DEF QueueReport, StoresTyped
    <3> QED BY <1>2, <1>10, <2>1, <3>1 DEF Reported, Report
  <2>10. ~Extracted(w)
    BY <1>1, <2>1 DEF Extracted, TasksInv
  <2>11. HandlerFails(w) => (\E t : [m EXCEPT !.try = t] \in msgs') \/ ~InMapping(event'[e])
    <3> SUFFICES ASSUME HandlerFails(w) PROVE (\E t : [m EXCEPT !.try = t] \in msgs') \/ ~InMapping(event'[e])
      OBVIOUS
    <3>1. MappingFails(w)
      BY <2>1 DEF HandlerFails, ExtractionFails
    <3>2. CASE m.try = MaxTries
      <4>1. event'[e] = [event[e] EXCEPT !.m = "other", !.later = TRUE]
        BY <1>10, <3>1, <3>2 DEF MappingFails, StoresTyped
      <4>2. event'[e].m = "other" /\ event'[e].later
        BY <2>7, <4>1 DEF Steps
      <4> QED BY <4>2 DEF InMapping
    <3>3. CASE m.try # MaxTries
      BY <3>1, <3>3 DEF MappingFails, Again
    <3> QED BY <3>2, <3>3
  <2>12. WorkerDies(w) => m \in msgs'
    BY DEF WorkerDies
  <2> QED BY <2>4, <2>5, <2>6, <2>8, <2>9, <2>10, <2>11, <2>12 DEF Handle
<1> QED BY <1>9, <1>10

LEMMA FollowInductive ==
    ASSUME CallersApart, MappingInv, TasksInv, FollowInv, [Next]_mappingVars
    PROVE  FollowInv'
<1> SUFFICES ASSUME NEW e \in Event \ silenced', ~report'[e].there PROVE Followed(e)'
  BY DEF FollowInv
<1>1. e \notin silenced /\ ~report[e].there /\ Followed(e)
  BY StoresGrow DEF FollowInv
<1>2. CASE UNCHANGED mappingVars
  BY <1>1, <1>2 DEF mappingVars, work, Followed, QueuedCarried, Carried, Maps, Held, Busy
<1>3. ASSUME NEW s \in sending, Send(s) \/ PublishFails(s) \/ SenderDies(s) PROVE Followed(e)'
  BY <1>1, <1>3, SaveFollows, SendFollows DEF Send
<1>4. ASSUME NEW w \in Worker, Handle(w) \/ HandlerFails(w) \/ WorkerDies(w) PROVE Followed(e)'
  BY <1>1, <1>4, HandlerFollows
<1>5. ASSUME NEW w \in Worker, NEW m \in msgs, Deliver(w, m) PROVE Followed(e)'
  BY <1>1, <1>5, DeliverFollows
<1>6. ASSUME NEW w \in Worker, TouchReads(w) \/ BeatStops(w) PROVE Followed(e)'
  BY <1>1, <1>6, QuietFollows
<1>7. ASSUME NEW t \in Task, TouchWrites(t) \/ LeaseLapses(t) PROVE Followed(e)'
  BY <1>1, <1>7, QuietFollows
<1>8. ASSUME NEW t \in Task, Reconcile(t) \/ CancelMapping(t) \/ RetryMapping(t) PROVE Followed(e)'
  BY <1>1, <1>8, ReconcileFollows, RequestFollows
<1>9. ASSUME NEW f \in Event, Follow(f) \/ FullResearch(f) \/ ResearchEnds(f) PROVE Followed(e)'
  BY <1>1, <1>9, QuietFollows
<1>10. ASSUME NEW kind \in {"extract", "map"}, ClearQueue(kind) PROVE Followed(e)'
  BY <1>1, <1>10, RequestFollows DEF Kind
<1>11. CASE Supersede
  BY <1>1, <1>11, SupersedeFollows
<1> QED BY <1>2, <1>3, <1>4, <1>5, <1>6, <1>7, <1>8, <1>9, <1>10, <1>11 DEF Next

\* An event that counts as being mapped, which beat therefore leaves alone, has somebody who
\* maps it: a message that waits or is handled, an enqueue under way, or a task that the
\* reconciliation replaces once its lease has lapsed; unless its mapping was cancelled or
\* its message lost (worker.py, enqueue_asset_mapping, resolve_event_assets,
\* reconcile_asset_mapping_leases, _asset_mapping_is_active).
MappingIsCarried ==
  \A e \in Event \ silenced : InMapping(event[e]) /\ ~report[e].there => Carried(e)

THEOREM MappingsAreCarried ==
    ASSUME CallersApart
    PROVE  Spec => []MappingIsCarried
<1>1. Init => FollowInv
  <2> SUFFICES ASSUME Init, NEW e \in Event PROVE Followed(e)
    BY DEF FollowInv
  <2>1. event[e].q = "none" /\ \A t \in Task : rec[t].st = "none"
    BY DEF Init, NewEvent
  <2> QED BY <2>1 DEF Followed, QueuedCarried, InMapping
<1>2. MappingInv /\ TasksInv /\ FollowInv /\ [Next]_mappingVars => FollowInv'
  BY FollowInductive
<1>3. FollowInv => MappingIsCarried
  BY DEF FollowInv, Followed, MappingIsCarried
<1> QED BY <1>1, <1>2, <1>3, MappingInvariant, TasksAreOfTheirRecords, PTL DEF Spec


=============================================================================
