---------------------------- MODULE MappingSweep ----------------------------
(***************************************************************************)
(* backfill_asset_mappings (worker.py): a sweep over the recent events in  *)
(* batches.  Its place is a cursor in the next message, which has the same *)
(* task id; a message whose worker dies comes back as it was, also when    *)
(* its successor is published already, so that two chains can run.         *)
(*                                                                         *)
(* An event is known by its id and its observed_at, a mapping by whether   *)
(* the event has a good one and whether one is under way.                  *)
(***************************************************************************)
EXTENDS Integers, Sequences, FiniteSets, FiniteSetsExt, Ranks

CONSTANTS
  Event,       \* ids, as integers: the second key of the order
  FirstSeen,   \* [Event -> time] observed_at; 0 for an event still to come
  BatchSize,
  Latest,      \* the time at which events come
  Sweeper,     \* processes that serve the lane "io"
  MaxTrouble   \* bound: deaths, refusals of the broker or of an instance

VARIABLES
  observed,    \* observed_at of each row, 0 without one
  poor,        \* events without a good mapping
  active,      \* events with a mapping under way
  messages,    \* published messages of the sweep
  sweeps,      \* [Sweeper -> the message in work and how far it is]
  steady,      \* history: events there from the start whose place is the same
  completed,   \* history: the last messages of the chains that ended
  trouble

vars == <<observed, poor, active, messages, sweeps, steady, completed, trouble>>

\* A message: the cursor, the counts and, as history, the events looked at.
Start == [time |-> 0, id |-> 0, scanned |-> 0, queued |-> 0, skipped |-> 0,
          failed |-> 0, seen |-> {}]
Idle == [origin |-> Start, message |-> Start, rows |-> <<>>, next |-> 0]

Init ==
  /\ observed = FirstSeen
  /\ poor \in {{}, {e \in Event : FirstSeen[e] # 0}}
  /\ active = {}
  /\ messages = {Start} /\ sweeps = [s \in Sweeper |-> Idle]
  /\ steady = {e \in Event : FirstSeen[e] # 0}
  /\ completed = {} /\ trouble = 0

Rowed == {e \in Event : observed[e] # 0}
Precedes(t, i, u, j) == t < u \/ (t = u /\ i < j)

\* Defect: events observed with the last one of a batch count as seen.
AfterByTime(m) == {e \in Rowed : m.time < observed[e]}

After(m) == {e \in Rowed : Precedes(m.time, m.id, observed[e], e)}

\* order_by(observed_at, id).limit(10): copies, judged by what they say.
Earlier == {p \in Event \X Event : Precedes(observed[p[1]], p[1], observed[p[2]], p[2])}

Rows(m) ==
  LET ordered == InOrder(After(m), Earlier)
      Copy(e) == [id |-> e, time |-> observed[e], wanted |-> e \in poor \ active]
  IN  [k \in 1 .. Min({BatchSize, Cardinality(After(m))}) |-> Copy(ordered[k])]

-----------------------------------------------------------------------------
Busy(s) == sweeps[s].next # 0
Looked(s) == sweeps[s].next > Len(sweeps[s].rows)
Hold(s, held) == sweeps' = [sweeps EXCEPT ![s] = held]

\* Whether the lanes have room is left open: without it the same message is
\* published again.
TakeBatch(s) ==
  /\ ~Busy(s)
  /\ \E m \in messages :
       /\ messages' = messages \ {m}
       /\ Hold(s, [origin |-> m, message |-> m, rows |-> Rows(m), next |-> 1])
  /\ UNCHANGED <<observed, poor, active, steady, completed, trouble>>

\* The next row is skipped, or a forced mapping of its event is dispatched.
Scan(s) ==
  /\ Busy(s) /\ ~Looked(s)
  /\ LET row == sweeps[s].rows[sweeps[s].next]
         message == sweeps[s].message
         Counted(m) ==
           Hold(s, [sweeps[s] EXCEPT
                      !.next = @ + 1,
                      !.message = [m EXCEPT !.scanned = @ + 1, !.seen = @ \union {row.id}]])
     IN  \/ /\ ~row.wanted
            /\ Counted([message EXCEPT !.skipped = @ + 1]) /\ UNCHANGED <<active, trouble>>
         \/ /\ row.wanted /\ Counted([message EXCEPT !.queued = @ + 1])
            /\ active' = active \union {row.id} /\ UNCHANGED trouble
         \/ /\ row.wanted /\ trouble < MaxTrouble /\ trouble' = trouble + 1
            /\ Counted([message EXCEPT !.failed = @ + 1]) /\ UNCHANGED active
  /\ UNCHANGED <<observed, poor, messages, steady, completed>>

Successor(s) ==
  LET last == sweeps[s].rows[BatchSize]
  IN  [sweeps[s].message EXCEPT !.time = last.time, !.id = last.id]

\* A short batch is the last one.
Finish(s) ==
  /\ Busy(s) /\ Looked(s)
  /\ IF Len(sweeps[s].rows) < BatchSize
     THEN completed' = completed \union {sweeps[s].message} /\ UNCHANGED messages
     ELSE messages' = messages \union {Successor(s)} /\ UNCHANGED completed
  /\ Hold(s, Idle)
  /\ UNCHANGED <<observed, poor, active, steady, trouble>>

\* The broker refuses the successor: the task fails and is acknowledged.
Lost(s) ==
  /\ Busy(s) /\ Looked(s) /\ Len(sweeps[s].rows) = BatchSize
  /\ trouble < MaxTrouble /\ trouble' = trouble + 1
  /\ Hold(s, Idle)
  /\ UNCHANGED <<observed, poor, active, messages, steady, completed>>

\* Dead before the acknowledgement, with or without a successor.
Dies(s) ==
  /\ Busy(s) /\ trouble < MaxTrouble /\ trouble' = trouble + 1
  /\ \/ messages' = messages \union {sweeps[s].origin}
     \/ /\ Looked(s) /\ Len(sweeps[s].rows) = BatchSize
        /\ messages' = messages \union {sweeps[s].origin, Successor(s)}
  /\ Hold(s, Idle)
  /\ UNCHANGED <<observed, poor, active, steady, completed>>

-----------------------------------------------------------------------------
\* What the rest of the system does meanwhile: a new event, a merge that
\* dates an event back, a mapping that ends.
Appears(e) ==
  /\ observed[e] = 0 /\ observed' = [observed EXCEPT ![e] = Latest]
  /\ poor' \in {poor, poor \union {e}}
  /\ UNCHANGED <<active, messages, sweeps, steady, completed, trouble>>

MovesBack(e) ==
  /\ observed[e] > 1 /\ observed' = [observed EXCEPT ![e] = @ - 1]
  /\ steady' = steady \ {e}
  /\ UNCHANGED <<poor, active, messages, sweeps, completed, trouble>>

MappingEnds(e) ==
  /\ e \in active /\ active' = active \ {e}
  /\ poor' \in {poor, poor \ {e}}
  /\ UNCHANGED <<observed, messages, sweeps, steady, completed, trouble>>

Next ==
  \/ \E s \in Sweeper : TakeBatch(s) \/ Scan(s) \/ Finish(s) \/ Lost(s) \/ Dies(s)
  \/ \E e \in Event : Appears(e) \/ MovesBack(e) \/ MappingEnds(e)

-----------------------------------------------------------------------------
\* Through redelivered messages, two chains at once, events that come and
\* events that a merge dates back, no chain looks at an event twice or loses
\* count of one, none has passed an event that kept its place without having
\* looked at it, and one that completes has looked at all of them
\* (worker.py, backfill_asset_mappings).
SweepMissesNothing ==
  LET Right(m) ==
        /\ m.scanned = Cardinality(m.seen)
        /\ m.scanned = m.queued + m.skipped + m.failed
  IN  /\ \A m \in messages :
           /\ Right(m)
           /\ \A e \in steady : e \in m.seen \/ Precedes(m.time, m.id, observed[e], e)
      /\ \A m \in completed : Right(m)
      /\ \A m \in completed : steady \subseteq m.seen
=============================================================================
