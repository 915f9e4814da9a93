--------------------------- MODULE EvolutionTasks ---------------------------
(***************************************************************************)
(* The code lane above services/evolution.py: beat dispatches a periodic   *)
(* evolution, the API asks for more, retries and clears, and one worker    *)
(* gathers failure cases, has a candidate proposed and executes it,        *)
(* writing every stage to the task's record (worker.py, main.py).  What an *)
(* execution does to the repository is module Evolution; here it ends in a *)
(* verdict, or in an exception.                                            *)
(***************************************************************************)
EXTENDS Integers, Sequences, FiniteSets, FiniteSetsExt, Ranks

CONSTANTS
  Task,         \* task ids
  Candidate,    \* candidates the model proposes, as 1 .. n
  Histories,    \* outcome rows, newest first: [run, correct, alpha]
  Runs,         \* research runs, newest first: [status, retryable]
  MaxMisses,    \* 30 in the code
  MaxCases      \* 50 in the code

VARIABLES
  enabled,      \* settings.evolution_enabled
  recorded,      \* the outcomes recorded
  record,       \* the registry's record of each task: status and candidate
  deliveries,    \* what the broker holds: [task, kind, cand]
  verdicts,     \* the candidates' status in the database
  branched,     \* candidates whose branch exists
  hand,         \* what the worker does, for which message and candidate
  given         \* the cases last handed to the model

taskVars == <<enabled, recorded, record, deliveries, verdicts, branched, hand, given>>

Idle == [at |-> "idle", message |-> [task |-> 0, kind |-> "none", cand |-> 0], cand |-> 0]
Verdict == {"merged", "rejected", "rolled_back"}
Failed == {"failed", "rejected", "rolled_back"}
Working == {"queued", "running", "generating", "testing"}

Init ==
  /\ enabled \in BOOLEAN /\ recorded \in Histories
  /\ record = [t \in Task |-> [status |-> "none", cand |-> 0]]
  /\ deliveries = {} /\ verdicts = [c \in Candidate |-> "none"] /\ branched = {}
  /\ hand = Idle /\ given = <<>>

-----------------------------------------------------------------------------
\* _evolution_failure_cases: outcomes that missed, newest first, then runs
\* that ended without a result and that no miss has already brought in.
Missed(o) == ~(o.correct /\ o.alpha # "negative")
Misses ==
  LET missed == {o \in DOMAIN recorded : Missed(recorded[o])}
  IN  [i \in 1 .. Min({Cardinality(missed), MaxMisses}) |-> recorded[Ascending(missed)[i]]]

FailureType(run) ==
  IF run.status = "failed" \/ run.retryable THEN "technical_failure" ELSE "evidence_gap"

Ended == {r \in DOMAIN Runs : Runs[r].status \in {"failed", "insufficient_evidence"}}

CasesOf(failed) ==
  LET room == MaxCases - Len(Misses)
  IN  [i \in DOMAIN Misses |-> [run |-> Misses[i].run, type |-> "outcome_miss"]]
        \o [i \in 1 .. Min({Cardinality(failed), room}) |->
             LET r == Ascending(failed)[i] IN [run |-> r, type |-> FailureType(Runs[r])]]

\* Defect: a run may come as a missed outcome and once more by itself.
CasesRepeated == CasesOf(Ended)

Cases == CasesOf({r \in Ended : \A i \in DOMAIN Misses : Misses[i].run # r})

-----------------------------------------------------------------------------
\* update_model_task: a cancelled record is left alone, and a candidate once
\* recorded stays unless another one is given.
Tracked(t, status, cand) ==
  IF record[t].status = "cancelled" THEN record
  ELSE [record EXCEPT ![t] = [status |-> status, cand |-> IF cand = 0 THEN @.cand ELSE cand]]

\* The record first, then the message; a broker that fails marks the record
\* failed, and a process that dies in between leaves it queued.
Publish(t, kind, cand) ==
  /\ record[t].status = "none"
  /\ \/ /\ record' = [record EXCEPT ![t] = [status |-> "queued", cand |-> cand]]
        /\ deliveries' \in {deliveries, deliveries \union {[task |-> t, kind |-> kind, cand |-> cand]}}
     \/ /\ record' = [record EXCEPT ![t] = [status |-> "failed", cand |-> cand]]
        /\ UNCHANGED deliveries
  /\ UNCHANGED <<enabled, recorded, verdicts, branched, hand, given>>

\* dispatch_evolve_from_outcomes, with no regard to the setting.
Dispatch(t) == Publish(t, "outcomes", 0)

\* propose_evolution, with failures of the caller's own.
AskForPatch(t) == enabled /\ Publish(t, "failures", 0)

\* execute_evolution of the API, of any candidate there is.
AskForExecution(t, c) == verdicts[c] # "none" /\ Publish(t, "execute", c)

\* _enqueue_model_task_retry: what ended with an error is published again, as
\* the execution of its candidate if it got that far.
Retry(t, new) ==
  /\ record[t].status \in Failed
  /\ Publish(new, IF record[t].cand = 0 THEN "outcomes" ELSE "execute", record[t].cand)

\* clear_model_queue: every record that works or has failed is cancelled,
\* messages are purged or revoked, and the execution is terminated.  A purge
\* may miss messages; the worker asks for the record before it starts.
Clear ==
  /\ \E t \in Task : record[t].status \in Working
  /\ record' = [t \in Task |-> IF record[t].status \in Working \union Failed
                               THEN [record[t] EXCEPT !.status = "cancelled"] ELSE record[t]]
  /\ deliveries' \in {{}, deliveries}
  /\ hand' = IF hand # Idle /\ record[hand.message.task].status \in Working THEN Idle ELSE hand
  /\ UNCHANGED <<enabled, recorded, verdicts, branched, given>>

-----------------------------------------------------------------------------
Holds(at, m, cand) == hand' = [at |-> at, message |-> m, cand |-> cand]

DropCancelled(m) ==
  /\ hand = Idle /\ m \in deliveries /\ record[m.task].status = "cancelled"
  /\ deliveries' = deliveries \ {m}
  /\ UNCHANGED <<enabled, recorded, record, verdicts, branched, hand, given>>

Take(m, kind) ==
  /\ hand = Idle /\ m \in deliveries /\ m.kind = kind
  /\ record[m.task].status # "cancelled"
  /\ deliveries' = deliveries \ {m}
  /\ UNCHANGED <<enabled, recorded, verdicts, branched>>

\* evolve_from_outcomes, up to the model.
StartOutcomes(m) ==
  /\ Take(m, "outcomes")
  /\ IF ~enabled \/ Cases = <<>>
     THEN record' = Tracked(m.task, "completed", 0) /\ UNCHANGED <<hand, given>>
     ELSE /\ record' = Tracked(m.task, "generating", 0)
          /\ Holds("propose", m, 0)
          /\ given' = Cases

\* evolve_failures.
StartFailures(m) ==
  /\ Take(m, "failures")
  /\ IF ~enabled
     THEN record' = Tracked(m.task, "failed", 0) /\ UNCHANGED hand
     ELSE record' = Tracked(m.task, "generating", 0) /\ Holds("propose", m, 0)
  /\ UNCHANGED given

\* execute_evolution.
StartExecution(m) ==
  /\ Take(m, "execute")
  /\ record' = Tracked(m.task, "testing", m.cand)
  /\ Holds("execute", m, m.cand)
  /\ UNCHANGED given

\* _run_evolution_failures: the model's candidate, before it is executed.
Propose(c) ==
  /\ hand.at = "propose" /\ verdicts[c] = "none"
  /\ verdicts' = [verdicts EXCEPT ![c] = "proposed"]
  /\ record' = Tracked(hand.message.task, "testing", c)
  /\ Holds("execute", hand.message, c)
  /\ UNCHANGED <<enabled, recorded, deliveries, branched, given>>

\* Defect: a branch of an earlier execution is taken over.
ExecuteAnew ==
  /\ hand.at = "execute" /\ enabled
  /\ branched' = branched \union {hand.cand}
  /\ verdicts' = [verdicts EXCEPT ![hand.cand] = "testing"]
  /\ hand' = [hand EXCEPT !.at = "gates"]
  /\ UNCHANGED <<enabled, recorded, record, deliveries, given>>

\* execute() makes its branch once; a candidate that has one is refused.
Execute ==
  /\ hand.at = "execute" /\ enabled /\ hand.cand \notin branched
  /\ branched' = branched \union {hand.cand}
  /\ verdicts' = [verdicts EXCEPT ![hand.cand] = "testing"]
  /\ hand' = [hand EXCEPT !.at = "gates"]
  /\ UNCHANGED <<enabled, recorded, record, deliveries, given>>

\* Without auto-merge a candidate that passes its gates is left testing.
ExecuteReturns(verdict) ==
  /\ hand.at = "gates" /\ verdict \in Verdict \union {"testing"}
  /\ verdicts' = [verdicts EXCEPT ![hand.cand] = verdict]
  /\ record' = Tracked(hand.message.task, verdict, hand.cand)
  /\ hand' = Idle
  /\ UNCHANGED <<enabled, recorded, deliveries, branched, given>>

\* An exception, of the model or of the execution, which may have saved a
\* verdict before: the task has failed.
Raises ==
  /\ hand.at # "idle"
  /\ record' = Tracked(hand.message.task, "failed", hand.cand)
  /\ IF hand.at = "gates"
     THEN \E v \in {"testing", "rejected", "rolled_back"} :
            verdicts' = [verdicts EXCEPT ![hand.cand] = v]
     ELSE UNCHANGED verdicts
  /\ hand' = Idle
  /\ UNCHANGED <<enabled, recorded, deliveries, branched, given>>

\* The worker dies and the broker delivers the message again.
Dies ==
  /\ hand.at # "idle"
  /\ deliveries' = deliveries \union {hand.message}
  /\ hand' = Idle
  /\ UNCHANGED <<enabled, recorded, record, verdicts, branched, given>>

Next ==
  \/ \E t \in Task : Dispatch(t) \/ AskForPatch(t)
  \/ \E t \in Task, c \in Candidate : AskForExecution(t, c)
  \/ \E t, new \in Task : Retry(t, new)
  \/ \E m \in deliveries :
       DropCancelled(m) \/ StartOutcomes(m) \/ StartFailures(m) \/ StartExecution(m)
  \/ \E c \in Candidate : Propose(c)
  \/ \E v \in Verdict \union {"testing"} : ExecuteReturns(v)
  \/ Execute \/ Raises \/ Dies \/ Clear

-----------------------------------------------------------------------------
\* What the record of a code task says is true, and what the model learns from
\* is real.  A verdict in a record is its candidate's verdict, however often
\* that candidate was redelivered, retried or asked for again; a task that was
\* cancelled says nothing more; the cases hold each run once and nothing that
\* went well, misses before runs, and leave a case out only at a limit
\* (worker.py, _run_evolution_failures, execute_evolution and
\* _evolution_failure_cases; main.py, _enqueue_model_task_retry).
CodeTaskIsTrue ==
  LET misses == {i \in DOMAIN given : given[i].type = "outcome_miss"}
      missed == {o \in DOMAIN recorded : Missed(recorded[o])}
      unserved == Ended \ {given[i].run : i \in DOMAIN given}
      single == DOMAIN given \ misses
  IN
  /\ \A t \in Task :
       record[t].status \in Verdict => verdicts[record[t].cand] = record[t].status
  /\ \A t \in Task : record[t].status = "completed" => ~enabled \/ Cases = <<>>
  /\ branched # {} => enabled
  /\ given # <<>> =>
       /\ Len(given) <= MaxCases
       /\ Cardinality(misses) = Min({Cardinality(missed), MaxMisses})
       /\ \A i \in single : given[i].run \in Ended
       /\ \A i \in single, j \in DOMAIN given : given[i].run = given[j].run => i = j
       /\ unserved # {} => Len(given) = MaxCases
=============================================================================
