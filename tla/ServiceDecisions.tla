-------------------------- MODULE ServiceDecisions --------------------------
(***************************************************************************)
(* What the system does about itself: the patches it merges, the tasks     *)
(* that ask for them, and the page that shows its queues.                  *)
(***************************************************************************)
EXTENDS Integers, Sequences, FiniteSets, Parts

CONSTANTS
  EvolutionCandidate, MaxDeaths, MaxRollbacks,                       \* Evolution
  EvolutionTask, TaskCandidate, Histories, Runs, MaxMisses, MaxCases, \* EvolutionTasks
  PageRun, AssetOf, Event, Instance, MaxTime, Retention,        \* QueueView
  Reader, MaxChanges, MaxRestarts                           \* PageCache

VARIABLES
  autoMerge, main, head, dirty, branch, good, tag, saved, status, doing, at,
  healthy, rolledBack, deaths, rollbacks,
  enabled, recorded, record, deliveries, verdicts, branched, hand, given,
  lane, now, runs, records, steps, broker, slots,
  changes, page, refreshing, builds, request, persisted, restarts, shown, marked, inside

Evolution == INSTANCE Evolution WITH Candidate <- EvolutionCandidate
Tasks == INSTANCE EvolutionTasks WITH Task <- EvolutionTask, Candidate <- TaskCandidate
Page == INSTANCE QueueView WITH Run <- PageRun
Cache == INSTANCE PageCache

\* No candidate has the name of the main branch, or of none.
ASSUME CandidateAssumption ==
  Evolution!Nothing \notin EvolutionCandidate /\ Evolution!Main \notin EvolutionCandidate

\* No candidate has the number of none; outcomes and runs are lists, and the
\* limit of the missed ones is within that of all.
ASSUME TasksAssumption ==
  /\ 0 \notin TaskCandidate
  /\ \A h \in Histories : DOMAIN h = 1 .. Len(h) /\ Len(h) \in Nat
  /\ DOMAIN Runs = 1 .. Len(Runs) /\ Len(Runs) \in Nat
  /\ MaxMisses \in Nat /\ MaxCases \in Nat /\ MaxMisses <= MaxCases

\* Runs, assets and events are numbered, and instances from 1.
ASSUME PageAssumption ==
  /\ PageRun \subseteq Int /\ IsFiniteSet(PageRun) /\ AssetOf \in [PageRun -> Nat]
  /\ Event \subseteq Nat /\ IsFiniteSet(Event)
  /\ IsFiniteSet(Instance) /\ Instance # {} /\ Instance = 1 .. Cardinality(Instance)
  /\ Retention \in Nat

evolutionVars == <<autoMerge, main, head, dirty, branch, good, tag, saved, status,
                   doing, at, healthy, rolledBack, deaths, rollbacks>>
taskVars == <<enabled, recorded, record, deliveries, verdicts, branched, hand, given>>
viewVars == <<lane, now, runs, records, steps, broker, slots>>
cacheVars == <<changes, page, refreshing, builds, request, persisted, restarts,
               shown, marked, inside>>
serviceVars == <<evolutionVars, taskVars, viewVars, cacheVars>>

ServicesInit == Evolution!Init /\ Tasks!Init /\ Page!Init /\ Cache!Init

EvolutionMoves ==
  part = "evolution" /\ Evolution!Next /\ UNCHANGED <<taskVars, viewVars, cacheVars>>
TasksMove ==
  part = "tasks" /\ Tasks!Next /\ UNCHANGED <<evolutionVars, viewVars, cacheVars>>
PageMoves ==
  part = "page" /\ Page!Next /\ UNCHANGED <<evolutionVars, taskVars, cacheVars>>
CacheMoves ==
  part = "cache" /\ Cache!Next /\ UNCHANGED <<evolutionVars, taskVars, viewVars>>

ServicesNext ==
  (EvolutionMoves \/ TasksMove \/ PageMoves \/ CacheMoves) /\ UNCHANGED part

ServicesSpec == ServicesInit /\ [][ServicesNext]_<<part, serviceVars>>

-----------------------------------------------------------------------------
\* The database tells the truth about what is on main, and the records of the
\* code tasks about the database (services/evolution.py, worker.py).
VerdictIsTrue ==
  /\ part = "evolution" => Evolution!VerdictIsTrue
  /\ part = "tasks" => Tasks!CodeTaskIsTrue

\* last-known-good passed a deployment (services/evolution.py).
LastGoodIsGood == part = "evolution" => Evolution!LastGoodIsGood

\* The queue page loses and invents nothing, and what is shown of it keeps up
\* (services/model_queue.py, main.py).
PageIsFaithful ==
  /\ part = "page" => Page!PageIsFaithful
  /\ part = "cache" => Cache!PageKeepsUp
=============================================================================
