----------------------------- MODULE Evolution -----------------------------
(***************************************************************************)
(* Code evolution (services/evolution.py, the code-lane tasks of worker.py *)
(* and monitor_health): one worker takes candidates one at a time through  *)
(* the gates, merges, deploys, and rolls back.                             *)
(*                                                                         *)
(* A commit is the set of candidates whose patch it contains; HEAD is      *)
(* "main" or the candidate whose branch is checked out.  Every git, docker *)
(* and database call may raise, which the code answers with `except' and   *)
(* `finally'; only the death of the process skips those.                   *)
(***************************************************************************)
EXTENDS Integers, FiniteSets

CONSTANTS
  Candidate,
  MaxDeaths,     \* bound: how often the worker process dies
  MaxRollbacks   \* bound: how often the health monitor rolls back

Nothing == "nothing"
Main == "main"
Commit == SUBSET Candidate
NoCommit == {Nothing}

VARIABLES
  autoMerge, \* settings.evolution_auto_merge
  main,      \* the commit `main' names
  head,      \* what is checked out
  dirty,     \* git status --porcelain prints something
  branch,    \* each candidate's branch, if it was created: its commit
  good,      \* the last-known-good tag
  tag,       \* the execution's own last-known-good-<time> tag
  saved,     \* the candidates' status in the database
  status,    \* the candidate object of the execution in progress
  doing,     \* the candidate in execution
  at,        \* the step of execute() the worker is in
  healthy,   \* history: the commits that passed _deploy_and_verify
  rolledBack,\* history: candidates the health monitor took out of main
  deaths, rollbacks

gitVars == <<main, head, dirty, branch, good, tag>>
runVars == <<status, doing, at>>
histVars == <<healthy, rolledBack, deaths, rollbacks>>
vars == <<autoMerge, gitVars, saved, runVars, histVars>>

Init ==
  /\ autoMerge \in BOOLEAN
  /\ main = {} /\ head = Main /\ dirty = FALSE
  /\ branch = [c \in Candidate |-> NoCommit]
  /\ good = NoCommit /\ tag = NoCommit
  /\ saved = [c \in Candidate |-> "none"]
  /\ status = "none" /\ doing = Nothing /\ at = "idle"
  /\ healthy = {{}} /\ rolledBack = {}
  /\ deaths = 0 /\ rollbacks = 0

Checkout == IF head = Main THEN main ELSE branch[head]

-----------------------------------------------------------------------------
\* propose(): the model's patch is kept with the candidate.
Propose(c) ==
  /\ at = "idle" /\ saved[c] = "none"
  /\ saved' = [saved EXCEPT ![c] = "proposed"]
  /\ UNCHANGED <<autoMerge, gitVars, runVars, histVars>>

\* execute() up to `git switch -c': a dirty worktree, a secret, a protected
\* path or a branch that exists refuse before the try, and change nothing.
Start(c) ==
  /\ at = "idle" /\ saved[c] # "none"
  /\ ~dirty /\ branch[c] = NoCommit
  /\ branch' = [branch EXCEPT ![c] = Checkout]
  /\ head' = c
  /\ doing' = c /\ status' = saved[c] /\ at' = "apply"
  /\ tag' = NoCommit
  /\ UNCHANGED <<autoMerge, main, dirty, good, saved, histVars>>

Save(c, s) == saved' = [saved EXCEPT ![c] = s]

\* git apply --index, status testing.
Apply ==
  /\ at = "apply"
  /\ dirty' = TRUE
  /\ status' = "testing" /\ Save(doing, "testing")
  /\ at' = "gates"
  /\ UNCHANGED <<autoMerge, main, head, branch, good, tag, doing, histVars>>

\* The nine checks, the side-effect check and the metrics.
GatesPass ==
  /\ at = "gates"
  /\ branch' = [branch EXCEPT ![doing] = @ \union {doing}]   \* git commit
  /\ dirty' = FALSE
  /\ at' = IF autoMerge THEN "merge" ELSE "save"
  /\ UNCHANGED <<autoMerge, main, head, good, tag, saved, status, doing, histVars>>

GatesFail ==
  /\ at = "gates"
  /\ status' = "rejected" /\ Save(doing, "rejected")
  /\ at' = "cleanup"
  /\ UNCHANGED <<autoMerge, gitVars, doing, histVars>>

\* git switch main, tag, tag -f last-known-good; then the merge.
TagMain ==
  /\ at = "merge"
  /\ head' = Main
  /\ tag' = main /\ good' = main
  /\ at' = "merging"
  /\ UNCHANGED <<autoMerge, main, dirty, branch, saved, status, doing, histVars>>

\* Defect: last-known-good is moved after the merge.
MergeThenTag ==
  /\ at = "merging"
  /\ main' = main \union branch[doing]
  /\ good' = main \union branch[doing]
  /\ at' = "deploy"
  /\ UNCHANGED <<autoMerge, head, dirty, branch, tag, saved, status, doing, histVars>>

Merge ==
  /\ at = "merging"
  /\ main' = main \union branch[doing]
  /\ at' = "deploy"
  /\ UNCHANGED <<autoMerge, head, dirty, branch, good, tag, saved, status, doing, histVars>>

\* _deploy_and_verify of the candidate.
DeployPasses ==
  /\ at = "deploy"
  /\ healthy' = healthy \union {main}
  /\ at' = "promote"
  /\ UNCHANGED <<autoMerge, gitVars, saved, status, doing, rolledBack, deaths, rollbacks>>

DeployFails ==
  /\ at = "deploy"
  /\ main' = tag
  /\ at' = "redeploy"
  /\ UNCHANGED <<autoMerge, head, dirty, branch, good, tag, saved, status, doing, histVars>>

\* The previous commit is deployed again; if that fails too, EvolutionError.
Redeploy ==
  /\ at = "redeploy"
  /\ status' = "rolled_back" /\ Save(doing, "rolled_back")
  /\ at' \in {"save", "except"}
  /\ UNCHANGED <<autoMerge, gitVars, doing, histVars>>

\* _promote_candidate_baseline commits evals/baseline.json on main.
Promote ==
  /\ at = "promote"
  /\ status' = "merged"
  /\ at' = "save"
  /\ UNCHANGED <<autoMerge, gitVars, saved, doing, histVars>>

FinalSave ==
  /\ at = "save"
  /\ Save(doing, status)
  /\ at' = "cleanup"
  /\ UNCHANGED <<autoMerge, gitVars, status, doing, histVars>>

\* Any call raises.  What it was about to do has not happened, except that a
\* merge with conflicts and a failed promotion leave the worktree dirty.
Raises ==
  /\ at \in {"apply", "gates", "merge", "merging", "deploy", "redeploy", "promote", "save"}
  /\ dirty' = (dirty \/ at \in {"merging", "promote"})
  /\ at' = "except"
  /\ UNCHANGED <<autoMerge, main, head, branch, good, tag, saved, status, doing, histVars>>

\* Defect: the exception path leaves the merge on main.
ExceptKeepsMerge ==
  /\ at = "except"
  /\ status' = IF head = Main /\ tag # NoCommit THEN "rolled_back" ELSE "rejected"
  /\ Save(doing, status') \/ UNCHANGED saved
  /\ at' = "cleanup"
  /\ UNCHANGED <<autoMerge, main, dirty, head, branch, good, tag, doing, histVars>>

\* The except clause: on main with a tag of its own the execution resets main
\* and deploys again, whatever that gives; the last save may fail silently.
ExceptRollsBack ==
  /\ at = "except"
  /\ IF head = Main /\ tag # NoCommit
     THEN main' = tag /\ dirty' = FALSE /\ status' = "rolled_back"
     ELSE status' = "rejected" /\ UNCHANGED <<main, dirty>>
  /\ Save(doing, status') \/ UNCHANGED saved
  /\ at' = "cleanup"
  /\ UNCHANGED <<autoMerge, head, branch, good, tag, doing, histVars>>

\* The finally clause: reset a candidate branch, stash what remains, go home.
Cleanup ==
  /\ at = "cleanup"
  /\ dirty' = FALSE /\ head' = Main
  /\ doing' = Nothing /\ status' = "none" /\ at' = "idle" /\ tag' = NoCommit
  /\ UNCHANGED <<autoMerge, main, branch, good, saved, histVars>>

\* The worker dies in the middle: no except, no finally.  The message comes
\* back and is refused, because its branch exists or the worktree is dirty.
Dies ==
  /\ at # "idle" /\ deaths < MaxDeaths
  /\ doing' = Nothing /\ status' = "none" /\ at' = "idle" /\ tag' = NoCommit
  /\ deaths' = deaths + 1
  /\ UNCHANGED <<autoMerge, main, head, dirty, branch, good, saved, healthy, rolledBack, rollbacks>>

\* monitor_health: too many failed tasks or stale news; rollback() resets the
\* checked-out branch to last-known-good and deploys it.
HealthRollback ==
  /\ at = "idle" /\ autoMerge /\ rollbacks < MaxRollbacks
  /\ ~dirty /\ good # NoCommit
  /\ IF head = Main
     THEN main' = good /\ rolledBack' = rolledBack \union (main \ good) /\ UNCHANGED branch
     ELSE branch' = [branch EXCEPT ![head] = good] /\ UNCHANGED <<main, rolledBack>>
  /\ rollbacks' = rollbacks + 1
  /\ UNCHANGED <<autoMerge, head, dirty, good, tag, saved, runVars, healthy, deaths>>

Next ==
  \/ \E c \in Candidate : Propose(c) \/ Start(c)
  \/ Apply \/ GatesPass \/ GatesFail \/ TagMain \/ Merge
  \/ DeployPasses \/ DeployFails \/ Redeploy \/ Promote \/ FinalSave
  \/ Raises \/ ExceptRollsBack \/ Cleanup \/ Dies \/ HealthRollback

Spec == Init /\ [][Next]_vars

-----------------------------------------------------------------------------
\* A verdict in the database is true of the repository once the execution is
\* over: a rejected or rolled back candidate is not on main, a merged one is,
\* unless the health monitor took it out later, and then its status still says
\* merged (evolution.py, execute and rollback).  A candidate whose process
\* died, or whose last save failed, has no verdict.
VerdictIsTrue ==
  at = "idle" =>
    /\ deaths = 0 => head = Main /\ ~dirty
    /\ \A c \in Candidate :
         /\ saved[c] = "merged" => c \in main \union rolledBack
         /\ saved[c] \in {"rejected", "rolled_back"} /\ deaths = 0 => c \notin main

\* last-known-good names a commit that passed a deployment, so long as no
\* process died with an unverified merge on main: the next execution would tag
\* that merge as good (evolution.py:186).
LastGoodIsGood ==
  /\ good # NoCommit /\ deaths = 0 => good \in healthy
  /\ at = "idle" /\ deaths = 0 => main \in healthy
=============================================================================
