------------------------- MODULE ResearchAdmission -------------------------
(***************************************************************************)
(* Who lets a run in for an asset, and when (worker.py, research_          *)
(* admission.py, main.py, commands.go).  Handlers of events, the daily     *)
(* sweep over matured market windows and users ask; Python decides under   *)
(* an advisory lock of the asset, the Go API without one.  What becomes of *)
(* a run that was let in is module ResearchRuns; here it ends.             *)
(*                                                                         *)
(* One asset.  What a request reads before the lock is a step of its own,  *)
(* and so is the insert, which a health probe precedes.  A request is over *)
(* before the clock moves on.                                              *)
(***************************************************************************)
EXTENDS Integers, Sequences, FiniteSets, FiniteSetsExt

CONSTANTS
  Event,     \* events mapped to the asset
  Published, \* when each was published, in half days
  Moments,   \* bound: the times of the instance, in order
  Cooldown,  \* research_asset_cooldown_hours, in half days
  Python,    \* processes that use enqueue_research
  Go,        \* requests to the Go API
  MaxRuns    \* bound: rows of research_runs

VARIABLES
  moment,  \* the index of the present in Moments
  rows,    \* research_runs, oldest first
  lock,    \* who holds the advisory lock of the asset
  asking   \* the request of each process

admissionVars == <<moment, rows, lock, asking>>

time == Moments[moment]
Free == "free"
Active == {"active"}  \* QUEUED, RUNNING, VERIFYING; a cancelled run is like a failed one here
Concluded == {"completed", "insufficient_evidence"}
Refresh(session) == session > 0

Nothing == [kind |-> "none", event |-> 0, session |-> 0, of |-> 0, at |-> "idle"]
Request(kind, e, session, of) ==
  [kind |-> kind, event |-> e, session |-> session, of |-> of, at |-> "waiting"]

Room == Len(rows) + Cardinality({p \in Python \cup Go : asking[p] # Nothing}) < MaxRuns

Init ==
  /\ moment = 1 /\ rows = <<>> /\ lock = Free
  /\ asking = [p \in Python \cup Go |-> Nothing]

With(statuses) == {i \in DOMAIN rows : rows[i].status \in statuses}

\* get_run_for_event_asset: the newest row of the event, 0 if there is none.
Latest(e) == Max({0} \cup {i \in DOMAIN rows : rows[i].event = e})

-----------------------------------------------------------------------------
\* Defect: only COMPLETED counts.
SessionsDoneComplete(e) ==
  {rows[i].session : i \in {j \in With({"completed"}) : rows[j].event = e}}

\* The windows of an event that were evaluated: `completed' of
\* refresh_event_market_factors.
SessionsDone(e) ==
  {rows[i].session : i \in {j \in With(Concluded) : rows[j].event = e}}

\* _due_market_factor_refresh_session: the largest window that has matured and
\* is beyond those evaluated; 0 if there is none.
Due(e) ==
  LET age == time - Published[e]
      Ripe == {w \in {<<20, 60>>, <<5, 16>>, <<1, 4>>} :
                 age >= w[2] /\ Max(SessionsDone(e) \cup {0}) < w[1]}
  IN  Max({0} \cup {w[1] : w \in Ripe})

\* enqueue_event_researches: an event that was researched asks again only if the
\* evidence was insufficient and there is more of it now.
EventAsks(e) ==
  /\ Published[e] <= time
  /\ Latest(e) = 0 \/ rows[Latest(e)].status = "insufficient_evidence"

\* enqueue_target_researches: the latest run gave no recommendation, be it that it joined
\* another run.
TargetAsks(e) == Published[e] <= time /\ (Latest(e) = 0 \/ rows[Latest(e)].status # "completed")

\* _queue_asset_research_retry, retryAssetResearch: an original that failed and has no
\* active retry.  (A model-degraded one is retried alike.)
Retryable(i) ==
  /\ rows[i].status = "failed" /\ rows[i].of = 0
  /\ ~\E j \in With(Active) : rows[j].of = i

\* What is read before admission: by a handler, by the sweep over the windows, by the API.
Asks ==
  {Request("event", e, 0, 0) : e \in {d \in Event : EventAsks(d)}}
  \cup {Request("target", e, 0, 0) : e \in {d \in Event : TargetAsks(d)}}
  \cup {Request("refresh", e, Due(e), 0) :
          e \in {d \in Event : /\ Refresh(Due(d)) /\ time - Published[d] <= 90
                               /\ ~\E i \in With(Active) :
                                     rows[i].event = d /\ Refresh(rows[i].session)}}
Demands ==
  {Request("direct", 0, 0, 0)}
  \cup {Request("retry", rows[i].event, 0, i) : i \in {j \in DOMAIN rows : Retryable(j)}}
  \cup {Request("forced", rows[i].event, 0, 0) : i \in With(Concluded)}

Ask(p) ==
  /\ p \in Python /\ asking[p] = Nothing /\ Room
  /\ \E r \in Asks \cup Demands : asking' = [asking EXCEPT ![p] = r]
  /\ UNCHANGED <<moment, rows, lock>>

\* get_latest_cooldown_run: an end within the cooldown.
Recent == {i \in With(Concluded) : time - rows[i].ended < Cooldown}
Ordinary(r) == r.kind \in {"event", "target"}  \* ordinary_event
Bypasses(r) == r.kind \in {"retry", "forced"}
Refused(r) == With(Active) # {} \/ (~Bypasses(r) /\ Recent # {})

Row(r, status, p) ==
  [status |-> status, kind |-> r.kind, event |-> r.event, session |-> r.session, of |-> r.of,
   asked |-> time, ended |-> 0, by |-> IF p \in Go THEN "go" ELSE "python"]

Done(p) == asking' = [asking EXCEPT ![p] = Nothing]
Admitted(p) == asking' = [asking EXCEPT ![p] = [@ EXCEPT !.at = "insert"]]

\* Defect: a lock of the process (as SQLite has it) where several processes ask.
EnterAlone(p) ==
  /\ p \in Python /\ asking[p].at = "waiting"
  /\ IF With(Active) # {} /\ Ordinary(asking[p])
     THEN /\ rows' = Append(rows, Row(asking[p], "coalesced", p)) /\ Done(p)
     ELSE /\ UNCHANGED rows /\ IF Refused(asking[p]) THEN Done(p) ELSE Admitted(p)
  /\ UNCHANGED <<moment, lock>>

\* enqueue_research and reserve_research_run up to the insert: an event joins the active
\* run, anything else is refused beside one; the first commit or the rollback
\* gives the lock back.
Enter(p) ==
  /\ p \in Python /\ asking[p].at = "waiting" /\ lock = Free
  /\ IF With(Active) # {} /\ Ordinary(asking[p])
     THEN /\ rows' = Append(rows, Row(asking[p], "coalesced", p))
          /\ Done(p) /\ UNCHANGED lock
     ELSE /\ UNCHANGED rows
          /\ IF Refused(asking[p]) THEN Done(p) /\ UNCHANGED lock
             ELSE Admitted(p) /\ lock' = p
  /\ UNCHANGED moment

\* enqueueAssetResearch: the same questions, no lock, and no coalescing.
EnterGo(p) ==
  /\ p \in Go /\ asking[p] = Nothing /\ Room
  /\ \E r \in Demands :
       /\ ~Refused(r)
       /\ asking' = [asking EXCEPT ![p] = [r EXCEPT !.at = "insert"]]
  /\ UNCHANGED <<moment, rows, lock>>

\* _enqueue_research_locked, enqueueAssetResearch: the insert, unless no instance answers.
Insert(p) ==
  /\ asking[p].at = "insert"
  /\ \/ rows' = Append(rows, Row(asking[p], "active", p))
     \/ UNCHANGED rows
  /\ Done(p) /\ lock' = (IF lock = p THEN Free ELSE lock)
  /\ UNCHANGED moment

-----------------------------------------------------------------------------
\* What ResearchRuns does with a run, as far as admission reads it.
Become(i, status, at) ==
  rows' = [rows EXCEPT ![i] = [@ EXCEPT !.status = status, !.ended = at]]

Ends(i)    == i \in With(Active) /\ \E s \in Concluded : Become(i, s, time)
Fails(i)   == i \in With(Active) /\ Become(i, "failed", 0)
RunStep(i) == (Ends(i) \/ Fails(i)) /\ UNCHANGED <<moment, lock, asking>>

Tick ==
  /\ moment < Len(Moments) /\ \A p \in Python \cup Go : asking[p] = Nothing
  /\ moment' = moment + 1
  /\ UNCHANGED <<rows, lock, asking>>

Next ==
  \/ \E p \in Python : Ask(p) \/ Enter(p)
  \/ \E p \in Go : EnterGo(p)
  \/ \E p \in Python \cup Go : Insert(p)
  \/ \E i \in DOMAIN rows : RunStep(i)
  \/ Tick

-----------------------------------------------------------------------------
ByWorkers(i) == rows[i].by = "python"
BothByWorkers(i, j) == ByWorkers(i) /\ ByWorkers(j)

\* An asset has two active runs only if a request to the Go API let in one of them: Python
\* alone never does, however its processes interleave.
WorkersNeverDouble ==
  \A i, j \in With(Active) : i < j => ~BothByWorkers(i, j)

\* README: after an asset's research ended, nothing automatic and no ordinary request of the
\* Python code lets it in again for the length of the cooldown, whoever had asked before.
CoolsDown ==
  \A i \in With(Concluded), j \in DOMAIN rows :
     /\ i < j /\ BothByWorkers(i, j)
     /\ rows[j].kind \in {"event", "target", "refresh", "direct"}
     /\ rows[j].status # "coalesced"
     => rows[j].asked - rows[i].ended >= Cooldown

\* The windows of an event are evaluated in their order and none twice, although sweeps
\* decide on what they read before the lock.
WindowsAdvance ==
  \A i, j \in With(Concluded) :
     /\ i < j /\ rows[i].event = rows[j].event
     /\ Refresh(rows[i].session) /\ Refresh(rows[j].session)
     => rows[i].session < rows[j].session

\* Whatever two handlers of an event had read, they do not have it researched again once a
\* run of it was completed, unless a later one found too little.
EventsOnce ==
  \A i \in With({"completed"}), j \in DOMAIN rows :
     /\ i < j /\ BothByWorkers(i, j)
     /\ rows[j].kind = "event" /\ rows[i].event = rows[j].event
     => \/ rows[j].status = "coalesced"
        \/ \E k \in (i + 1) .. (j - 1) :
              rows[k].event = rows[j].event /\ rows[k].status = "insufficient_evidence"

\* The gate of research (worker.py, research_admission.py).
AdmissionIsFair == WorkersNeverDouble /\ CoolsDown /\ WindowsAdvance /\ EventsOnce
=============================================================================
