---------------------------- MODULE ModelCallsProofs ----------------------------
(***************************************************************************)
(* Proofs about the model calls of one lane, for any tasks, instances,     *)
(* capacities and retries: slots are fenced by their tokens, waiting       *)
(* entries and failed instances are what the code takes them for.          *)
(***************************************************************************)
EXTENDS ModelCalls, FiniteSetTheorems, TLAPS

Where == {"new", "queued", "ready", "again", "wait", "post", "completed", "failed", "dropped"}

CallTypes ==
  /\ up \in [Instance -> BOOLEAN]
  /\ pc \in [Task -> Where]
  /\ seen \in [Task -> [Instance -> {"?", "up", "down"}]]
  /\ inst \in [Task -> Instance \union {Nobody}]
  /\ attempt \in [Task -> {1, 2}]
  /\ failedAt \in [Task -> Instance \union {Nobody}]
  /\ owner \in [Slot -> Task \union {Nobody, Dead}]
  /\ slot \in [Task -> Slot \union {NoSlot}]
  /\ beating \in [Task -> BOOLEAN]
  /\ waiting \in [Task -> SUBSET {"own", "stale"}]

\* One call: the lock of its slot is its own while its heartbeat runs, it has an
\* instance while it is served, and the instance it failed at stays marked.
CallInv(t) ==
  /\ beating[t] => pc[t] = "post" /\ slot[t] \in SlotsOf(inst[t]) /\ owner[slot[t]] = t
  /\ pc[t] \in Serving => inst[t] \in Instance
  /\ "own" \in waiting[t] => pc[t] = "wait"
  /\ failedAt[t] # Nobody =>
       /\ pc[t] \in Serving /\ attempt[t] = 2
       /\ seen[t][failedAt[t]] = "down"
       /\ pc[t] \in {"wait", "post"} => inst[t] # failedAt[t]

CallsInv == CallTypes /\ \A t \in Task : CallInv(t)

\* What a step about t leaves alone: the other calls, and the locks they own.
OthersKept(t) ==
  /\ \A u \in Task \ {t} :
       /\ pc'[u] = pc[u] /\ seen'[u] = seen[u] /\ inst'[u] = inst[u]
       /\ attempt'[u] = attempt[u] /\ failedAt'[u] = failedAt[u]
       /\ slot'[u] = slot[u] /\ beating'[u] = beating[u] /\ waiting'[u] = waiting[u]
  /\ \A s \in Slot : owner[s] \in Task \ {t} => owner'[s] = owner[s]

LEMMA StepOfOne ==
    ASSUME CallsInv, NEW t \in Task, CallTypes', CallInv(t)', OthersKept(t)
    PROVE  CallsInv'
<1> SUFFICES ASSUME NEW u \in Task, u # t PROVE CallInv(u)'
  BY DEF CallsInv
<1>1. CallInv(u)
  BY DEF CallsInv
<1>2. SlotsOf(inst[u]) = SlotsOf(inst[u])'
  BY DEF OthersKept, SlotsOf
<1>3. beating[u] => slot[u] \in Slot
  BY <1>1 DEF CallInv, Slot, Serving
<1>4. beating[u] => owner'[slot[u]] = u
  BY <1>1, <1>3 DEF CallInv, OthersKept
<1> QED BY <1>1, <1>2, <1>4 DEF CallInv, OthersKept

\* A call that ends leaves nothing in its process.
LEMMA LeavesNothing ==
    ASSUME CallsInv, NEW t \in Task, NEW w \in {"queued", "completed", "failed"}, Leave(t, w)
    PROVE  /\ pc' \in [Task -> Where] /\ pc'[t] = w
           /\ seen' \in [Task -> [Instance -> {"?", "up", "down"}]]
           /\ inst' \in [Task -> Instance \union {Nobody}]
           /\ attempt' \in [Task -> {1, 2}]
           /\ failedAt' \in [Task -> Instance \union {Nobody}] /\ failedAt'[t] = Nobody
           /\ \A u \in Task \ {t} :
                /\ pc'[u] = pc[u] /\ seen'[u] = seen[u] /\ inst'[u] = inst[u]
                /\ attempt'[u] = attempt[u] /\ failedAt'[u] = failedAt[u]
BY DEF Leave, CallsInv, CallTypes, Where, Unseen

LEMMA FailedCallLeaves ==
    ASSUME NEW t \in Task, NEW i, CallFails(t, i)
    PROVE  \E w \in {"queued", "completed", "failed"} : Leave(t, w)
BY DEF CallFails

\* Releasing a slot never frees one that another call owns.
LEMMA ReleaseIsFenced ==
    ASSUME CallsInv, NEW t \in Task, Release(t)
    PROVE  /\ owner' \in [Slot -> Task \union {Nobody, Dead}]
           /\ slot' \in [Task -> Slot \union {NoSlot}]
           /\ beating' \in [Task -> BOOLEAN] /\ beating'[t] = FALSE
           /\ \A s \in Slot : owner[s] \in Task \ {t} => owner'[s] = owner[s]
           /\ \A u \in Task \ {t} : slot'[u] = slot[u] /\ beating'[u] = beating[u]
BY DEF Release, CallsInv, CallTypes

LEMMA CallsInit == Init => CallsInv
BY DEF Init, CallsInv, CallTypes, CallInv, Where, Unseen, Serving

-----------------------------------------------------------------------------
(* Each operation keeps the invariant. *)

\* A dispatch only moves the message.
LEMMA DispatchKeeps ==
    ASSUME CallsInv, NEW t \in Task, Dispatch(t)
    PROVE  CallsInv'
<1> USE DEF CallsInv, CallTypes
<1>1. /\ pc[t] = "new" /\ pc' = [pc EXCEPT ![t] = "queued"]
      /\ UNCHANGED <<up, seen, inst, attempt, failedAt, owner, slot, beating, waiting>>
  BY DEF Dispatch, callVars, slotVars
<1>2. CallTypes'
  BY <1>1 DEF Where
<1>3. CallInv(t)'
  <2>1. pc'[t] = "queued" /\ ~beating[t] /\ "own" \notin waiting[t] /\ failedAt[t] = Nobody
    BY <1>1 DEF CallInv, Serving
  <2> QED BY <1>1, <2>1 DEF CallInv, Serving
<1>4. OthersKept(t)
  BY <1>1 DEF OthersKept
<1> QED BY <1>2, <1>3, <1>4, StepOfOne

\* A heartbeat that ends takes the call out of the claim.
LEMMA HeartbeatKeeps ==
    ASSUME CallsInv, NEW t \in Task, HeartbeatBreaks(t)
    PROVE  CallsInv'
<1> USE DEF CallsInv, CallTypes, CallInv, OthersKept, Serving, queueVars, callVars, slotVars
<1>1. CallTypes'
  BY DEF HeartbeatBreaks
<1>2. CallInv(t)'
  BY DEF HeartbeatBreaks
<1>3. OthersKept(t)
  BY DEF HeartbeatBreaks
<1> QED BY <1>1, <1>2, <1>3, StepOfOne

\* Only stale entries are purged.
LEMMA PurgeKeeps ==
    ASSUME CallsInv, NEW t \in Task, Purge(t)
    PROVE  CallsInv'
<1> USE DEF CallsInv, CallTypes, CallInv, OthersKept, Serving, queueVars, callVars, slotVars
<1>1. CallTypes'
  BY DEF Purge
<1>2. CallInv(t)'
  BY DEF Purge
<1>3. OthersKept(t)
  BY DEF Purge
<1> QED BY <1>1, <1>2, <1>3, StepOfOne

\* What select_model_instance returns is a candidate.
LEMMA SelectedIsCandidate ==
    ASSUME NEW from, NEW p, NEW r, NEW i \in Selected(from, p, r)
    PROVE  i \in from
BY DEF Selected

LEMMA BindKeeps ==
    ASSUME CallsInv, NEW t \in Task, Bind(t)
    PROVE  CallsInv'
<1> USE DEF CallsInv, CallTypes, CallInv, OthersKept, Serving, queueVars, callVars, slotVars
<1>0. \A r : \A i \in Selected(IF Healthy = {} THEN Instance ELSE Healthy, Preferred(t), r) :
        i \in Instance
  BY SelectedIsCandidate DEF Healthy
<1>1. PICK i \in Instance :
        \/ Republish(t, i, FALSE) /\ UNCHANGED callVars
        \/ Republish(t, i, TRUE) /\ UNCHANGED callVars
        \/ /\ pc' = [pc EXCEPT ![t] = "ready"]
           /\ inst' = [inst EXCEPT ![t] = i]
           /\ seen' = [seen EXCEPT ![t] = Probed]
           /\ UNCHANGED <<queue, pref, retries, attempt, failedAt>>
  BY <1>0 DEF Bind
<1>2. pc[t] = "queued" /\ UNCHANGED <<up, slotVars>>
  BY DEF Bind
<1>4. ASSUME NEW limited \in BOOLEAN, Republish(t, i, limited), UNCHANGED callVars
      PROVE  CallsInv'
  <2>1. pc' = pc \/ pc' = [pc EXCEPT ![t] = "dropped"]
    BY <1>4 DEF Republish
  <2>2. CallTypes'
    BY <1>2, <1>4, <2>1 DEF Where
  <2>3. CallInv(t)'
    BY <1>2, <1>4, <2>1
  <2>4. OthersKept(t)
    BY <1>2, <1>4, <2>1
  <2> QED BY <2>2, <2>3, <2>4, StepOfOne
<1>5. CASE /\ pc' = [pc EXCEPT ![t] = "ready"]
           /\ inst' = [inst EXCEPT ![t] = i]
           /\ seen' = [seen EXCEPT ![t] = Probed]
           /\ UNCHANGED <<queue, pref, retries, attempt, failedAt>>
  <2>1. Probed \in [Instance -> {"?", "up", "down"}]
    BY DEF Probed
  <2>2. CallTypes'
    BY <1>2, <1>5, <2>1 DEF Where
  <2>3. CallInv(t)'
    BY <1>2, <1>5
  <2>4. OthersKept(t)
    BY <1>2, <1>5
  <2> QED BY <2>2, <2>3, <2>4, StepOfOne
<1> QED BY <1>1, <1>4, <1>5

\* The instance marked unhealthy by the first attempt is not ready in any view
\* the second attempt may have.
LEMMA ViewShowsFailure ==
    ASSUME CallsInv, NEW t \in Task, NEW view \in Views(t)
    PROVE  /\ view \in [Instance -> {"?", "up", "down"}]
           /\ failedAt[t] # Nobody => view[failedAt[t]] = "down"
<1> USE DEF CallsInv, CallTypes, CallInv
<1>1. PICK kept \in {k \in SUBSET Instance : failedAt[t] = Nobody \/ failedAt[t] \in k} :
        view = [i \in Instance |-> IF i \in kept /\ seen[t][i] # "?" THEN seen[t][i] ELSE Probed[i]]
  BY Zenon DEF Views
<1>2. Probed \in [Instance -> {"?", "up", "down"}]
  BY DEF Probed
<1>3. view \in [Instance -> {"?", "up", "down"}]
  BY <1>1, <1>2
<1>4. failedAt[t] # Nobody => view[failedAt[t]] = "down"
  BY <1>1, <1>2
<1> QED BY <1>3, <1>4

\* A call that leaves its process after its slot and its waiting entry.
LEMMA LeavingKeeps ==
    ASSUME CallsInv, NEW t \in Task, NEW w \in {"queued", "completed", "failed"}, Leave(t, w), UNCHANGED up,
           owner' \in [Slot -> Task \union {Nobody, Dead}],
           slot' \in [Task -> Slot \union {NoSlot}],
           beating' \in [Task -> BOOLEAN], beating'[t] = FALSE,
           waiting' \in [Task -> SUBSET {"own", "stale"}], "own" \notin waiting'[t],
           \A s \in Slot : owner[s] \in Task \ {t} => owner'[s] = owner[s],
           \A u \in Task \ {t} : /\ slot'[u] = slot[u] /\ beating'[u] = beating[u]
                                 /\ waiting'[u] = waiting[u]
    PROVE  CallsInv'
<1> USE DEF CallsInv, CallTypes
<1>1. CallTypes'
  BY LeavesNothing
<1>2. CallInv(t)'
  BY LeavesNothing DEF CallInv, Serving
<1>3. OthersKept(t)
  BY LeavesNothing DEF OthersKept
<1> QED BY <1>1, <1>2, <1>3, StepOfOne

\* However a call fails, it leaves its process.
LEMMA FailureKeeps ==
    ASSUME CallsInv, NEW t \in Task, NEW i, CallFails(t, i), UNCHANGED up,
           owner' \in [Slot -> Task \union {Nobody, Dead}],
           slot' \in [Task -> Slot \union {NoSlot}],
           beating' \in [Task -> BOOLEAN], beating'[t] = FALSE,
           waiting' \in [Task -> SUBSET {"own", "stale"}], "own" \notin waiting'[t],
           \A s \in Slot : owner[s] \in Task \ {t} => owner'[s] = owner[s],
           \A u \in Task \ {t} : /\ slot'[u] = slot[u] /\ beating'[u] = beating[u]
                                 /\ waiting'[u] = waiting[u]
    PROVE  CallsInv'
<1> USE DEF CallsInv, CallTypes
<1>1. PICK w \in {"queued", "completed", "failed"} : Leave(t, w)
  BY FailedCallLeaves
<1> QED BY <1>1, LeavingKeeps

LEMMA RouteKeeps ==
    ASSUME CallsInv, NEW t \in Task, Route(t)
    PROVE  CallsInv'
<1> USE DEF CallsInv, CallTypes
<1>1. pc[t] \in {"ready", "again"} /\ UNCHANGED <<up, owner, slot, beating, upsets>>
  BY DEF Route
<1>2. PICK view \in Views(t) :
        \/ CallFails(t, inst[t]) /\ UNCHANGED waiting
        \/ \E i \in {j \in Instance : view[j] = "up"} :
             /\ inst' = [inst EXCEPT ![t] = i]
             /\ seen' = [seen EXCEPT ![t] = view]
             /\ pc' = [pc EXCEPT ![t] = "wait"]
             /\ waiting' = [waiting EXCEPT ![t] = @ \union {"own"}]
             /\ UNCHANGED <<queue, pref, retries, attempt, failedAt>>
  <2>1. \A ready : \A i \in Selected(ready, Nobody, FALSE) : i \in ready
    BY SelectedIsCandidate
  <2> QED BY <2>1 DEF Route
<1>3. ~beating[t] /\ "own" \notin waiting[t]
  BY <1>1 DEF CallInv
<1>4. CASE CallFails(t, inst[t]) /\ UNCHANGED waiting
  BY <1>1, <1>3, <1>4, FailureKeeps
<1>5. ASSUME NEW i \in Instance, view[i] = "up",
             inst' = [inst EXCEPT ![t] = i],
             seen' = [seen EXCEPT ![t] = view],
             pc' = [pc EXCEPT ![t] = "wait"],
             waiting' = [waiting EXCEPT ![t] = @ \union {"own"}],
             UNCHANGED <<attempt, failedAt>>
      PROVE  CallsInv'
  <2>1. CallTypes'
    BY <1>1, <1>5, ViewShowsFailure DEF Where
  <2>2. CallInv(t)'
    BY <1>1, <1>3, <1>5, ViewShowsFailure DEF CallInv, Serving
  <2>3. OthersKept(t)
    BY <1>1, <1>5 DEF OthersKept
  <2> QED BY <2>1, <2>2, <2>3, StepOfOne
<1> QED BY <1>2, <1>4, <1>5

\* A call takes only a lock that nobody holds.
LEMMA AcquireKeeps ==
    ASSUME CallsInv, NEW t \in Task, Acquire(t)
    PROVE  CallsInv'
<1> USE NobodyIsNoName DEF CallsInv, CallTypes
<1>1. PICK s \in SlotsOf(inst[t]) :
        owner[s] = Nobody /\ owner' = [owner EXCEPT ![s] = t] /\ slot' = [slot EXCEPT ![t] = s]
  BY DEF Acquire
<1>2. /\ pc[t] = "wait" /\ pc' = [pc EXCEPT ![t] = "post"]
      /\ beating' = [beating EXCEPT ![t] = TRUE]
      /\ waiting' = [waiting EXCEPT ![t] = @ \ {"own"}]
      /\ UNCHANGED <<up, callVars>>
  BY DEF Acquire
<1>3. s \in Slot
  BY <1>2 DEF Slot, CallInv, Serving
<1>4. CallTypes'
  BY <1>1, <1>2, <1>3 DEF callVars, Where
<1>5. CallInv(t)'
  <2>1. SlotsOf(inst[t])' = SlotsOf(inst[t])
    BY <1>2 DEF callVars, SlotsOf
  <2> QED BY <1>1, <1>2, <1>3, <2>1 DEF callVars, CallInv, Serving
<1>6. OthersKept(t)
  BY <1>1, <1>2, <1>3 DEF callVars, OthersKept
<1> QED BY <1>4, <1>5, <1>6, StepOfOne

LEMMA GiveUpKeeps ==
    ASSUME CallsInv, NEW t \in Task, GiveUp(t)
    PROVE  CallsInv'
<1> USE DEF CallsInv, CallTypes
<1>1. /\ pc[t] = "wait" /\ CallFails(t, inst[t])
      /\ waiting' = [waiting EXCEPT ![t] = @ \ {"own"}]
      /\ UNCHANGED <<up, owner, slot, beating>>
  BY DEF GiveUp
<1>2. ~beating[t]
  BY <1>1 DEF CallInv
<1> QED BY <1>1, <1>2, FailureKeeps

LEMMA AnswerKeeps ==
    ASSUME CallsInv, NEW t \in Task, Answer(t)
    PROVE  CallsInv'
<1> USE DEF CallsInv, CallTypes
<1>1. pc[t] = "post" /\ Release(t) /\ Leave(t, "completed") /\ UNCHANGED <<up, waiting>>
  BY DEF Answer, Completes
<1>2. "own" \notin waiting[t]
  BY <1>1 DEF CallInv
<1>3. waiting' \in [Task -> SUBSET {"own", "stale"}] /\ "own" \notin waiting'[t] /\ waiting' = waiting
  BY <1>1, <1>2
<1>4. /\ owner' \in [Slot -> Task \union {Nobody, Dead}]
      /\ slot' \in [Task -> Slot \union {NoSlot}]
      /\ beating' \in [Task -> BOOLEAN] /\ beating'[t] = FALSE
      /\ \A s \in Slot : owner[s] \in Task \ {t} => owner'[s] = owner[s]
      /\ \A u \in Task \ {t} : slot'[u] = slot[u] /\ beating'[u] = beating[u]
  BY <1>1, ReleaseIsFenced
<1> HIDE DEF CallsInv, CallTypes
<1> QED BY <1>1, <1>3, <1>4, LeavingKeeps

LEMMA GarbledKeeps ==
    ASSUME CallsInv, NEW t \in Task, Garbled(t)
    PROVE  CallsInv'
<1> USE DEF CallsInv, CallTypes
<1>1. pc[t] = "post" /\ Release(t) /\ UNCHANGED <<up, waiting>>
  BY DEF Garbled
<1>2. "own" \notin waiting[t]
  BY <1>1 DEF CallInv
<1>3. CASE CallFails(t, inst[t])
  BY <1>1, <1>2, <1>3, ReleaseIsFenced, FailureKeeps
<1>4. CASE /\ attempt[t] = 1
           /\ attempt' = [attempt EXCEPT ![t] = 2]
           /\ pc' = [pc EXCEPT ![t] = "again"]
           /\ UNCHANGED <<seen, inst, failedAt>>
  <2>1. CallTypes'
    BY <1>1, <1>4, ReleaseIsFenced DEF Where
  <2>2. CallInv(t)'
    <3>1. failedAt[t] = Nobody /\ inst[t] \in Instance
      BY <1>1, <1>4 DEF CallInv, Serving
    <3>2. beating'[t] = FALSE
      BY <1>1, ReleaseIsFenced
    <3>3. failedAt'[t] = Nobody /\ inst'[t] \in Instance /\ pc'[t] = "again" /\ "own" \notin waiting'[t]
      BY <3>1, <1>1, <1>2, <1>4
    <3> QED BY <3>2, <3>3 DEF CallInv
  <2>3. OthersKept(t)
    BY <1>1, <1>4, ReleaseIsFenced DEF OthersKept
  <2> QED BY <2>1, <2>2, <2>3, StepOfOne
<1> QED BY <1>3, <1>4 DEF Garbled

\* The failed instance is marked in the cache the second attempt will read.
LEMMA TransportErrorKeeps ==
    ASSUME CallsInv, NEW t \in Task, TransportError(t)
    PROVE  CallsInv'
<1> USE DEF CallsInv, CallTypes
<1>1. pc[t] = "post" /\ Release(t) /\ UNCHANGED <<up, waiting>>
  BY DEF TransportError
<1>2. "own" \notin waiting[t] /\ inst[t] \in Instance
  BY <1>1 DEF CallInv, Serving
<1>3. PICK i \in Replacements(t) :
        \/ CallFails(t, i)
        \/ /\ attempt[t] = 1
           /\ inst' = [inst EXCEPT ![t] = i]
           /\ seen' = [seen EXCEPT ![t][inst[t]] = "down"]
           /\ failedAt' = [failedAt EXCEPT ![t] = inst[t]]
           /\ attempt' = [attempt EXCEPT ![t] = 2]
           /\ pc' = [pc EXCEPT ![t] = "again"]
  BY DEF TransportError, MarkUnhealthy
<1>4. CASE CallFails(t, i)
  BY <1>1, <1>2, <1>4, ReleaseIsFenced, FailureKeeps
<1>5. CASE /\ attempt[t] = 1
           /\ inst' = [inst EXCEPT ![t] = i]
           /\ seen' = [seen EXCEPT ![t][inst[t]] = "down"]
           /\ failedAt' = [failedAt EXCEPT ![t] = inst[t]]
           /\ attempt' = [attempt EXCEPT ![t] = 2]
           /\ pc' = [pc EXCEPT ![t] = "again"]
  <2>1. i \in Instance
    BY <1>2, SelectedIsCandidate DEF Replacements
  <2>2. CallTypes'
    BY <1>1, <1>2, <1>5, <2>1, ReleaseIsFenced DEF Where
  <2>3. CallInv(t)'
    <3>1. beating'[t] = FALSE
      BY <1>1, ReleaseIsFenced
    <3>2. inst'[t] \in Instance /\ pc'[t] = "again" /\ attempt'[t] = 2 /\ "own" \notin waiting'[t]
      BY <1>1, <1>2, <1>5, <2>1
    <3>3. seen'[t][failedAt'[t]] = "down"
      BY <1>2, <1>5
    <3> QED BY <3>1, <3>2, <3>3 DEF CallInv, Serving
  <2>4. OthersKept(t)
    BY <1>1, <1>5, ReleaseIsFenced DEF OthersKept
  <2> QED BY <2>2, <2>3, <2>4, StepOfOne
<1> QED BY <1>3, <1>4, <1>5

\* The lock of a process that died belongs to nobody who calls.
LEMMA CrashKeeps ==
    ASSUME CallsInv, NEW t \in Task, Crash(t)
    PROVE  CallsInv'
<1> USE DEF CallsInv, CallTypes
<1>1. /\ Leave(t, "queued") /\ UNCHANGED up
      /\ owner' = [s \in Slot |-> IF owner[s] = t THEN Dead ELSE owner[s]]
      /\ slot' = [slot EXCEPT ![t] = NoSlot]
      /\ beating' = [beating EXCEPT ![t] = FALSE]
      /\ waiting' = [waiting EXCEPT ![t] = IF "own" \in @ THEN {"stale"} ELSE @]
  BY DEF Crash
<1> QED BY <1>1, LeavingKeeps

\* A lock lapses only when its owner's heartbeat has ended.
LEMMA LapseKeeps ==
    ASSUME CallsInv, NEW s \in Slot, Lapse(s)
    PROVE  CallsInv'
<1> USE DEF CallsInv, CallTypes, Lapse, callVars, queueVars
<1>1. CallTypes'
  OBVIOUS
<1>2. ASSUME NEW t \in Task PROVE CallInv(t)'
  <2>1. CallInv(t) /\ SlotsOf(inst[t])' = SlotsOf(inst[t])
    BY DEF SlotsOf
  <2>2. beating[t] => slot[t] # s
    BY <2>1 DEF CallInv
  <2>3. beating[t] => slot[t] \in Slot
    BY <2>1 DEF CallInv, Slot, Serving
  <2> QED BY <2>1, <2>2, <2>3 DEF CallInv
<1> QED BY <1>1, <1>2

LEMMA CallsNext ==
    ASSUME CallsInv, [Next]_vars
    PROVE  CallsInv'
<1>1. ASSUME NEW t \in Task, Serve(t) PROVE CallsInv'
  BY <1>1, DispatchKeeps, BindKeeps, RouteKeeps, AcquireKeeps, GiveUpKeeps, AnswerKeeps,
     GarbledKeeps, TransportErrorKeeps DEF Serve
<1>2. ASSUME NEW t \in Task, HeartbeatBreaks(t) \/ Crash(t) \/ Purge(t) PROVE CallsInv'
  BY <1>2, HeartbeatKeeps, CrashKeeps, PurgeKeeps
<1>3. ASSUME NEW s \in Slot, Lapse(s) PROVE CallsInv'
  BY <1>3, LapseKeeps
<1>4. ASSUME UNCHANGED <<callVars, slotVars>>, pc' = pc, up' \in [Instance -> BOOLEAN] PROVE CallsInv'
  BY <1>4 DEF CallsInv, CallTypes, CallInv, callVars, slotVars, SlotsOf
<1>5. ASSUME NEW i \in Instance, Outage(i) \/ ComesBack(i) PROVE CallsInv'
  BY <1>4, <1>5 DEF Outage, ComesBack, queueVars, CallsInv, CallTypes
<1>6. CASE UNCHANGED vars
  BY <1>4, <1>6 DEF vars, queueVars, CallsInv, CallTypes
<1> QED BY <1>1, <1>2, <1>3, <1>5, <1>6 DEF Next

LEMMA CallsInvHolds == Spec => []CallsInv
BY CallsInit, CallsNext, PTL DEF Spec

-----------------------------------------------------------------------------
\* The locks of an instance bound the calls it serves under a running heartbeat:
\* their slots are all different.
LEMMA CallsFitSlots ==
    ASSUME CallsInv, NEW i \in Instance
    PROVE  Cardinality({t \in Task : beating[t] /\ inst[t] = i}) <= Capacity[i]
<1> DEFINE calls == {t \in Task : beating[t] /\ inst[t] = i}
           place == [k \in 1..Capacity[i] |-> <<i, k>>]
           used == [t \in calls |-> slot[t]]
<1>1. Capacity[i] \in Nat
  BY LaneAssumption
<1>2. IsFiniteSet(1..Capacity[i]) /\ Cardinality(1..Capacity[i]) = Capacity[i]
  BY <1>1, FS_Interval
<1>3. place \in Surjection(1..Capacity[i], SlotsOf(i))
  BY DEF Surjection, SlotsOf
<1>4. IsFiniteSet(SlotsOf(i)) /\ Cardinality(SlotsOf(i)) <= Capacity[i]
  BY <1>2, <1>3, FS_Surjection
<1>5. used \in Injection(calls, SlotsOf(i))
  <2>1. \A t \in calls : slot[t] \in SlotsOf(i) /\ owner[slot[t]] = t
    BY DEF CallsInv, CallInv
  <2> QED BY <2>1 DEF Injection, IsInjective
<1>6. IsFiniteSet(calls) /\ Cardinality(calls) <= Cardinality(SlotsOf(i))
  BY <1>4, <1>5, FS_Injection
<1>7. Cardinality(calls) \in Nat /\ Cardinality(SlotsOf(i)) \in Nat
  BY <1>4, <1>6, FS_CardinalityType
<1> QED BY <1>1, <1>4, <1>6, <1>7

\* A call whose heartbeat runs owns the lock of its slot, whatever happened to
\* the leases of others, and an instance never serves more of them than it has
\* slots (llm.py, GpuSemaphore).
THEOREM LeasesHold == Spec => []LeaseHolds
<1>1. CallsInv => LeaseHolds
  BY CallsFitSlots DEF CallsInv, CallInv, LeaseHolds
<1> QED BY <1>1, CallsInvHolds, PTL

\* Only a process that died leaves a waiting entry behind (llm.py, acquire).
THEOREM WaitersAreWaiting == Spec => []WaitersWait
<1>1. CallsInv => WaitersWait
  BY DEF CallsInv, CallInv, WaitersWait
<1> QED BY <1>1, CallsInvHolds, PTL

\* The second attempt after a transport error goes to another instance, whatever
\* the affinity, the assignment and the caches say (llm.py, generate_json).
THEOREM SecondTriesGoElsewhere == Spec => []SecondTryElsewhere
<1>1. CallsInv => SecondTryElsewhere
  BY DEF CallsInv, CallInv, SecondTryElsewhere
<1> QED BY <1>1, CallsInvHolds, PTL

-----------------------------------------------------------------------------
(* What counts as load. *)

Status == {"none", "queued", "running", "retrying", "completed", "failed"}

LoadTypes ==
  /\ pc \in [Task -> Where] /\ retries \in [Task -> Nat]
  /\ assign \in [Task -> [inst : Instance \union {Nobody}, status : Status]]

Owed(t) ==
  assign[t].status \in Active =>
    /\ pc[t] \notin {"completed", "failed"}
    /\ pc[t] = "dropped" => assign[t].status = "queued" /\ retries[t] >= MaxRetries

LoadInv == LoadTypes /\ \A t \in Task : Owed(t)

LEMMA MinOfTwo ==
    ASSUME NEW a \in Nat, NEW b \in Nat
    PROVE  Min({a, b}) \in Nat /\ (Min({a, b}) = a \/ Min({a, b}) = b)
<1>1. \E x \in {a, b} : \A y \in {a, b} : x <= y
  OBVIOUS
<1>2. Min({a, b}) \in {a, b}
  BY <1>1 DEF Min
<1> QED BY <1>2

\* The step of one task leaves the others' assignments alone.
LEMMA LoadOfOne ==
    ASSUME LoadInv, NEW t \in Task, LoadTypes', Owed(t)',
           \A u \in Task \ {t} : pc'[u] = pc[u] /\ retries'[u] = retries[u] /\ assign'[u] = assign[u]
    PROVE  LoadInv'
BY DEF LoadInv, Owed

\* However a call fails, its assignment ends with it or its task is queued again.
LEMMA FailureOwes ==
    ASSUME LoadInv, NEW t \in Task, NEW i \in Instance \union {Nobody}, CallFails(t, i)
    PROVE  LoadInv'
<1> USE DEF LoadInv, LoadTypes, CallFails, Leave, Assigned
<1>1. LoadTypes'
  BY DEF Where, Status
<1>2. Owed(t)'
  BY DEF Owed, Active
<1>3. \A u \in Task \ {t} : pc'[u] = pc[u] /\ retries'[u] = retries[u] /\ assign'[u] = assign[u]
  OBVIOUS
<1> QED BY <1>1, <1>2, <1>3, LoadOfOne

LEMMA BindOwes ==
    ASSUME LoadInv, NEW t \in Task, Bind(t)
    PROVE  LoadInv'
<1> USE DEF LoadInv, LoadTypes
<1>1. MaxRetries \in Nat /\ pc[t] = "queued"
  BY LaneAssumption DEF Bind
<1>2. \A r : \A i \in Selected(IF Healthy = {} THEN Instance ELSE Healthy, Preferred(t), r) :
        i \in Instance
  BY SelectedIsCandidate DEF Healthy
<1>3. PICK i \in Instance :
        \/ assign' = Assigned(t, i, "retrying") /\ Republish(t, i, FALSE)
        \/ assign' = Assigned(t, i, "queued") /\ Republish(t, i, TRUE)
        \/ /\ assign' = Assigned(t, i, "running")
           /\ pc' = [pc EXCEPT ![t] = "ready"] /\ UNCHANGED retries
  BY <1>2 DEF Bind
<1>4. \A n \in Nat : Min({MaxRetries + 1, n + 1}) \in Nat
  BY <1>1, MinOfTwo
<1>5. LoadTypes'
  <2>1. retries' = retries \/ retries' = [retries EXCEPT ![t] = Min({MaxRetries + 1, @ + 1})]
    BY <1>3 DEF Republish
  <2>2. retries' \in [Task -> Nat]
    BY <1>4, <2>1
  <2>3. pc' \in [Task -> Where]
    BY <1>3 DEF Republish, Where
  <2>4. assign' \in [Task -> [inst : Instance \union {Nobody}, status : Status]]
    <3>1. \A st \in Status : [inst |-> i, status |-> st] \in [inst : Instance \union {Nobody}, status : Status]
      OBVIOUS
    <3>2. PICK st \in Status : assign' = [assign EXCEPT ![t] = [inst |-> i, status |-> st]]
      BY <1>3 DEF Assigned, Status
    <3> QED BY <3>1, <3>2
  <2> QED BY <2>2, <2>3, <2>4
<1>6. Owed(t)'
  BY <1>1, <1>3, <1>4 DEF Assigned, Republish, Owed, Active
<1>7. \A u \in Task \ {t} : pc'[u] = pc[u] /\ retries'[u] = retries[u] /\ assign'[u] = assign[u]
  BY <1>3 DEF Assigned, Republish
<1> QED BY <1>5, <1>6, <1>7, LoadOfOne

LEMMA RouteOwes ==
    ASSUME LoadInv, CallsInv, NEW t \in Task, Route(t)
    PROVE  LoadInv'
<1>1. pc[t] \in {"ready", "again"} /\ inst[t] \in Instance
  BY DEF Route, CallsInv, CallInv, Serving
<1>2. CASE CallFails(t, inst[t])
  BY <1>1, <1>2, FailureOwes
<1>3. ASSUME NEW i \in Instance,
             assign' = IF i = inst[t] THEN assign ELSE Assigned(t, i, "running"),
             pc' = [pc EXCEPT ![t] = "wait"], UNCHANGED retries
      PROVE  LoadInv'
  <2> USE DEF LoadInv, LoadTypes
  <2>1. LoadTypes'
    BY <1>3 DEF Assigned, Where, Status
  <2>2. Owed(t)'
    BY <1>3 DEF Owed
  <2>3. \A u \in Task \ {t} : pc'[u] = pc[u] /\ retries'[u] = retries[u] /\ assign'[u] = assign[u]
    BY <1>3 DEF Assigned
  <2> QED BY <2>1, <2>2, <2>3, LoadOfOne
<1>4. \A ready : \A i \in Selected(ready, Nobody, FALSE) : i \in ready
  BY SelectedIsCandidate
<1> QED BY <1>2, <1>3, <1>4 DEF Route

LEMMA TransportErrorOwes ==
    ASSUME LoadInv, CallsInv, NEW t \in Task, TransportError(t)
    PROVE  LoadInv'
<1>1. inst[t] \in Instance
  BY DEF TransportError, CallsInv, CallInv, Serving
<1>2. PICK i \in Instance :
        \/ CallFails(t, i)
        \/ /\ assign' = Assigned(t, i, "running")
           /\ pc' = [pc EXCEPT ![t] = "again"] /\ UNCHANGED retries
  BY <1>1, SelectedIsCandidate DEF TransportError, Replacements
<1>3. CASE CallFails(t, i)
  BY <1>3, FailureOwes
<1>4. CASE /\ assign' = Assigned(t, i, "running")
           /\ pc' = [pc EXCEPT ![t] = "again"] /\ UNCHANGED retries
  <2> USE DEF LoadInv, LoadTypes
  <2>1. LoadTypes'
    BY <1>4 DEF Assigned, Where, Status
  <2>2. Owed(t)'
    BY <1>4 DEF Owed
  <2>3. \A u \in Task \ {t} : pc'[u] = pc[u] /\ retries'[u] = retries[u] /\ assign'[u] = assign[u]
    BY <1>4 DEF Assigned
  <2> QED BY <2>1, <2>2, <2>3, LoadOfOne
<1> QED BY <1>2, <1>3, <1>4

\* The other operations move a task that stays in service, end its assignment,
\* or do not touch it.
LEMMA OthersOwe ==
    ASSUME LoadInv, CallsInv, NEW t \in Task,
           \/ Dispatch(t) \/ Acquire(t) \/ Answer(t) \/ Crash(t)
           \/ GiveUp(t) \/ Garbled(t)
    PROVE  LoadInv'
<1> USE DEF LoadInv, LoadTypes
<1>1. CASE Acquire(t) \/ Crash(t)
  <2>1. /\ pc' = [pc EXCEPT ![t] = "post"] \/ pc' = [pc EXCEPT ![t] = "queued"]
        /\ UNCHANGED <<retries, assign>>
    BY <1>1 DEF Acquire, Crash, Leave
  <2> QED BY <2>1 DEF Owed, Where
<1>2. CASE Answer(t)
  <2>1. /\ pc' = [pc EXCEPT ![t] = "completed"] /\ UNCHANGED retries
        /\ assign' = Assigned(t, inst[t], "completed") /\ inst[t] \in Instance \union {Nobody}
    BY <1>2 DEF Answer, Completes, Leave, CallsInv, CallTypes
  <2>2. LoadTypes' /\ Owed(t)'
    BY <2>1 DEF Assigned, Where, Status, Owed, Active
  <2> QED BY <2>1, <2>2, LoadOfOne DEF Assigned
<1>3. CASE Dispatch(t)
  <2>1. PICK i \in Instance :
          /\ pc' = [pc EXCEPT ![t] = "queued"] /\ UNCHANGED retries
          /\ assign' = assign \/ assign' = Assigned(t, i, "queued")
    <3>1. \A i \in Selected(IF Healthy = {} THEN Instance ELSE Healthy, Nobody, FALSE) : i \in Instance
      BY SelectedIsCandidate DEF Healthy
    <3> QED BY <1>3, <3>1, LaneAssumption DEF Dispatch
  <2>2. LoadTypes' /\ Owed(t)'
    BY <2>1 DEF Assigned, Where, Status, Owed
  <2> QED BY <2>1, <2>2, LoadOfOne DEF Assigned
<1>4. CASE GiveUp(t)
  <2>1. CallFails(t, inst[t]) /\ inst[t] \in Instance \union {Nobody}
    BY <1>4 DEF GiveUp, CallsInv, CallTypes
  <2> QED BY <2>1, FailureOwes
<1>5. CASE Garbled(t)
  <2>1. inst[t] \in Instance \union {Nobody}
    BY DEF CallsInv, CallTypes
  <2>2. CASE CallFails(t, inst[t])
    BY <2>1, <2>2, FailureOwes
  <2>3. CASE pc' = [pc EXCEPT ![t] = "again"] /\ UNCHANGED <<retries, assign>>
    BY <2>3 DEF Owed, Where
  <2> QED BY <1>5, <2>2, <2>3 DEF Garbled
<1> QED BY <1>1, <1>2, <1>3, <1>4, <1>5

LEMMA LoadNext ==
    ASSUME LoadInv, CallsInv, [Next]_vars
    PROVE  LoadInv'
<1>1. ASSUME NEW t \in Task, Serve(t) \/ Crash(t) PROVE LoadInv'
  BY <1>1, BindOwes, RouteOwes, TransportErrorOwes, OthersOwe DEF Serve
<1>2. ASSUME UNCHANGED <<pc, retries, assign>> PROVE LoadInv'
  BY <1>2 DEF LoadInv, LoadTypes, Owed
<1>3. ASSUME NEW t \in Task, HeartbeatBreaks(t) \/ Purge(t) PROVE LoadInv'
  BY <1>2, <1>3 DEF HeartbeatBreaks, Purge, queueVars
<1>4. CASE UNCHANGED vars \/ (\E s \in Slot : Lapse(s))
           \/ (\E i \in Instance : Outage(i) \/ ComesBack(i))
  BY <1>2, <1>4 DEF Lapse, Outage, ComesBack, vars, queueVars
<1> QED BY <1>1, <1>3, <1>4 DEF Next

\* Load is counted only for tasks that will still run, or whose last reroute was
\* refused (model_instances.py, worker.py model_instance_task).
THEOREM LoadIsAlwaysOwed == Spec => []LoadIsOwed
<1>1. Init => LoadInv
  BY DEF Init, LoadInv, LoadTypes, Owed, NoAssignment, Where, Status, Active
<1>2. LoadInv => LoadIsOwed
  BY DEF LoadInv, Owed, LoadIsOwed
<1> QED BY <1>1, <1>2, LoadNext, CallsInvHolds, PTL DEF Spec
=============================================================================
