---------------------------- MODULE ScanGateProofs ----------------------------
(***************************************************************************)
(* Proofs about the scan loop, for any slots, ids and bounds: a scan is in *)
(* one place at a time, and the gate keeps scans apart as long as nobody   *)
(* takes the lease of a scan that is still in hand.                        *)
(***************************************************************************)
EXTENDS ScanGate, TLAPS

USE NoScanIsNotAScan, ProcessesDiffer, BoundsAreNumbers

Id     == Scan \cup {NoScan}
State  == {"idle", "queued", "running", "retrying", "paused", "interrupted", "failed"}
Record == [state : State, task : Id, beat : {"never", "recent", "stale"}, due : BOOLEAN]

\* Where a publisher still holds the id it claimed, and where beat ends a dead scan.
Publishing == {"announce", "publish", "withdraw", "drop"}
Recovering == {"interrupt", "release", "delete"}
Executing  == {"start", "checkpoint", "paused", "discover", "dispatch", "complete", "close",
               "handle", "retry", "release", "delete"}
PhaseOf(p) ==
    IF p \in Slot THEN {"idle", "unpause"} \cup Executing
    ELSE IF p = Operator THEN {"idle", "pausing", "resuming"}
    ELSE {"idle", "claim", "unpause"} \cup Publishing \cup (IF p = Beat THEN Recovering ELSE {})
Phase  == {"idle", "claim", "unpause", "pausing", "resuming"}
          \cup Publishing \cup Recovering \cup Executing
Places == [pc : Phase, task : Id, retries : Nat, beating : BOOLEAN]
Named(p) == at[p].pc \notin {"idle", "claim"}

ScanTypes ==
    /\ gate \in Id /\ pause \in Id
    /\ status \in Record /\ seen \in [Slot -> Record]
    /\ broker \subseteq [task : Scan, retries : Nat]
    /\ at \in [Process -> Places]
    /\ \A p \in Process : /\ at[p].pc \in PhaseOf(p)
                          /\ IF Named(p) THEN at[p].task \in Scan ELSE at[p].task = NoScan
    /\ upsets \in 0 .. MaxUpsets

\* A step moves one process at most; then the types of where the processes are follow.
Goes(p) ==
    /\ p \in Process
    /\ at'[p] \in Places /\ at' = [at EXCEPT ![p] = at'[p]]
    /\ at'[p].pc \in PhaseOf(p)
    /\ IF at'[p].pc \in {"idle", "claim"} THEN at'[p].task = NoScan ELSE at'[p].task \in Scan

AtTypes ==
    /\ at \in [Process -> Places]
    /\ \A p \in Process : /\ at[p].pc \in PhaseOf(p)
                          /\ IF Named(p) THEN at[p].task \in Scan ELSE at[p].task = NoScan

LEMMA GoesKeeps == ASSUME ScanTypes, NEW p, Goes(p) PROVE AtTypes'
  BY DEF ScanTypes, AtTypes, Goes, Named

LEMMA Helpers ==
    ASSUME ScanTypes
    PROVE  /\ Resting \in Places /\ NotSeen \in Record
           /\ \A s \in State : \A t \in Id : \A due \in BOOLEAN : Updated(s, t, due) \in Record
           /\ Upset \/ Calm => upsets' \in 0 .. MaxUpsets
           /\ Scan \ InUse # {} => NewId \in Scan \ InUse
<1>1. Resting \in Places /\ NotSeen \in Record
  BY DEF Resting, NotSeen, Places, Phase, Record, State, Id
<1>2. \A s \in State : \A t \in Id : \A due \in BOOLEAN : Updated(s, t, due) \in Record
  BY DEF ScanTypes, Updated, Record
<1>3. Upset \/ Calm => upsets' \in 0 .. MaxUpsets
  BY DEF ScanTypes, Upset, Calm
<1>4. Scan \ InUse # {} => NewId \in Scan \ InUse
  BY DEF NewId
<1> QED BY <1>1, <1>2, <1>3, <1>4

LEMMA Phases == \A p \in Process : PhaseOf(p) \subseteq Phase
  BY DEF PhaseOf, Phase, Publishing, Recovering, Executing

LEMMA Goings ==
    ASSUME ScanTypes, NEW p \in Process, NEW pc \in PhaseOf(p), pc \notin {"idle", "claim"}, Named(p),
           Goto(p, pc)
    PROVE  Goes(p)
<1>1. pc \in Phase /\ at[p] \in Places /\ at[p].task \in Scan
  BY Phases DEF ScanTypes
<1>2. at'[p] = [at[p] EXCEPT !.pc = pc]
  BY DEF ScanTypes, Goto
<1>3. at'[p] \in Places /\ at'[p].pc = pc /\ at'[p].task = at[p].task
  BY <1>1, <1>2 DEF Places
<1>4. at' = [at EXCEPT ![p] = at'[p]]
  BY <1>2 DEF Goto
<1> QED BY <1>1, <1>3, <1>4 DEF Goes

LEMMA Becomings ==
    ASSUME ScanTypes, NEW p \in Process, NEW pc \in PhaseOf(p) \cap {"idle", "claim"}, Become(p, pc)
    PROVE  Goes(p)
<1>1. [Resting EXCEPT !.pc = pc] \in Places
  BY DEF Resting, Places, Id, Phase
<1>2. [Resting EXCEPT !.pc = pc].pc = pc /\ [Resting EXCEPT !.pc = pc].task = NoScan
  BY DEF Resting
<1> QED BY <1>1, <1>2 DEF ScanTypes, Become, Goes

-------------------------------------------------------------------------------
\* What a step does to the gate, the messages and the place of one process: it lets go or
\* goes on, ...
Lets(p) ==
    /\ Goes(p) /\ broker' = broker
    /\ at'[p].pc \notin {"idle", "claim"} => Named(p) /\ at'[p].task = at[p].task
    /\ p \in Slot /\ at'[p].pc \in Executing => at[p].pc \in Executing
    /\ p \notin Slot /\ at'[p].pc \in Publishing => at[p].pc \in Publishing
    /\ p \notin Slot /\ at'[p].pc \in Recovering => at[p].pc \in Recovering
    /\ \/ gate' = gate
       \/ gate' = NoScan /\ at[p].pc \in {"delete", "drop"} /\ at'[p].pc \in {"unpause", "idle"}

\* ... publishes, retries or dies with a message that is delivered again, ...
Puts(p) ==
    /\ Goes(p) /\ gate' = gate /\ at'[p].pc = "idle"
    /\ Named(p) /\ (p \in Slot \/ at[p].pc \in Publishing)
    /\ \E n \in Nat : broker' = broker \cup {[task |-> at[p].task, retries |-> n]}

\* ... claims an empty gate for a new id, ...
Claims(p) ==
    /\ Goes(p) /\ p \in {Beat, Api} /\ broker' = broker
    /\ gate = NoScan /\ gate' = at'[p].task
    /\ at'[p].pc = "announce" /\ at'[p].task \notin InUse

\* ... takes a message and the gate for it, ...
Takes(s, m) ==
    /\ Goes(s) /\ s \in Slot /\ at'[s].pc = "start"
    /\ m \in broker /\ broker' = broker \ {m} /\ at'[s].task = m.task
    /\ gate \in {NoScan, m.task} /\ gate' = m.task

\* ... or sets out to end what seems a dead scan, or to pause or resume one.
Recovers ==
    /\ Goes(Beat) /\ gate' = gate /\ broker' = broker
    /\ at[Beat].pc = "idle" /\ at'[Beat].pc = "interrupt"
    /\ at'[Beat].task = gate /\ gate # NoScan

Asks == Goes(Operator) /\ gate' = gate /\ broker' = broker

\* A message is dropped, or nothing happens to these.
Rests ==
    /\ gate' = gate /\ broker' \subseteq broker
    /\ at' \in [Process -> Places]
    /\ \A p \in Process : at'[p].pc = at[p].pc /\ at'[p].task = at[p].task

Expires == at' = at /\ broker' = broker /\ gate' = NoScan /\ GateExpires

StepMoves ==
    \/ \E p \in Process : Lets(p) \/ Puts(p) \/ Claims(p)
    \/ \E s \in Slot : \E m \in broker : Takes(s, m)
    \/ Recovers \/ Asks \/ Rests \/ Expires

\* The types apart from those of the places.
DataTypes ==
    /\ gate \in Id /\ pause \in Id
    /\ status \in Record /\ seen \in [Slot -> Record]
    /\ broker \subseteq [task : Scan, retries : Nat]
    /\ upsets \in 0 .. MaxUpsets

LEMMA TypesAre == ScanTypes <=> AtTypes /\ DataTypes
  BY DEF ScanTypes, AtTypes, DataTypes

\* Letting go or going on is one step of one process, with its types.
LEMMA Letting ==
    ASSUME ScanTypes, NEW p \in Process, Goes(p), broker' = broker, gate' = gate,
           at'[p].pc \in {"idle", "claim"}
    PROVE  Lets(p)
  BY DEF Lets, Executing, Publishing, Recovering

LEMMA BeatsMove ==
    ASSUME ScanTypes, Tick \/ Recover
    PROVE  DataTypes' /\ StepMoves
<1>t. /\ Beat \in Process /\ Beat \notin Slot /\ AtTypes /\ DataTypes
      /\ PhaseOf(Beat) = {"idle", "claim", "unpause"} \cup Publishing \cup Recovering
  BY TypesAre DEF Process, PhaseOf
<1>1. ASSUME Tick, gate # NoScan,
             at' = [at EXCEPT ![Beat] = [Resting EXCEPT !.pc = "interrupt", !.task = gate]]
      PROVE  StepMoves
  <2>1. [Resting EXCEPT !.pc = "interrupt", !.task = gate] \in Places
    BY <1>t DEF Resting, Places, Phase, DataTypes, Id, Recovering
  <2>2. Goes(Beat) /\ at'[Beat].pc = "interrupt" /\ at'[Beat].task = gate
    BY <1>t, <1>1, <2>1 DEF Goes, AtTypes, DataTypes, Id, Resting, Recovering
  <2> QED BY <1>1, <2>2 DEF StepMoves, Recovers, Tick, redis
<1>2. ASSUME Tick, Become(Beat, "claim") PROVE StepMoves
  <2>1. Goes(Beat) /\ at'[Beat].pc = "claim"
    BY <1>t, <1>2, Becomings DEF Become, Resting, AtTypes
  <2> QED BY <1>t, <1>2, <2>1, Letting DEF StepMoves, Tick, redis
<1>3. ASSUME Tick PROVE DataTypes'
  BY <1>t, <1>3, Helpers DEF Tick, redis, DataTypes
<1>4. ASSUME at[Beat].pc \in Recovering, NEW pc \in {"release", "delete", "unpause"}, Goto(Beat, pc),
             broker' = broker, gate' = gate \/ (gate' = NoScan /\ at[Beat].pc = "delete" /\ pc = "unpause")
      PROVE  StepMoves
  <2>1. Named(Beat)
    BY <1>4 DEF Named, Recovering
  <2>2. Goes(Beat) /\ at'[Beat].pc = pc /\ at'[Beat].task = at[Beat].task
    BY <1>t, <1>4, <2>1, Goings DEF Goto, AtTypes, Places, Recovering
  <2>3. pc \notin Publishing /\ pc \notin {"idle", "claim"}
    BY <1>4 DEF Publishing
  <2> QED BY <1>t, <1>4, <2>1, <2>2, <2>3 DEF StepMoves, Lets
<1>5. CASE at[Beat].pc = "interrupt" /\ Recover
  <2>1. /\ status' = Updated("interrupted", at[Beat].task, TRUE) /\ Goto(Beat, "release")
        /\ UNCHANGED <<gate, pause, broker, seen>> /\ Calm
    BY <1>5 DEF Recover, ClearGate
  <2>2. StepMoves
    BY <1>4, <1>5, <2>1 DEF Recovering
  <2>3. "interrupted" \in State /\ at[Beat].task \in Id
    BY <1>t DEF State, AtTypes, Places
  <2> QED BY <1>t, <2>1, <2>2, <2>3, Helpers DEF DataTypes
<1>6. CASE ClearGate(Beat, "unpause") /\ Recover
  BY <1>t, <1>4, <1>6, Helpers DEF Recover, ClearGate, DataTypes, Recovering, Id
<1>7. CASE at[Beat].pc = "unpause" /\ Recover
  <2>1. Stop(Beat) /\ ClearPause(Beat) /\ UNCHANGED <<gate, status, broker, seen>> /\ Calm
    BY <1>7 DEF Recover, ClearGate
  <2>2. Goes(Beat) /\ at'[Beat].pc = "idle"
    BY <1>t, <2>1, Becomings DEF Stop, Become, Resting, AtTypes
  <2> QED BY <1>t, <2>1, <2>2, Letting, Helpers DEF StepMoves, DataTypes, ClearPause, Id
<1> QED BY <1>1, <1>2, <1>3, <1>5, <1>6, <1>7 DEF Tick, Recover

\* A process with an id goes on, or lets go of the gate.
LEMMA GoingOn ==
    ASSUME ScanTypes, NEW p \in Process, NEW pc \in PhaseOf(p), pc \notin {"idle", "claim"}, Named(p),
           Goto(p, pc), broker' = broker,
           p \in Slot /\ pc \in Executing => at[p].pc \in Executing,
           p \notin Slot /\ pc \in Publishing => at[p].pc \in Publishing,
           p \notin Slot /\ pc \in Recovering => at[p].pc \in Recovering,
           gate' = gate \/ (gate' = NoScan /\ at[p].pc \in {"delete", "drop"} /\ pc \in {"unpause", "idle"})
    PROVE  StepMoves
<1>1. Goes(p)
  BY Goings
<1>2. at'[p].pc = pc /\ at'[p].task = at[p].task
  BY DEF ScanTypes, Goto, Places
<1> QED BY <1>1, <1>2 DEF StepMoves, Lets

\* A process that stops, or starts to publish, keeps nothing.
LEMMA Stopping ==
    ASSUME ScanTypes, NEW p \in Process, NEW pc \in PhaseOf(p) \cap {"idle", "claim"}, Become(p, pc),
           broker' = broker,
           gate' = gate \/ (gate' = NoScan /\ at[p].pc \in {"delete", "drop"} /\ pc = "idle")
    PROVE  StepMoves
<1>1. Goes(p)
  BY Becomings
<1>2. at'[p].pc = pc
  BY DEF ScanTypes, Become, Resting, Places
<1> QED BY <1>1, <1>2 DEF StepMoves, Lets, Executing, Publishing, Recovering

\* A process that hands its message to the broker and stops.
LEMMA Putting ==
    ASSUME ScanTypes, NEW p \in Process, Stop(p), gate' = gate,
           Named(p), p \in Slot \/ at[p].pc \in Publishing,
           NEW n \in Nat, broker' = broker \cup {[task |-> at[p].task, retries |-> n]}
    PROVE  StepMoves /\ broker' \subseteq [task : Scan, retries : Nat]
<1>1. Goes(p)
  BY Becomings DEF Stop, PhaseOf
<1>2. at'[p].pc = "idle"
  BY DEF ScanTypes, Stop, Become, Resting, Places
<1>3. at[p].task \in Scan
  BY DEF ScanTypes
<1> QED BY <1>1, <1>2, <1>3 DEF StepMoves, Puts, ScanTypes

LEMMA PublishersMove ==
    ASSUME ScanTypes, NEW p \in {Beat, Api}, EnqueueScan(p) \/ (p = Api /\ ManualScan)
    PROVE  DataTypes' /\ StepMoves
<1>t. /\ p \in Process /\ p \notin Slot /\ AtTypes /\ DataTypes /\ at[p].task \in Id
      /\ {"idle", "claim"} \cup Publishing \subseteq PhaseOf(p)
  BY TypesAre DEF Process, PhaseOf, AtTypes, Places
<1>1. CASE p = Api /\ ManualScan
  BY <1>t, <1>1, Stopping, Helpers DEF ManualScan, redis, DataTypes
<1>2. CASE ClaimNewGate(p)
  <2>1. CASE gate # NoScan
    BY <1>t, <1>2, <2>1, Stopping, Helpers DEF ClaimNewGate, Stop, DataTypes, Id
  <2>2. CASE gate = NoScan
    <3>1. NewId \in Scan \ InUse
      BY <1>2, <2>2, Helpers DEF ClaimNewGate
    <3>2. /\ at[p] \in Places
          /\ at' = [at EXCEPT ![p] = [at[p] EXCEPT !.pc = "announce", !.task = NewId]]
      BY <1>t, <1>2, <2>2 DEF ClaimNewGate, AtTypes
    <3>3. /\ [at[p] EXCEPT !.pc = "announce", !.task = NewId] \in Places
          /\ [at[p] EXCEPT !.pc = "announce", !.task = NewId].pc = "announce"
          /\ [at[p] EXCEPT !.pc = "announce", !.task = NewId].task = NewId
      BY <3>1, <3>2 DEF Places, Phase, Id, Publishing
    <3>4. Goes(p) /\ at'[p].pc = "announce" /\ at'[p].task = NewId
      BY <1>t, <3>1, <3>2, <3>3 DEF Goes, Publishing, AtTypes
    <3> QED BY <1>t, <1>2, <2>2, <3>1, <3>4, Helpers
            DEF ClaimNewGate, StepMoves, Claims, DataTypes, Id
  <2> QED BY <2>1, <2>2
<1>3. CASE Announce(p)
  BY <1>t, <1>3, GoingOn, Helpers DEF Announce, DataTypes, State, Publishing, Named, Id, Recovering
<1>4. CASE Publish(p)
  <2>1. StepMoves /\ broker' \subseteq [task : Scan, retries : Nat]
    BY <1>t, <1>4, Putting DEF Publish, Publishing, Named, redis
  <2> QED BY <1>t, <1>4, <2>1, Helpers DEF Publish, DataTypes, redis
<1>5. CASE PublishFails(p)
  <2>1. StepMoves
    BY <1>t, <1>5, GoingOn DEF PublishFails, Publishing, Named, Recovering
  <2>2. "failed" \in State /\ status.task \in Id
    BY <1>t DEF State, DataTypes, Record
  <2> QED BY <1>t, <1>5, <2>1, <2>2, Helpers DEF PublishFails, DataTypes
<1>6. CASE Withdraw(p)
  <2>b. broker' = broker
    BY <1>6 DEF Withdraw
  <2>1. ASSUME at[p].pc = "withdraw", Goto(p, "drop"), gate' = gate PROVE StepMoves
    <3>1. /\ "drop" \in PhaseOf(p) /\ Named(p) /\ "drop" \notin Recovering
          /\ at[p].pc \in Publishing
      BY <1>t, <2>1 DEF Named, Publishing, Recovering
    <3> QED BY <1>t, <2>b, <2>1, <3>1, GoingOn
  <2>2. ASSUME Stop(p), gate' = gate \/ (at[p].pc = "drop" /\ gate' = NoScan) PROVE StepMoves
    <3>1. "idle" \in PhaseOf(p) \cap {"idle", "claim"}
      BY <1>t
    <3> QED BY <1>t, <2>b, <2>2, <3>1, Stopping DEF Stop
  <2>3. DataTypes'
    BY <1>t, <1>6, Helpers DEF Withdraw, DataTypes, Id
  <2> QED BY <1>6, <2>1, <2>2, <2>3 DEF Withdraw
<1> QED BY <1>1, <1>2, <1>3, <1>4, <1>5, <1>6 DEF EnqueueScan

LEMMA OperatorMoves ==
    ASSUME ScanTypes, OperatorStep
    PROVE  DataTypes' /\ StepMoves
<1>t. /\ Operator \in Process /\ AtTypes /\ DataTypes /\ at[Operator].task \in Id
      /\ PhaseOf(Operator) = {"idle", "pausing", "resuming"}
  BY TypesAre DEF Process, PhaseOf, AtTypes, Places
<1>1. CASE RequestReads
  <2>1. PICK pc \in {"pausing", "resuming"} :
           at' = [at EXCEPT ![Operator] = [Resting EXCEPT !.pc = pc, !.task = gate]]
    BY <1>1 DEF RequestReads
  <2>2. /\ [Resting EXCEPT !.pc = pc, !.task = gate] \in Places
        /\ [Resting EXCEPT !.pc = pc, !.task = gate].pc = pc
        /\ [Resting EXCEPT !.pc = pc, !.task = gate].task = gate
    BY <1>t DEF Resting, Places, Phase, DataTypes, Id
  <2>3. Goes(Operator)
    BY <1>t, <1>1, <2>1, <2>2 DEF RequestReads, Goes, AtTypes, DataTypes, Id
  <2> QED BY <1>t, <1>1, <2>3, Helpers DEF RequestReads, StepMoves, Asks, DataTypes, redis
<1>2. CASE RequestPause
  BY <1>t, <1>2, Stopping, Helpers DEF RequestPause, Stop, DataTypes, State
<1>3. CASE ResumeScan
  BY <1>t, <1>3, Stopping, Helpers DEF ResumeScan, Stop, DataTypes, State, Id
<1> QED BY <1>1, <1>2, <1>3 DEF OperatorStep

\* A step that leaves gate, messages and places alone, or only drops a message or
\* switches a heartbeat thread.
LEMMA Resting1 ==
    ASSUME ScanTypes, gate' = gate, broker' \subseteq broker,
           \/ at' = at
           \/ \E s \in Slot : at' = [at EXCEPT ![s].beating = FALSE]
    PROVE  StepMoves /\ AtTypes'
<1>1. at' \in [Process -> Places] /\ \A p \in Process : at'[p].pc = at[p].pc /\ at'[p].task = at[p].task
  <2>1. CASE at' = at
    BY <2>1 DEF ScanTypes
  <2>2. ASSUME NEW s \in Slot, at' = [at EXCEPT ![s].beating = FALSE]
        PROVE  /\ at' \in [Process -> Places]
               /\ \A p \in Process : at'[p].pc = at[p].pc /\ at'[p].task = at[p].task
    <3>1. s \in Process /\ at[s] \in Places
      BY DEF ScanTypes, Process
    <3>2. at' = [at EXCEPT ![s] = [at[s] EXCEPT !.beating = FALSE]]
      BY <2>2
    <3>3. /\ [at[s] EXCEPT !.beating = FALSE] \in Places
          /\ [at[s] EXCEPT !.beating = FALSE].pc = at[s].pc
          /\ [at[s] EXCEPT !.beating = FALSE].task = at[s].task
      BY <3>1 DEF Places
    <3> QED BY <3>1, <3>2, <3>3 DEF ScanTypes
  <2> QED BY <2>1, <2>2
<1> QED BY <1>1 DEF StepMoves, Rests, AtTypes, ScanTypes, Named

\* The discovery of a slot begins or ends, with its heartbeat thread.
LEMMA Threads ==
    ASSUME ScanTypes, NEW s \in Slot, NEW pc \in {"discover", "dispatch", "handle"}, NEW b \in BOOLEAN,
           at[s].pc \in Executing, broker' = broker, gate' = gate,
           at' = [at EXCEPT ![s].pc = pc, ![s].beating = b]
    PROVE  StepMoves
<1>1. s \in Process /\ at[s] \in Places /\ Named(s) /\ at[s].task \in Scan /\ pc \in PhaseOf(s)
  BY DEF ScanTypes, Process, Named, Executing, PhaseOf
<1>2. at' = [at EXCEPT ![s] = [at[s] EXCEPT !.pc = pc, !.beating = b]]
  BY <1>1
<1>3. /\ [at[s] EXCEPT !.pc = pc, !.beating = b] \in Places
      /\ [at[s] EXCEPT !.pc = pc, !.beating = b].pc = pc
      /\ [at[s] EXCEPT !.pc = pc, !.beating = b].task = at[s].task
  BY <1>1, Phases DEF Places
<1>4. at'[s] = [at[s] EXCEPT !.pc = pc, !.beating = b]
  BY <1>1, <1>2 DEF ScanTypes
<1>5. Goes(s)
  BY <1>1, <1>2, <1>3, <1>4 DEF Goes
<1> QED BY <1>1, <1>3, <1>4, <1>5 DEF StepMoves, Lets

LEMMA SlotsMove ==
    ASSUME ScanTypes, NEW s \in Slot, ScanStep(s)
    PROVE  DataTypes' /\ StepMoves
<1>t. /\ s \in Process /\ s \in Slot /\ AtTypes /\ DataTypes /\ at[s] \in Places /\ at[s].task \in Id
      /\ PhaseOf(s) = {"idle", "unpause"} \cup Executing /\ s \notin {Beat, Api, Operator}
      /\ status.task \in Id /\ status.due \in BOOLEAN
      /\ {"running", "paused", "idle", "retrying", "failed"} \subseteq State
  BY TypesAre DEF Process, PhaseOf, AtTypes, Places, DataTypes, Record, State
<1>1. ASSUME NEW m \in broker, Deliver(s, m) PROVE DataTypes' /\ StepMoves
  <2>m. m.task \in Scan /\ m.retries \in Nat
    BY <1>t, <1>1 DEF DataTypes
  <2>1. CASE gate \in {NoScan, m.task}
    <3> DEFINE place == [pc |-> "start", task |-> m.task, retries |-> m.retries, beating |-> FALSE]
    <3>1. at' = [at EXCEPT ![s] = place] /\ gate' = m.task /\ broker' = broker \ {m}
      BY <1>1, <2>1 DEF Deliver
    <3>2. place \in Places /\ place.pc = "start" /\ place.task = m.task
      BY <2>m DEF Places, Phase, Executing, Id
    <3> HIDE DEF place
    <3>3. Goes(s) /\ at'[s] = place
      BY <1>t, <2>m, <3>1, <3>2 DEF Goes, AtTypes, Executing
    <3>4. Takes(s, m)
      BY <1>t, <1>1, <2>1, <3>1, <3>2, <3>3 DEF Takes
    <3> QED BY <1>t, <1>1, <2>m, <3>1, <3>4, Helpers DEF StepMoves, Deliver, DataTypes, Id
  <2>2. CASE gate \notin {NoScan, m.task}
    BY <1>t, <1>1, <2>2, Resting1, Helpers DEF Deliver, DataTypes
  <2> QED BY <2>1, <2>2
<1>2. CASE Start(s)
  BY <1>t, <1>2, GoingOn, Helpers DEF Start, DataTypes, Named, Executing
<1>3. CASE Superseded(s)
  BY <1>t, <1>3, Stopping, Helpers DEF Superseded, Stop, DataTypes, redis
<1>4. CASE Checkpoint(s)
  <2>1. StepMoves
    <3>1. CASE Goto(s, "paused")
      BY <1>t, <1>4, <3>1, GoingOn DEF Checkpoint, Named, Executing
    <3>2. CASE BeginDiscovery(s)
      BY <1>t, <1>4, <3>2, Threads DEF Checkpoint, BeginDiscovery, Executing
    <3> QED BY <1>4, <3>1, <3>2 DEF Checkpoint
  <2> QED BY <1>t, <1>4, <2>1, Helpers DEF Checkpoint, DataTypes
<1>5. CASE Unpaused(s)
  <2>1. StepMoves
    BY <1>t, <1>5, Threads DEF Unpaused, BeginDiscovery, Executing
  <2> QED BY <1>t, <1>5, <2>1, Helpers DEF Unpaused, DataTypes
<1>6. CASE BeatReads(s)
  <2>1. StepMoves
    BY <1>t, <1>6, Resting1 DEF BeatReads, redis
  <2> QED BY <1>t, <1>6, <2>1, Helpers DEF BeatReads, DataTypes, redis
<1>7. CASE BeatWrites(s)
  <2>1. [seen[s] EXCEPT !.beat = "recent"] \in Record
    BY <1>t DEF DataTypes, Record
  <2> QED BY <1>t, <1>7, <2>1, Resting1, Helpers DEF BeatWrites, DataTypes
<1>8. CASE BeatDies(s)
  <2>1. StepMoves
    BY <1>t, <1>8, Resting1 DEF BeatDies, redis
  <2> QED BY <1>t, <1>8, <2>1, Helpers DEF BeatDies, DataTypes, redis
<1>9. CASE Discovered(s) \/ Raises(s)
  <2>1. StepMoves
    BY <1>t, <1>9, Threads DEF Discovered, Raises, Executing, redis
  <2> QED BY <1>t, <1>9, <2>1, Helpers DEF Discovered, Raises, DataTypes, redis
<1>10. CASE Dispatch(s)
  BY <1>t, <1>10, GoingOn, Helpers DEF Dispatch, DataTypes, Named, Executing, redis
<1>11. CASE Complete(s)
  <2>1. StepMoves
    <3>1. CASE Goto(s, "close")
      BY <1>t, <1>11, <3>1, GoingOn DEF Complete, Named, Executing, redis
    <3>2. CASE Stop(s)
      BY <1>t, <1>11, <3>2, Stopping DEF Complete, Stop, redis
    <3> QED BY <1>11, <3>1, <3>2 DEF Complete
  <2> QED BY <1>t, <1>11, <2>1, Helpers DEF Complete, DataTypes, redis
<1>12. CASE Close(s)
  BY <1>t, <1>12, GoingOn, Helpers DEF Close, DataTypes, Named, Executing
<1>13. CASE HandleFailure(s)
  <2>1. StepMoves
    BY <1>t, <1>13, GoingOn DEF HandleFailure, Named, Executing
  <2>2. status' \in Record
    BY <1>t, <1>13, Helpers DEF HandleFailure
  <2>3. upsets' \in 0 .. MaxUpsets
    BY <1>13, Helpers DEF HandleFailure
  <2> QED BY <1>t, <1>13, <2>1, <2>2, <2>3 DEF HandleFailure, DataTypes
<1>14. CASE Retry(s)
  <2>1. ASSUME broker' = broker \cup {[task |-> at[s].task, retries |-> at[s].retries + 1]}
        PROVE  StepMoves /\ broker' \subseteq [task : Scan, retries : Nat]
    <3>1. at[s].retries + 1 \in Nat
      BY <1>t DEF Places
    <3> QED BY <1>t, <1>14, <2>1, <3>1, Putting DEF Retry, Named, redis
  <2>2. ASSUME broker' = broker PROVE StepMoves
    <3>1. Stop(s) /\ gate' = gate /\ "idle" \in PhaseOf(s) \cap {"idle", "claim"}
      BY <1>t, <1>14 DEF Retry, redis
    <3> QED BY <1>t, <2>2, <3>1, Stopping DEF Stop
  <2>3. broker' \subseteq [task : Scan, retries : Nat] /\ StepMoves
    BY <1>t, <1>14, <2>1, <2>2 DEF Retry, DataTypes
  <2> QED BY <1>t, <1>14, <2>3, Helpers DEF Retry, DataTypes, redis
<1>15. CASE Finish(s)
  <2>1. CASE at[s].pc = "release" /\ Goto(s, IF gate = at[s].task THEN "delete" ELSE "unpause") /\ UNCHANGED gate
    BY <1>t, <1>15, <2>1, GoingOn, Helpers DEF Finish, ClearGate, DataTypes, Named, Executing
  <2>2. CASE at[s].pc = "delete" /\ gate' = NoScan /\ Goto(s, "unpause")
    BY <1>t, <1>15, <2>2, GoingOn, Helpers DEF Finish, ClearGate, DataTypes, Named, Executing, Id
  <2>3. CASE at[s].pc = "unpause"
    BY <1>t, <1>15, <2>3, Stopping, Helpers DEF Finish, ClearGate, ClearPause, Stop, DataTypes, Id
  <2> QED BY <1>15, <2>1, <2>2, <2>3 DEF Finish, ClearGate
<1> QED BY <1>1, <1>2, <1>3, <1>4, <1>5, <1>6, <1>7, <1>8, <1>9, <1>10, <1>11, <1>12, <1>13, <1>14, <1>15
        DEF ScanStep, PhaseStep

LEMMA OthersMove ==
    ASSUME ScanTypes,
           \/ \E p \in Process : Crash(p)
           \/ GateExpires \/ HeartbeatAges \/ CountdownEnds \/ UNCHANGED vars
    PROVE  DataTypes' /\ StepMoves
<1>t. AtTypes /\ DataTypes
  BY TypesAre
<1>1. ASSUME NEW p \in Process, Crash(p) PROVE DataTypes' /\ StepMoves
  <2>1. Stop(p) /\ gate' = gate /\ "idle" \in PhaseOf(p) \cap {"idle", "claim"}
    BY <1>1 DEF Crash, redis, PhaseOf
  <2>2. CASE p \in Slot
    <3>1. Named(p) /\ at[p].retries \in Nat
      BY <1>t, <1>1, <2>2 DEF Crash, Named, AtTypes, PhaseOf, Executing, Places
    <3>2. StepMoves /\ broker' \subseteq [task : Scan, retries : Nat]
      BY <1>1, <2>1, <2>2, <3>1, Putting DEF Crash
    <3> QED BY <1>t, <1>1, <2>2, <3>2, Helpers DEF Crash, DataTypes, redis
  <2>3. CASE p \notin Slot
    <3>1. StepMoves
      BY <1>1, <2>1, <2>3, Stopping DEF Crash, Stop
    <3> QED BY <1>t, <1>1, <2>3, <3>1, Helpers DEF Crash, DataTypes, redis
  <2> QED BY <2>2, <2>3
<1>2. CASE GateExpires
  <2>1. upsets' \in 0 .. MaxUpsets
    BY <1>2, Helpers DEF GateExpires
  <2> QED BY <1>t, <1>2, <2>1 DEF GateExpires, StepMoves, Expires, DataTypes, Id
<1>3. CASE HeartbeatAges
  <2>1. [status EXCEPT !.beat = "stale"] \in Record
    BY <1>t DEF DataTypes, Record
  <2> QED BY <1>t, <1>3, <2>1, Resting1, Helpers DEF HeartbeatAges, DataTypes
<1>4. CASE CountdownEnds
  <2>1. [status EXCEPT !.due = TRUE] \in Record
    BY <1>t DEF DataTypes, Record
  <2> QED BY <1>t, <1>4, <2>1, Resting1, Helpers DEF CountdownEnds, DataTypes
<1>5. CASE UNCHANGED vars
  BY <1>t, <1>5, Resting1 DEF vars, DataTypes
<1> QED BY <1>1, <1>2, <1>3, <1>4, <1>5

LEMMA NextMoves ==
    ASSUME ScanTypes, [Next]_vars
    PROVE  StepMoves /\ ScanTypes'
<1>1. DataTypes' /\ StepMoves
  <2>1. CASE BeatStep
    BY <2>1, BeatsMove, PublishersMove DEF BeatStep
  <2>2. CASE ManualScan \/ EnqueueScan(Api)
    BY <2>2, PublishersMove
  <2> QED BY <2>1, <2>2, OperatorMoves, SlotsMove, OthersMove DEF Next
<1>2. AtTypes'
  <2>1. CASE \E p \in Process : Goes(p)
    BY <2>1, GoesKeeps
  <2>2. CASE Rests
    BY <2>2 DEF Rests, ScanTypes, AtTypes, Named
  <2>3. CASE Expires
    BY <2>3 DEF Expires, ScanTypes, AtTypes, Named
  <2> QED BY <1>1, <2>1, <2>2, <2>3 DEF StepMoves, Lets, Puts, Claims, Takes, Recovers, Asks, Process
<1>3. ScanTypes' <=> AtTypes' /\ DataTypes'
  BY DEF ScanTypes, AtTypes, DataTypes
<1> QED BY <1>1, <1>2, <1>3

\* Keys, status, messages and places keep their types; a process at work names a scan.
THEOREM ScanTypeCorrect == Spec => []ScanTypes
<1>1. Init => ScanTypes
  BY DEF Init, ScanTypes, Resting, NotSeen, Places, Phase, PhaseOf, Named, Record, State, Id
<1> QED BY <1>1, NextMoves, PTL DEF Spec

-------------------------------------------------------------------------------
\* A scan is in one place: with its publisher, as one message, or with one slot.
Has(p, t) == at[p].task = t /\ (p \in Slot \/ at[p].pc \in Publishing)
Sent(t)   == \E m \in broker : m.task = t
InHand(t) == Sent(t) \/ \E p \in Process : Has(p, t)

ScanIsSingle ==
    \A t \in Scan :
       /\ \A p, q \in Process : Has(p, t) /\ Has(q, t) => p = q
       /\ \A p \in Process : ~(Has(p, t) /\ Sent(t))
       /\ \A m, n \in broker : m.task = t /\ n.task = t => m = n

\* Whom a step of p does not move, and what a place means.
LEMMA HasStays ==
    ASSUME ScanTypes, NEW p, Goes(p), NEW t
    PROVE  \A q \in Process : q # p => (Has(q, t)' <=> Has(q, t))
  BY DEF ScanTypes, Goes, Has

LEMMA SingleStays == ASSUME ScanTypes, ScanIsSingle, StepMoves PROVE ScanIsSingle'
<1> SUFFICES ASSUME NEW t \in Scan
             PROVE  /\ \A p, q \in Process : Has(p, t)' /\ Has(q, t)' => p = q
                    /\ \A p \in Process : ~(Has(p, t)' /\ Sent(t)')
                    /\ \A m, n \in broker' : m.task = t /\ n.task = t => m = n
  BY DEF ScanIsSingle
<1>s. /\ \A p, q \in Process : Has(p, t) /\ Has(q, t) => p = q
      /\ \A p \in Process : ~(Has(p, t) /\ Sent(t))
      /\ \A m, n \in broker : m.task = t /\ n.task = t => m = n
  BY DEF ScanIsSingle
<1>1. ASSUME NEW p \in Process, Lets(p) PROVE
           /\ broker' = broker
           /\ \A q \in Process : Has(q, t)' => Has(q, t)
  <2>1. Has(p, t)' => Has(p, t)
    BY <1>1 DEF Lets, Goes, Has, Publishing
  <2> QED BY <1>1, <2>1, HasStays DEF Lets
<1>2. CASE \E p \in Process : Lets(p)
  BY <1>s, <1>1, <1>2 DEF Sent
<1>3. ASSUME NEW p \in Process, Puts(p)
      PROVE  /\ \A q \in Process : Has(q, t)' => q # p /\ Has(q, t)
             /\ \E n \in Nat : broker' = broker \cup {[task |-> at[p].task, retries |-> n]}
             /\ Has(p, at[p].task)
  <2>1. ~Has(p, t)'
    BY <1>3 DEF Puts, Goes, Has, Publishing
  <2> QED BY <1>3, <2>1, HasStays DEF Puts, Has
<1>4. CASE \E p \in Process : Puts(p)
  <2>1. PICK p \in Process : Puts(p)
    BY <1>4
  <2>2. PICK n \in Nat : broker' = broker \cup {[task |-> at[p].task, retries |-> n]}
    BY <1>3, <2>1
  <2>3. CASE at[p].task = t
    BY <1>s, <1>3, <2>1, <2>2, <2>3 DEF Sent
  <2>4. CASE at[p].task # t
    BY <1>s, <1>3, <2>1, <2>2, <2>4 DEF Sent
  <2> QED BY <2>3, <2>4
<1>5. ASSUME NEW p \in Process, Claims(p)
      PROVE  /\ broker' = broker
             /\ \A q \in Process : q # p => (Has(q, t)' <=> Has(q, t))
             /\ Has(p, t)' => ~InHand(t)
  <2>1. ASSUME Has(p, t)' PROVE ~InHand(t)
    BY <1>5, <2>1 DEF Claims, Has, InHand, Sent, InUse
  <2> QED BY <1>5, <2>1, HasStays DEF Claims
<1>6. CASE \E p \in Process : Claims(p)
  BY <1>s, <1>5, <1>6 DEF Sent, InHand
<1>7. ASSUME NEW s \in Slot, NEW m \in broker, Takes(s, m)
      PROVE  /\ broker' = broker \ {m}
             /\ \A q \in Process : q # s => (Has(q, t)' <=> Has(q, t))
             /\ Has(s, t)' => m.task = t
  BY <1>7, HasStays DEF Takes, Has
<1>8. CASE \E s \in Slot : \E m \in broker : Takes(s, m)
  BY <1>s, <1>7, <1>8 DEF Sent, Process
<1>9. CASE Recovers
  <2>1. ~Has(Beat, t)'
    BY <1>9 DEF Recovers, Has, Publishing
  <2>2. broker' = broker /\ \A q \in Process : Has(q, t)' => Has(q, t)
    BY <1>9, <2>1, HasStays DEF Recovers
  <2> QED BY <1>s, <2>2 DEF Sent
<1>10. CASE Asks
  <2>1. ~Has(Operator, t)'
    BY <1>10 DEF Asks, Goes, Has, Publishing, PhaseOf
  <2>2. broker' = broker /\ \A q \in Process : Has(q, t)' => Has(q, t)
    BY <1>10, <2>1, HasStays DEF Asks
  <2> QED BY <1>s, <2>2 DEF Sent
<1>11. CASE Rests \/ Expires
  <2>1. broker' \subseteq broker /\ \A q \in Process : Has(q, t)' <=> Has(q, t)
    BY <1>11 DEF Rests, Expires, Has
  <2> QED BY <1>s, <2>1 DEF Sent
<1> QED BY <1>2, <1>4, <1>6, <1>8, <1>9, <1>10, <1>11 DEF StepMoves

\* A scan is never executed by two slots, nor by one while its message waits or its publisher
\* is not done, through crashes, redeliveries and retries, whatever the keys say (worker.py,
\* enqueue_scan, scan_news; commands.go, startScan).
THEOREM ScansAreSingle == Spec => []ScanIsSingle
<1>1. Init => ScanIsSingle
  BY DEF Init, ScanIsSingle, Has, Sent, Resting
<1> QED BY <1>1, ScanTypeCorrect, NextMoves, SingleStays, PTL DEF Spec

-------------------------------------------------------------------------------
\* Nobody takes the lease of a scan in hand: beat does not find it dead, since it is
\* announced and beats, and the TTL does not run out.
Overtaken ==
    /\ gate # NoScan /\ InHand(gate)
    /\ \/ GateExpires
       \/ at[Beat].pc = "idle" /\ at'[Beat].pc = "interrupt"

TimelySpec == Init /\ [][Next /\ ~Overtaken]_vars

Busy(s) == at[s].pc \in Executing

\* Then slots and publishers own the gate till they have deleted it, and beat ends dead scans only.
GateIsOwned ==
    /\ \A s \in Slot : Busy(s) => gate = at[s].task
    /\ \A p \in {Beat, Api} : at[p].pc \in Publishing => gate = at[p].task
    /\ at[Beat].pc \in Recovering => gate = at[Beat].task /\ ~InHand(gate)

LEMMA OwnersStay ==
    ASSUME ScanTypes, ScanTypes', ScanIsSingle, ScanIsSingle', GateIsOwned, StepMoves, ~Overtaken
    PROVE  GateIsOwned'
<1>t. /\ \A p \in Process : at[p] \in Places /\ (Named(p) => at[p].task \in Scan)
      /\ \A p \in Process : at'[p] \in Places /\ (Named(p)' => at'[p].task \in Scan)
      /\ {Beat, Api} \subseteq Process /\ Slot \subseteq Process
      /\ Beat \notin Slot /\ Api \notin Slot
  BY DEF ScanTypes, Process
<1>n. /\ \A s \in Slot : Busy(s) => Named(s) /\ Has(s, at[s].task)
      /\ \A p \in {Beat, Api} : at[p].pc \in Publishing => Named(p) /\ Has(p, at[p].task)
      /\ at[Beat].pc \in Recovering => Named(Beat)
  BY DEF Busy, Named, Has, Executing, Publishing, Recovering
\* Who owns the gate is alone with it.
<1>1. ASSUME NEW p \in Process, NEW t \in Scan, gate = t, Has(p, t)
      PROVE  /\ \A s \in Slot : Busy(s) => s = p
             /\ \A q \in {Beat, Api} : at[q].pc \in Publishing => q = p
             /\ at[Beat].pc \notin Recovering
             /\ ~Sent(t)
  BY <1>1, <1>t, <1>n DEF ScanIsSingle, GateIsOwned, InHand
<1>2. ASSUME gate = NoScan
      PROVE  /\ \A s \in Slot : ~Busy(s)
             /\ \A q \in {Beat, Api} : at[q].pc \notin Publishing
             /\ at[Beat].pc \notin Recovering
  BY <1>2, <1>t, <1>n DEF GateIsOwned
\* Nobody owns the gate, so it may change hands.
<1> DEFINE Free == /\ \A s \in Slot : ~Busy(s)
                   /\ \A q \in {Beat, Api} : at[q].pc \notin Publishing
                   /\ at[Beat].pc \notin Recovering
<1>3. ASSUME NEW p \in Process, Lets(p), gate' = gate PROVE GateIsOwned'
  <2>1. ASSUME gate \in Scan
        PROVE  /\ \A q \in Process : Has(q, gate)' => Has(q, gate)
               /\ Sent(gate)' <=> Sent(gate)
    <3>1. Has(p, gate)' => Has(p, gate)
      BY <1>t, <1>3, <2>1 DEF Lets, Goes, Has, Publishing, ScanTypes
    <3> QED BY <1>3, <3>1, HasStays DEF Lets, Sent
  <2>2. \A q \in Process : q # p => at'[q] = at[q]
    BY <1>3 DEF Lets, Goes, ScanTypes
  <2>3. /\ \A s \in Slot : Busy(s)' => Busy(s) /\ at'[s].task = at[s].task
        /\ \A q \in {Beat, Api} : at'[q].pc \in Publishing \cup Recovering => at'[q].task = at[q].task
        /\ \A q \in {Beat, Api} : at'[q].pc \in Publishing => at[q].pc \in Publishing
        /\ at'[Beat].pc \in Recovering => at[Beat].pc \in Recovering
    BY <1>t, <1>3, <2>2 DEF Lets, Busy, Executing, Publishing, Recovering
  <2>4. at[Beat].pc \in Recovering => gate = at[Beat].task /\ gate \in Scan /\ ~InHand(gate)
    BY <1>t, <1>n DEF GateIsOwned
  <2> QED BY <1>t, <1>3, <2>1, <2>3, <2>4 DEF GateIsOwned, InHand
<1>4. ASSUME Free, NEW p \in Process, Goes(p),
             ~(p \in Slot /\ Busy(p)'), ~(p \in {Beat, Api} /\ at'[p].pc \in Publishing),
             ~(p = Beat /\ at'[p].pc \in Recovering)
      PROVE  GateIsOwned'
  BY <1>t, <1>4 DEF GateIsOwned, Goes, ScanTypes, Busy
<1>5. ASSUME NEW p \in Process, Lets(p), gate' # gate PROVE GateIsOwned'
  <2>1. gate' = NoScan /\ at[p].pc \in {"delete", "drop"} /\ at'[p].pc \in {"unpause", "idle"}
    BY <1>5 DEF Lets
  <2>2. CASE p = Beat /\ at[p].pc = "delete"
    <3>1. gate = at[Beat].task /\ ~InHand(gate)
      BY <2>2 DEF GateIsOwned, Recovering
    <3>2. /\ \A s \in Slot : ~Busy(s)
          /\ \A q \in {Beat, Api} : at[q].pc \notin Publishing
      BY <1>t, <1>n, <3>1 DEF InHand, GateIsOwned
    <3>3. \A q \in Process : q # Beat => at'[q] = at[q]
      BY <1>5, <2>2 DEF Lets, Goes, ScanTypes
    <3> QED BY <1>t, <2>1, <2>2, <3>2, <3>3 DEF GateIsOwned, Busy, Publishing, Recovering
  <2>3. CASE ~(p = Beat /\ at[p].pc = "delete")
    <3>1. \/ p \in Slot /\ Busy(p)
          \/ p \in {Beat, Api} /\ at[p].pc \in Publishing
      <4>1. at[p].pc \in PhaseOf(p)
        BY DEF ScanTypes
      <4> QED BY <2>1, <2>3, <4>1 DEF PhaseOf, Busy, Executing, Publishing, Recovering, Process
    <3>2. gate = at[p].task /\ Has(p, gate) /\ gate \in Scan
      BY <1>t, <1>n, <3>1 DEF GateIsOwned
    <3>3. /\ \A s \in Slot : Busy(s) => s = p
          /\ \A q \in {Beat, Api} : at[q].pc \in Publishing => q = p
          /\ at[Beat].pc \notin Recovering
      BY <1>1, <3>2
    <3>4. \A q \in Process : q # p => at'[q] = at[q]
      BY <1>5 DEF Lets, Goes, ScanTypes
    <3> QED BY <1>t, <2>1, <3>3, <3>4 DEF GateIsOwned, Busy, Executing, Publishing, Recovering
  <2> QED BY <2>2, <2>3
<1>6. ASSUME NEW p \in Process, Puts(p) PROVE GateIsOwned'
  <2>1. PICK n \in Nat : broker' = broker \cup {[task |-> at[p].task, retries |-> n]}
    BY <1>6 DEF Puts
  <2>2. /\ gate' = gate /\ at'[p].pc = "idle" /\ at'[p].task = NoScan /\ Has(p, at[p].task)
        /\ \A q \in Process : q # p => at'[q] = at[q]
    BY <1>6, <1>t DEF Puts, Goes, Has, ScanTypes, Publishing, Id
  <2>3. at'[Beat].pc \in Recovering => ~InHand(gate)'
    <3>1. SUFFICES ASSUME at'[Beat].pc \in Recovering PROVE ~InHand(gate)'
      OBVIOUS
    <3>2. p # Beat /\ at[Beat].pc \in Recovering
      BY <1>t, <2>2, <3>1 DEF Recovering
    <3>3. ~InHand(gate) /\ at[p].task # gate /\ gate \in Scan
      BY <1>t, <1>n, <2>2, <3>2 DEF GateIsOwned, InHand
    <3>4. ~Has(p, gate)'
      BY <2>2, <3>3 DEF Has
    <3>5. Goes(p)
      BY <1>6 DEF Puts
    <3>6. \A q \in Process : ~Has(q, gate)'
      BY <2>2, <3>3, <3>4, <3>5, HasStays DEF InHand
    <3> QED BY <2>1, <2>2, <3>3, <3>6 DEF InHand, Sent
  <2> QED BY <1>t, <2>2, <2>3 DEF GateIsOwned, Busy, Executing, Publishing, Recovering
<1>7. ASSUME NEW p \in Process, Claims(p) PROVE GateIsOwned'
  <2>1. Free
    BY <1>2, <1>7 DEF Claims
  <2>2. /\ p \in {Beat, Api} /\ gate' = at'[p].task /\ at'[p].pc = "announce"
        /\ \A q \in Process : q # p => at'[q] = at[q]
    BY <1>7 DEF Claims, Goes, ScanTypes
  <2> QED BY <1>t, <2>1, <2>2 DEF GateIsOwned, Busy, Recovering
<1>8. ASSUME NEW s \in Slot, NEW m \in broker, Takes(s, m) PROVE GateIsOwned'
  <2>1. Free
    <3>1. CASE gate = NoScan
      BY <1>2, <3>1
    <3>2. CASE gate # NoScan
      <4>1. gate = m.task /\ gate \in Scan /\ Sent(gate)
        BY <1>8, <3>2 DEF Takes, Sent, ScanTypes
      <4>2. \A p \in Process : ~Has(p, gate)
        BY <4>1 DEF ScanIsSingle
      <4> QED BY <1>t, <1>n, <4>1, <4>2 DEF GateIsOwned, InHand
    <3> QED BY <3>1, <3>2
  <2>2. gate' = at'[s].task /\ \A q \in Process : q # s => at'[q] = at[q]
    BY <1>8 DEF Takes, Goes, ScanTypes
  <2> QED BY <1>t, <2>1, <2>2 DEF GateIsOwned, Busy
<1>9. CASE Recovers
  <2>1. ~InHand(gate)
    BY <1>9 DEF Recovers, Overtaken
  <2>2. /\ gate' = gate /\ broker' = broker /\ at'[Beat].task = gate /\ at'[Beat].pc = "interrupt"
        /\ \A q \in Process : q # Beat => at'[q] = at[q]
    BY <1>9 DEF Recovers, Goes, ScanTypes
  <2>3. \A q \in Process : ~Has(q, gate)'
    BY <1>t, <2>1, <2>2 DEF Has, InHand, Publishing
  <2> QED BY <1>t, <2>1, <2>2, <2>3 DEF GateIsOwned, Busy, Publishing, InHand, Sent
<1>10. CASE Asks
  <2>1. /\ gate' = gate /\ broker' = broker /\ Operator \notin Slot \cup {Beat, Api}
        /\ \A q \in Process : q # Operator => at'[q] = at[q]
        /\ at'[Operator].pc \notin Publishing
    BY <1>10 DEF Asks, Goes, ScanTypes, PhaseOf, Publishing
  <2>2. \A q \in Process : Has(q, gate)' => Has(q, gate)
    BY <2>1 DEF Has
  <2> QED BY <1>t, <2>1, <2>2 DEF GateIsOwned, Busy, InHand, Sent
<1>11. CASE Rests
  <2>1. gate' = gate /\ broker' \subseteq broker
    BY <1>11 DEF Rests
  <2>2. \A q \in Process : at'[q].pc = at[q].pc /\ at'[q].task = at[q].task
    BY <1>11 DEF Rests
  <2> QED BY <1>t, <2>1, <2>2 DEF GateIsOwned, Busy, InHand, Sent, Has
<1>12. CASE Expires
  <2>1. at' = at /\ ~InHand(gate) /\ \A p \in Process : at[p].task # gate
    BY <1>12 DEF Expires, Overtaken, GateExpires
  <2>2. Free
    BY <1>t, <1>n, <2>1 DEF GateIsOwned, InHand
  <2> QED BY <2>1, <2>2 DEF GateIsOwned, Busy
<1> QED BY <1>3, <1>5, <1>6, <1>7, <1>8, <1>9, <1>10, <1>11, <1>12 DEF StepMoves

\* At most one scan is at work and it has the lease to the end.
OneScanAtWork ==
    /\ \A s, r \in Slot : Busy(s) /\ Busy(r) => s = r
    /\ \A s \in Slot : Busy(s) => gate = at[s].task

\* As long as nobody takes the lease of a scan in hand, the gate is a lock, through crashes,
\* redeliveries, refused messages, retries, manual scans, pauses, and the deletions that
\* look at the key one step earlier: one scan is at work, none is superseded, and none
\* fails as a stale one.  What the documented promise of ScanLeaseLost lacks is thus the
\* case of a lease that was taken (worker.py, ScanLeaseLost, _clear_scan_gate).
THEOREM GateKeepsScansApart ==
    TimelySpec => []OneScanAtWork /\ [][\A s \in Slot : ~Superseded(s)]_vars /\ StaleFailureIsQuiet
<1> DEFINE GateInv == ScanTypes /\ ScanIsSingle /\ GateIsOwned
           Quiet == \A s \in Slot : at[s].pc = "handle" /\ at'[s] # at[s]
                                       /\ gate \notin {NoScan, at[s].task} => status' = status
<1>1. Init => GateInv
  BY DEF Init, ScanTypes, Resting, NotSeen, Places, Phase, PhaseOf, Named, Record, State, Id,
         ScanIsSingle, Has, Sent, GateIsOwned, Busy, Process, Executing, Publishing, Recovering
<1>2. GateInv /\ [Next /\ ~Overtaken]_vars => GateInv'
  <2>1. UNCHANGED vars => ~Overtaken
    BY DEF vars, Overtaken, GateExpires
  <2> QED BY <2>1, NextMoves, SingleStays, OwnersStay
<1>3. GateInv => OneScanAtWork
  <2> SUFFICES ASSUME GateInv PROVE OneScanAtWork
    OBVIOUS
  <2>1. \A s \in Slot : Busy(s) => gate = at[s].task /\ at[s].task \in Scan /\ Has(s, gate) /\ s \in Process
    BY DEF GateIsOwned, ScanTypes, Named, Busy, Executing, Has, Process
  <2> QED BY <2>1 DEF ScanIsSingle, OneScanAtWork
<1>4. GateInv => (\A s \in Slot : ~Superseded(s)) /\ Quiet
  BY DEF GateIsOwned, Superseded, Owns, Busy, Executing
<1> QED BY <1>1, <1>2, <1>3, <1>4, PTL DEF TimelySpec, StaleFailureIsQuiet
===============================================================================
