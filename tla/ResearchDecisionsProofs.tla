----------------------- MODULE ResearchDecisionsProofs -----------------------
(***************************************************************************)
(* Proofs about what the system makes of an asset: who lets research of it *)
(* in, what a run recommends, the orders and the outcomes that follow, and *)
(* the trend of a target.                                                  *)
(***************************************************************************)
EXTENDS ResearchDecisions, SetProofs, Integers, Sequences, FiniteSets, FiniteSetTheorems, SequenceTheorems, WellFoundedInduction, TLAPS

\* A step of the parts that research moves one of them, and the others rest.
LEMMA ResearchMoves ==
    ASSUME [ResearchNext]_<<part, researchVars>>
    PROVE  /\ [Gate!Next]_gateVars
           /\ [Graph!Next]_graphVars
           /\ [Book!Next]_bookVars
           /\ [Scored!Next]_outcomeVars
           /\ [Trends!Next]_snapshots
           /\ part' = part
BY DEF ResearchNext, GateMoves, GraphMoves, BookMoves, OutcomesMove, TrendsMove, researchVars

-----------------------------------------------------------------------------
Kind == {"event", "target", "refresh", "direct", "retry", "forced"}
Session == {0, 1, 5, 20}
RunStatus == {"active", "coalesced", "failed"} \cup Gate!Concluded

RunRow == [status : RunStatus, kind : Kind, event : GateEvent \cup {0}, session : Session,
           of : Nat, asked : Int, ended : Int, by : {"go", "python"}]
Asking == [kind : Kind \cup {"none"}, event : GateEvent \cup {0}, session : Session,
           of : Nat, at : {"idle", "waiting", "insert"}]

AdmissionTypes ==
  /\ moment \in 1 .. Len(Moments) /\ rows \in Seq(RunRow)
  /\ asking \in [Python \cup Go -> Asking]

\* A request has a kind; windows are asked for by the sweep only, which is Python.
RequestsFit ==
  /\ \A p \in Python \cup Go : asking[p].at # "idle" => asking[p].kind \in Kind
  /\ \A i \in DOMAIN rows : Gate!Refresh(rows[i].session) => rows[i].kind = "refresh" /\ Gate!ByWorkers(i)
  /\ \A p \in Python \cup Go : asking[p].at # "idle" /\ Gate!Refresh(asking[p].session) =>
        asking[p].kind = "refresh" /\ p \in Python

\* Who is let in and has not inserted yet holds the lock, and what the questions under
\* it showed is still so.
LetIn(p) ==
  asking[p].at = "insert" =>
    /\ lock = p
    /\ \A i \in Gate!With(Gate!Active) : ~Gate!ByWorkers(i)
    /\ ~Gate!Bypasses(asking[p]) =>
         \A i \in Gate!With(Gate!Concluded) : Gate!ByWorkers(i) => Gate!time - rows[i].ended >= Cooldown

\* What a request read before the lock is still so, or changed in this moment.
ReadIsTrue(p) ==
  asking[p].at # "idle" =>
    /\ asking[p].kind = "refresh" =>
         \A i \in Gate!With(Gate!Concluded) : rows[i].event = asking[p].event /\ Gate!Refresh(rows[i].session) =>
            rows[i].session < asking[p].session \/ rows[i].ended = Gate!time
    /\ asking[p].kind = "event" =>
         \A i \in Gate!With({"completed"}) : Gate!ByWorkers(i) /\ rows[i].event = asking[p].event =>
            \/ rows[i].ended = Gate!time
            \/ \E k \in (i + 1) .. Len(rows) :
                  rows[k].event = asking[p].event /\ rows[k].status = "insufficient_evidence"

\* A run that Python let in found no other of Python's at work, and those that had
\* ended had ended long enough ago.
Fair(i, j) ==
  Gate!BothByWorkers(i, j) /\ rows[j].status # "coalesced" =>
    /\ rows[i].status # "active"
    /\ rows[i].status \in Gate!Concluded /\ rows[j].kind \in {"event", "target", "refresh", "direct"} =>
         rows[j].asked - rows[i].ended >= Cooldown
    /\ /\ rows[i].status \in Gate!Concluded /\ rows[i].event = rows[j].event
       /\ Gate!Refresh(rows[i].session) /\ Gate!Refresh(rows[j].session)
       => rows[i].session < rows[j].session
    /\ rows[i].status = "completed" /\ rows[j].kind = "event" /\ rows[i].event = rows[j].event =>
         \E k \in (i + 1) .. (j - 1) :
            rows[k].event = rows[j].event /\ rows[k].status = "insufficient_evidence"

PairsFair == \A i, j \in DOMAIN rows : i < j => Fair(i, j)

GateInv ==
  /\ AdmissionTypes /\ RequestsFit /\ PairsFair
  /\ \A p \in Python : LetIn(p) /\ ReadIsTrue(p)

-----------------------------------------------------------------------------
\* A set of numbers up to a bound has a greatest element.
LEMMA Greatest ==
    ASSUME NEW N \in Nat, NEW S \in SUBSET (0 .. N), S # {}
    PROVE  Gate!Max(S) \in S /\ \A y \in S : y <= Gate!Max(S)
<1>1. \E x \in S : \A y \in S : y <= x
  BY GreatestExists
<1>2. \E x \in S : \A y \in S : x >= y
  BY <1>1
<1> QED BY <1>2 DEF Gate!Max

\* The fields of a run, read off the type of the table.
LEMMA RowsHaveTypes ==
    ASSUME AdmissionTypes
    PROVE  /\ Len(rows) \in Nat /\ DOMAIN rows = 1 .. Len(rows)
           /\ \A i \in DOMAIN rows :
                 /\ rows[i] \in RunRow /\ rows[i].session \in Session
                 /\ rows[i].status \in RunStatus /\ rows[i].kind \in Kind
                 /\ rows[i].asked \in Int /\ rows[i].ended \in Int
<1>1. rows \in Seq(RunRow)
  BY DEF AdmissionTypes
<1>2. Len(rows) \in Nat /\ DOMAIN rows = 1 .. Len(rows) /\ \A i \in DOMAIN rows : rows[i] \in RunRow
  BY <1>1
<1> QED BY <1>2 DEF RunRow

\* The window that is due lies beyond those evaluated.
LEMMA DueIsNext ==
    ASSUME AdmissionTypes, NEW e \in GateEvent, Gate!Refresh(Gate!Due(e))
    PROVE  /\ Gate!Due(e) \in Session
           /\ \A i \in Gate!With(Gate!Concluded) : rows[i].event = e => rows[i].session < Gate!Due(e)
<1> DEFINE Done0 == Gate!SessionsDone(e) \cup {0}
           Ripe == {w \in {<<20, 60>>, <<5, 16>>, <<1, 4>>} :
                      Gate!time - GatePublished[e] >= w[2] /\ Gate!Max(Done0) < w[1]}
           Open == {0} \cup {w[1] : w \in Ripe}
<1>1. \A i \in DOMAIN rows : rows[i].session \in Session
  BY RowsHaveTypes
<1>2. Done0 \in SUBSET (0 .. 20) /\ 0 \in Done0
  BY <1>1 DEF Gate!SessionsDone, Gate!With, Session
<1>3. Gate!Max(Done0) \in Done0 /\ \A y \in Done0 : y <= Gate!Max(Done0)
  BY <1>2, Greatest
<1>4. Open \in SUBSET (0 .. 20) /\ 0 \in Open /\ Open \subseteq Session
  BY DEF Session
<1>5. Gate!Max(Open) \in Open
  BY <1>4, Greatest
<1>6. Gate!Due(e) = Gate!Max(Open)
  BY DEF Gate!Due
<1>7. Gate!Due(e) \in Session /\ Gate!Due(e) # 0
  BY <1>4, <1>5, <1>6 DEF Gate!Refresh, Session
<1>8. PICK w \in Ripe : Gate!Due(e) = w[1]
  BY <1>5, <1>6, <1>7
<1>9. \A i \in Gate!With(Gate!Concluded) : rows[i].event = e => rows[i].session \in Done0
  BY DEF Gate!SessionsDone, Gate!With
<1>10. Gate!Max(Done0) < w[1]
  BY <1>8
<1>11. Gate!Max(Done0) \in 0 .. 20
  BY <1>2, <1>3
<1> HIDE DEF Ripe, Open, Done0
<1>12. Gate!Max(Done0) < Gate!Due(e) /\ Gate!Max(Done0) \in Int
  BY <1>8, <1>10, <1>11
<1> QED BY <1>1, <1>2, <1>3, <1>7, <1>9, <1>12 DEF Session, Gate!With

\* An event that asks again was last found to have too little evidence.
LEMMA LatestFellShort ==
    ASSUME AdmissionTypes, NEW e \in GateEvent, Gate!EventAsks(e),
           NEW i \in Gate!With({"completed"}), rows[i].event = e
    PROVE  \E k \in (i + 1) .. Len(rows) :
              rows[k].event = e /\ rows[k].status = "insufficient_evidence"
<1> DEFINE S == {0} \cup {j \in DOMAIN rows : rows[j].event = e}
<1>1. Len(rows) \in Nat /\ DOMAIN rows = 1 .. Len(rows)
  BY DEF AdmissionTypes
<1>2. S \in SUBSET (0 .. Len(rows)) /\ 0 \in S /\ i \in S /\ i \in 1 .. Len(rows)
  BY <1>1 DEF Gate!With
<1>3. Gate!Latest(e) \in S /\ \A y \in S : y <= Gate!Latest(e)
  <2>1. Gate!Latest(e) = Gate!Max(S)
    BY DEF Gate!Latest
  <2> HIDE DEF S
  <2> QED BY <1>1, <1>2, <2>1, Greatest
<1>4. rows[Gate!Latest(e)].status = "insufficient_evidence" /\ Gate!Latest(e) \in 1 .. Len(rows)
      /\ rows[Gate!Latest(e)].event = e
  BY <1>1, <1>2, <1>3 DEF Gate!EventAsks
<1>5. Gate!Latest(e) # i
  BY <1>4 DEF Gate!With
<1> QED BY <1>1, <1>2, <1>3, <1>4, <1>5

-----------------------------------------------------------------------------
\* Nobody asks and no run exists at the start.
LEMMA GateInit ==
    ASSUME Gate!Init
    PROVE  GateInv
<1>1. Len(Moments) \in Nat /\ Len(Moments) >= 1
  BY GateAssumption
<1>2. AdmissionTypes
  BY <1>1 DEF Gate!Init, AdmissionTypes, Asking, Gate!Nothing, Session
<1>3. DOMAIN rows = {}
  BY DEF Gate!Init
<1>4. \A p \in Python \cup Go : asking[p].at = "idle"
  BY DEF Gate!Init, Gate!Nothing
<1> QED BY <1>2, <1>3, <1>4 DEF GateInv, RequestsFit, PairsFair, LetIn, ReadIsTrue

\* The requests of others, when only one process moves and no row does.
LEMMA OneAsks ==
    ASSUME GateInv, NEW p \in Python \cup Go, NEW r \in Asking,
           asking' = [asking EXCEPT ![p] = r], UNCHANGED <<moment, rows>>,
           r.at # "idle" => r.kind \in Kind,
           r.at # "idle" /\ Gate!Refresh(r.session) => r.kind = "refresh" /\ p \in Python,
           p \in Python => LetIn(p)' /\ ReadIsTrue(p)',
           \A q \in Python \ {p} : lock' = lock \/ lock # q
    PROVE  GateInv'
<1> USE DEF GateInv
<1>1. AdmissionTypes'
  BY DEF AdmissionTypes
<1>2. \A q \in Python \cup Go : asking'[q] = IF q = p THEN r ELSE asking[q]
  BY DEF AdmissionTypes
<1>3. RequestsFit'
  BY <1>2 DEF RequestsFit, Gate!ByWorkers
<1>4. PairsFair'
  BY DEF PairsFair, Fair, Gate!BothByWorkers, Gate!ByWorkers
<1>5. ASSUME NEW q \in Python, q # p PROVE LetIn(q)' /\ ReadIsTrue(q)'
  <2>1. asking'[q] = asking[q]
    BY <1>2, <1>5
  <2>2. LetIn(q)'
    BY <1>5, <2>1 DEF LetIn, Gate!With, Gate!ByWorkers, Gate!Bypasses, Gate!time
  <2>3. ReadIsTrue(q)'
    BY <1>5, <2>1 DEF ReadIsTrue, Gate!With, Gate!ByWorkers, Gate!time
  <2> QED BY <2>2, <2>3
<1> QED BY <1>1, <1>3, <1>4, <1>5

\* What a demand is: no window, so the Go API asks for none.
LEMMA DemandsAreRequests ==
    ASSUME AdmissionTypes, NEW r \in Gate!Demands
    PROVE  /\ r \in Asking /\ r.kind \in {"direct", "retry", "forced"} /\ r.session = 0
           /\ r.at = "waiting"
<1> USE DEF Gate!Request, Asking, Kind, Session
<1>1. \A i \in DOMAIN rows : i \in Nat /\ rows[i].event \in GateEvent \cup {0}
  BY RowsHaveTypes DEF RunRow
<1>2. CASE r = Gate!Request("direct", 0, 0, 0)
  BY <1>2
<1>3. ASSUME NEW i \in DOMAIN rows, r = Gate!Request("retry", rows[i].event, 0, i) PROVE
         /\ r \in Asking /\ r.kind \in {"direct", "retry", "forced"} /\ r.session = 0
         /\ r.at = "waiting"
  BY <1>1, <1>3
<1>4. ASSUME NEW i \in DOMAIN rows, r = Gate!Request("forced", rows[i].event, 0, 0) PROVE
         /\ r \in Asking /\ r.kind \in {"direct", "retry", "forced"} /\ r.session = 0
         /\ r.at = "waiting"
  BY <1>1, <1>4
<1> QED BY <1>2, <1>3, <1>4 DEF Gate!Demands, Gate!With

\* A request reads before the lock: what it read is true at that moment.
LEMMA AskKeeps ==
    ASSUME GateInv, NEW p \in Python, Gate!Ask(p)
    PROVE  GateInv'
<1> USE DEF GateInv
<1>1. asking[p].at = "idle" /\ UNCHANGED <<moment, rows, lock>>
  BY DEF Gate!Ask, Gate!Nothing
<1>2. PICK r \in Gate!Asks \cup Gate!Demands : asking' = [asking EXCEPT ![p] = r]
  BY DEF Gate!Ask
<1>3. asking'[p] = r
  BY <1>2 DEF AdmissionTypes
<1>4. CASE r \in Gate!Demands
  <2>1. LetIn(p)' /\ ReadIsTrue(p)'
    BY <1>3, <1>4, DemandsAreRequests DEF LetIn, ReadIsTrue
  <2>2. r \in Asking /\ r.kind \in Kind /\ ~Gate!Refresh(r.session)
    BY <1>4, DemandsAreRequests DEF Gate!Refresh, Kind
  <2> QED BY <1>1, <1>2, <2>1, <2>2, OneAsks
<1>5. ASSUME NEW e \in GateEvent, Gate!EventAsks(e), r = Gate!Request("event", e, 0, 0) PROVE GateInv'
  <2>1. r \in Asking /\ r.kind = "event" /\ r.event = e /\ r.session = 0 /\ r.at = "waiting"
    BY <1>5 DEF Gate!Request, Asking, Kind, Session
  <2>2. LetIn(p)'
    BY <1>3, <2>1 DEF LetIn
  <2>3. ReadIsTrue(p)'
    BY <1>1, <1>3, <1>5, <2>1, LatestFellShort DEF ReadIsTrue, Gate!With, Gate!ByWorkers
  <2>4. ~Gate!Refresh(r.session)
    BY <2>1 DEF Gate!Refresh
  <2> QED BY <1>1, <1>2, <2>1, <2>2, <2>3, <2>4, OneAsks DEF Kind
<1>6. ASSUME NEW e \in GateEvent, r = Gate!Request("target", e, 0, 0) PROVE GateInv'
  <2>1. r \in Asking /\ r.kind = "target" /\ r.session = 0 /\ r.at = "waiting"
    BY <1>6 DEF Gate!Request, Asking, Kind, Session
  <2>2. LetIn(p)' /\ ReadIsTrue(p)'
    BY <1>3, <2>1 DEF LetIn, ReadIsTrue
  <2>3. ~Gate!Refresh(r.session)
    BY <2>1 DEF Gate!Refresh
  <2> QED BY <1>1, <1>2, <2>1, <2>2, <2>3, OneAsks DEF Kind
<1>7. ASSUME NEW e \in GateEvent, Gate!Refresh(Gate!Due(e)), r = Gate!Request("refresh", e, Gate!Due(e), 0) PROVE GateInv'
  <2>1. r \in Asking /\ r.kind = "refresh" /\ r.event = e /\ r.session = Gate!Due(e) /\ r.at = "waiting"
    BY <1>7, DueIsNext DEF Gate!Request, Asking, Kind
  <2>2. LetIn(p)'
    BY <1>3, <2>1 DEF LetIn
  <2>3. ReadIsTrue(p)'
    BY <1>1, <1>3, <1>7, <2>1, DueIsNext DEF ReadIsTrue, Gate!With
  <2> QED BY <1>1, <1>2, <2>1, <2>2, <2>3, OneAsks DEF Kind
<1> QED BY <1>2, <1>4, <1>5, <1>6, <1>7 DEF Gate!Asks

\* A request of the Go API goes to its insert without the lock, and counts as no
\* other's business.
LEMMA EnterGoKeeps ==
    ASSUME GateInv, NEW p \in Go, Gate!EnterGo(p)
    PROVE  GateInv'
<1>1. PICK r \in Gate!Demands : asking' = [asking EXCEPT ![p] = [r EXCEPT !.at = "insert"]]
  BY DEF Gate!EnterGo
<1>2. PICK q : q = [r EXCEPT !.at = "insert"]
  OBVIOUS
<1>3. q \in Asking /\ q.kind \in Kind /\ ~Gate!Refresh(q.session)
  BY <1>2, DemandsAreRequests DEF GateInv, Asking, Kind, Gate!Refresh
<1>4. p \notin Python /\ UNCHANGED <<moment, rows, lock>>
  BY GateAssumption DEF Gate!EnterGo
<1> QED BY <1>1, <1>2, <1>3, <1>4, OneAsks

\* A row is appended for a request that is over with it: what was true of the others is.
LEMMA AppendKeeps ==
    ASSUME GateInv, NEW p \in Python \cup Go, asking[p].at # "idle",
           NEW st \in {"active", "coalesced"},
           rows' = Append(rows, Gate!Row(asking[p], st, p)), Gate!Done(p), UNCHANGED moment,
           st = "active" => asking[p].at = "insert",
           \A q \in Python \ {p} : lock' = lock \/ lock # q
    PROVE  GateInv'
<1> USE DEF GateInv
<1> DEFINE n == Len(rows)  new == Gate!Row(asking[p], st, p)
<1>1. Gate!time' = Gate!time /\ Gate!time \in Int
  BY GateAssumption DEF Gate!time, AdmissionTypes
<1>2. asking[p] \in Asking /\ asking[p].kind \in Kind
  BY DEF AdmissionTypes, RequestsFit
<1>3. /\ new \in RunRow /\ new.status = st /\ new.kind = asking[p].kind /\ new.event = asking[p].event
      /\ new.session = asking[p].session /\ new.asked = Gate!time
      /\ new.by = "python" <=> p \notin Go
  BY <1>1, <1>2 DEF Gate!Row, RunRow, RunStatus, Asking
<1>4. /\ rows' \in Seq(RunRow) /\ n \in Nat /\ DOMAIN rows = 1 .. n
      /\ Len(rows') = n + 1 /\ DOMAIN rows' = 1 .. (n + 1)
      /\ \A i \in 1 .. n : rows'[i] = rows[i]
      /\ rows'[n + 1] = new
  BY <1>3 DEF AdmissionTypes
<1> HIDE DEF new, n
<1>5. AdmissionTypes'
  <2>1. Gate!Nothing \in Asking
    BY DEF Gate!Nothing, Asking, Session
  <2> QED BY <1>4, <2>1 DEF AdmissionTypes, Gate!Done
<1>6. \A q \in Python \cup Go : asking'[q] = IF q = p THEN Gate!Nothing ELSE asking[q]
  BY DEF AdmissionTypes, Gate!Done
<1>7. RequestsFit'
  <2>1. \A q \in Python \cup Go : asking'[q].at # "idle" =>
           /\ asking'[q].kind \in Kind
           /\ Gate!Refresh(asking'[q].session) => asking'[q].kind = "refresh" /\ q \in Python
    BY <1>6 DEF RequestsFit, Gate!Nothing
  <2>2. ASSUME NEW i \in 1 .. (n + 1), Gate!Refresh(rows'[i].session)
        PROVE  rows'[i].kind = "refresh" /\ rows'[i].by = "python"
    <3>1. CASE i \in 1 .. n
      BY <1>4, <2>2, <3>1 DEF RequestsFit, Gate!ByWorkers
    <3>2. CASE i = n + 1
      BY <1>3, <1>4, <2>2, <3>2, GateAssumption DEF RequestsFit
    <3> QED BY <1>4, <3>1, <3>2
  <2> QED BY <1>4, <2>1, <2>2 DEF RequestsFit, Gate!ByWorkers
<1>8. PairsFair'
  <2> SUFFICES ASSUME NEW i \in 1 .. (n + 1), NEW j \in 1 .. (n + 1), i < j PROVE Fair(i, j)'
    BY <1>4 DEF PairsFair
  <2>1. i \in 1 .. n /\ rows'[i] = rows[i] /\ i \in DOMAIN rows
    BY <1>4
  <2>2. CASE j \in 1 .. n
    <3>1. Fair(i, j) /\ rows'[j] = rows[j]
      BY <1>4, <2>1, <2>2 DEF PairsFair
    <3>2. \A k \in (i + 1) .. (j - 1) : rows'[k] = rows[k]
      BY <1>4, <2>1, <2>2
    <3> QED BY <2>1, <3>1, <3>2 DEF Fair, Gate!BothByWorkers, Gate!ByWorkers
  <2>3. CASE j = n + 1
    <3>1. rows'[j] = new
      BY <1>4, <2>3
    <3>2. SUFFICES ASSUME rows[i].by = "python", new.by = "python", st = "active" PROVE Fair(i, j)'
      BY <1>3, <2>1, <3>1 DEF Fair, Gate!BothByWorkers, Gate!ByWorkers
    <3>3. p \in Python /\ LetIn(p) /\ ReadIsTrue(p) /\ asking[p].at = "insert"
      BY <1>3, <3>2
    <3>4. rows[i].status # "active"
      BY <2>1, <3>2, <3>3 DEF LetIn, Gate!With, Gate!Active, Gate!ByWorkers
    <3>5. ~Gate!Bypasses(asking[p]) /\ rows[i].status \in Gate!Concluded => Gate!time - rows[i].ended >= Cooldown
      BY <2>1, <3>2, <3>3 DEF LetIn, Gate!With, Gate!ByWorkers
    <3>6. rows[i].ended \in Int /\ Cooldown \in Int /\ Cooldown > 0
      BY <2>1, RowsHaveTypes, GateAssumption
    <3>7. rows[i].status \in Gate!Concluded /\ ~Gate!Bypasses(asking[p]) => rows[i].ended # Gate!time
      BY <1>1, <3>5, <3>6
    <3>8. ASSUME rows[i].status \in Gate!Concluded, rows[i].event = new.event,
                 Gate!Refresh(rows[i].session), Gate!Refresh(new.session)
          PROVE  rows[i].session < new.session
      <4>1. asking[p].kind = "refresh"
        BY <1>3, <3>3, <3>8 DEF RequestsFit
      <4> QED BY <1>3, <2>1, <3>3, <3>7, <3>8, <4>1 DEF ReadIsTrue, Gate!With, Gate!Bypasses
    <3>9. ASSUME rows[i].status = "completed", new.kind = "event", rows[i].event = new.event
          PROVE  \E k \in (i + 1) .. n :
                    rows[k].event = new.event /\ rows[k].status = "insufficient_evidence"
      <4>1. asking[p].kind = "event" /\ rows[i].ended # Gate!time
        BY <1>3, <3>7, <3>9 DEF Gate!Bypasses, Gate!Concluded
      <4> QED BY <1>3, <2>1, <3>2, <3>3, <3>9, <4>1 DEF ReadIsTrue, Gate!With, Gate!ByWorkers, n
    <3>10. new.kind \in {"event", "target", "refresh", "direct"} => ~Gate!Bypasses(asking[p])
      BY <1>3 DEF Gate!Bypasses
    <3>11. j - 1 = n /\ \A k \in (i + 1) .. n : rows'[k] = rows[k]
      BY <1>4, <2>1, <2>3
    <3> QED BY <1>1, <1>3, <2>1, <3>1, <3>4, <3>5, <3>8, <3>9, <3>10, <3>11 DEF Fair
  <2> QED BY <1>4, <2>2, <2>3
<1>9. ASSUME NEW q \in Python PROVE LetIn(q)' /\ ReadIsTrue(q)'
  <2>1. CASE q = p
    BY <1>6, <2>1 DEF LetIn, ReadIsTrue, Gate!Nothing
  <2>2. CASE q # p
    <3>1. asking'[q] = asking[q] /\ LetIn(q) /\ ReadIsTrue(q)
      BY <1>6, <2>2
    <3>2. new.status \notin Gate!Concluded /\ new.status # "completed"
      BY <1>3 DEF Gate!Concluded
    <3>3. \A i \in 1 .. (n + 1) : i \in 1 .. n \/ i = n + 1
      BY <1>4
    <3>4. asking[q].at = "insert" /\ st = "active" => new.by # "python"
      BY <1>3, <2>2, <3>1 DEF LetIn
    <3>5. LetIn(q)'
      BY <1>1, <1>3, <1>4, <2>2, <3>1, <3>2, <3>3, <3>4
         DEF LetIn, Gate!With, Gate!Active, Gate!ByWorkers, Gate!Bypasses
    <3>6. ReadIsTrue(q)'
      <4>1. \A i \in 1 .. n : \A k \in (i + 1) .. n : k \in 1 .. n /\ k \in (i + 1) .. (n + 1)
        BY <1>4
      <4> QED BY <1>1, <1>4, <3>1, <3>2, <3>3, <4>1 DEF ReadIsTrue, Gate!With, Gate!ByWorkers, n
    <3> QED BY <3>5, <3>6
  <2> QED BY <2>1, <2>2
<1> QED BY <1>5, <1>7, <1>8, <1>9

\* The questions under the lock: whoever may insert has found nothing against it.
LEMMA EnterKeeps ==
    ASSUME GateInv, NEW p \in Python, Gate!Enter(p)
    PROVE  GateInv'
<1>1. asking[p].at = "waiting" /\ lock = Gate!Free /\ UNCHANGED moment
  BY DEF Gate!Enter
<1>2. \A q \in Python : lock # q /\ asking[q].at # "insert"
  BY <1>1, GateAssumption DEF GateInv, LetIn
<1>3. asking[p] \in Asking
  BY DEF GateInv, AdmissionTypes
<1>4. CASE rows' = Append(rows, Gate!Row(asking[p], "coalesced", p)) /\ Gate!Done(p)
  BY <1>1, <1>2, <1>4, AppendKeeps
<1>5. CASE UNCHANGED rows /\ Gate!Done(p)
  <2>1. Gate!Nothing \in Asking /\ Gate!Nothing.at = "idle"
    BY DEF Gate!Nothing, Asking, Session
  <2>2. asking'[p] = Gate!Nothing
    BY <1>5 DEF Gate!Done, GateInv, AdmissionTypes
  <2>3. LetIn(p)' /\ ReadIsTrue(p)'
    BY <2>1, <2>2 DEF LetIn, ReadIsTrue
  <2> QED BY <1>1, <1>2, <1>5, <2>1, <2>3, OneAsks DEF Gate!Done
<1>6. CASE UNCHANGED rows /\ ~Gate!Refused(asking[p]) /\ Gate!Admitted(p) /\ lock' = p
  <2>1. PICK r : r = [asking[p] EXCEPT !.at = "insert"]
    OBVIOUS
  <2>2. /\ r \in Asking /\ r.at = "insert" /\ r.kind = asking[p].kind
        /\ r.event = asking[p].event /\ r.session = asking[p].session
    BY <1>3, <2>1 DEF Asking
  <2>3. r.kind \in Kind /\ (Gate!Refresh(r.session) => r.kind = "refresh")
    BY <1>1, <2>2 DEF GateInv, RequestsFit
  <2>4. asking' = [asking EXCEPT ![p] = r] /\ asking'[p] = r
    BY <1>6, <2>1 DEF Gate!Admitted, GateInv, AdmissionTypes
  <2>5. \A i \in DOMAIN rows : rows[i].ended \in Int
    BY RowsHaveTypes DEF GateInv
  <2>6. Gate!time \in Int /\ Cooldown \in Int
    BY GateAssumption DEF Gate!time, GateInv, AdmissionTypes
  <2>7. Gate!With(Gate!Active) = {}
    BY <1>6 DEF Gate!Refused
  <2>8. ~Gate!Bypasses(asking[p]) => \A i \in Gate!With(Gate!Concluded) : Gate!time - rows[i].ended >= Cooldown
    BY <1>6, <2>5, <2>6 DEF Gate!Refused, Gate!Recent, Gate!With
  <2>9. LetIn(p)'
    BY <1>1, <1>6, <2>2, <2>4, <2>7, <2>8 DEF LetIn, Gate!With, Gate!Bypasses, Gate!time
  <2>10. ReadIsTrue(p)
    BY DEF GateInv
  <2>11. ReadIsTrue(p)'
    BY <1>1, <1>6, <2>2, <2>4, <2>10 DEF ReadIsTrue, Gate!With, Gate!ByWorkers, Gate!time
  <2> QED BY <1>1, <1>2, <1>6, <2>2, <2>3, <2>4, <2>9, <2>11, OneAsks
<1> QED BY <1>4, <1>5, <1>6 DEF Gate!Enter

\* The insert adds one row, fair to the older ones, and frees the lock.
LEMMA InsertKeeps ==
    ASSUME GateInv, NEW p \in Python \cup Go, Gate!Insert(p)
    PROVE  GateInv'
<1>1. asking[p].at = "insert" /\ Gate!Done(p) /\ UNCHANGED moment
  BY DEF Gate!Insert
<1>2. \A q \in Python \ {p} : lock' = lock \/ lock # q
  BY DEF Gate!Insert
<1>3. CASE rows' = Append(rows, Gate!Row(asking[p], "active", p))
  BY <1>1, <1>2, <1>3, AppendKeeps
<1>4. CASE UNCHANGED rows
  <2>1. Gate!Nothing \in Asking /\ Gate!Nothing.at = "idle"
    BY DEF Gate!Nothing, Asking, Session
  <2>2. asking'[p] = Gate!Nothing
    BY <1>1 DEF Gate!Done, GateInv, AdmissionTypes
  <2>3. LetIn(p)' /\ ReadIsTrue(p)'
    BY <2>1, <2>2 DEF LetIn, ReadIsTrue
  <2> QED BY <1>1, <1>2, <1>4, <2>1, <2>3, OneAsks DEF Gate!Done
<1> QED BY <1>3, <1>4 DEF Gate!Insert

\* A run that ends does so in this moment, and none of Python's ends while one is let in.
LEMMA RunStepKeeps ==
    ASSUME GateInv, NEW i \in DOMAIN rows, Gate!RunStep(i)
    PROVE  GateInv'
<1> USE DEF GateInv
<1>1. i \in Gate!With(Gate!Active) /\ UNCHANGED <<moment, lock, asking>>
  BY DEF Gate!RunStep, Gate!Ends, Gate!Fails
<1>2. Gate!time' = Gate!time /\ Gate!time \in Int
  BY <1>1, GateAssumption DEF Gate!time, AdmissionTypes
<1>3. PICK st \in Gate!Concluded \cup {"failed"}, at \in {0, Gate!time} :
         Gate!Become(i, st, at) /\ (st \in Gate!Concluded => at = Gate!time)
  BY DEF Gate!RunStep, Gate!Ends, Gate!Fails, Gate!Concluded
<1>4. PICK new : new = [rows[i] EXCEPT !.status = st, !.ended = at]
  OBVIOUS
<1>5. /\ new \in RunRow /\ new.status = st /\ new.ended = at
      /\ new.kind = rows[i].kind /\ new.event = rows[i].event /\ new.session = rows[i].session
      /\ new.asked = rows[i].asked /\ new.by = rows[i].by
  <2>1. rows[i] \in RunRow /\ st \in RunStatus /\ at \in Int
    BY <1>2, <1>3, RowsHaveTypes DEF RunStatus
  <2> HIDE DEF GateInv
  <2> QED BY <1>4, <2>1 DEF RunRow
<1>6. /\ rows' = [rows EXCEPT ![i] = new]
      /\ rows' \in Seq(RunRow) /\ DOMAIN rows' = DOMAIN rows /\ Len(rows') = Len(rows)
      /\ rows'[i] = new /\ \A j \in DOMAIN rows : j # i => rows'[j] = rows[j]
  BY <1>3, <1>4, <1>5 DEF Gate!Become, AdmissionTypes
<1>7. rows[i].status = "active" /\ DOMAIN rows = 1 .. Len(rows) /\ Len(rows) \in Nat
  BY <1>1, RowsHaveTypes DEF Gate!With, Gate!Active
<1>8. AdmissionTypes'
  BY <1>1, <1>6 DEF AdmissionTypes
<1>9. RequestsFit'
  BY <1>1, <1>5, <1>6 DEF RequestsFit, Gate!ByWorkers
<1>10. \A k \in DOMAIN rows : rows[k].status = "insufficient_evidence" => rows'[k] = rows[k]
  BY <1>6, <1>7
<1>11. PairsFair'
  <2> SUFFICES ASSUME NEW a \in DOMAIN rows, NEW b \in DOMAIN rows, a < b PROVE Fair(a, b)'
    BY <1>6 DEF PairsFair
  <2>1. Fair(a, b)
    BY DEF PairsFair
  <2>2. \A k \in (a + 1) .. (b - 1) : k \in DOMAIN rows
    BY <1>7
  <2>3. CASE a = i
    BY <1>5, <1>6, <1>7, <2>1, <2>3 DEF Fair, Gate!BothByWorkers, Gate!ByWorkers
  <2>4. CASE a # i
    <3>1. rows'[a] = rows[a]
      BY <1>6, <2>4
    <3>2. /\ rows'[b].by = rows[b].by /\ rows'[b].kind = rows[b].kind
          /\ rows'[b].event = rows[b].event /\ rows'[b].session = rows[b].session
          /\ rows'[b].asked = rows[b].asked
          /\ rows'[b].status # "coalesced" => rows[b].status # "coalesced"
      BY <1>5, <1>6, <1>7
    <3> QED BY <1>10, <2>1, <2>2, <3>1, <3>2 DEF Fair, Gate!BothByWorkers, Gate!ByWorkers
  <2> QED BY <2>3, <2>4
<1>12. ASSUME NEW q \in Python PROVE LetIn(q)' /\ ReadIsTrue(q)'
  <2>1. LetIn(q) /\ ReadIsTrue(q) /\ asking'[q] = asking[q] /\ lock' = lock
    BY <1>1
  <2>2. st \in Gate!Concluded => new.ended = Gate!time
    BY <1>3, <1>5
  <2>3. LetIn(q)'
    BY <1>1, <1>2, <1>3, <1>5, <1>6, <2>1
       DEF LetIn, Gate!With, Gate!Active, Gate!Concluded, Gate!ByWorkers, Gate!Bypasses
  <2>4. ReadIsTrue(q)'
    <3>1. \A j \in DOMAIN rows : \A k \in (j + 1) .. Len(rows) : k \in DOMAIN rows
      BY <1>7
    <3>2. \A j \in DOMAIN rows : rows'[j].status \in Gate!Concluded =>
             rows'[j] = rows[j] \/ rows'[j].ended = Gate!time
      BY <1>5, <1>6, <2>2
    <3>3. \A j \in DOMAIN rows : rows'[j].status = "completed" => rows'[j].status \in Gate!Concluded
      BY DEF Gate!Concluded
    <3>4. ASSUME asking[q].kind = "refresh", asking[q].at # "idle",
                 NEW j \in DOMAIN rows, rows'[j].status \in Gate!Concluded,
                 rows'[j].event = asking[q].event, Gate!Refresh(rows'[j].session)
          PROVE  rows'[j].session < asking[q].session \/ rows'[j].ended = Gate!time
      BY <2>1, <3>2, <3>4 DEF ReadIsTrue, Gate!With
    <3>5. ASSUME asking[q].kind = "event", asking[q].at # "idle",
                 NEW j \in DOMAIN rows, rows'[j].status = "completed",
                 rows'[j].by = "python", rows'[j].event = asking[q].event
          PROVE  \/ rows'[j].ended = Gate!time
                 \/ \E k \in (j + 1) .. Len(rows) :
                       rows'[k].event = asking[q].event
                       /\ rows'[k].status = "insufficient_evidence"
      <4>1. CASE rows'[j] = rows[j]
        BY <1>10, <2>1, <3>1, <3>5, <4>1 DEF ReadIsTrue, Gate!With, Gate!ByWorkers
      <4> QED BY <3>2, <3>3, <3>5, <4>1
    <3> HIDE DEF GateInv
    <3> QED BY <1>2, <1>6, <2>1, <3>4, <3>5 DEF ReadIsTrue, Gate!With, Gate!ByWorkers
  <2> QED BY <2>3, <2>4
<1> QED BY <1>8, <1>9, <1>11, <1>12

\* Time passes only while nobody asks.
LEMMA TickKeeps ==
    ASSUME GateInv, Gate!Tick
    PROVE  GateInv'
<1>1. UNCHANGED <<rows, lock, asking>> /\ \A p \in Python : asking[p].at = "idle"
  BY DEF Gate!Tick, Gate!Nothing
<1>2. AdmissionTypes'
  BY GateAssumption DEF Gate!Tick, GateInv, AdmissionTypes
<1>3. RequestsFit' /\ PairsFair'
  BY <1>1 DEF GateInv, RequestsFit, PairsFair, Fair, Gate!BothByWorkers, Gate!ByWorkers
<1>4. \A p \in Python : LetIn(p)' /\ ReadIsTrue(p)'
  BY <1>1 DEF LetIn, ReadIsTrue
<1> QED BY <1>2, <1>3, <1>4 DEF GateInv

-----------------------------------------------------------------------------
\* The invariant of the gate, in every behaviour of the composition.
LEMMA GateInvHolds == ResearchSpec => []GateInv
<1>1. ResearchInit => GateInv
  BY GateInit, GateAssumption DEF ResearchInit
<1>2. GateInv /\ [ResearchNext]_<<part, researchVars>> => GateInv'
  <2> SUFFICES ASSUME GateInv, [ResearchNext]_<<part, researchVars>> PROVE GateInv'
    OBVIOUS
  <2> USE GateAssumption
  <2>0. [Gate!Next]_gateVars
    BY ResearchMoves
  <2>1. CASE UNCHANGED gateVars
    BY <2>1 DEF gateVars, GateInv, AdmissionTypes, RequestsFit, PairsFair, Fair, Gate!BothByWorkers,
                Gate!ByWorkers, LetIn, ReadIsTrue, Gate!With, Gate!Bypasses, Gate!time
  <2>2. ASSUME NEW p \in Python, Gate!Ask(p) \/ Gate!Enter(p) PROVE GateInv'
    BY <2>2, AskKeeps, EnterKeeps
  <2>3. ASSUME NEW p \in Go, Gate!EnterGo(p) PROVE GateInv'
    BY <2>3, EnterGoKeeps
  <2>4. ASSUME NEW p \in Python \cup Go, Gate!Insert(p) PROVE GateInv'
    BY <2>4, InsertKeeps
  <2>5. ASSUME NEW i \in DOMAIN rows, Gate!RunStep(i) PROVE GateInv'
    BY <2>5, RunStepKeeps
  <2>6. CASE Gate!Tick
    BY <2>6, TickKeeps
  <2> QED BY <2>0, <2>1, <2>2, <2>3, <2>4, <2>5, <2>6 DEF Gate!Next
<1> QED BY <1>1, <1>2, PTL DEF ResearchSpec

\* The gate of research is fair: Python never has two runs of an asset at work, nothing
\* ordinary gets in during the cooldown, windows are evaluated in order and once, and an
\* event that was researched asks again only after too little evidence (worker.py,
\* enqueue_research; research_admission.py).
THEOREM GateIsFair == ResearchSpec => []AdmissionIsFair
<1>1. GateInv => AdmissionIsFair
  <2> SUFFICES ASSUME GateInv PROVE Gate!AdmissionIsFair
    BY DEF AdmissionIsFair
  <2> USE DEF GateInv, PairsFair, Fair, Gate!With, Gate!Concluded
  <2>1. Gate!WorkersNeverDouble
    BY DEF Gate!WorkersNeverDouble, Gate!Active
  <2>2. Gate!CoolsDown
    BY DEF Gate!CoolsDown
  <2>3. Gate!WindowsAdvance
    <3>1. \A i \in DOMAIN rows : Gate!Refresh(rows[i].session) => Gate!ByWorkers(i)
      BY DEF RequestsFit
    <3> QED BY <3>1 DEF Gate!WindowsAdvance, Gate!BothByWorkers
  <2>4. Gate!EventsOnce
    BY DEF Gate!EventsOnce
  <2> QED BY <2>1, <2>2, <2>3, <2>4 DEF Gate!AdmissionIsFair
<1> QED BY <1>1, GateInvHolds, PTL

-----------------------------------------------------------------------------
\* What a recommendation says is what the run has come to, from the draft it is
\* made of on: that draft was checked against the evidence it was made from,
\* and where the rules wrote it the run says that the model did not.
DraftIsOfModel ==
  /\ draft.by \in {"none", "llm", "rules"}
  /\ draft.by = "rules" => reason = "model"
  /\ node = "verify" => draft.by # "none"

ChecksAreTrue ==
  /\ gathered \subseteq Graph!Admissible
  /\ structural => /\ draft.by # "none" /\ Graph!StructuralComplete(draft)
                   /\ node \notin {"start", "gather", "draft", "verify"}

RecommendationIsCurrent ==
  rec # Graph!NoDraft =>
    /\ rec = Graph!Recommendation
    /\ node \notin {"start", "gather", "draft", "verify", "finalize"}

GraphInv == DraftIsOfModel /\ ChecksAreTrue /\ RecommendationIsCurrent

\* Texts that are all the same are one group of sources.
LEMMA GroupsDiffer ==
    ASSUME NEW cited, Graph!Cardinality(Graph!Groups(cited)) >= 2
    PROVE  \E e, f \in cited : e.content # f.content
<1>1. SUFFICES ASSUME \A e, f \in cited : e.content = f.content
               PROVE  Cardinality(Graph!Groups(cited)) \in {0, 1}
  <2>1. Graph!Cardinality(Graph!Groups(cited)) = Cardinality(Graph!Groups(cited))
    BY Zenon DEF Graph!Cardinality, Cardinality
  <2> QED BY <2>1
<1> DEFINE repeated == {e.content : e \in {f \in cited : \E g \in cited : g # f /\ g.content = f.content}}
           Of(e) == IF e.content \in repeated THEN <<"content", e.content>> ELSE <<"group", e.group>>
<1>2. Graph!Groups(cited) = {Of(e) : e \in cited}
  BY DEF Graph!Groups
<1>3. CASE cited = {}
  <2>1. Graph!Groups(cited) = {}
    BY <1>2, <1>3
  <2> QED BY <2>1, FS_EmptySet
<1>4. ASSUME cited # {} PROVE Cardinality(Graph!Groups(cited)) = 1
  <2>1. PICK e \in cited : TRUE
    BY <1>4
  <2>2. \A f \in cited : Of(f) = Of(e)
    <3>1. ASSUME NEW f \in cited, f # e PROVE e.content \in repeated /\ f.content \in repeated
      BY <1>1, <3>1
    <3>2. ASSUME NEW f \in cited, f # e PROVE Of(f) = Of(e)
      <4>1. e.content \in repeated /\ f.content \in repeated /\ e.content = f.content
        BY <1>1, <3>1, <3>2
      <4> QED BY <4>1
    <3> QED BY <3>2
  <2> HIDE DEF Of
  <2>3. Graph!Groups(cited) = {Of(e)}
    BY <1>2, <2>1, <2>2
  <2> QED BY <2>3, FS_Singleton
<1> QED BY <1>3, <1>4

\* What a recommendation is made of makes the same one later.
LEMMA RecommendationStays ==
    ASSUME UNCHANGED <<context, reason, gathered, draft, structural, semantic>>
    PROVE  Graph!Recommendation' = Graph!Recommendation
<1>1. Graph!Fallback' = Graph!Fallback
  BY DEF Graph!Fallback
<1>2. \A path : Graph!MappingStrength(path)' = Graph!MappingStrength(path)
  BY DEF Graph!MappingStrength, Graph!MappingDistance
<1>3. \A score : Graph!Historical(score)' = Graph!Historical(score)
  BY DEF Graph!Historical
<1>4. \A cited, path : Graph!Causality(cited, path)' = Graph!Causality(cited, path)
  BY DEF Graph!Causality
<1>5. \A score, cited, path :
         Graph!ImpactScale(score, cited, path)' = Graph!ImpactScale(score, cited, path)
  BY <1>2, <1>3, <1>4 DEF Graph!ImpactScale
<1>6. \A score, cited, path :
         Graph!Confidence(score, cited, path)' = Graph!Confidence(score, cited, path)
  BY <1>2, <1>3, <1>4, <1>5 DEF Graph!Confidence
<1> QED BY <1>1, <1>6 DEF Graph!Recommendation

\* Every step of a run keeps the invariant.
LEMMA GraphNext ==
    ASSUME GraphInv, [Graph!Next]_graphVars
    PROVE  GraphInv'
<1> USE DEF GraphInv, DraftIsOfModel, ChecksAreTrue, RecommendationIsCurrent
<1>1. CASE Graph!Run
  BY <1>1 DEF Graph!Run, Graph!NoDraft
<1>2. CASE Graph!Gather
  BY <1>2 DEF Graph!Gather
<1>3. CASE Graph!Draft
  <2>1. PICK score \in GraphScores, cited \in SUBSET (gathered \union {Graph!Unknown}),
             text_ \in BOOLEAN, missing \in BOOLEAN, path \in 2 .. 3 :
          draft' = [by |-> "llm", score |-> score, cited |-> cited, text |-> text_,
                    missing |-> missing, path |-> path]
    BY <1>3 DEF Graph!Draft
  <2>2. draft'.by = "llm"
    BY <2>1
  <2> QED BY <1>3, <2>2 DEF Graph!Draft
<1>4. CASE Graph!FallbackDraft
  <2>1. draft'.by = "rules" /\ reason' = "model"
    BY <1>4 DEF Graph!FallbackDraft
  <2> QED BY <1>4, <2>1 DEF Graph!FallbackDraft
<1>5. CASE Graph!Verify
  <2>1. structural' = Graph!StructuralComplete(draft)
    BY <1>5 DEF Graph!Verify
  <2>2. Graph!StructuralComplete(draft)' <=> Graph!StructuralComplete(draft)
    BY <1>5 DEF Graph!Verify, Graph!StructuralComplete, Graph!Corroborated
  <2> QED BY <1>5, <2>1, <2>2 DEF Graph!Verify
<1>6. CASE Graph!SaveRecommendation
  <2>1. rec' = Graph!Recommendation
    BY <1>6 DEF Graph!SaveRecommendation
  <2>2. Graph!Recommendation' = Graph!Recommendation
    BY <1>6, RecommendationStays DEF Graph!SaveRecommendation
  <2>3. rec' = Graph!Recommendation'
    BY <2>1, <2>2
  <2>4. /\ UNCHANGED <<gathered, draft, reason, structural>>
        /\ node = "finalize" /\ node' = "saving"
    BY <1>6 DEF Graph!SaveRecommendation
  <2>5. Graph!StructuralComplete(draft)' <=> Graph!StructuralComplete(draft)
    BY <2>4 DEF Graph!StructuralComplete, Graph!Corroborated
  <2> QED BY <2>3, <2>4, <2>5
<1>7. ASSUME Graph!SaveRun \/ Graph!WriteReport \/ Graph!Raises \/ Graph!Dies \/ UNCHANGED graphVars
      PROVE  GraphInv'
  <2>1. UNCHANGED <<context, reason, factor, gathered, draft, structural, semantic, rec>>
    BY <1>7 DEF Graph!SaveRun, Graph!WriteReport, Graph!Raises, Graph!Dies, graphVars
  <2>2. \/ node' = node \/ node' \in {"report", "done", "failed"}
        \/ node' = "dead"
    BY <1>7 DEF Graph!SaveRun, Graph!WriteReport, Graph!Raises, Graph!Dies, graphVars
  <2>3. Graph!Recommendation' = Graph!Recommendation
    BY <2>1, RecommendationStays
  <2>4. Graph!StructuralComplete(draft)' <=> Graph!StructuralComplete(draft)
    BY <2>1 DEF Graph!StructuralComplete, Graph!Corroborated
  <2> QED BY <2>1, <2>2, <2>3, <2>4
<1> QED
  BY <1>1, <1>2, <1>3, <1>4, <1>5, <1>6, <1>7 DEF Graph!Next

\* What the invariant says of a recommendation that may be traded.
LEMMA GraphInvSuffices == ASSUME GraphInv PROVE Graph!TradeableIsSound
<1> SUFFICES ASSUME rec # Graph!NoDraft, Graph!MayTrade(rec)
             PROVE  /\ draft.by = "llm" /\ draft.text /\ ~draft.missing /\ draft.score >= 30
                    /\ draft.cited # {} /\ draft.cited \subseteq gathered
                    /\ \A e \in gathered : ~e.late
                    /\ \/ \E e \in draft.cited : e.official
                       \/ \E e, f \in draft.cited : e.content # f.content
                    /\ context.event
                    /\ rec.draft = draft /\ rec.evidence = gathered
  BY DEF Graph!TradeableIsSound
<1>1. rec = Graph!Recommendation
  BY DEF GraphInv, RecommendationIsCurrent
<1>2. /\ rec.draft = draft /\ rec.evidence = gathered
      /\ rec.version = "llm-direction-v3" /\ rec.complete = structural
      /\ rec.source = (IF Graph!Fallback THEN "rule_fallback" ELSE "llm")
  BY <1>1 DEF Graph!Recommendation
<1>3. Graph!V3Gate(rec) /\ rec.confidence >= 55
  BY <1>2 DEF Graph!MayTrade
<1>4. reason # "model" /\ structural
  BY <1>2, <1>3 DEF Graph!V3Gate, Graph!Fallback
<1>5. draft.by = "llm" /\ Graph!StructuralComplete(draft)
  BY <1>4 DEF GraphInv, DraftIsOfModel, ChecksAreTrue
<1>6. draft.score >= 30 /\ ~draft.missing
  <2>1. rec.score = draft.score
    BY <1>1, <1>4 DEF Graph!Recommendation, Graph!Fallback
  <2>2. rec.status = "tradeable"
    BY <1>3 DEF Graph!V3Gate
  <2>3. ~draft.missing
    BY <1>1, <2>2 DEF Graph!Recommendation
  <2> QED BY <1>3, <2>1, <2>3 DEF Graph!V3Gate
<1>7. context.event
  <2>1. rec.confidence = Graph!Confidence(rec.score, draft.cited \intersect gathered, draft.path)
    BY <1>1 DEF Graph!Recommendation
  <2> QED BY <1>3, <2>1 DEF Graph!Confidence
<1>8. /\ draft.text /\ draft.cited # {} /\ draft.cited \subseteq gathered
      /\ \A e \in gathered : ~e.late
      /\ Graph!Corroborated(draft.cited \intersect gathered)
  BY <1>5 DEF Graph!StructuralComplete
<1>9. draft.cited \intersect gathered = draft.cited
  BY <1>8
<1>10. \/ \E e \in draft.cited : e.official
       \/ \E e, f \in draft.cited : e.content # f.content
  BY <1>8, <1>9, GroupsDiffer DEF Graph!Corroborated
<1> QED BY <1>2, <1>5, <1>6, <1>7, <1>8, <1>10

\* A run starts with nothing to be true of.
LEMMA GraphStart == ASSUME Graph!Init PROVE GraphInv
BY DEF Graph!Init, GraphInv, DraftIsOfModel, ChecksAreTrue, RecommendationIsCurrent, Graph!NoDraft

\* A recommendation that may become an order is of the model, bullish, and cites
\* two texts that differ or an official one, however often the run was executed
\* and at whatever node it died (services/research.py, _verify and _finalize).
THEOREM RecommendationsAreSound == ResearchSpec => []TradeableIsSound
<1>1. ResearchInit => GraphInv
  BY GraphStart DEF ResearchInit
<1>2. GraphInv /\ [ResearchNext]_<<part, researchVars>> => GraphInv'
  BY GraphNext, ResearchMoves
<1>3. GraphInv => TradeableIsSound
  BY GraphInvSuffices DEF TradeableIsSound
<1> QED BY <1>1, <1>2, <1>3, PTL DEF ResearchSpec

-----------------------------------------------------------------------------
Seen == [cash : Int, nav : Int, value : Int, crypto : Int]

\* Quantities are whole and never negative, and so are the prices.
BookInv ==
  /\ held \in [Book!Asset -> Nat] /\ cash \in Int
  /\ quote \in [Book!Asset -> Nat]
  /\ DOMAIN buyer = Buyer
  /\ \A b \in Buyer :
       buyer[b] # Book!Idle =>
         /\ buyer[b].asset \in Book!Asset /\ buyer[b].price \in Price
         /\ buyer[b].target \in PaperTarget /\ buyer[b].seen \in Seen

\* A sum over assets of what they are worth is a number.
LEMMA SumIsNumber ==
    ASSUME BookInv, NEW S, S \subseteq Book!Asset, IsFiniteSet(S)
    PROVE  Book!MapThenSumSet(Book!Value, S) \in Int
<1> DEFINE pick == [s \in SUBSET S |-> CHOOSE x \in s : TRUE]
           V == [s \in SUBSET S |-> Int]
           F == [s \in SUBSET S |-> [y \in Int |-> Book!Value(pick[s]) + y]]
           Eq(h) == h = [s \in SUBSET S |->
              IF s = {} THEN 0
              ELSE LET x == CHOOSE x \in s : TRUE IN Book!Value(x) + h[s \ {x}]]
<1>1. \A a \in S : Book!Value(a) \in Int
  BY DEF BookInv, Book!Value
<1>2. \A s \in SUBSET S : s # {} => pick[s] \in s /\ pick[s] = CHOOSE x \in s : TRUE
  OBVIOUS
<1>3. Book!MapThenSumSet(Book!Value, S) = (CHOOSE h : Eq(h))[S]
  BY DEF Book!MapThenSumSet, Book!MapThenFoldSet
<1> HIDE DEF pick
<1>4. \A s \in SUBSET S : V[s] = Int /\ s \ {pick[s]} \in SUBSET S
  OBVIOUS
<1>5. 0 \in V[{}]
  BY <1>4
<1>6. \A s \in SUBSET S : s # {} =>
         pick[s] \in s /\ \A y \in V[s \ {pick[s]}] : F[s][y] \in V[s]
  BY <1>1, <1>2, <1>4
<1> HIDE DEF V
<1>7. PICK g : /\ g = [s \in SUBSET S |-> IF s = {} THEN 0 ELSE F[s][g[s \ {pick[s]}]]]
               /\ \A s \in SUBSET S : g[s] \in V[s]
  <2> HIDE DEF F
  <2>1. Folds(S, V, 0, pick, F)
    BY <1>5, <1>6 DEF Folds
  <2>2. PICK g : Folded(S, 0, pick, F, g) /\ \A s \in SUBSET S : g[s] \in V[s]
    BY <2>1, FoldExists
  <2> QED BY <2>2 DEF Folded
<1>8. \A s \in SUBSET S : s # {} => F[s][g[s \ {pick[s]}]] = Book!Value(pick[s]) + g[s \ {pick[s]}]
  <2>1. ASSUME NEW s \in SUBSET S PROVE g[s \ {pick[s]}] \in Int
    <3> DEFINE r == s \ {pick[s]}
    <3>1. r \in SUBSET S
      BY <1>4
    <3> HIDE DEF r
    <3>2. g[r] \in V[r] /\ V[r] = Int
      <4> HIDE DEF F
      <4> QED BY <1>4, <1>7, <3>1
    <3> QED BY <3>2 DEF r
  <2> QED BY <2>1
<1>9. Eq(g)
  <2> HIDE DEF F
  <2> QED BY <1>2, <1>7, <1>8
<1> DEFINE h == CHOOSE h : Eq(h)
<1>10. Eq(h)
  <2> HIDE DEF Eq
  <2> QED BY <1>9
<1> HIDE DEF h
<1>11. h[{}] \in V[{}]
  BY <1>5, <1>10
<1>12. \A s \in SUBSET S : s # {} => h[s] = Book!Value(pick[s]) + h[s \ {pick[s]}]
  BY <1>2, <1>10
<1>13. \A s \in SUBSET S : s # {} =>
          pick[s] \in s /\ (h[s \ {pick[s]}] \in V[s \ {pick[s]}] => h[s] \in V[s])
  BY <1>1, <1>2, <1>4, <1>12
<1>14. h[S] \in V[S]
  <2> HIDE DEF Eq
  <2>1. Kept(S, V, pick, h)
    BY <1>11, <1>13 DEF Kept
  <2> QED BY <2>1, FoldKeeps
<1> QED BY <1>3, <1>4, <1>14 DEF h

\* Whole lots cost no more than there is to use.
LEMMA LotsWithin ==
    ASSUME NEW u \in Int, NEW p \in Nat, p > 0, NEW l \in Nat, l > 0
    PROVE  LET n == ((u \div (100 * p)) \div l) * l
           IN  n \in Int /\ 100 * (n * p) <= u
<1> DEFINE q == u \div (100 * p)
           k == q \div l
           n == k * l
<1>1. 100 * p \in Nat /\ 100 * p > 0
  OBVIOUS
<1>2. q \in Int /\ q * (100 * p) <= u
  BY <1>1
<1> HIDE DEF q
<1>3. k \in Int /\ k * l <= q
  BY <1>2
<1> HIDE DEF k
<1>4. n \in Int /\ n <= q
  BY <1>3
<1> HIDE DEF n
<1>5. n * p <= q * p /\ n * p \in Int /\ q * p \in Int
  BY <1>2, <1>4
<1>6. 100 * (q * p) = q * (100 * p)
  BY <1>2
<1>7. 100 * (n * p) <= u
  <2> DEFINE x == n * p
             y == q * p
             z == q * (100 * p)
  <2>1. x \in Int /\ y \in Int /\ z \in Int
    BY <1>2, <1>5
  <2>2. x <= y /\ 100 * y = z /\ z <= u
    BY <1>2, <1>5, <1>6
  <2> HIDE DEF x, y, z
  <2>3. 100 * x <= u
    BY <2>1, <2>2
  <2> QED BY <2>3 DEF x
<1> QED BY <1>4, <1>7 DEF n, k, q

\* A weight is no greater than the configuration allows.
LEMMA WeightIsAllowed ==
    ASSUME NEW a \in Book!Asset, NEW t \in Nat
    PROVE  /\ Book!Weight(a, t) \in Nat /\ Book!MaxWeight(a) \in Nat
           /\ Book!Weight(a, t) <= Book!MaxWeight(a)
<1> DEFINE m == Book!MaxWeight(a)
           x == IF t = 0 THEN m ELSE t
<1>1. m \in Nat
  BY BookAssumption DEF Book!MaxWeight
<1>2. Book!Weight(a, t) = Book!Min({x, m})
  BY DEF Book!Weight
<1> HIDE DEF m
<1>3. x \in Nat
  BY <1>1
<1> HIDE DEF x
<1>4. PICK y \in {x, m} : \A z \in {x, m} : y <= z
  BY <1>1, <1>3
<1>5. Book!Min({x, m}) \in {x, m} /\ \A z \in {x, m} : Book!Min({x, m}) <= z
  BY <1>4 DEF Book!Min
<1> QED BY <1>1, <1>2, <1>3, <1>5 DEF m

\* What there is to use is no more than any of the limits leaves.
LEMMA ToUseIsLeft ==
    ASSUME NEW s \in Seen, NEW a \in Book!Asset, NEW t \in Nat
    PROVE  /\ Book!ToUse(s, a, t) \in Nat
           /\ Book!ToUse(s, a, t) <= Book!Room(Book!Weight(a, t) * s.nav - 100 * s.value)
           /\ Book!ToUse(s, a, t) <= Book!Room(100 * s.cash - MinimumCash * s.nav)
           /\ a \in Crypto =>
                Book!ToUse(s, a, t) <= Book!Room(MaxTotalCrypto * s.nav - 100 * s.crypto)
<1> DEFINE x == Book!Room(Book!Weight(a, t) * s.nav - 100 * s.value)
           y == Book!Room(100 * s.cash - MinimumCash * s.nav)
           z == Book!Room(MaxTotalCrypto * s.nav - 100 * s.crypto)
           S == {x, y} \union (IF a \in Crypto THEN {z} ELSE {})
<1>0. s.nav \in Int /\ s.cash \in Int /\ s.value \in Int /\ s.crypto \in Int
  BY DEF Seen
<1>1. x \in Nat
  <2>1. Book!Weight(a, t) * s.nav - 100 * s.value \in Int
    BY <1>0, WeightIsAllowed
  <2> QED BY <2>1 DEF Book!Room
<1>2. y \in Nat
  <2>1. 100 * s.cash - MinimumCash * s.nav \in Int
    BY <1>0, BookAssumption
  <2> QED BY <2>1 DEF Book!Room
<1>3. z \in Nat
  <2>1. MaxTotalCrypto * s.nav - 100 * s.crypto \in Int
    BY <1>0, BookAssumption
  <2> QED BY <2>1 DEF Book!Room
<1>4. Book!ToUse(s, a, t) = Book!Min(S)
  BY DEF Book!ToUse
<1>5. x \in S /\ y \in S /\ (a \in Crypto => z \in S)
  OBVIOUS
<1> HIDE DEF x, y, z
<1>6. S \subseteq Nat /\ S # {}
  BY <1>1, <1>2, <1>3
<1> HIDE DEF S
<1>7. \E v \in S : \A w \in S : v <= w
  BY <1>6, LeastExists
<1>8. Book!Min(S) \in S /\ \A w \in S : Book!Min(S) <= w
  BY <1>7 DEF Book!Min
<1> QED BY <1>4, <1>5, <1>6, <1>8 DEF x, y, z

\* An order is whole lots, for no more than there is to use.
LEMMA WantedIsWithin ==
    ASSUME BookInv, NEW b \in Buyer, buyer[b] # Book!Idle
    PROVE  LET w == buyer[b]
               n == Book!Wanted(w)
           IN  n \in Int /\ 100 * (n * w.price) <= Book!ToUse(w.seen, w.asset, w.target)
<1> DEFINE w == buyer[b]
           u == Book!ToUse(w.seen, w.asset, w.target)
           p == w.price
           l == LotOf[w.asset]
<1>1. w.asset \in Book!Asset /\ w.price \in Price /\ w.target \in PaperTarget /\ w.seen \in Seen
  BY DEF BookInv
<1>2. Book!Wanted(w) = ((u \div (100 * p)) \div l) * l
  BY DEF Book!Wanted, Book!Quantity
<1> HIDE DEF w
<1>3. p \in Nat /\ p > 0
  <2>1. p \in Nat \ {0}
    BY <1>1, BookAssumption
  <2> HIDE DEF p
  <2> QED BY <2>1
<1>4. l \in Nat /\ l > 0
  <2>1. l \in Nat \ {0}
    BY <1>1, BookAssumption DEF Book!Asset
  <2> HIDE DEF l
  <2> QED BY <2>1
<1>5. u \in Int
  <2>1. w.target \in Nat
    BY <1>1, BookAssumption
  <2> QED BY <1>1, <2>1, ToUseIsLeft
<1> HIDE DEF u, p, l
<1>6. ((u \div (100 * p)) \div l) * l \in Int /\ 100 * ((((u \div (100 * p)) \div l) * l) * p) <= u
  BY <1>3, <1>4, <1>5, LotsWithin
<1> QED BY <1>2, <1>6 DEF u, p, w

\* What a caller sees of the book are numbers.
LEMMA SnapshotsAreNumbers ==
    ASSUME BookInv, NEW a \in Book!Asset
    PROVE  /\ Book!Snapshot(a) \in Seen /\ Book!Snapshot(a).value = Book!Value(a)
           /\ Book!Value(a) \in Nat /\ Book!Nav \in Int /\ Book!CryptoValue \in Int
           /\ Book!Snapshot(a).nav = Book!Nav /\ Book!Snapshot(a).cash = cash
           /\ Book!Snapshot(a).crypto = Book!CryptoValue
<1>1. IsFiniteSet(Book!Asset) /\ IsFiniteSet(Crypto) /\ Crypto \subseteq Book!Asset
  BY BookAssumption, FS_Union DEF Book!Asset
<1>2. Book!MapThenSumSet(Book!Value, Book!Asset) \in Int
  BY <1>1, SumIsNumber
<1>3. Book!MapThenSumSet(Book!Value, Crypto) \in Int
  BY <1>1, SumIsNumber
<1>4. Book!Nav \in Int /\ Book!CryptoValue \in Int
  BY <1>2, <1>3 DEF Book!Nav, Book!CryptoValue, BookInv
<1>5. Book!Value(a) \in Nat
  BY DEF Book!Value, BookInv
<1>6. cash \in Int
  BY DEF BookInv
<1> QED BY <1>4, <1>5, <1>6 DEF Book!Snapshot, Seen

\* Every step of the book keeps the invariant.
LEMMA BookNext ==
    ASSUME BookInv, [Book!Next]_bookVars
    PROVE  BookInv'
<1> USE BookAssumption DEF BookInv, Book!Asset
<1>0. Price \subseteq Nat
  OBVIOUS
<1>1. ASSUME NEW b \in Buyer, NEW a \in Book!Asset, NEW t \in PaperTarget, NEW p \in Price,
             Book!Look(b, a, t, p)
      PROVE  BookInv'
  <2>0. Book!Snapshot(a) \in Seen
    BY SnapshotsAreNumbers
  <2>1. PICK w : /\ buyer' = [buyer EXCEPT ![b] = w]
                 /\ w.asset = a /\ w.price = p /\ w.target = t /\ w.seen \in Seen
    <3> DEFINE w == [asset |-> a, target |-> t, price |-> p, seen |-> Book!Snapshot(a)]
    <3>1. buyer' = [buyer EXCEPT ![b] = w] /\ w.asset = a /\ w.price = p /\ w.target = t
      BY <1>1 DEF Book!Look
    <3>2. w.seen \in Seen
      BY <2>0
    <3> QED BY <3>1, <3>2
  <2> QED BY <1>1, <2>1 DEF Book!Look
<1>2. ASSUME NEW b \in Buyer, Book!Buy(b) PROVE BookInv'
  <2> DEFINE w == buyer[b]
             n == Book!Wanted(w)
  <2>1. /\ w # Book!Idle /\ n > 0 /\ held' = [held EXCEPT ![w.asset] = @ + n]
        /\ cash' = cash - n * w.price - Book!Fee(w.asset, n, w.price)
        /\ buyer' = [buyer EXCEPT ![b] = Book!Idle] /\ quote' = quote
    BY <1>2 DEF Book!Buy
  <2>2. w.asset \in Book!Asset /\ w.price \in Nat
    BY <1>0, <2>1
  <2>3. n \in Int
    BY <2>1, WantedIsWithin
  <2>4. CostBps[w.asset] \in Nat
    BY <2>2
  <2> HIDE DEF n, w
  <2>5. n \in Nat
    BY <2>1, <2>3
  <2>6. held' \in [Book!Asset -> Nat]
    <3>1. held \in [Book!Asset -> Nat] /\ held[w.asset] + n \in Nat
      BY <2>2, <2>5
    <3> QED BY <2>1, <2>2, <3>1
  <2>7. cash' \in Int
    <3>1. n * w.price \in Nat
      BY <2>2, <2>5
    <3>2. (n * w.price * CostBps[w.asset]) \div 10000 \in Int
      BY <2>4, <3>1
    <3> QED BY <2>1, <3>1, <3>2 DEF Book!Fee
  <2>8. \A c \in Buyer : buyer'[c] = buyer[c] \/ buyer'[c] = Book!Idle
    BY <2>1
  <2> QED BY <2>1, <2>6, <2>7, <2>8
<1>3. ASSUME NEW b \in Buyer, Book!Refuse(b) PROVE BookInv'
  BY <1>3 DEF Book!Refuse
<1>4. ASSUME NEW a \in Book!Asset, NEW p \in Price, Book!PriceMoves(a, p) PROVE BookInv'
  BY <1>0, <1>4 DEF Book!PriceMoves
<1>5. CASE UNCHANGED bookVars
  BY <1>5 DEF bookVars
<1> QED BY <1>1, <1>2, <1>3, <1>4, <1>5 DEF Book!Next

\* An order that is saved keeps the limits that its snapshot showed.
LEMMA BuyKeepsLimits ==
    ASSUME BookInv, NEW b \in Buyer, Book!Buy(b),
           buyer[b].seen = Book!Snapshot(buyer[b].asset)
    PROVE  LET a == buyer[b].asset
               n == held'[a] - held[a]
               paid == n * buyer[b].price
           IN  /\ 100 * (Book!Value(a) + paid) <= Book!MaxWeight(a) * Book!Nav
               /\ a \in Crypto => 100 * (Book!CryptoValue + paid) <= MaxTotalCrypto * Book!Nav
               /\ 100 * (cash' + Book!Fee(a, n, buyer[b].price)) >= MinimumCash * Book!Nav
<1> DEFINE w == buyer[b]
           a == w.asset
           n == Book!Wanted(w)
           paid == n * w.price
           u == Book!ToUse(w.seen, a, w.target)
           fee == Book!Fee(a, n, w.price)
<1>1. /\ w # Book!Idle /\ n > 0 /\ held' = [held EXCEPT ![a] = @ + n]
      /\ cash' = cash - paid - fee
  BY DEF Book!Buy
<1>2. w.price \in Nat \ {0} /\ w.target \in Nat /\ a \in Book!Asset
  <2>1. w.asset \in Book!Asset /\ w.price \in Price /\ w.target \in PaperTarget
    BY <1>1 DEF BookInv
  <2> HIDE DEF w
  <2> QED BY <2>1, BookAssumption
<1>3. n \in Int /\ 100 * paid <= u
  BY <1>1, WantedIsWithin
<1>4. /\ w.seen \in Seen /\ w.seen.value = Book!Value(a) /\ w.seen.nav = Book!Nav
      /\ w.seen.cash = cash /\ w.seen.crypto = Book!CryptoValue
      /\ Book!Value(a) \in Nat /\ Book!Nav \in Int /\ Book!CryptoValue \in Int /\ cash \in Int
  BY <1>2, SnapshotsAreNumbers DEF BookInv
<1>5. held[a] \in Nat /\ CostBps[a] \in Nat
  BY <1>2, BookAssumption DEF BookInv, Book!Asset
<1>6. held'[a] - held[a] = n
  <2>1. held'[a] = held[a] + n
    BY <1>1, <1>2 DEF BookInv
  <2> HIDE DEF n, a
  <2> QED BY <1>3, <1>5, <2>1
<1> HIDE DEF w, a, n
<1>7. paid \in Nat /\ paid > 0
  <2>1. n \in Nat \ {0}
    BY <1>1, <1>3
  <2> QED BY <1>2, <2>1
<1>8. fee \in Int
  BY <1>5, <1>7 DEF Book!Fee
<1> HIDE DEF fee, paid
<1>9. /\ u \in Nat /\ u <= Book!Room(Book!Weight(a, w.target) * Book!Nav - 100 * Book!Value(a))
      /\ u <= Book!Room(100 * cash - MinimumCash * Book!Nav)
      /\ a \in Crypto => u <= Book!Room(MaxTotalCrypto * Book!Nav - 100 * Book!CryptoValue)
  BY <1>2, <1>4, ToUseIsLeft
<1> HIDE DEF u
<1>10. 100 * (Book!Value(a) + paid) <= Book!MaxWeight(a) * Book!Nav
  <2> DEFINE g == Book!Weight(a, w.target)
             m == Book!MaxWeight(a)
             nav == Book!Nav
             v == Book!Value(a)
  <2>1. g \in Nat /\ m \in Nat /\ g <= m
    BY <1>2, WeightIsAllowed
  <2>2. nav \in Int /\ v \in Nat
    BY <1>4
  <2>3. u <= Book!Room(g * nav - 100 * v)
    BY <1>9
  <2> HIDE DEF g, m, nav, v
  <2>4. g * nav \in Int /\ m * nav \in Int
    BY <2>1, <2>2
  <2>5. 100 * (v + paid) <= g * nav
    <3> DEFINE limit == g * nav
    <3>1. limit \in Int /\ u \in Int /\ u <= Book!Room(limit - 100 * v)
      BY <1>9, <2>3, <2>4
    <3> HIDE DEF limit
    <3>2. 100 * (v + paid) <= limit
      <4>1. v \in Int /\ paid \in Int /\ 100 * paid <= u /\ paid > 0
        BY <1>3, <1>7, <2>2
      <4>2. limit - 100 * v \in Int
        BY <3>1, <4>1
      <4> QED BY <3>1, <4>1, <4>2 DEF Book!Room
    <3> QED BY <3>2 DEF limit
  <2>6. g * nav > 0
    BY <1>7, <2>2, <2>4, <2>5
  <2>7. nav > 0
    BY <2>1, <2>2, <2>6
  <2>8. g * nav <= m * nav
    BY <2>1, <2>2, <2>7
  <2>9. 100 * (v + paid) <= m * nav
    <3> DEFINE x == g * nav
               y == m * nav
               z == 100 * (v + paid)
    <3>1. x \in Int /\ y \in Int /\ z \in Int
      BY <1>7, <2>2, <2>4
    <3>2. z <= x /\ x <= y
      BY <2>5, <2>8
    <3> HIDE DEF x, y, z
    <3>3. z <= y
      BY <3>1, <3>2
    <3> QED BY <3>3 DEF y, z
  <2> QED BY <2>9 DEF m, nav, v
<1>11. ASSUME a \in Crypto PROVE 100 * (Book!CryptoValue + paid) <= MaxTotalCrypto * Book!Nav
  <2> DEFINE limit == MaxTotalCrypto * Book!Nav
             v == Book!CryptoValue
  <2>1. limit \in Int /\ v \in Int /\ u \in Int
    BY <1>4, <1>9, BookAssumption
  <2>2. u <= Book!Room(limit - 100 * v)
    BY <1>9, <1>11
  <2> HIDE DEF limit, v
  <2>3. 100 * (v + paid) <= limit
    <3>1. paid \in Int /\ 100 * paid <= u /\ paid > 0
      BY <1>3, <1>7
    <3>2. limit - 100 * v \in Int
      BY <2>1
    <3> QED BY <2>1, <2>2, <3>1, <3>2 DEF Book!Room
  <2> QED BY <2>3 DEF limit, v
<1>12. 100 * (cash' + fee) >= MinimumCash * Book!Nav
  <2> DEFINE floor == MinimumCash * Book!Nav
  <2>1. floor \in Int
    BY <1>4, BookAssumption
  <2>2. u <= Book!Room(100 * cash - floor)
    BY <1>9
  <2> HIDE DEF floor
  <2>3. cash' + fee = cash - paid
    BY <1>1, <1>4, <1>7, <1>8
  <2>4. 100 * (cash - paid) >= floor
    BY <1>3, <1>4, <1>7, <1>9, <2>1, <2>2 DEF Book!Room
  <2> QED BY <2>3, <2>4 DEF floor
<1> QED BY <1>6, <1>10, <1>11, <1>12 DEF a, w, paid, n, fee

\* The book is empty at first.
LEMMA BookStart == ASSUME Book!Init PROVE BookInv
BY BookAssumption DEF Book!Init, BookInv, Book!Asset

\* An order whose snapshot is still true when it is saved keeps the weight of its
\* asset, the total of all crypto positions and, but for the fee, the cash floor,
\* whatever the prices, lots and limits (services/portfolio.py,
\* create_from_recommendation).
THEOREM OrdersKeepLimits == ResearchSpec => OrderWithinLimits
<1> DEFINE Fits(b) ==
      count' # count /\ buyer[b] # Book!Idle /\ buyer'[b] = Book!Idle
      /\ buyer[b].seen = Book!Snapshot(buyer[b].asset) =>
        LET a == buyer[b].asset
            n == held'[a] - held[a]
            paid == n * buyer[b].price
        IN  /\ 100 * (Book!Value(a) + paid) <= Book!MaxWeight(a) * Book!Nav
            /\ a \in Crypto => 100 * (Book!CryptoValue + paid) <= MaxTotalCrypto * Book!Nav
            /\ 100 * (cash' + Book!Fee(a, n, buyer[b].price)) >= MinimumCash * Book!Nav
<1>1. ResearchInit => BookInv
  BY BookStart DEF ResearchInit
<1>2. BookInv /\ [ResearchNext]_<<part, researchVars>> => BookInv'
  BY BookNext, ResearchMoves
<1>3. BookInv /\ [ResearchNext]_<<part, researchVars>> => [\A b \in Buyer : Fits(b)]_(Book!bookVars)
  <2> SUFFICES ASSUME BookInv, Book!Next, NEW b \in Buyer, count' # count,
                      buyer[b] # Book!Idle, buyer'[b] = Book!Idle,
                      buyer[b].seen = Book!Snapshot(buyer[b].asset)
               PROVE  Book!Buy(b)
    BY ResearchMoves, BuyKeepsLimits DEF bookVars, Book!bookVars
  <2>1. PICK c \in Buyer : Book!Buy(c)
    BY DEF Book!Next, Book!Look, Book!Refuse, Book!PriceMoves
  <2>2. c = b
    BY <2>1 DEF Book!Buy
  <2> QED BY <2>1, <2>2
<1>4. ResearchSpec => [][\A b \in Buyer : Fits(b)]_(Book!bookVars)
  BY <1>1, <1>2, <1>3, PTL DEF ResearchSpec
<1> QED BY <1>4 DEF OrderWithinLimits, Book!OrderWithinLimits

-----------------------------------------------------------------------------
\* Names that the module of the outcomes shares with this one.
LEMMA ScoredRanks ==
    /\ \A S : Scored!Cardinality(S) = Cardinality(S)
    /\ \A S : Scored!Ascending(S) = Ascending(S)
<1>1. \A S : Scored!Cardinality(S) = Cardinality(S)
  BY Zenon DEF Scored!Cardinality, Cardinality
<1>2. \A S, R, x : Scored!Rank(S, R, x) = Rank(S, R, x)
  BY <1>1, Zenon DEF Scored!Rank, Rank
<1>3. \A S, R, k : Scored!Nth(S, R, k) = Nth(S, R, k)
  BY <1>2, Zenon DEF Scored!Nth, Nth
<1>4. \A S, R : Scored!InOrder(S, R) = InOrder(S, R)
  BY <1>1, <1>3, Zenon DEF Scored!InOrder, InOrder
<1>5. \A S : Scored!Upwards(S) = Upwards(S)
  BY Zenon DEF Scored!Upwards, Upwards
<1>6. \A S : Scored!Ascending(S) = Ascending(S)
  BY <1>4, <1>5, Zenon DEF Scored!Ascending, Ascending
<1> QED BY <1>1, <1>6

\* The moments of D, n in number, in order.
InTime(P, D, n) ==
  /\ n \in Nat /\ DOMAIN P = 1 .. n /\ Len(P) = n
  /\ \A k \in 1 .. n : P[k] \in Int /\ P[k] \in D
  /\ \A d \in D : \E k \in 1 .. n : d = P[k]
  /\ \A j, k \in 1 .. n : j < k <=> P[j] < P[k]

\* The moments from the first on, up to the m-th.
FirstOf(w, P, m) ==
  DOMAIN w = 1 .. m /\ Len(w) = m /\ \A k \in 1 .. m : w[k] = P[k]

\* The prices of a time are in order, each once.
LEMMA PricesInTime ==
    ASSUME NEW series, NEW a \in Int, NEW t \in Int
    PROVE  \E n \in Nat :
             InTime(Scored!PricePoints(series, a, t), {d \in a .. t : series[d] > 0}, n)
<1> DEFINE D == {d \in a .. t : series[d] > 0}
           P == Ascending(D)
           n == Cardinality(D)
<1>1. Scored!PricePoints(series, a, t) = P
  BY ScoredRanks DEF Scored!PricePoints
<1>2. D \subseteq a .. t /\ IsFiniteSet(a .. t)
  BY FS_Interval
<1>3. \A d \in D : d \in Int
  OBVIOUS
<1> HIDE DEF D
<1>4. IsFiniteSet(D)
  BY <1>2, FS_Subset
<1>5. D \subseteq Int
  BY <1>3
<1>6. /\ n \in Nat /\ DOMAIN P = 1 .. n
      /\ \A k \in 1 .. n : P[k] \in D
      /\ \A j, k \in 1 .. n : j < k <=> P[j] < P[k]
  BY <1>4, <1>5, AscendingIsInOrder
<1>7. \A d \in D : \E k \in 1 .. n : d = P[k]
  BY <1>4, <1>5, AscendingIsInOrder
<1>8. Len(P) = n
  BY <1>6 DEF Ascending, InOrder
<1> HIDE DEF P, n
<1>9. \A k \in 1 .. n : P[k] \in Int /\ P[k] \in D
  BY <1>3, <1>6
<1>10. InTime(P, D, n)
  BY <1>6, <1>7, <1>8, <1>9 DEF InTime
<1> QED BY <1>1, <1>6, <1>10 DEF D

\* The first index from i on whose moment is not before t.
LEMMA FirstFromIsFirst ==
    ASSUME NEW P, NEW D, NEW n, InTime(P, D, n), NEW i \in Nat, i >= 1, NEW t \in Int
    PROVE  LET f == Scored!FirstFrom(P, i, t)
           IN  \/ f = 0 /\ \A k \in i .. n : P[k] < t
               \/ f \in i .. n /\ P[f] >= t /\ \A k \in i .. (f - 1) : P[k] < t
<1> DEFINE late == {j \in i .. n : P[j] >= t}
           f == Scored!FirstFrom(P, i, t)
<1>0. n \in Nat /\ Len(P) = n
  BY DEF InTime
<1>1. \A k \in i .. n : P[k] \in Int
  <2>1. \A k \in 1 .. n : P[k] \in Int
    BY DEF InTime
  <2>2. \A k \in i .. n : k \in 1 .. n
    BY <1>0
  <2> QED BY <2>1, <2>2
<1>2. f = IF late = {} THEN 0 ELSE Scored!Min(late)
  BY <1>0 DEF Scored!FirstFrom
<1>3. CASE late = {}
  BY <1>1, <1>2, <1>3
<1>4. CASE late # {}
  <2>1. late \subseteq Nat
    BY <1>0
  <2>2. \E x \in late : \A y \in late : x <= y
    <3> HIDE DEF late
    <3> QED BY <1>4, <2>1, LeastExists
  <2>3. f \in late /\ \A y \in late : f <= y
    <3> HIDE DEF late, f
    <3> QED BY <1>2, <1>4, <2>2 DEF Scored!Min
  <2> HIDE DEF f
  <2>4. f \in i .. n /\ P[f] >= t
    BY <2>3
  <2>5. \A k \in i .. (f - 1) : k \in i .. n /\ ~(f <= k)
    BY <1>0, <2>4
  <2>6. \A k \in i .. (f - 1) : P[k] < t
    BY <1>1, <2>3, <2>5
  <2> QED BY <2>4, <2>6 DEF f
<1> QED BY <1>3, <1>4

\* The entry is the first price there is from the start on.
LEMMA EntryIsFirst ==
    ASSUME NEW P, NEW D, NEW n, InTime(P, D, n), NEW a \in Int, \A d \in D : d >= a
    PROVE  Scored!FirstFrom(P, 1, a) = IF n = 0 THEN 0 ELSE 1
<1> DEFINE f == Scored!FirstFrom(P, 1, a)
<1>1. \/ f = 0 /\ \A k \in 1 .. n : P[k] < a
      \/ f \in 1 .. n /\ P[f] >= a /\ \A k \in 1 .. (f - 1) : P[k] < a
  BY FirstFromIsFirst
<1>2. n \in Nat /\ \A k \in 1 .. n : P[k] \in Int /\ ~(P[k] < a)
  BY DEF InTime
<1> HIDE DEF f
<1>3. f = 0 => n = 0
  <2>1. n # 0 => 1 \in 1 .. n
    BY <1>2
  <2> QED BY <1>1, <1>2, <2>1
<1>4. f # 0 => f = 1 /\ n # 0
  <2>1. f # 0 => f \in 1 .. n /\ \A k \in 1 .. (f - 1) : P[k] < a
    BY <1>1
  <2>2. ASSUME f # 0, f # 1 PROVE FALSE
    <3>1. 1 \in 1 .. (f - 1) /\ 1 \in 1 .. n
      BY <1>2, <2>1, <2>2
    <3> QED BY <1>2, <2>1, <2>2, <3>1
  <2> QED BY <1>2, <2>1, <2>2
<1> QED BY <1>3, <1>4 DEF f

\* A part of the moments from the first on.
LEMMA PartIsFirstOf ==
    ASSUME NEW P, NEW D, NEW n, InTime(P, D, n), NEW m \in 1 .. n
    PROVE  FirstOf(SubSeq(P, 1, m), P, m)
<1>1. n \in Nat /\ \A k \in 1 .. n : P[k] \in D
  BY DEF InTime
<1>2. \A k \in 1 .. m : P[k] \in D
  BY <1>1
<1>3. /\ SubSeq(P, 1, m) \in Seq(D)
      /\ Len(SubSeq(P, 1, m)) = IF 1 <= m THEN m - 1 + 1 ELSE 0
      /\ \A k \in 1 .. m - 1 + 1 : SubSeq(P, 1, m)[k] = P[1 + k - 1]
  BY <1>2, SubSeqProperties
<1>4. m - 1 + 1 = m /\ 1 <= m /\ \A k \in 1 .. m : 1 + k - 1 = k
  OBVIOUS
<1>5. Len(SubSeq(P, 1, m)) = m /\ \A k \in 1 .. m : SubSeq(P, 1, m)[k] = P[k]
  BY <1>3, <1>4
<1>6. DOMAIN SubSeq(P, 1, m) = 1 .. m
  BY <1>3, <1>5
<1> QED BY <1>5, <1>6 DEF FirstOf

\* A window in calendar days ends at the first later price that is not before
\* its end.
LEMMA WindowEndsRight ==
    ASSUME NEW P, NEW D, NEW n, InTime(P, D, n), NEW a \in Int, \A d \in D : d >= a,
           NEW target \in Int, Scored!Window(P, a, target) # <<>>
    PROVE  \E m \in 2 .. n :
             /\ FirstOf(Scored!Window(P, a, target), P, m)
             /\ P[m] >= target /\ \A k \in 2 .. (m - 1) : P[k] < target
<1> DEFINE f == Scored!FirstFrom(P, 2, target)
<1>1. n \in Nat
  BY DEF InTime
<1>2. Scored!FirstFrom(P, 1, a) = IF n = 0 THEN 0 ELSE 1
  BY EntryIsFirst
<1>3. n # 0 /\ f # 0 /\ Scored!Window(P, a, target) = SubSeq(P, 1, f)
  <2>1. Scored!FirstFrom(P, 1, a) # 0
    BY DEF Scored!Window
  <2>2. n # 0 /\ Scored!FirstFrom(P, 1, a) = 1 /\ 1 + 1 = 2
    BY <1>2, <2>1
  <2>3. Scored!Window(P, a, target) = IF f = 0 THEN <<>> ELSE SubSeq(P, 1, f)
    BY <2>2 DEF Scored!Window
  <2> QED BY <2>2, <2>3
<1>4. \/ f = 0 /\ \A k \in 2 .. n : P[k] < target
      \/ f \in 2 .. n /\ P[f] >= target /\ \A k \in 2 .. (f - 1) : P[k] < target
  BY FirstFromIsFirst
<1> HIDE DEF f
<1>5. f \in 2 .. n /\ P[f] >= target /\ \A k \in 2 .. (f - 1) : P[k] < target
  BY <1>3, <1>4
<1>6. f \in 1 .. n
  BY <1>1, <1>5
<1> QED BY <1>3, <1>5, <1>6, PartIsFirstOf

\* A window in sessions ends that many prices after its entry.
LEMMA SessionWindowEndsRight ==
    ASSUME NEW P, NEW D, NEW n, InTime(P, D, n), NEW a \in Int, \A d \in D : d >= a,
           NEW h \in Nat, h > 0, Scored!SessionWindow(P, a, h) # <<>>
    PROVE  h + 1 \in 2 .. n /\ FirstOf(Scored!SessionWindow(P, a, h), P, h + 1)
<1>1. n \in Nat /\ Len(P) = n
  BY DEF InTime
<1>2. Scored!FirstFrom(P, 1, a) = IF n = 0 THEN 0 ELSE 1
  BY EntryIsFirst
<1>3. n # 0 /\ ~(1 + h > n) /\ Scored!SessionWindow(P, a, h) = SubSeq(P, 1, 1 + h)
  BY <1>1, <1>2 DEF Scored!SessionWindow
<1>4. 1 + h \in 1 .. n /\ h + 1 \in 2 .. n /\ 1 + h = h + 1
  BY <1>1, <1>3
<1> QED BY <1>3, <1>4, PartIsFirstOf

\* As many moments as indices lie between two of them.
LEMMA MomentsCounted ==
    ASSUME NEW P, NEW D, NEW n, InTime(P, D, n), NEW m \in 1 .. n
    PROVE  Cardinality({d \in D : P[1] <= d /\ d <= P[m]}) = m
<1> DEFINE T == {d \in D : P[1] <= d /\ d <= P[m]}
           f == [k \in 1 .. m |-> P[k]]
<1>0. n \in Nat /\ m \in Nat /\ m <= n /\ \A k \in 1 .. m : k \in 1 .. n
  BY DEF InTime
<1>1. \A j, k \in 1 .. n : j < k <=> P[j] < P[k]
  BY DEF InTime
<1>2. \A k \in 1 .. n : P[k] \in Int /\ P[k] \in D
  BY DEF InTime
<1>3. \A k \in 1 .. m : P[1] <= P[k] /\ P[k] <= P[m]
  <2> TAKE k \in 1 .. m
  <2>1. k \in 1 .. n /\ 1 \in 1 .. n /\ ~(k < 1) /\ ~(m < k)
    BY <1>0
  <2>2. P[k] \in Int /\ P[1] \in Int /\ P[m] \in Int /\ ~(P[k] < P[1]) /\ ~(P[m] < P[k])
    BY <1>1, <1>2, <2>1
  <2> QED BY <2>2
<1>4. f \in [1 .. m -> T]
  BY <1>0, <1>2, <1>3
<1>5. ASSUME NEW d \in T PROVE \E k \in 1 .. m : f[k] = d
  <2>1. PICK k \in 1 .. n : d = P[k]
    BY DEF InTime
  <2>2. P[k] <= P[m] /\ P[k] \in Int /\ P[m] \in Int
    BY <1>2, <2>1
  <2>3. ~(m < k)
    BY <1>1, <2>2
  <2>4. k \in 1 .. m
    BY <1>0, <2>3
  <2> QED BY <2>1, <2>4
<1>6. \A j, k \in 1 .. m : f[j] = f[k] => j = k
  <2> TAKE j \in 1 .. m, k \in 1 .. m
  <2>1. P[j] = P[k] => ~(j < k) /\ ~(k < j)
    BY <1>0, <1>1, <1>2
  <2> QED BY <2>1
<1>7. f \in Bijection(1 .. m, T)
  BY <1>4, <1>5, <1>6 DEF Bijection, Injection, IsInjective, Surjection
<1>8. IsFiniteSet(1 .. m) /\ Cardinality(1 .. m) = m
  BY <1>0, FS_Interval
<1> QED
  <2> HIDE DEF T
  <2>1. ExistsBijection(1 .. m, T)
    BY <1>7 DEF ExistsBijection
  <2>2. Cardinality(T) = m
    BY <1>8, <2>1, FS_Bijection
  <2> QED BY <2>2 DEF T

\* Of the calls up, flat and down exactly one is right.
LEMMA OneCallIsRight ==
    ASSUME NEW from \in Nat, NEW to \in Nat, NEW band \in Nat, from > 0
    PROVE  Cardinality({s \in {-30, 0, 30} : Scored!DirectionCorrect(s, from, to, band)}) = 1
<1> DEFINE up == Scored!Above(from, to, band)
           down == Scored!Below(from, to, band)
           R == {s \in {-30, 0, 30} : Scored!DirectionCorrect(s, from, to, band)}
<1>1. band * from \in Nat
  OBVIOUS
<1>2. ~(up /\ down)
  <2> DEFINE x == band * from
  <2>1. x \in Nat
    BY <1>1
  <2>2. up <=> 1000 * (to - from) > x
    BY DEF Scored!Above
  <2>3. down <=> 1000 * (from - to) > x
    BY DEF Scored!Below
  <2> HIDE DEF x, up, down
  <2> QED BY <2>1, <2>2, <2>3
<1>3. /\ Scored!DirectionCorrect(-30, from, to, band) <=> down
      /\ Scored!DirectionCorrect(0, from, to, band) <=> ~up /\ ~down
      /\ Scored!DirectionCorrect(30, from, to, band) <=> up
  BY DEF Scored!DirectionCorrect
<1>4. R = {-30} \/ R = {0} \/ R = {30}
  <2> HIDE DEF up, down
  <2> QED BY <1>2, <1>3
<1> HIDE DEF R
<1>5. Cardinality(R) = 1
  BY <1>4, FS_Singleton
<1> QED BY <1>5 DEF R

\* Of three falls, the last is no deeper than the first if neither of two is
\* deeper than the next: fractions of whole numbers.
LEMMA FallsCompare ==
    ASSUME NEW y \in Nat, NEW z \in Nat, NEW x \in Nat, NEW p \in Nat, NEW u \in Nat, NEW v \in Nat,
           y > 0, z > 0, x > 0, p > 0, u > 0, v > 0,
           y * v >= u * z, x * v < u * p
    PROVE  y * p >= x * z
<1>1. (y * v) * p >= (u * z) * p
  <2>1. y * v \in Nat /\ u * z \in Nat
    OBVIOUS
  <2> QED BY <2>1
<1>2. (x * v) * z < (u * p) * z
  <2>1. x * v \in Nat /\ u * p \in Nat
    OBVIOUS
  <2> QED BY <2>1
<1>3. (u * z) * p = (u * p) * z /\ (y * v) * p = (y * p) * v /\ (x * v) * z = (x * z) * v
  OBVIOUS
<1>4. y * p \in Nat /\ x * z \in Nat
  OBVIOUS
<1> DEFINE a == y * p
           b == x * z
           c == (u * p) * z
<1>5. c \in Nat /\ a * v >= c /\ b * v < c
  BY <1>1, <1>2, <1>3
<1>6. a \in Nat /\ b \in Nat
  BY <1>4
<1> HIDE DEF a, b, c
<1>7. a * v > b * v
  <2>1. a * v \in Nat /\ b * v \in Nat
    BY <1>6
  <2> QED BY <1>5, <2>1
<1>8. a > b
  BY <1>6, <1>7
<1> QED BY <1>6, <1>8 DEF a, b

\* The peaks and falls that hold for the prices of some days of a window.
Falls(price, s) ==
  {acc \in [peak : Nat \ {0}, worst : (Nat \ {0}) \X (Nat \ {0})] :
     /\ \A i \in s : price[i] <= acc.peak
     /\ \A i, j \in s : i <= j => price[j] * acc.worst[2] >= acc.worst[1] * price[i]}

\* One more price, later than the others.
Fallen(acc, x) ==
  LET peak == IF x > acc.peak THEN x ELSE acc.peak
  IN  [peak |-> peak,
       worst |-> IF x * acc.worst[2] < acc.worst[1] * peak THEN <<x, peak>> ELSE acc.worst]

\* A later price keeps the peaks and falls true.
LEMMA FallenKeeps ==
    ASSUME NEW m \in Nat, NEW price \in [1 .. m -> Nat \ {0}], NEW s \in SUBSET (1 .. m),
           NEW k \in s, \A i \in s : i <= k, NEW acc \in Falls(price, s \ {k})
    PROVE  Fallen(acc, price[k]) \in Falls(price, s)
<1> DEFINE x == price[k]
           peak == IF x > acc.peak THEN x ELSE acc.peak
           worst == IF x * acc.worst[2] < acc.worst[1] * peak THEN <<x, peak>> ELSE acc.worst
           u == acc.worst[1]
           v == acc.worst[2]
<1>1. /\ acc.peak \in Nat \ {0} /\ acc.worst \in (Nat \ {0}) \X (Nat \ {0})
      /\ u \in Nat \ {0} /\ v \in Nat \ {0}
  BY DEF Falls
<1>2. \A i \in s \ {k} : price[i] <= acc.peak
  BY DEF Falls
<1>3. \A i, j \in s \ {k} : i <= j => price[j] * v >= u * price[i]
  BY DEF Falls
<1>4. Fallen(acc, x) = [peak |-> peak, worst |-> worst]
  BY DEF Fallen
<1>5. \A i \in s : price[i] \in Nat \ {0} /\ i \in Int
  OBVIOUS
<1>6. x \in Nat \ {0} /\ peak \in Nat \ {0}
  BY <1>1, <1>5
<1>7. worst \in (Nat \ {0}) \X (Nat \ {0})
  BY <1>1, <1>6
<1>8. x <= peak /\ acc.peak <= peak
  BY <1>1, <1>6
<1>9. \A i \in s : price[i] <= peak
  <2> TAKE i \in s
  <2>1. price[i] \in Nat /\ peak \in Nat /\ acc.peak \in Nat
    BY <1>1, <1>5, <1>6
  <2>2. CASE i = k
    BY <1>8, <2>2
  <2>3. CASE i # k
    <3>1. price[i] <= acc.peak
      BY <1>2, <2>3
    <3> HIDE DEF peak
    <3> QED BY <1>8, <2>1, <3>1
  <2> QED BY <2>2, <2>3
<1>10. ASSUME NEW i \in s, NEW j \in s, i <= j
       PROVE  price[j] * worst[2] >= worst[1] * price[i]
  <2>1. price[i] \in Nat /\ price[i] > 0 /\ price[j] \in Nat /\ price[j] > 0
        /\ peak \in Nat /\ peak > 0 /\ x \in Nat /\ x > 0 /\ u \in Nat /\ u > 0 /\ v \in Nat /\ v > 0
    <3>1. price[i] \in Nat \ {0} /\ price[j] \in Nat \ {0}
      BY <1>5
    <3>2. u \in Nat \ {0} /\ v \in Nat \ {0}
      BY <1>1
    <3> HIDE DEF x, peak, u, v
    <3> QED BY <1>6, <3>1, <3>2
  <2>2. CASE j = k
    <3>1. price[j] = x /\ price[i] <= peak
      BY <1>9, <2>2
    <3>2. CASE x * v < u * peak
      <4>1. worst[1] = x /\ worst[2] = peak
        BY <3>2
      <4> HIDE DEF x, peak, worst
      <4>2. x * peak >= x * price[i]
        BY <2>1, <3>1
      <4> QED BY <3>1, <4>1, <4>2
    <3>3. CASE ~(x * v < u * peak)
      <4>1. worst[1] = u /\ worst[2] = v
        BY <3>3
      <4> HIDE DEF x, peak, worst, u, v
      <4>2. u * peak >= u * price[i]
        BY <2>1, <3>1
      <4>3. x * v \in Nat /\ u * peak \in Nat /\ u * price[i] \in Nat
        BY <2>1
      <4>4. x * v >= u * price[i]
        BY <3>3, <4>2, <4>3
      <4> QED BY <3>1, <4>1, <4>4
    <3> QED BY <3>2, <3>3
  <2>3. CASE j # k
    <3>1. i # k
      <4>1. j <= k
        OBVIOUS
      <4> QED BY <1>5, <1>10, <2>3, <4>1
    <3>2. price[j] * v >= u * price[i]
      BY <1>3, <1>10, <2>3, <3>1
    <3>3. CASE x * v < u * peak
      <4>1. worst[1] = x /\ worst[2] = peak
        BY <3>3
      <4> HIDE DEF x, peak, worst, u, v
      <4>2. price[j] * peak >= x * price[i]
        BY <2>1, <3>2, <3>3, FallsCompare
      <4> QED BY <4>1, <4>2
    <3>4. CASE ~(x * v < u * peak)
      <4>1. worst[1] = u /\ worst[2] = v
        BY <3>4
      <4> HIDE DEF x, peak, worst, u, v
      <4> QED BY <3>2, <4>1
    <3> QED BY <3>3, <3>4
  <2> QED BY <2>2, <2>3
<1>11. [peak |-> peak, worst |-> worst] \in Falls(price, s)
  <2> HIDE DEF peak, worst
  <2> QED BY <1>6, <1>7, <1>9, <1>10 DEF Falls
<1> QED BY <1>4, <1>11

\* No pair of prices of a window is a deeper fall than the one it says.
LEMMA DrawdownIsDeepest ==
    ASSUME NEW w, NEW m \in Nat, m > 0, DOMAIN w = 1 .. m,
           \A k \in 1 .. m : asset[w[k]] \in Nat \ {0}
    PROVE  \A i, j \in 1 .. m : i <= j =>
             ~Scored!Deeper(<<asset[w[j]], asset[w[i]]>>, Scored!MaxDrawdown(w))
<1> DEFINE S == 1 .. m
           price == [k \in S |-> asset[w[k]]]
           base == [peak |-> asset[w[1]], worst |-> <<1, 1>>]
           pick == [s \in SUBSET S |-> Scored!Max(s)]
           V == [s \in SUBSET S |-> Falls(price, s)]
           F == [s \in SUBSET S |-> [y \in V[s \ {pick[s]}] |-> Fallen(y, price[pick[s]])]]
           Eq(h) == h = [s \in SUBSET S |->
              IF s = {} THEN base
              ELSE LET x == Scored!Max(s) IN Fallen(h[s \ {x}], asset[w[x]])]
<1>1. Scored!MaxDrawdown(w) = (CHOOSE h : Eq(h))[S].worst
  BY DEF Scored!MaxDrawdown, Scored!FoldLeft, Scored!MapThenFoldSet, Fallen, Scored!Deeper
<1>2. price \in [S -> Nat \ {0}] /\ \A k \in S : price[k] = asset[w[k]]
  OBVIOUS
<1>3. base \in Falls(price, {})
  <2>1. asset[w[1]] \in Nat \ {0} /\ 1 \in Nat \ {0}
    OBVIOUS
  <2>2. base.peak = asset[w[1]] /\ base.worst = <<1, 1>>
    OBVIOUS
  <2> HIDE DEF price
  <2> QED BY <2>1, <2>2 DEF Falls
<1> HIDE DEF price, base
<1>4. ASSUME NEW s \in SUBSET S, s # {}
      PROVE  /\ pick[s] = Scored!Max(s) /\ pick[s] \in s /\ \A i \in s : i <= pick[s]
             /\ s \ {pick[s]} \in SUBSET S
  <2>1. \A x \in s : x \in 0 .. m
    OBVIOUS
  <2>2. \E x \in s : \A y \in s : y <= x
    BY <1>4, <2>1, GreatestExists
  <2>3. \E x \in s : \A y \in s : x >= y
    BY <2>1, <2>2
  <2>4. Scored!Max(s) \in s /\ \A y \in s : Scored!Max(s) >= y
    BY <2>3 DEF Scored!Max
  <2>5. pick[s] = Scored!Max(s)
    OBVIOUS
  <2> HIDE DEF pick
  <2> QED BY <2>1, <2>4, <2>5
<1> HIDE DEF pick
<1>5. \A s \in SUBSET S : V[s] = Falls(price, s)
  OBVIOUS
<1> HIDE DEF V
<1>6. ASSUME NEW s \in SUBSET S, s # {}, NEW y \in V[s \ {pick[s]}]
      PROVE  Fallen(y, price[pick[s]]) \in V[s]
  <2>1. y \in Falls(price, s \ {pick[s]})
    BY <1>4, <1>5, <1>6
  <2>2. Fallen(y, price[pick[s]]) \in Falls(price, s)
    BY <1>2, <1>4, <1>6, <2>1, FallenKeeps
  <2> QED BY <1>5, <2>2
<1>7. \A s \in SUBSET S : s # {} =>
         pick[s] \in s /\ \A y \in V[s \ {pick[s]}] : F[s][y] \in V[s]
  BY <1>4, <1>6
<1>8. \A s \in SUBSET S : \A y \in V[s \ {pick[s]}] : F[s][y] = Fallen(y, price[pick[s]])
  OBVIOUS
<1> HIDE DEF F
<1>9. IsFiniteSet(S)
  BY FS_Interval
<1>10. base \in V[{}]
  BY <1>3, <1>5
<1>11. Folds(S, V, base, pick, F)
  BY <1>7, <1>9, <1>10 DEF Folds
<1>12. PICK g : Folded(S, base, pick, F, g) /\ \A s \in SUBSET S : g[s] \in V[s]
  BY <1>11, FoldExists
<1>13. Eq(g)
  <2>1. g = [s \in SUBSET S |-> IF s = {} THEN base ELSE F[s][g[s \ {pick[s]}]]]
    BY <1>12 DEF Folded
  <2>2. \A s \in SUBSET S : s # {} =>
           F[s][g[s \ {pick[s]}]]
             = LET x == Scored!Max(s) IN Fallen(g[s \ {x}], asset[w[x]])
    <3> TAKE s \in SUBSET S
    <3> HAVE s # {}
    <3>1. pick[s] = Scored!Max(s) /\ pick[s] \in S /\ g[s \ {pick[s]}] \in V[s \ {pick[s]}]
      BY <1>4, <1>12
    <3>2. F[s][g[s \ {pick[s]}]] = Fallen(g[s \ {pick[s]}], price[pick[s]])
      BY <1>8, <3>1
    <3> QED BY <1>2, <3>1, <3>2
  <2> QED BY <2>1, <2>2
<1> DEFINE h == CHOOSE h : Eq(h)
<1>14. Eq(h)
  <2> HIDE DEF Eq
  <2> QED BY <1>13
<1> HIDE DEF h
<1>15. \A s \in SUBSET S : s # {} => h[s] = Fallen(h[s \ {pick[s]}], price[pick[s]])
  <2> TAKE s \in SUBSET S
  <2> HAVE s # {}
  <2>1. pick[s] = Scored!Max(s) /\ pick[s] \in S
    BY <1>4
  <2>2. h[s] = LET x == Scored!Max(s) IN Fallen(h[s \ {x}], asset[w[x]])
    BY <1>14
  <2> QED BY <1>2, <2>1, <2>2
<1>16. h[{}] = base
  BY <1>14
<1> HIDE DEF Eq
<1>17. Kept(S, V, pick, h)
  <2>1. \A s \in SUBSET S : s # {} =>
           pick[s] \in s /\ (h[s \ {pick[s]}] \in V[s \ {pick[s]}] => h[s] \in V[s])
    <3> TAKE s \in SUBSET S
    <3> HAVE s # {}
    <3>1. pick[s] \in s
      BY <1>4
    <3>2. h[s] = Fallen(h[s \ {pick[s]}], price[pick[s]])
      BY <1>15
    <3>3. h[s \ {pick[s]}] \in V[s \ {pick[s]}] => Fallen(h[s \ {pick[s]}], price[pick[s]]) \in V[s]
      BY <1>6
    <3> QED BY <3>1, <3>2, <3>3
  <2> QED BY <1>9, <1>10, <1>16, <2>1 DEF Kept
<1>18. h[S] \in Falls(price, S)
  <2>1. h[S] \in V[S]
    BY <1>17, FoldKeeps
  <2> QED BY <1>5, <2>1
<1>19. Scored!MaxDrawdown(w) = h[S].worst
  BY <1>1 DEF h
<1>20. /\ h[S].worst[1] \in Nat /\ h[S].worst[2] \in Nat
       /\ \A i, j \in S : i <= j => price[j] * h[S].worst[2] >= h[S].worst[1] * price[i]
  BY <1>18 DEF Falls
<1> QED
  <2> SUFFICES ASSUME NEW i \in S, NEW j \in S, i <= j
               PROVE  ~Scored!Deeper(<<price[j], price[i]>>, h[S].worst)
    BY <1>2, <1>19
  <2>1. price[j] * h[S].worst[2] >= h[S].worst[1] * price[i]
    BY <1>20
  <2>2. price[i] \in Nat /\ price[j] \in Nat
    BY <1>2
  <2> DEFINE u == h[S].worst[1]
             v == h[S].worst[2]
             x == price[i]
             y == price[j]
  <2>3. u \in Nat /\ v \in Nat /\ x \in Nat /\ y \in Nat /\ y * v >= u * x
    BY <1>20, <2>1, <2>2
  <2>4. Scored!Deeper(<<y, x>>, h[S].worst) <=> y * v < u * x
    BY DEF Scored!Deeper
  <2> HIDE DEF u, v, x, y
  <2>5. y * v \in Nat /\ u * x \in Nat
    BY <2>3
  <2> QED BY <2>3, <2>4, <2>5 DEF x, y

OutcomeTypes ==
  /\ advice.asOf \in Nat /\ advice.horizon \in Horizons
  /\ \A d \in Scored!Day : asset[d] \in Nat
  /\ today \in Scored!Day
  /\ DOMAIN scan = Evaluator
  /\ \A e \in Evaluator : scan[e].on \in BOOLEAN /\ (scan[e].on => scan[e].at \in Scored!Day)
  /\ overlapped \in BOOLEAN

\* What may be scored: the outcomes of the moments at which the window has ended.
Scorable == {Scored!Outcome(t) : t \in {d \in Scored!Day : Scored!WindowAt(d) # <<>>}}

\* Until two evaluations overlap, the one that runs knows of the outcome there is.
OneAtATime ==
  ~overlapped =>
    /\ Len(outcomes) <= 1
    /\ \A e, f \in Evaluator : scan[e].on /\ scan[f].on => e = f
    /\ \A e \in Evaluator : scan[e].on /\ Len(outcomes) # 0 => scan[e].known

OutcomesInv == OutcomeTypes /\ outcomes \in Seq(Scorable) /\ OneAtATime

\* One outcome is scored on the right prices.
OutcomeRight(o) ==
  LET closes == Scored!Quoted(asset, o.observed)
      inside == {d \in closes : o.entry <= d /\ d <= o.exit}
      between == {d \in closes : o.entry < d /\ d < o.exit}
  IN  /\ advice.signal # "technical_failure"
      /\ o.entry \in closes /\ o.exit \in closes /\ o.entry < o.exit
      /\ o.entry >= advice.asOf
      /\ \A d \in closes : d >= advice.asOf => d >= o.entry
      /\ IF advice.unit = "trading_sessions"
         THEN Scored!Cardinality(inside) = advice.horizon + 1
         ELSE /\ o.exit >= advice.asOf + advice.horizon
              /\ \A d \in between : d < advice.asOf + advice.horizon
      /\ o.benchmark # <<>> =>
           /\ o.benchmark[1] >= o.entry /\ o.benchmark[2] >= o.exit
           /\ o.benchmark[2] <= o.observed
           /\ \A d \in Scored!Quoted(benchmark, o.observed) :
                d >= o.entry => d >= o.benchmark[1]
      /\ Scored!Cardinality({s \in {-30, 0, 30} :
           Scored!DirectionCorrect(s, asset[o.entry], asset[o.exit], Band(advice.horizon))}) = 1
      /\ \A c, d \in inside :
           c <= d => ~Scored!Deeper(<<asset[d], asset[c]>>, o.drawdown)

\* An evaluation that finds a window scores it on the right prices.
LEMMA OutcomesAreRight ==
    ASSUME OutcomeTypes, NEW t \in Scored!Day, Scored!WindowAt(t) # <<>>
    PROVE  OutcomeRight(Scored!Outcome(t))
<1> DEFINE a == advice.asOf
           h == advice.horizon
           w == Scored!WindowAt(t)
           P == Scored!PricePoints(asset, a, t)
           D == {d \in a .. t : asset[d] > 0}
           o == Scored!Outcome(t)
           closes == Scored!Quoted(asset, t)
           inside == {d \in closes : w[1] <= d /\ d <= w[Len(w)]}
<1>0. a \in Nat /\ h \in Nat /\ h > 0 /\ t \in Nat /\ t <= LastDay /\ Band(h) \in Nat
  <2>1. a \in Nat /\ h \in Horizons
    BY DEF OutcomeTypes
  <2>2. h \in Nat \ {0} /\ Band(h) \in Nat
    BY <2>1, OutcomesAssumption
  <2>3. t \in Nat /\ t <= LastDay
    BY OutcomesAssumption DEF Scored!Day
  <2> HIDE DEF h
  <2> QED BY <2>1, <2>2, <2>3
<1>1. PICK n \in Nat : InTime(P, D, n)
  <2>1. a \in Int /\ t \in Int
    BY <1>0
  <2> HIDE DEF a
  <2> QED BY <2>1, PricesInTime
<1>2. \A d \in D : d >= a /\ d \in Int
  BY <1>0
<1>3. D \subseteq closes /\ \A d \in closes : d >= a => d \in D
  BY <1>0 DEF Scored!Quoted
<1>4. \A d \in closes : asset[d] \in Nat \ {0} /\ d \in Int /\ d <= t
  <2>1. \A d \in closes : d \in Scored!Day /\ asset[d] > 0 /\ d \in Int /\ d <= t
    BY <1>0, OutcomesAssumption DEF Scored!Quoted, Scored!Day
  <2> QED BY <2>1 DEF OutcomeTypes
<1>5. advice.signal # "technical_failure"
  BY DEF Scored!WindowAt
<1>6. \E m \in 2 .. n :
        /\ FirstOf(w, P, m)
        /\ IF advice.unit = "trading_sessions" THEN m = h + 1
           ELSE P[m] >= a + h /\ \A k \in 2 .. (m - 1) : P[k] < a + h
  <2>1. CASE advice.unit = "trading_sessions"
    <3>1. w = Scored!SessionWindow(P, a, h)
      BY <1>5, <2>1 DEF Scored!WindowAt
    <3> HIDE DEF w, P, D, a, h
    <3>2. h + 1 \in 2 .. n /\ FirstOf(w, P, h + 1)
      BY <1>0, <1>1, <1>2, <3>1, SessionWindowEndsRight DEF w
    <3> QED BY <2>1, <3>2
  <2>2. CASE advice.unit # "trading_sessions"
    <3>1. w = Scored!Window(P, a, a + h)
      BY <1>5, <2>2 DEF Scored!WindowAt
    <3>2. a + h \in Int
      BY <1>0
    <3>3. Scored!Window(P, a, a + h) # <<>>
      BY <3>1
    <3> HIDE DEF w, P, D, a, h
    <3> QED BY <1>0, <1>1, <1>2, <2>2, <3>1, <3>2, <3>3, WindowEndsRight
  <2> QED BY <2>1, <2>2
<1>7. PICK m \in 2 .. n :
        /\ FirstOf(w, P, m)
        /\ IF advice.unit = "trading_sessions" THEN m = h + 1
           ELSE P[m] >= a + h /\ \A k \in 2 .. (m - 1) : P[k] < a + h
  BY <1>6
<1>8. /\ o.entry = w[1] /\ o.exit = w[Len(w)] /\ o.observed = t
      /\ o.drawdown = Scored!MaxDrawdown(w)
      /\ LET b == Scored!BenchmarkWindow(w[1], w[Len(w)], t)
         IN  o.benchmark = IF b = <<>> THEN <<>> ELSE <<b[1], b[Len(b)]>>
  BY DEF Scored!Outcome
<1>9. m \in Nat /\ 1 \in 1 .. m /\ m \in 1 .. m /\ m \in 1 .. n /\ 1 \in 1 .. n /\ 1 < m
  OBVIOUS
<1>10. w[1] = P[1] /\ w[Len(w)] = P[m]
  BY <1>7, <1>9 DEF FirstOf
<1> HIDE DEF w, P, D, closes, a, h
<1>11. /\ \A k \in 1 .. n : P[k] \in Int /\ P[k] \in D /\ P[k] \in closes
       /\ \A j, k \in 1 .. n : j < k <=> P[j] < P[k]
  BY <1>1, <1>3 DEF InTime
<1>12. P[1] \in D /\ P[m] \in D /\ P[1] \in closes /\ P[m] \in closes /\ P[1] < P[m]
  BY <1>9, <1>11
<1>13. P[1] >= a /\ \A d \in closes : d >= a => d >= P[1]
  <2>1. ASSUME NEW d \in closes, d >= a PROVE d >= P[1]
    <3>1. PICK k \in 1 .. n : d = P[k]
      BY <1>1, <1>3, <2>1 DEF InTime
    <3>2. ~(k < 1)
      OBVIOUS
    <3>3. ~(P[k] < P[1])
      BY <1>9, <1>11, <3>2
    <3> QED BY <1>9, <1>11, <3>1, <3>3
  <2> QED BY <1>2, <1>12, <2>1
<1>14. inside = {d \in D : P[1] <= d /\ d <= P[m]}
  <2>1. ASSUME NEW d \in closes, P[1] <= d PROVE d \in D
    <3>1. P[1] \in Int /\ d \in Int /\ a \in Int
      BY <1>0, <1>4, <1>9, <1>11
    <3>2. d >= a
      BY <1>13, <2>1, <3>1
    <3> QED BY <1>3, <3>2
  <2> QED BY <1>3, <1>10, <2>1
<1>15. Cardinality(inside) = m
  BY <1>1, <1>9, <1>14, MomentsCounted
<1>16. \A d \in closes : P[1] < d /\ d < P[m] => \E k \in 2 .. (m - 1) : d = P[k]
  <2> TAKE d \in closes
  <2> HAVE P[1] < d /\ d < P[m]
  <2>1. d \in Int /\ P[1] \in Int /\ a \in Int
    BY <1>0, <1>4, <1>9, <1>11
  <2>2. d \in D
    BY <1>3, <1>13, <2>1
  <2>3. PICK k \in 1 .. n : d = P[k]
    BY <1>1, <2>2 DEF InTime
  <2>4. 1 < k /\ k < m
    BY <1>9, <1>11, <2>3
  <2> QED BY <2>3, <2>4
<1>17. IF advice.unit = "trading_sessions"
       THEN Cardinality(inside) = h + 1
       ELSE /\ P[m] >= a + h
            /\ \A d \in closes : P[1] < d /\ d < P[m] => d < a + h
  BY <1>7, <1>15, <1>16
<1>18. LET b == o.benchmark
       IN  b # <<>> =>
             /\ b[1] >= P[1] /\ b[2] >= P[m] /\ b[2] <= t
             /\ \A d \in Scored!Quoted(benchmark, t) : d >= P[1] => d >= b[1]
  <2> DEFINE e == P[1]
             x == P[m]
             Q == Scored!PricePoints(benchmark, e, t)
             E == {d \in e .. t : benchmark[d] > 0}
             b == Scored!BenchmarkWindow(e, x, t)
  <2>1. e \in Int /\ x \in Int
    BY <1>9, <1>11
  <2>2. SUFFICES ASSUME b # <<>>
                 PROVE  /\ b[1] >= e /\ b[Len(b)] >= x /\ b[Len(b)] <= t
                        /\ \A d \in Scored!Quoted(benchmark, t) : d >= e => d >= b[1]
    <3>1. o.benchmark = IF b = <<>> THEN <<>> ELSE <<b[1], b[Len(b)]>>
      BY <1>8, <1>10
    <3>2. o.benchmark # <<>> => b # <<>> /\ o.benchmark[1] = b[1] /\ o.benchmark[2] = b[Len(b)]
      BY <3>1
    <3> HIDE DEF o, b
    <3> QED BY <3>2
  <2>3. b = Scored!Window(Q, e, x)
    BY DEF Scored!BenchmarkWindow
  <2> HIDE DEF e, x
  <2>4. PICK l \in Nat : InTime(Q, E, l)
    <3>1. t \in Int
      BY <1>0
    <3> QED BY <2>1, <3>1, PricesInTime
  <2>5. \A d \in E : d >= e /\ d \in Int /\ d <= t
    BY <1>0, <2>1
  <2>6. Scored!Window(Q, e, x) # <<>>
    BY <2>2, <2>3
  <2>7. \A d \in Scored!Quoted(benchmark, t) : d >= e => d \in E
    BY <1>0, <2>1 DEF Scored!Quoted
  <2> HIDE DEF b, Q, E
  <2>8. PICK k \in 2 .. l : /\ FirstOf(Scored!Window(Q, e, x), Q, k)
                            /\ Q[k] >= x /\ \A i \in 2 .. (k - 1) : Q[i] < x
    BY <2>1, <2>4, <2>5, <2>6, WindowEndsRight
  <2>9. 1 \in 1 .. k /\ k \in 1 .. k /\ k \in 1 .. l /\ 1 \in 1 .. l
    OBVIOUS
  <2>10. b[1] = Q[1] /\ b[Len(b)] = Q[k]
    BY <2>3, <2>8, <2>9 DEF FirstOf
  <2>11. Q[1] \in E /\ Q[k] \in E /\ \A i \in 1 .. l : Q[i] \in Int
    BY <2>4, <2>9 DEF InTime
  <2>12. ASSUME NEW d \in Scored!Quoted(benchmark, t), d >= e PROVE d >= Q[1]
    <3>1. PICK i \in 1 .. l : d = Q[i]
      BY <2>4, <2>7, <2>12 DEF InTime
    <3>2. ~(Q[i] < Q[1])
      BY <2>4, <2>9 DEF InTime
    <3> QED BY <2>9, <2>11, <3>1, <3>2
  <2> QED BY <2>5, <2>8, <2>10, <2>11, <2>12
<1>19. Cardinality({s \in {-30, 0, 30} :
         Scored!DirectionCorrect(s, asset[P[1]], asset[P[m]], Band(h))}) = 1
  <2>1. asset[P[1]] \in Nat /\ asset[P[1]] > 0 /\ asset[P[m]] \in Nat
    BY <1>4, <1>12
  <2>2. Band(h) \in Nat
    BY <1>0
  <2> DEFINE from == asset[P[1]]
             to == asset[P[m]]
             band == Band(h)
  <2>3. from \in Nat /\ from > 0 /\ to \in Nat /\ band \in Nat
    BY <2>1, <2>2
  <2> HIDE DEF from, to, band
  <2>4. Cardinality({s \in {-30, 0, 30} : Scored!DirectionCorrect(s, from, to, band)}) = 1
    BY <2>3, OneCallIsRight
  <2> QED BY <2>4 DEF from, to, band
<1>20. \A c, d \in inside :
         c <= d => ~Scored!Deeper(<<asset[d], asset[c]>>, o.drawdown)
  <2>1. \A k \in 1 .. m : asset[w[k]] \in Nat \ {0}
    <3>1. \A k \in 1 .. m : w[k] = P[k] /\ k \in 1 .. n
      BY <1>7, <1>9 DEF FirstOf
    <3> QED BY <1>4, <1>11, <3>1
  <2>2. \A i, j \in 1 .. m : i <= j =>
          ~Scored!Deeper(<<asset[w[j]], asset[w[i]]>>, Scored!MaxDrawdown(w))
    <3>1. DOMAIN w = 1 .. m /\ m > 0
      BY <1>7, <1>9 DEF FirstOf
    <3> QED BY <1>9, <2>1, <3>1, DrawdownIsDeepest
  <2>3. ASSUME NEW d \in inside PROVE \E k \in 1 .. m : d = w[k] /\ d = P[k]
    <3>1. d \in D /\ P[1] <= d /\ d <= P[m]
      BY <1>14, <2>3
    <3>2. PICK k \in 1 .. n : d = P[k]
      BY <1>1, <3>1 DEF InTime
    <3>3. ~(m < k)
      BY <1>9, <1>11, <3>1, <3>2
    <3>4. k \in 1 .. m
      BY <3>3
    <3> QED BY <1>7, <3>2, <3>4 DEF FirstOf
  <2> TAKE c \in inside, d \in inside
  <2> HAVE c <= d
  <2>4. PICK i \in 1 .. m : c = w[i] /\ c = P[i]
    BY <2>3
  <2>5. PICK j \in 1 .. m : d = w[j] /\ d = P[j]
    BY <2>3
  <2>6. i \in 1 .. n /\ j \in 1 .. n /\ i \in Int /\ j \in Int
    BY <1>9
  <2>7. ~(P[j] < P[i])
    BY <1>11, <2>4, <2>5, <2>6
  <2>8. i <= j
    BY <1>11, <2>6, <2>7
  <2> QED BY <1>8, <2>2, <2>4, <2>5, <2>8
<1>21. \A S : Scored!Cardinality(S) = Cardinality(S)
  BY ScoredRanks
<1> HIDE DEF o
<1>22. o.entry = P[1] /\ o.exit = P[m] /\ o.observed = t
  BY <1>8, <1>10
<1>23. inside = {d \in Scored!Quoted(asset, o.observed) : o.entry <= d /\ d <= o.exit}
  BY <1>10, <1>22 DEF closes
<1> HIDE DEF inside
<1>24. /\ o.entry \in closes /\ o.exit \in closes /\ o.entry < o.exit
       /\ o.entry >= advice.asOf /\ \A d \in closes : d >= advice.asOf => d >= o.entry
       /\ closes = Scored!Quoted(asset, o.observed)
  BY <1>12, <1>13, <1>22 DEF closes, a
<1>25. IF advice.unit = "trading_sessions"
       THEN Cardinality(inside) = advice.horizon + 1
       ELSE /\ o.exit >= advice.asOf + advice.horizon
            /\ \A d \in closes : o.entry < d /\ d < o.exit => d < advice.asOf + advice.horizon
  BY <1>17, <1>22 DEF a, h
<1>26. o.benchmark # <<>> =>
         /\ o.benchmark[1] >= o.entry /\ o.benchmark[2] >= o.exit
         /\ o.benchmark[2] <= o.observed
         /\ \A d \in Scored!Quoted(benchmark, o.observed) :
              d >= o.entry => d >= o.benchmark[1]
  BY <1>18, <1>22
<1>27. Cardinality({s \in {-30, 0, 30} :
         Scored!DirectionCorrect(s, asset[o.entry], asset[o.exit], Band(advice.horizon))}) = 1
  BY <1>19, <1>22 DEF h
<1> QED
  BY <1>5, <1>20, <1>21, <1>23, <1>24, <1>25, <1>26, <1>27, Zenon DEF OutcomeRight, o

\* The deepest fall of a window, with the prices as a parameter.
FallOf(series, w) ==
  LET Step(x, acc) ==
        LET peak == IF x > acc.peak THEN x ELSE acc.peak
        IN  [peak |-> peak,
             worst |-> IF x * acc.worst[2] < acc.worst[1] * peak THEN <<x, peak>> ELSE acc.worst]
  IN  Scored!FoldLeft(LAMBDA acc, d : Step(series[d], acc),
                      [peak |-> series[w[1]], worst |-> <<1, 1>>], w).worst

\* What may be scored depends on the recommendation and the prices alone.
LEMMA ScorableStays ==
    ASSUME advice' = advice, asset' = asset, benchmark' = benchmark
    PROVE  Scorable' = Scorable
<1>1. \A s, a, t : Scored!PricePoints(s, a, t)' = Scored!PricePoints(s, a, t)
  BY DEF Scored!PricePoints, Scored!Ascending, Scored!InOrder, Scored!Nth, Scored!Rank,
         Scored!Upwards
<1>2. \A t : Scored!WindowAt(t)' = Scored!WindowAt(t)
  BY <1>1 DEF Scored!WindowAt, Scored!SessionWindow, Scored!Window, Scored!FirstFrom
<1>3. \A e, x, t : Scored!BenchmarkWindow(e, x, t)' = Scored!BenchmarkWindow(e, x, t)
  BY <1>1 DEF Scored!BenchmarkWindow, Scored!Window, Scored!FirstFrom
<1>4. \A w : Scored!MaxDrawdown(w)' = Scored!MaxDrawdown(w)
  <2> TAKE w
  <2>1. Scored!MaxDrawdown(w) = FallOf(asset, w)
    BY DEF Scored!MaxDrawdown, FallOf, Scored!Deeper, Scored!FoldLeft, Scored!MapThenFoldSet
  <2>2. Scored!MaxDrawdown(w)' = FallOf(asset', w)
    BY DEF Scored!MaxDrawdown, FallOf, Scored!Deeper, Scored!FoldLeft, Scored!MapThenFoldSet
  <2> QED BY <2>1, <2>2
<1>5. \A s, x, y, b : Scored!DirectionCorrect(s, x, y, b)' = Scored!DirectionCorrect(s, x, y, b)
  BY DEF Scored!DirectionCorrect, Scored!Above, Scored!Below
<1>6. \A t : Scored!Outcome(t)' = Scored!Outcome(t)
  BY <1>2, <1>3, <1>4, <1>5 DEF Scored!Outcome
<1> QED BY <1>2, <1>6 DEF Scorable, Scored!Day

\* Evaluations that overlap and days that pass keep what is said of the outcomes.
LEMMA OutcomesNext == ASSUME OutcomesInv, [Scored!Next]_outcomeVars PROVE OutcomesInv'
<1>1. /\ advice' = advice /\ asset' = asset /\ benchmark' = benchmark
  BY DEF Scored!Next, Scored!DayPasses, Scored!StartScan, Scored!Evaluate, outcomeVars
<1>2. Scorable' = Scorable
  BY <1>1, ScorableStays
<1> HIDE DEF Scorable
<1>3. CASE UNCHANGED outcomeVars
  BY <1>2, <1>3 DEF OutcomesInv, OutcomeTypes, OneAtATime, outcomeVars, Scored!Day
<1>4. CASE Scored!DayPasses
  BY <1>2, <1>4, OutcomesAssumption
     DEF Scored!DayPasses, OutcomesInv, OutcomeTypes, OneAtATime, Scored!Day
<1>5. ASSUME NEW e \in Evaluator, Scored!StartScan(e) PROVE OutcomesInv'
  <2> USE <1>5 DEF Scored!StartScan
  <2>1. OutcomeTypes'
    <3>1. overlapped' \in BOOLEAN
      BY Zenon DEF OutcomesInv, OutcomeTypes
    <3> QED BY <1>1, <3>1 DEF OutcomesInv, OutcomeTypes, Scored!Day
  <2>2. outcomes' \in Seq(Scorable')
    BY <1>2 DEF OutcomesInv
  <2>3. OneAtATime'
    <3> SUFFICES ASSUME ~overlapped'
                 PROVE  /\ Len(outcomes) <= 1
                        /\ \A f \in Evaluator : scan'[f].on => f = e
                        /\ Len(outcomes) # 0 => scan'[e].known
      BY DEF OneAtATime, OutcomesInv
    <3>1. ~overlapped /\ \A f \in Evaluator : f # e => ~scan[f].on
      BY Zenon
    <3>2. /\ scan'[e].known = (outcomes # <<>>)
          /\ \A f \in Evaluator : f # e => scan'[f] = scan[f]
      BY DEF OutcomesInv, OutcomeTypes
    <3>3. Len(outcomes) # 0 => outcomes # <<>>
      OBVIOUS
    <3> QED BY <3>1, <3>2, <3>3 DEF OutcomesInv, OneAtATime
  <2> QED BY <2>1, <2>2, <2>3 DEF OutcomesInv
<1>6. ASSUME NEW e \in Evaluator, Scored!Evaluate(e) PROVE OutcomesInv'
  <2> USE <1>6 DEF Scored!Evaluate
  <2>1. OutcomeTypes'
    BY <1>1 DEF OutcomesInv, OutcomeTypes, Scored!Day, Scored!Resting
  <2>2. outcomes' \in Seq(Scorable)
    <3>1. CASE ~scan[e].known /\ Scored!WindowAt(scan[e].at) # <<>>
      <4>1. Scored!Outcome(scan[e].at) \in Scorable
        BY <3>1 DEF Scorable, OutcomesInv, OutcomeTypes
      <4> QED BY <3>1, <4>1 DEF OutcomesInv
    <3>2. CASE ~(~scan[e].known /\ Scored!WindowAt(scan[e].at) # <<>>)
      BY <3>2 DEF OutcomesInv
    <3> QED BY <3>1, <3>2
  <2>3. OneAtATime'
    <3>1. outcomes' = outcomes \/ (~scan[e].known /\ Len(outcomes') = Len(outcomes) + 1)
      BY DEF OutcomesInv
    <3>2. scan'[e].on = FALSE /\ \A f \in Evaluator : f # e => scan'[f] = scan[f]
      BY DEF OutcomesInv, OutcomeTypes, Scored!Resting
    <3> QED BY <3>1, <3>2 DEF OutcomesInv, OutcomeTypes, OneAtATime
  <2> QED BY <1>2, <2>1, <2>2, <2>3 DEF OutcomesInv
<1> QED BY <1>3, <1>4, <1>5, <1>6 DEF Scored!Next

\* No evaluation runs at first, and there is no outcome.
LEMMA OutcomesStart == ASSUME Scored!Init PROVE OutcomesInv
<1>1. \A c \in Closes : c \in Nat
  BY OutcomesAssumption, Zenon
<1>2. \A d \in Scored!Day : asset[d] \in Closes
  BY DEF Scored!Init
<1>3. /\ advice.asOf \in Nat /\ advice.horizon \in Horizons /\ today \in Scored!Day
      /\ scan = [e \in Evaluator |-> Scored!Resting] /\ overlapped = FALSE /\ outcomes = <<>>
  BY OutcomesAssumption DEF Scored!Init, Scored!Day
<1>4. \A d \in Scored!Day : asset[d] \in Nat
  BY <1>1, <1>2
<1>5. OutcomeTypes
  BY <1>3, <1>4 DEF OutcomeTypes, Scored!Resting
<1>6. OneAtATime
  BY <1>3 DEF OneAtATime, Scored!Resting
<1> QED BY <1>3, <1>5, <1>6 DEF OutcomesInv

\* Every outcome is scored on the right prices, whatever they are and however the
\* evaluations overlap: the entry and the exit, the benchmark over the same time, the
\* call that is right, the deepest drawdown; and a recommendation has a second outcome
\* only if two evaluations ran at once (services/outcomes.py, evaluate_due, _evaluate).
THEOREM OutcomesAreSound == ResearchSpec => []OutcomeIsRight
<1>1. ResearchInit => OutcomesInv
  BY OutcomesStart DEF ResearchInit
<1>2. OutcomesInv /\ [ResearchNext]_<<part, researchVars>> => OutcomesInv'
  BY OutcomesNext, ResearchMoves
<1>3. OutcomesInv => OutcomeIsRight
  <2> SUFFICES ASSUME OutcomesInv PROVE Scored!OutcomeIsRight
    BY DEF OutcomeIsRight
  <2>1. ASSUME NEW i \in DOMAIN outcomes PROVE OutcomeRight(outcomes[i])
    <3>1. outcomes[i] \in Scorable
      BY <2>1 DEF OutcomesInv
    <3>2. PICK t \in Scored!Day : Scored!WindowAt(t) # <<>> /\ outcomes[i] = Scored!Outcome(t)
      BY <3>1, Zenon DEF Scorable
    <3>3. OutcomeRight(Scored!Outcome(t))
      BY <3>2, OutcomesAreRight DEF OutcomesInv
    <3> QED BY <3>2, <3>3
  <2>2. ~overlapped => Len(outcomes) <= 1
    BY DEF OutcomesInv, OneAtATime
  <2> QED BY <2>1, <2>2, Zenon DEF OutcomeRight, Scored!OutcomeIsRight
<1> QED BY <1>1, <1>2, <1>3, PTL DEF ResearchSpec

-----------------------------------------------------------------------------
\* A total is a sum.
LEMMA TotalIsSum ==
    ASSUME NEW f, IsFiniteSet(DOMAIN f), \A i \in DOMAIN f : f[i] \in Int
    PROVE  \E h : Sums(f, h) /\ Trends!Total(f) = h[DOMAIN f]
<1>1. Trends!Total(f) = SumOf(f)
  BY Zenon DEF SumOf, Adds, Trends!Total, Trends!MapThenSumSet, Trends!MapThenFoldSet
<1> QED BY <1>1, SumIsFolded

\* A number between two multiples of a positive number, divided by it.
LEMMA QuotientWithin ==
    ASSUME NEW a \in Int, NEW b \in Int, NEW n \in Int, NEW d \in Int, d > 0,
           a * d <= n, n <= b * d
    PROVE  n \div d \in a .. b
<1> DEFINE q == n \div d
<1>1. q \in Int /\ q * d <= n /\ n < (q + 1) * d
  OBVIOUS
<1> HIDE DEF q
<1>2. q <= b
  <2>1. SUFFICES ASSUME q >= b + 1 PROVE FALSE
    BY <1>1
  <2>2. q * d >= (b + 1) * d
    BY <1>1, <2>1
  <2>3. (b + 1) * d = b * d + d
    OBVIOUS
  <2> DEFINE x == b * d
             y == q * d
  <2>4. x \in Int /\ y \in Int /\ y >= x + d /\ n <= x /\ y <= n
    BY <1>1, <2>2, <2>3
  <2> HIDE DEF x, y
  <2> QED BY <2>4
<1>3. a <= q
  <2>1. SUFFICES ASSUME q + 1 <= a PROVE FALSE
    BY <1>1
  <2>2. (q + 1) * d <= a * d
    BY <1>1, <2>1
  <2> DEFINE x == a * d
             y == (q + 1) * d
  <2>3. x \in Int /\ y \in Int /\ y <= x /\ x <= n /\ n < y
    BY <1>1, <2>2
  <2> HIDE DEF x, y
  <2> QED BY <2>3
<1> QED BY <1>1, <1>2, <1>3 DEF q

\* A mean lies where the values lie that it is made of.
LEMMA MeanWithin ==
    ASSUME NEW x, NEW w, IsFiniteSet(DOMAIN w), DOMAIN w # {},
           NEW a \in Int, NEW b \in Int,
           \A i \in DOMAIN w : w[i] \in Nat /\ w[i] > 0 /\ x[i] \in a .. b
    PROVE  Trends!Mean(x, w) \in a .. b
<1> DEFINE S == DOMAIN w
           p == [i \in S |-> x[i] * w[i]]
           Pairs == [n : Int, d : Nat]
           W(s) == {y \in Pairs : /\ a * y.d <= y.n /\ y.n <= b * y.d
                                  /\ s # {} => y.d > 0}
           V == [s \in SUBSET S |-> W(s)]
           pick == [s \in SUBSET S |-> Any(s)]
<1>1. \A i \in S : p[i] \in Int /\ a * w[i] <= p[i] /\ p[i] <= b * w[i] /\ w[i] \in Nat /\ w[i] > 0
  <2> TAKE i \in S
  <2>1. w[i] \in Nat /\ w[i] > 0 /\ x[i] \in Int /\ a <= x[i] /\ x[i] <= b
    OBVIOUS
  <2>2. x[i] * w[i] \in Int /\ a * w[i] <= x[i] * w[i] /\ x[i] * w[i] <= b * w[i]
    BY <2>1
  <2> QED BY <2>1, <2>2
<1>2. DOMAIN p = S
  OBVIOUS
<1> HIDE DEF p
<1>3. PICK n : Sums(p, n) /\ Trends!Total(p) = n[S]
  <2>1. \A i \in DOMAIN p : p[i] \in Int
    BY <1>1, <1>2
  <2> QED BY <1>2, <2>1, TotalIsSum
<1>4. PICK d : Sums(w, d) /\ Trends!Total(w) = d[S]
  <2>1. \A i \in DOMAIN w : w[i] \in Int
    BY <1>1
  <2> QED BY <2>1, TotalIsSum
<1> DEFINE h == [s \in SUBSET S |-> [n |-> n[s], d |-> d[s]]]
<1>5. \A s \in SUBSET S : s # {} => pick[s] = Any(s) /\ pick[s] \in s /\ s \ {pick[s]} \in SUBSET S
  BY DEF Any
<1>6. \A s \in SUBSET S : n[s] \in Int /\ d[s] \in Int
  BY <1>2, <1>3, <1>4 DEF Sums
<1>7. n[{}] = 0 /\ d[{}] = 0
  BY <1>2, <1>3, <1>4 DEF Sums
<1> HIDE DEF pick
<1>8. \A s \in SUBSET S : s # {} =>
         /\ n[s] = p[pick[s]] + n[s \ {pick[s]}]
         /\ d[s] = w[pick[s]] + d[s \ {pick[s]}]
  BY <1>2, <1>3, <1>4, <1>5 DEF Sums
<1>9. \A s \in SUBSET S : V[s] = W(s)
  OBVIOUS
<1> HIDE DEF V
<1>10. h[{}] \in V[{}]
  BY <1>7, <1>9
<1>11. ASSUME NEW s \in SUBSET S, s # {}, h[s \ {pick[s]}] \in V[s \ {pick[s]}]
       PROVE  h[s] \in V[s]
  <2> DEFINE i == pick[s]
             r == s \ {i}
  <2>1. r \in SUBSET S /\ i \in S
    BY <1>5, <1>11
  <2>2. h[r] \in W(r)
    BY <1>9, <1>11, <2>1
  <2>3. h[r].n = n[r] /\ h[r].d = d[r]
    BY <2>1
  <2>4. n[r] \in Int /\ d[r] \in Nat /\ a * d[r] <= n[r] /\ n[r] <= b * d[r]
    BY <2>2, <2>3
  <2>5. /\ p[i] \in Int /\ a * w[i] <= p[i] /\ p[i] <= b * w[i]
        /\ w[i] \in Nat /\ w[i] > 0
    BY <1>1, <2>1
  <2>6. n[s] = p[i] + n[r] /\ d[s] = w[i] + d[r]
    BY <1>8, <1>11
  <2>7. a * d[s] <= n[s] /\ n[s] <= b * d[s] /\ n[s] \in Int /\ d[s] \in Nat /\ d[s] > 0
    <3> DEFINE u == w[i]
               v == d[r]
               y == p[i]
               z == n[r]
    <3>1. u \in Nat /\ u > 0 /\ v \in Nat /\ y \in Int /\ z \in Int
      BY <2>4, <2>5
    <3>2. a * u <= y /\ y <= b * u /\ a * v <= z /\ z <= b * v
      BY <2>4, <2>5
    <3>3. n[s] = y + z /\ d[s] = u + v
      BY <2>6
    <3> HIDE DEF u, v, y, z
    <3>4. a * (u + v) = a * u + a * v /\ b * (u + v) = b * u + b * v
      BY <3>1
    <3>5. a * u \in Int /\ a * v \in Int /\ b * u \in Int /\ b * v \in Int
      BY <3>1
    <3>6. a * (u + v) <= y + z /\ y + z <= b * (u + v)
      BY <3>1, <3>2, <3>4, <3>5
    <3> QED BY <3>1, <3>3, <3>6
  <2>8. h[s] = [n |-> n[s], d |-> d[s]]
    OBVIOUS
  <2>9. h[s] \in W(s)
    BY <2>7, <2>8
  <2> QED BY <1>9, <2>9
<1>12. h[S] \in V[S]
  <2> HIDE DEF h
  <2>1. Kept(S, V, pick, h)
    BY <1>5, <1>10, <1>11 DEF Kept
  <2> QED BY <2>1, FoldKeeps
<1>13. /\ n[S] \in Int /\ d[S] \in Int /\ d[S] > 0
       /\ a * d[S] <= n[S] /\ n[S] <= b * d[S]
  BY <1>6, <1>9, <1>12
<1>14. Trends!Mean(x, w) = n[S] \div d[S]
  <2>1. Trends!Mean(x, w) = Trends!Total(p) \div Trends!Total(w)
    BY DEF Trends!Mean, p
  <2> QED BY <1>3, <1>4, <2>1
<1> QED BY <1>13, <1>14, QuotientWithin

\* The greatest and the least of two numbers.
LEMMA MaxOfTwo ==
    ASSUME NEW x \in Int, NEW y \in Int
    PROVE  Trends!Max({x, y}) = IF x >= y THEN x ELSE y
<1>1. \E m \in {x, y} : \A z \in {x, y} : m >= z
  OBVIOUS
<1>2. Trends!Max({x, y}) \in {x, y} /\ \A z \in {x, y} : Trends!Max({x, y}) >= z
  BY <1>1 DEF Trends!Max
<1> QED BY <1>2

\* The same for the least.
LEMMA MinOfTwo ==
    ASSUME NEW x \in Int, NEW y \in Int
    PROVE  Trends!Min({x, y}) = IF x <= y THEN x ELSE y
<1>1. \E m \in {x, y} : \A z \in {x, y} : m <= z
  OBVIOUS
<1>2. Trends!Min({x, y}) \in {x, y} /\ \A z \in {x, y} : Trends!Min({x, y}) <= z
  BY <1>1 DEF Trends!Min
<1> QED BY <1>2

\* What is kept between two numbers.
LEMMA BetweenIs ==
    ASSUME NEW a \in Int, NEW x \in Int, NEW b \in Int, a <= b
    PROVE  Trends!Between(a, x, b) = IF x < a THEN a ELSE IF x > b THEN b ELSE x
<1>1. Trends!Min({x, b}) = IF x <= b THEN x ELSE b
  BY MinOfTwo
<1>2. Trends!Min({x, b}) \in Int
  BY <1>1
<1>3. Trends!Max({a, Trends!Min({x, b})}) = IF a >= Trends!Min({x, b}) THEN a ELSE Trends!Min({x, b})
  BY <1>2, MaxOfTwo
<1> QED BY <1>1, <1>2, <1>3 DEF Trends!Between

\* What a report says of the target.
Observations ==
  [age : Age, news : 0 .. 100, weak : BOOLEAN, score : -100 .. 100, rating : 0 .. 100,
   persistence : 0 .. 100, realization : 0 .. 100]

\* The quality of an observation is a share, its step a number.
LEMMA StepsAreNumbers ==
    ASSUME NEW o \in Observations
    PROVE  /\ Trends!Quality(o) \in 0 .. 100
           /\ Trends!MaximumStep(o) \in Nat
           /\ o.score * Trends!Unit \in Int
           /\ LongDecay[o.age] \in 0 .. 100 /\ ShortDecay[o.age] \in 0 .. 100
<1>1. /\ o.rating \in 0 .. 100 /\ o.news \in 0 .. 100 /\ o.persistence \in 0 .. 100
      /\ o.realization \in 0 .. 100 /\ o.age \in Age /\ o.score \in -100 .. 100
  BY DEF Observations
<1>2. Trends!Quality(o) \in 0 .. 100
  <2> DEFINE a == o.rating
             b == o.news
             c == o.persistence
             d == o.realization
  <2>1. a \in 0 .. 100 /\ b \in 0 .. 100 /\ c \in 0 .. 100 /\ d \in 0 .. 100
    BY <1>1
  <2>2. Trends!Quality(o) = (a + b + c + d) \div 4
    BY DEF Trends!Quality
  <2> HIDE DEF a, b, c, d
  <2>3. a + b + c + d \in 0 .. 400
    BY <2>1
  <2>4. (a + b + c + d) \div 4 \in 0 .. 100
    BY <2>3
  <2> QED BY <2>2, <2>4
<1>3. LongDecay[o.age] \in 0 .. 100 /\ ShortDecay[o.age] \in 0 .. 100
  BY <1>1, TrendsAssumption
<1>4. Trends!MaximumStep(o) \in Nat
  <2> DEFINE l == Trends!StepLimit(o)
             d == LongDecay[o.age]
             q == Trends!Quality(o)
  <2>1. l \in Nat /\ d \in Nat /\ q \in Nat
    BY <1>2, <1>3 DEF Trends!StepLimit
  <2>2. Trends!MaximumStep(o) = l * d * q
    BY DEF Trends!MaximumStep
  <2> HIDE DEF l, d, q
  <2> QED BY <2>1, <2>2
<1> QED BY <1>1, <1>2, <1>3, <1>4 DEF Trends!Unit

InRange(y) == y \in -100 * Trends!Unit .. 100 * Trends!Unit

\* Scores in range are numbers, and 0 is one.
LEMMA RangeHolds == InRange(0) /\ \A y : InRange(y) => y \in Int
<1> DEFINE c == 100 * Trends!Unit
<1>1. c \in Nat /\ -c = -100 * Trends!Unit
  BY DEF Trends!Unit
<1>2. \A y : InRange(y) <=> y \in -c .. c
  BY <1>1 DEF InRange
<1> HIDE DEF c
<1> QED BY <1>1, <1>2

\* A score in range stays in range, moves by no more than the step, and two scores
\* that a step moves come no farther apart.
LEMMA StepMovesLittle ==
    ASSUME NEW o \in Observations, NEW y, InRange(y)
    PROVE  /\ InRange(Trends!Step(y, o))
           /\ Trends!Step(y, o) - y \in -Trends!MaximumStep(o) .. Trends!MaximumStep(o)
           /\ \A z, m : InRange(z) /\ m \in Nat /\ y - z \in -m .. m =>
                Trends!Step(y, o) - Trends!Step(z, o) \in -m .. m
<1> DEFINE c == 100 * Trends!Unit
           s == Trends!MaximumStep(o)
           t == o.score * Trends!Unit
           Clamped(a, x, b) == IF x < a THEN a ELSE IF x > b THEN b ELSE x
<1>1. s \in Nat /\ t \in Int
  BY StepsAreNumbers
<1>2. c \in Nat /\ -c = -100 * Trends!Unit
  BY DEF Trends!Unit
<1> HIDE DEF s, t, c
<1>3. ASSUME NEW x \in Int
      PROVE  Trends!Step(x, o) = Clamped(-c, x + Clamped(-s, t - x, s), c)
  <2>1. Trends!Between(-s, t - x, s) = Clamped(-s, t - x, s)
    BY <1>1, BetweenIs
  <2>2. x + Clamped(-s, t - x, s) \in Int
    BY <1>1
  <2>3. Trends!Between(-c, x + Clamped(-s, t - x, s), c) = Clamped(-c, x + Clamped(-s, t - x, s), c)
    <3> HIDE DEF Clamped
    <3> QED BY <1>2, <2>2, BetweenIs DEF Clamped
  <2> HIDE DEF Clamped
  <2> QED BY <1>2, <2>1, <2>3 DEF Trends!Step, c, s, t
<1>4. y \in Int /\ -c <= y /\ y <= c
  BY <1>2 DEF InRange, c
<1>5. InRange(Trends!Step(y, o)) /\ Trends!Step(y, o) - y \in -s .. s
  <2>1. Trends!Step(y, o) \in -c .. c /\ Trends!Step(y, o) - y \in -s .. s
    BY <1>1, <1>2, <1>3, <1>4
  <2> QED BY <1>2, <2>1 DEF InRange, c
<1>6. ASSUME NEW z, NEW m, InRange(z), m \in Nat, y - z \in -m .. m
      PROVE  Trends!Step(y, o) - Trends!Step(z, o) \in -m .. m
  <2>1. z \in Int /\ -c <= z /\ z <= c
    BY <1>2, <1>6 DEF InRange, c
  <2> QED BY <1>1, <1>2, <1>3, <1>4, <1>6, <2>1
<1> QED BY <1>5, <1>6 DEF s

\* A sequence of n observations, and those of them that count for the regime.
Listed(os, n) ==
  n \in Nat /\ DOMAIN os = 1 .. n /\ \A i \in 1 .. n : os[i] \in Observations
Counted(os) == {i \in Trends!InWindow(os, 90) : Trends!Eligible(os[i])}

\* Of some that count one comes last.
LEMMA LatestIsLast ==
    ASSUME NEW os, NEW n, Listed(os, n), NEW s \in SUBSET Counted(os), s # {}
    PROVE  /\ Trends!Latest(os, s) \in s
           /\ \A j \in s : j = Trends!Latest(os, s) \/ Trends!Before(os, j, Trends!Latest(os, s))
           /\ \A i \in s : (\A j \in s : j = i \/ Trends!Before(os, j, i)) =>
                i = Trends!Latest(os, s)
<1>1. \A i \in s : i \in 1 .. n /\ i \in 0 .. n /\ i \in Int /\ os[i].age \in Nat
  <2> TAKE i \in s
  <2>1. i \in 1 .. n /\ 0 <= os[i].age
    BY DEF Counted, Trends!InWindow, Listed
  <2>2. os[i] \in Observations
    BY <2>1 DEF Listed
  <2>3. os[i].age \in Age
    BY <2>2 DEF Observations
  <2>4. os[i].age \in Int
    BY <2>3, TrendsAssumption
  <2>5. n \in Nat
    BY DEF Listed
  <2> QED BY <2>1, <2>4, <2>5
<1>2. PICK a \in {os[i].age : i \in s} : \A b \in {os[i].age : i \in s} : a <= b
  <2> DEFINE A == {os[i].age : i \in s}
  <2>1. A \subseteq Nat /\ A # {}
    BY <1>1
  <2> HIDE DEF A
  <2>2. \E a \in A : \A b \in A : a <= b
    BY <2>1, LeastExists
  <2> QED BY <2>2 DEF A
<1> DEFINE Young == {i \in s : os[i].age = a}
<1>3. PICK l \in Young : \A j \in Young : j <= l
  <2>1. Young # {} /\ \A i \in Young : i \in 0 .. n
    BY <1>1, <1>2
  <2>2. n \in Nat
    BY DEF Listed
  <2> HIDE DEF Young
  <2> QED BY <2>1, <2>2, GreatestExists
<1>4. l \in s /\ os[l].age = a
  OBVIOUS
<1>5. \A j \in s : j = l \/ Trends!Before(os, j, l)
  <2> TAKE j \in s
  <2>1. a <= os[j].age
    BY <1>2
  <2>2. os[j].age = a => j <= l
    BY <1>3
  <2> QED BY <1>1, <1>4, <2>1, <2>2 DEF Trends!Before
<1>6. ASSUME NEW i \in s, \A j \in s : j = i \/ Trends!Before(os, j, i) PROVE i = l
  <2>1. l = i \/ Trends!Before(os, l, i)
    BY <1>4, <1>6
  <2>2. i = l \/ Trends!Before(os, i, l)
    BY <1>5
  <2> QED BY <1>1, <1>4, <2>1, <2>2 DEF Trends!Before
<1>7. Trends!Latest(os, s) \in s /\
      \A j \in s : j = Trends!Latest(os, s) \/ Trends!Before(os, j, Trends!Latest(os, s))
  <2> HIDE DEF Young
  <2> QED BY <1>4, <1>5 DEF Trends!Latest
<1>8. Trends!Latest(os, s) = l
  BY <1>6, <1>7
<1> QED BY <1>6, <1>7, <1>8

\* The score that the observations of a subset lead to, one step after the other.
Regime(os, S, g) ==
  /\ g = [s \in SUBSET S |->
           IF s = {} THEN 0
           ELSE Trends!Step(g[s \ {Trends!Latest(os, s)}], os[Trends!Latest(os, s)])]
  /\ \A s \in SUBSET S : InRange(g[s])

\* The long-term score is what all that count lead to, and it is in range.
LEMMA LongTermIsRegime ==
    ASSUME NEW os, NEW n, Listed(os, n)
    PROVE  /\ IsFiniteSet(Counted(os))
           /\ \E g : Regime(os, Counted(os), g) /\ Trends!LongTerm(os).score = g[Counted(os)]
<1> DEFINE S == Counted(os)
           pick == [s \in SUBSET S |-> Trends!Latest(os, s)]
           Span == -100 * Trends!Unit .. 100 * Trends!Unit
           V == [s \in SUBSET S |-> Span]
           F == [s \in SUBSET S |-> [y \in Span |-> Trends!Step(y, os[pick[s]])]]
           Eq(h) == h = [s \in SUBSET S |->
              IF s = {} THEN 0
              ELSE LET x == Trends!Latest(os, s) IN Trends!Step(h[s \ {x}], os[x])]
<1>0. IsFiniteSet(S)
  <2>1. S \subseteq 1 .. n /\ n \in Nat
    BY DEF Counted, Trends!InWindow, Listed
  <2> QED BY <2>1, FS_Interval, FS_Subset
<1>1. \A s \in SUBSET S : s # {} =>
         pick[s] \in s /\ pick[s] = Trends!Latest(os, s) /\ os[pick[s]] \in Observations
  <2> TAKE s \in SUBSET S
  <2> HAVE s # {}
  <2>1. pick[s] = Trends!Latest(os, s)
    OBVIOUS
  <2>2. pick[s] \in s
    BY <2>1, LatestIsLast
  <2>3. pick[s] \in 1 .. n
    BY <2>2 DEF Counted, Trends!InWindow, Listed
  <2> QED BY <2>1, <2>2, <2>3 DEF Listed
<1>2. Trends!LongTerm(os).score = (CHOOSE h : Eq(h))[S]
  BY DEF Trends!LongTerm, Trends!MapThenFoldSet, Counted
<1> HIDE DEF pick, S
<1>3. \A s \in SUBSET S : V[s] = Span /\ s \ {pick[s]} \in SUBSET S
  OBVIOUS
<1>4. 0 \in V[{}]
  <2>1. 0 \in Span
    BY RangeHolds DEF InRange
  <2> HIDE DEF Span
  <2> QED BY <1>3, <2>1
<1>5. \A s \in SUBSET S : s # {} =>
         pick[s] \in s /\ \A y \in V[s \ {pick[s]}] : F[s][y] \in V[s]
  <2> TAKE s \in SUBSET S
  <2> HAVE s # {}
  <2>1. pick[s] \in s /\ os[pick[s]] \in Observations
    BY <1>1
  <2>2. ASSUME NEW y \in Span PROVE Trends!Step(y, os[pick[s]]) \in Span
    <3>1. InRange(y)
      BY <2>2 DEF InRange
    <3>2. InRange(Trends!Step(y, os[pick[s]]))
      BY <2>1, <3>1, StepMovesLittle
    <3> QED BY <3>2 DEF InRange
  <2> HIDE DEF Span
  <2>3. \A y \in Span : F[s][y] = Trends!Step(y, os[pick[s]])
    OBVIOUS
  <2> HIDE DEF F, V
  <2> QED BY <1>3, <2>1, <2>2, <2>3
<1> HIDE DEF V, Span
<1>6. PICK g : /\ g = [s \in SUBSET S |-> IF s = {} THEN 0 ELSE F[s][g[s \ {pick[s]}]]]
               /\ \A s \in SUBSET S : g[s] \in V[s]
  <2> HIDE DEF F
  <2>1. Folds(S, V, 0, pick, F)
    BY <1>0, <1>4, <1>5 DEF Folds
  <2>2. PICK g : Folded(S, 0, pick, F, g) /\ \A s \in SUBSET S : g[s] \in V[s]
    BY <2>1, FoldExists
  <2> QED BY <2>2 DEF Folded
<1>7. \A s \in SUBSET S : s # {} =>
         F[s][g[s \ {pick[s]}]] = Trends!Step(g[s \ {pick[s]}], os[pick[s]])
  <2>1. \A s \in SUBSET S : g[s \ {pick[s]}] \in Span
    BY <1>3, <1>6
  <2> QED BY <2>1
<1>8. Eq(g)
  <2> HIDE DEF F
  <2> QED BY <1>1, <1>6, <1>7
<1> DEFINE h == CHOOSE h : Eq(h)
<1>9. Eq(h)
  <2> HIDE DEF Eq
  <2> QED BY <1>8
<1> HIDE DEF h
<1>10. h[{}] \in V[{}]
  BY <1>4, <1>9
<1>11. \A s \in SUBSET S : s # {} => h[s] = Trends!Step(h[s \ {pick[s]}], os[pick[s]])
  BY <1>1, <1>9
<1>12. ASSUME NEW s \in SUBSET S, s # {}, h[s \ {pick[s]}] \in V[s \ {pick[s]}]
       PROVE  h[s] \in V[s]
  <2>1. InRange(h[s \ {pick[s]}])
    BY <1>3, <1>12 DEF InRange, Span
  <2>2. InRange(h[s])
    BY <1>1, <1>11, <1>12, <2>1, StepMovesLittle
  <2> QED BY <1>3, <2>2 DEF InRange, Span
<1>13. ASSUME NEW s \in SUBSET S PROVE InRange(h[s])
  <2> HIDE DEF Eq
  <2>1. Kept(s, V, pick, h)
    <3>1. IsFiniteSet(s) /\ \A r \in SUBSET s : r \in SUBSET S
      BY <1>0, FS_Subset
    <3> QED BY <1>1, <1>10, <1>12, <3>1 DEF Kept
  <2>2. h[s] \in V[s]
    BY <2>1, FoldKeeps
  <2> QED BY <1>3, <2>2 DEF InRange, Span
<1>14. h = [s \in SUBSET S |->
             IF s = {} THEN 0
             ELSE Trends!Step(h[s \ {Trends!Latest(os, s)}], os[Trends!Latest(os, s)])]
  BY <1>9, Zenon
<1>15. Regime(os, S, h)
  BY <1>13, <1>14 DEF Regime
<1> QED BY <1>0, <1>2, <1>15 DEF h, S

\* One more observation moves the long-term score by no more than its step, wherever
\* it comes among the others, and not at all if it does not count.
LEMMA OneMoreMovesLittle ==
    ASSUME NEW before, NEW after, NEW n, Listed(before, n), Listed(after, n + 1),
           \A i \in 1 .. n : after[i] = before[i]
    PROVE  LET limit == IF n + 1 \in Counted(after)
                        THEN Trends!MaximumStep(after[n + 1]) ELSE 0
           IN  /\ InRange(Trends!LongTerm(after).score) /\ InRange(Trends!LongTerm(before).score)
               /\ Trends!LongTerm(after).score - Trends!LongTerm(before).score \in -limit .. limit
<1> DEFINE m == n + 1
           S == Counted(after)
           R == Counted(before)
           limit == IF m \in S THEN Trends!MaximumStep(after[m]) ELSE 0
<1>0. n \in Nat /\ m \in Nat /\ DOMAIN before = 1 .. n /\ DOMAIN after = 1 .. m
  BY DEF Listed
<1>1. R = S \ {m} /\ S \subseteq 1 .. m
  <2>1. \A i \in 1 .. m : i # m => i \in 1 .. n
    BY <1>0
  <2>2. \A i \in 1 .. n : i \in 1 .. m /\ i # m
    BY <1>0
  <2>3. \A i \in S : i \in 1 .. m
    BY <1>0 DEF Counted, Trends!InWindow
  <2>4. \A i \in R : i \in 1 .. n
    BY <1>0 DEF Counted, Trends!InWindow
  <2>5. \A i \in 1 .. n : i \in S <=> i \in R
    BY <1>0, <2>2 DEF Counted, Trends!InWindow
  <2> HIDE DEF R, S, m
  <2> QED BY <2>1, <2>2, <2>3, <2>4, <2>5
<1>2. limit \in Nat
  BY <1>0, StepsAreNumbers DEF Listed
<1>3. PICK g : Regime(before, R, g) /\ Trends!LongTerm(before).score = g[R]
  BY LongTermIsRegime
<1>4. PICK h : Regime(after, S, h) /\ Trends!LongTerm(after).score = h[S]
  BY <1>0, LongTermIsRegime
<1>5. IsFiniteSet(S)
  BY <1>0, LongTermIsRegime
<1> DEFINE last(s) == Trends!Latest(after, s)
           pick == [s \in SUBSET S |-> last(s)]
           room(s) == IF m \in s THEN limit ELSE 0
           Near(s) == {y \in Int : InRange(y) /\ y - g[s \ {m}] \in -room(s) .. room(s)}
           V == [s \in SUBSET S |-> Near(s)]
<1>6. \A s \in SUBSET S : V[s] = Near(s) /\ pick[s] = last(s)
  OBVIOUS
<1> HIDE DEF V, pick, S, R, limit
<1>7. ASSUME NEW s \in SUBSET S PROVE s \ {m} \in SUBSET R /\ InRange(g[s \ {m}]) /\ InRange(h[s])
  <2>1. s \ {m} \in SUBSET R
    BY <1>1
  <2> QED BY <1>3, <1>4, <2>1 DEF Regime
<1>8. ASSUME NEW s \in SUBSET S, s # {}
      PROVE  /\ last(s) \in s
             /\ \A j \in s : j = last(s) \/ Trends!Before(after, j, last(s))
             /\ s \ {last(s)} \in SUBSET S
             /\ h[s] = Trends!Step(h[s \ {last(s)}], after[last(s)])
             /\ after[last(s)] \in Observations
  <2>1. s \in SUBSET Counted(after)
    BY DEF S
  <2>2. last(s) \in s /\ \A j \in s : j = last(s) \/ Trends!Before(after, j, last(s))
    BY <1>8, <2>1, LatestIsLast
  <2>3. last(s) \in 1 .. m
    BY <1>1, <2>2
  <2> QED BY <1>4, <1>8, <2>2, <2>3 DEF Regime, Listed
<1>9. h[{}] \in V[{}]
  <2>1. g[{}] = 0 /\ h[{}] = 0
    BY <1>3, <1>4 DEF Regime
  <2>2. {} \ {m} = {}
    OBVIOUS
  <2>3. InRange(0)
    BY RangeHolds
  <2>4. 0 - g[{} \ {m}] \in -room({}) .. room({})
    BY <2>1, <2>2
  <2>5. h[{}] \in Near({})
    BY <2>1, <2>3, <2>4
  <2> HIDE DEF Near
  <2> QED BY <1>6, <2>5
<1>10. ASSUME NEW s \in SUBSET S, s # {}, h[s \ {last(s)}] \in V[s \ {last(s)}]
       PROVE  h[s] \in V[s]
  <2> DEFINE x == last(s)
             r == s \ {x}
             o == after[x]
  <2>1. /\ x \in s /\ r \in SUBSET S /\ h[s] = Trends!Step(h[r], o) /\ o \in Observations
        /\ \A j \in s : j = x \/ Trends!Before(after, j, x)
    BY <1>8, <1>10
  <2>2. h[r] \in Near(r)
    BY <1>6, <1>10, <2>1
  <2>3. InRange(h[r]) /\ h[r] - g[r \ {m}] \in -room(r) .. room(r) /\ h[r] \in Int
    BY <2>2
  <2>4. InRange(g[r \ {m}]) /\ InRange(g[s \ {m}]) /\ InRange(h[s])
    BY <1>7, <2>1
  <2>5. \A y : InRange(y) => y \in Int
    BY RangeHolds
  <2>6. CASE x = m
    <3>1. room(r) = 0 /\ r \ {m} = s \ {m} /\ room(s) = limit
      BY <2>1, <2>6
    <3>2. h[r] = g[s \ {m}]
      <4>1. h[r] - g[s \ {m}] \in -0 .. 0
        BY <2>3, <3>1
      <4>2. h[r] \in Int /\ g[s \ {m}] \in Int
        BY <2>3, <2>4, <2>5
      <4> QED BY <4>1, <4>2
    <3>3. limit = Trends!MaximumStep(o)
      BY <2>1, <2>6 DEF limit
    <3>4. h[s] - h[r] \in -Trends!MaximumStep(o) .. Trends!MaximumStep(o)
      BY <2>1, <2>3, StepMovesLittle
    <3>5. h[s] - g[s \ {m}] \in -room(s) .. room(s)
      BY <3>1, <3>2, <3>3, <3>4
    <3> QED BY <1>6, <2>4, <2>5, <3>5
  <2>7. CASE x # m
    <3>1. x \in R /\ x \in 1 .. n /\ before[x] = o
      <4>1. x \in R
        BY <1>1, <2>1, <2>7
      <4>2. x \in 1 .. m
        BY <1>1, <2>1
      <4> HIDE DEF x
      <4>3. x \in 1 .. n
        BY <1>0, <2>7, <4>2
      <4> QED BY <4>1, <4>3
    <3> DEFINE q == s \ {m}
    <3>2. q \in SUBSET R /\ x \in q /\ q # {} /\ r \ {m} = q \ {x} /\ room(r) = room(s)
      BY <1>7, <2>1, <2>7
    <3>3. \A j \in q : j = x \/ Trends!Before(before, j, x)
      <4>1. \A j \in q : j \in 1 .. n /\ after[j] = before[j]
        BY <1>0, <1>1, <3>2
      <4>2. \A j \in q : j = x \/ Trends!Before(after, j, x)
        BY <2>1
      <4> QED BY <3>1, <4>1, <4>2 DEF Trends!Before
    <3>4. Trends!Latest(before, q) = x
      <4>1. q \in SUBSET Counted(before)
        BY <3>2 DEF R
      <4> HIDE DEF q, x
      <4> QED BY <3>2, <3>3, <4>1, LatestIsLast
    <3>5. g[q] = Trends!Step(g[q \ {x}], o)
      <4> HIDE DEF q, x, o
      <4> QED BY <1>3, <3>1, <3>2, <3>4 DEF Regime
    <3>6. room(s) \in Nat
      BY <1>2
    <3>7. h[r] - g[q \ {x}] \in -room(s) .. room(s) /\ InRange(g[q \ {x}])
      BY <2>3, <2>4, <3>2
    <3>8. h[s] - g[q] \in -room(s) .. room(s)
      <4> HIDE DEF q, x, o, r, room
      <4>1. Trends!Step(h[r], o) - Trends!Step(g[q \ {x}], o) \in -room(s) .. room(s)
        BY <2>1, <2>3, <3>6, <3>7, StepMovesLittle
      <4> QED BY <2>1, <3>5, <4>1
    <3> QED BY <1>6, <2>4, <2>5, <3>8
  <2> QED BY <2>6, <2>7
<1>11. h[S] \in V[S]
  <2>1. Kept(S, V, pick, h)
    BY <1>5, <1>6, <1>8, <1>9, <1>10 DEF Kept
  <2> QED BY <2>1, FoldKeeps
<1>12. h[S] - g[R] \in -limit .. limit
  <2>1. h[S] \in Near(S)
    BY <1>6, <1>11
  <2>2. S \ {m} = R
    BY <1>1
  <2>3. m \notin S => limit = 0
    BY DEF limit
  <2> QED BY <2>1, <2>2, <2>3
<1>13. InRange(h[S]) /\ InRange(g[R])
  BY <1>3, <1>4 DEF Regime
<1> QED BY <1>3, <1>4, <1>12, <1>13 DEF limit, S, R

\* The short-term score is in range, and so is the mix of the two.
LEMMA CombinedInRange ==
    ASSUME NEW os, NEW n, Listed(os, n)
    PROVE  InRange(Trends!Combined(os))
<1> DEFINE S == Trends!InWindow(os, 7)
           x == [i \in S |-> os[i].score * Trends!Unit]
           w == [i \in S |-> Trends!ShortWeight(os[i])]
           c == 100 * Trends!Unit
           score == Trends!ShortTerm(os).score
           long == Trends!LongTerm(os).score
<1>1. S \subseteq 1 .. n /\ n \in Nat /\ \A i \in S : os[i] \in Observations
  BY DEF Trends!InWindow, Listed
<1>2. IsFiniteSet(S)
  <2>1. S \subseteq 1 .. n /\ n \in Nat
    BY <1>1
  <2> HIDE DEF S
  <2>2. IsFiniteSet(1 .. n)
    BY <2>1, FS_Interval
  <2> QED BY <2>1, <2>2, FS_Subset
<1>3. c \in Nat /\ -c = -100 * Trends!Unit
  BY DEF Trends!Unit
<1>4. \A y : InRange(y) <=> y \in -c .. c
  BY <1>3 DEF InRange
<1>5. score = IF S = {} THEN 0 ELSE Trends!Mean(x, w)
  BY DEF Trends!ShortTerm
<1>6. Trends!Combined(os) = IF Trends!ShortTerm(os).count = 0 THEN long
                            ELSE (8 * long + 2 * score) \div 10
  BY DEF Trends!Combined
<1> HIDE DEF S, score, long
<1>7. ASSUME NEW i \in S
      PROVE  Trends!ShortWeight(os[i]) \in Nat /\ Trends!ShortWeight(os[i]) > 0
             /\ os[i].score * Trends!Unit \in -c .. c
  <2> DEFINE o == os[i]
             d == ShortDecay[o.age]
             q == Trends!Quality(o)
             z == Trends!Max({5, q})
             y == (d * z) \div 100
  <2>1. o \in Observations
    BY <1>1, <1>7
  <2>2. d \in Nat /\ q \in Nat
    <3>1. d \in 0 .. 100 /\ q \in 0 .. 100
      <4> HIDE DEF o
      <4> QED BY <2>1, StepsAreNumbers
    <3> HIDE DEF d, q
    <3> QED BY <3>1
  <2>3. Trends!ShortWeight(o) = Trends!Max({1, y})
    BY DEF Trends!ShortWeight
  <2>4. o.score \in -100 .. 100
    BY <2>1 DEF Observations
  <2> HIDE DEF o, d, q
  <2>5. z \in Nat
    BY <2>2, MaxOfTwo
  <2> HIDE DEF z
  <2>6. d * z \in Nat
    BY <2>2, <2>5
  <2>7. y \in Int
    BY <2>6
  <2> HIDE DEF y
  <2>8. Trends!Max({1, y}) \in Nat /\ Trends!Max({1, y}) > 0
    BY <2>7, MaxOfTwo
  <2>9. o.score * Trends!Unit \in -c .. c
    <3> DEFINE v == o.score
               u == v * 10000
    <3> HIDE DEF v
    <3>1. v \in Int /\ -100 <= v /\ v <= 100
      BY <2>4 DEF v
    <3>2. u \in Int /\ -1000000 <= u /\ u <= 1000000
      BY <3>1, SMT DEF u
    <3>3. c = 1000000 /\ Trends!Unit = 10000
      BY SMT DEF Trends!Unit
    <3>5. v * Trends!Unit = u
      BY SMT DEF Trends!Unit
    <3> HIDE DEF c, u
    <3>4. -c <= u /\ u <= c
      BY <1>3, <3>2, <3>3, SMT
    <3>6. u \in -c .. c
      BY <1>3, <3>2, <3>4
    <3> QED BY SMT, <3>5, <3>6 DEF v
  <2> QED BY <2>3, <2>8, <2>9 DEF o
<1>8. score \in -c .. c
  <2>1. CASE S = {}
    BY <1>3, <1>5, <2>1
  <2>2. CASE S # {}
    <3>1. DOMAIN w = S /\ \A i \in S : w[i] \in Nat /\ w[i] > 0 /\ x[i] \in -c .. c
      BY <1>7
    <3>2. -c \in Int /\ c \in Int
      BY <1>3
    <3> HIDE DEF x, w, c
    <3>3. Trends!Mean(x, w) \in -c .. c
      BY <1>2, <2>2, <3>1, <3>2, MeanWithin
    <3> QED BY <1>5, <2>2, <3>3
  <2> QED BY <2>1, <2>2
<1>9. long \in -c .. c
  <2>1. PICK g : Regime(os, Counted(os), g) /\ long = g[Counted(os)]
    BY LongTermIsRegime DEF long
  <2>2. InRange(long)
    BY <2>1 DEF Regime
  <2> QED BY <1>4, <2>2
<1> HIDE DEF c
<1>10. Trends!Combined(os) \in -c .. c
  <2>1. (8 * long + 2 * score) \div 10 \in -c .. c
    BY <1>3, <1>8, <1>9
  <2> QED BY <1>6, <1>9, <2>1
<1> QED BY <1>4, <1>10

\* A report that averages aliases of one target stays within its ranges.
LEMMA ReportsAreObservations ==
    ASSUME NEW g \in Group, NEW age \in Age, NEW news \in TrendNews, NEW p \in BOOLEAN
    PROVE  Trends!Observation(g, age, news, p) \in Observations
<1> DEFINE o == Trends!Observation(g, age, news, p)
           w == [i \in DOMAIN g |-> Trends!ImpactWeight(g[i])]
<1>1. /\ Len(g) \in Nat \ {0} /\ DOMAIN g = 1 .. Len(g)
      /\ \A k \in DOMAIN g :
           /\ g[k]["score"] \in -100 .. 100 /\ g[k]["rating"] \in 0 .. 100
           /\ g[k]["persistence"] \in 0 .. 100 /\ g[k]["realization"] \in 0 .. 100
  BY TrendsAssumption
<1>2. IsFiniteSet(DOMAIN g) /\ DOMAIN g # {}
  <2>1. IsFiniteSet(1 .. Len(g))
    BY <1>1, FS_Interval
  <2> QED BY <1>1, <2>1
<1>3. ASSUME NEW i \in DOMAIN g PROVE w[i] \in Nat /\ w[i] > 0
  <2> DEFINE q == g[i].rating
  <2>1. q \in 0 .. 100
    BY <1>1
  <2>2. w[i] = Trends!Max({5, q})
    BY DEF Trends!ImpactWeight
  <2> HIDE DEF q, w
  <2>3. q \in Int
    BY <2>1
  <2>4. Trends!Max({5, q}) \in Nat /\ Trends!Max({5, q}) > 0
    BY <2>3, MaxOfTwo
  <2> QED BY <2>2, <2>4
<1>4. ASSUME NEW field, NEW a \in Int, NEW b \in Int, \A k \in DOMAIN g : g[k][field] \in a .. b
      PROVE  Trends!Weighted(g, field) \in a .. b
  <2> DEFINE x == [i \in DOMAIN g |-> g[i][field]]
  <2>1. \A i \in DOMAIN w : w[i] \in Nat /\ w[i] > 0 /\ x[i] \in a .. b
    BY <1>3, <1>4
  <2>3. DOMAIN w = DOMAIN g
    OBVIOUS
  <2>2. Trends!Weighted(g, field) = Trends!Mean(x, w)
    BY DEF Trends!Weighted
  <2> HIDE DEF x, w
  <2> QED BY <1>2, <1>4, <2>1, <2>2, <2>3, MeanWithin
<1>5. /\ Trends!Weighted(g, "score") \in -100 .. 100
      /\ Trends!Weighted(g, "rating") \in 0 .. 100
      /\ Trends!Weighted(g, "persistence") \in 0 .. 100
      /\ Trends!Weighted(g, "realization") \in 0 .. 100
  <2>1. Trends!Weighted(g, "score") \in -100 .. 100
    <3>1. \A k \in DOMAIN g : g[k]["score"] \in -100 .. 100
      BY <1>1
    <3>2. -100 \in Int /\ 100 \in Int
      OBVIOUS
    <3> QED BY <1>4, <3>1, <3>2
  <2>2. \A field \in {"rating", "persistence", "realization"} :
          Trends!Weighted(g, field) \in 0 .. 100
    <3> TAKE field \in {"rating", "persistence", "realization"}
    <3>1. \A k \in DOMAIN g : g[k][field] \in 0 .. 100
      BY <1>1
    <3>2. 0 \in Int /\ 100 \in Int
      OBVIOUS
    <3> QED BY Zenon, <1>4, <3>1, <3>2
  <2> QED BY <2>1, <2>2
<1>6. news \in 0 .. 100
  BY TrendsAssumption, Zenon
<1> DEFINE weak == p \/ Trends!Conflicting(g) \/ \A i \in DOMAIN g : g[i].failed
<1>7. weak \in BOOLEAN
  BY Zenon
<1>8. o = [age |-> age, news |-> news, weak |-> weak,
           score |-> Trends!Weighted(g, "score"),
           rating |-> Trends!Weighted(g, "rating"),
           persistence |-> Trends!Weighted(g, "persistence"),
           realization |-> Trends!Weighted(g, "realization")]
  BY DEF Trends!Observation
<1> HIDE DEF weak
<1> QED BY <1>5, <1>6, <1>7, <1>8 DEF Observations

\* A change is listed unless all the ratings are the same.
LEMMA ChangeIsListed ==
    ASSUME NEW ss, NEW n \in Nat, DOMAIN ss = 1 .. n, Len(ss) = n
    PROVE  Trends!LatestChange(ss) = <<>> <=>
             \A i, j \in DOMAIN ss : ss[i].rating = ss[j].rating
<1> DEFINE changes == {i \in 2 .. Len(ss) : ss[i].rating # ss[i - 1].rating}
<1>1. Trends!LatestChange(ss) = IF changes = {} THEN <<>>
                                ELSE <<Trends!Max(changes) - 1, Trends!Max(changes)>>
  BY DEF Trends!LatestChange
<1>2. Trends!LatestChange(ss) = <<>> <=> changes = {}
  <2> HIDE DEF changes
  <2> QED BY <1>1
<1>3. ASSUME changes # {} PROVE \E i, j \in DOMAIN ss : ss[i].rating # ss[j].rating
  <2>1. PICK i \in 2 .. n : ss[i].rating # ss[i - 1].rating
    BY <1>3
  <2>2. i \in 1 .. n /\ i - 1 \in 1 .. n
    OBVIOUS
  <2> QED BY <2>1, <2>2
<1>4. ASSUME changes = {} PROVE \A i \in 1 .. n : ss[i].rating = ss[1].rating
  <2> DEFINE T == {i \in 1 .. n : ss[i].rating # ss[1].rating}
  <2>1. SUFFICES ASSUME T # {} PROVE FALSE
    OBVIOUS
  <2>2. T \subseteq Nat
    OBVIOUS
  <2>3. PICK i \in T : \A k \in T : i <= k
    <3> HIDE DEF T
    <3> QED BY <2>1, <2>2, LeastExists
  <2>4. i \in 1 .. n /\ ss[i].rating # ss[1].rating
    OBVIOUS
  <2>5. i \in 2 .. n /\ i - 1 \in 1 .. n
    <3>1. i # 1
      BY <2>4
    <3> QED BY <2>4, <3>1
  <2>6. i - 1 \notin T
    <3> HIDE DEF T
    <3> QED BY <2>3, <2>4
  <2>7. ss[i - 1].rating = ss[1].rating
    BY <2>5, <2>6
  <2>8. i \in changes
    BY <2>4, <2>5, <2>7
  <2> QED BY <1>4, <2>8
<1> HIDE DEF changes
<1> QED BY <1>2, <1>3, <1>4

\* What the reports that name the target leave.
Ratings == {"strongly_bullish", "bullish", "bearish", "strongly_bearish", "watch"}
TrendsInv == snapshots \in Seq([observation : Observations, rating : Ratings])

\* A report is added to the others.
LEMMA ReportIsAdded ==
    ASSUME TrendsInv, Trends!Next
    PROVE  /\ TrendsInv'
           /\ Len(snapshots') = Len(snapshots) + 1 /\ Len(snapshots) \in Nat
           /\ \A i \in 1 .. Len(snapshots) : snapshots'[i] = snapshots[i]
<1>1. PICK g \in Group, a \in Age, n \in TrendNews, p \in BOOLEAN : Trends!Report(g, a, n, p)
  BY DEF Trends!Next
<1> DEFINE s == [observation |-> Trends!Observation(g, a, n, p),
                 rating |-> Trends!Rating(Trends!Representative(g).score)]
<1>2. Trends!Rating(Trends!Representative(g).score) \in Ratings
  BY DEF Trends!Rating, Ratings
<1>3. s \in [observation : Observations, rating : Ratings]
  BY <1>2, ReportsAreObservations
<1>4. snapshots' = Append(snapshots, s)
  BY <1>1 DEF Trends!Report
<1> HIDE DEF s
<1> QED BY <1>3, <1>4 DEF TrendsInv

\* One more report moves the trend of its target by no more than its own step, wherever
\* it falls among the others and whatever they say, a report that does not count not at
\* all, and the combined score stays a score (services/target_trends.py, _long_term_score,
\* aggregate_target_trend).
THEOREM ReportsMoveLittle == ResearchSpec => OneEventMovesLittle
<1> DEFINE Little ==
      LET before == Trends!Observed(snapshots)
          after == Trends!Observed(snapshots')
          o == after[Len(after)]
          moved == Trends!Abs(Trends!LongTerm(after).score - Trends!LongTerm(before).score)
      IN  /\ o.weak \/ o.rating < 45 \/ o.age > 90 => moved = 0
          /\ moved <= Trends!MaximumStep(o)
          /\ Trends!Abs(Trends!Combined(after)) <= 100 * Trends!Unit
          /\ Trends!LatestChange(snapshots') = <<>> <=>
               \A i, j \in DOMAIN snapshots' : snapshots'[i].rating = snapshots'[j].rating
<1>1. ResearchInit => TrendsInv
  BY DEF ResearchInit, Trends!Init, TrendsInv
<1>2. TrendsInv /\ [ResearchNext]_<<part, researchVars>> => TrendsInv'
  <2> SUFFICES ASSUME TrendsInv, [Trends!Next]_snapshots PROVE TrendsInv'
    BY ResearchMoves
  <2> QED BY ReportIsAdded DEF TrendsInv
<1>3. ASSUME TrendsInv, Trends!Next PROVE Little
  <2> DEFINE n == Len(snapshots)
             m == Len(snapshots')
             before == Trends!Observed(snapshots)
             after == Trends!Observed(snapshots')
             o == after[Len(after)]
             l == Trends!LongTerm(after).score
             k == Trends!LongTerm(before).score
  <2>1. /\ TrendsInv' /\ m = n + 1 /\ n \in Nat
        /\ \A i \in 1 .. n : snapshots'[i] = snapshots[i]
    BY <1>3, ReportIsAdded
  <2>2. \A ss, j : ss \in Seq([observation : Observations, rating : Ratings]) /\ j = Len(ss) =>
          Listed(Trends!Observed(ss), j) /\ Len(Trends!Observed(ss)) = j
    <3> TAKE ss, j
    <3> HAVE ss \in Seq([observation : Observations, rating : Ratings]) /\ j = Len(ss)
    <3> DEFINE os == [i \in 1 .. j |-> ss[i].observation]
    <3>0. ss \in Seq([observation : Observations, rating : Ratings]) /\ j = Len(ss)
          /\ j \in Nat /\ DOMAIN ss = 1 .. j
      OBVIOUS
    <3>5. ASSUME NEW i \in 1 .. j PROVE ss[i].observation \in Observations
      <4>1. ss[i] \in [observation : Observations, rating : Ratings]
        BY <3>0, ElementOfSeq
      <4> QED BY <4>1
    <3>1. j \in Nat /\ DOMAIN ss = 1 .. j /\ \A i \in 1 .. j : ss[i].observation \in Observations
      BY <3>0, <3>5
    <3>2. Trends!Observed(ss) = os
      BY <3>1 DEF Trends!Observed
    <3>3. os \in Seq(Observations) /\ Len(os) = j
      BY <3>1
    <3>4. Listed(os, j)
      BY <3>1 DEF Listed
    <3> QED BY <3>2, <3>3, <3>4
  <2>3. Listed(before, n) /\ Listed(after, n + 1) /\ Len(after) = n + 1
    BY <1>3, <2>1, <2>2 DEF TrendsInv
  <2>4. \A i \in 1 .. n : after[i] = before[i]
    BY <1>3, <2>1 DEF TrendsInv, Trends!Observed
  <2> HIDE DEF before, after
  <2>5. o = after[n + 1] /\ o \in Observations
    BY <2>1, <2>3 DEF Listed
  <2> DEFINE limit == IF n + 1 \in Counted(after) THEN Trends!MaximumStep(o) ELSE 0
  <2>6. InRange(l) /\ InRange(k) /\ l - k \in -limit .. limit
    BY <2>1, <2>3, <2>4, <2>5, OneMoreMovesLittle
  <2>7. l \in Int /\ k \in Int
    BY <2>6, RangeHolds
  <2>8. Trends!MaximumStep(o) \in Nat
    BY <2>5, StepsAreNumbers
  <2>9. o.weak \/ o.rating < 45 \/ o.age > 90 => limit = 0
    <3>1. o.rating \in Int /\ o.age \in Int
      <4>1. o.rating \in 0 .. 100 /\ o.age \in Age
        BY <2>5 DEF Observations
      <4>2. \A a \in Age : a \in Int
        BY TrendsAssumption, Zenon
      <4> HIDE DEF o
      <4> QED BY <4>1, <4>2
    <3> HIDE DEF o
    <3> QED BY <2>5, <3>1 DEF Counted, Trends!InWindow, Trends!Eligible
  <2> DEFINE moved == Trends!Abs(l - k)
  <2>10. moved \in Int /\ moved <= limit
    <3> HIDE DEF l, k, limit
    <3>1. limit \in Nat
      BY <2>8 DEF limit
    <3> QED BY <2>6, <2>7, <3>1 DEF Trends!Abs
  <2>11. moved >= 0
    <3> HIDE DEF l, k
    <3> QED BY <2>7 DEF Trends!Abs
  <2>12. Trends!Abs(Trends!Combined(after)) <= 100 * Trends!Unit
    <3> DEFINE c == 100 * Trends!Unit
               y == Trends!Combined(after)
    <3>1. InRange(y)
      BY <2>3, CombinedInRange
    <3>2. c \in Nat /\ -c = -100 * Trends!Unit
      BY DEF Trends!Unit
    <3>3. y \in -c .. c
      BY <3>1, <3>2 DEF InRange
    <3> HIDE DEF c, y
    <3>4. Trends!Abs(y) <= c
      BY <3>2, <3>3 DEF Trends!Abs
    <3> QED BY <3>4 DEF c, y
  <2>13. Trends!LatestChange(snapshots') = <<>> <=>
           \A i, j \in DOMAIN snapshots' : snapshots'[i].rating = snapshots'[j].rating
    <3>1. DOMAIN snapshots' = 1 .. m /\ m \in Nat
      BY <2>1 DEF TrendsInv
    <3> QED BY <3>1, ChangeIsListed
  <2> HIDE DEF limit, l, k, o, moved
  <2>14. moved <= Trends!MaximumStep(o) /\ (o.weak \/ o.rating < 45 \/ o.age > 90 => moved = 0)
    <3>1. limit <= Trends!MaximumStep(o) /\ limit \in Nat
      BY <2>8 DEF limit
    <3> QED BY <2>8, <2>9, <2>10, <2>11, <3>1
  <2> QED BY <2>12, <2>13, <2>14 DEF o, moved, l, k, before, after
<1>4. TrendsInv /\ [ResearchNext]_<<part, researchVars>> => [snapshots' # snapshots => Little]_snapshots
  BY <1>3, ResearchMoves
<1>5. ResearchSpec => [][snapshots' # snapshots => Little]_snapshots
  BY <1>1, <1>2, <1>4, PTL DEF ResearchSpec
<1> QED BY <1>5 DEF OneEventMovesLittle, Trends!OneEventMovesLittle
=============================================================================
