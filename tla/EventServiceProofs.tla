-------------------------- MODULE EventServiceProofs --------------------------
(***************************************************************************)
(* Proofs about what the system makes of the news, the events, the sweep   *)
(* over those that have no asset and the report on one; and about what it  *)
(* does about itself, the verdicts on patches, the tasks that ask for them *)
(* and the page that shows its queues.                                     *)
(***************************************************************************)
EXTENDS EventDecisions, ServiceDecisions, SetProofs, Integers, Sequences, FiniteSets, FiniteSetTheorems, SequenceTheorems, WellFoundedInduction, TLAPS

\* A step of the parts that read news moves one of them, and the others rest.
LEMMA EventsMove ==
    ASSUME [EventsNext]_<<part, eventVars>>
    PROVE  /\ [Clusters!Next]_clusterVars
           /\ [Sweep!Next]_sweepVars
           /\ [Reports!Next]_reportVars
           /\ [Mapper!Next]_mapperVars
           /\ part' = part
BY DEF EventsNext, ClustersMove, SweepMoves, ReportsMove, MapperMoves, eventVars

-----------------------------------------------------------------------------
\* The order of a sweep is the one that is proved of here.
LEMMA SweepRanks ==
    /\ \A S : Sweep!Cardinality(S) = Cardinality(S)
    /\ \A S, R, x : Sweep!Rank(S, R, x) = Rank(S, R, x)
    /\ \A S, R, k : Sweep!Nth(S, R, k) = Nth(S, R, k)
    /\ \A S, R : Sweep!InOrder(S, R) = InOrder(S, R)
<1>1. \A S : Sweep!Cardinality(S) = Cardinality(S)
  BY Zenon DEF Sweep!Cardinality, Cardinality
<1>2. \A S, R, x : Sweep!Rank(S, R, x) = Rank(S, R, x)
  BY <1>1, Zenon DEF Sweep!Rank, Rank
<1>3. \A S, R, k : Sweep!Nth(S, R, k) = Nth(S, R, k)
  BY <1>2, Zenon DEF Sweep!Nth, Nth
<1>4. \A S, R : Sweep!InOrder(S, R) = InOrder(S, R)
  BY <1>1, <1>3, Zenon DEF Sweep!InOrder, InOrder
<1> QED BY <1>1, <1>2, <1>3, <1>4

Message == [time : Int, id : Int, scanned : Nat, queued : Nat, skipped : Nat,
            failed : Nat, seen : SUBSET SweepEvent]
Row == [id : SweepEvent, time : Int, wanted : BOOLEAN]

SweepTypes ==
  /\ observed \in [SweepEvent -> Nat]
  /\ messages \subseteq Message /\ completed \subseteq Message
  /\ \A e \in steady : e \in SweepEvent /\ observed[e] # 0

Counts(m) ==
  m.scanned = Cardinality(m.seen) /\ m.scanned = m.queued + m.skipped + m.failed

\* What a message has seen lies before its cursor, what kept its place and was
\* not seen lies behind it, when `times' are those of the events.
CursorIsTrue(m, times, lasting) ==
  /\ Counts(m)
  /\ \A e \in m.seen : times[e] # 0 /\ ~Sweep!Precedes(m.time, m.id, times[e], e)
  /\ \A e \in lasting : e \in m.seen \/ Sweep!Precedes(m.time, m.id, times[e], e)

\* The rows of a batch: copies in order, of events that lie behind the cursor.
RowsAreNext(m, rows, times, lasting) ==
  /\ rows \in Seq(Row) /\ Len(rows) <= BatchSize
  /\ \A i, j \in DOMAIN rows : i < j =>
       /\ Sweep!Precedes(rows[i].time, rows[i].id, rows[j].time, rows[j].id)
       /\ rows[i].id # rows[j].id
  /\ \A i \in DOMAIN rows :
       /\ Sweep!Precedes(m.time, m.id, rows[i].time, rows[i].id) /\ rows[i].id \notin m.seen
       /\ times[rows[i].id] # 0 /\ times[rows[i].id] <= rows[i].time
  /\ \A e \in lasting :
       \/ e \in m.seen
       \/ \E i \in DOMAIN rows : rows[i].id = e
       \/ /\ Len(rows) = BatchSize
          /\ Sweep!Precedes(rows[BatchSize].time, rows[BatchSize].id, times[e], e)

InWork(w, times, lasting) ==
  /\ w.origin \in Message /\ CursorIsTrue(w.origin, times, lasting)
  /\ RowsAreNext(w.origin, w.rows, times, lasting)
  /\ w.message \in Message /\ Counts(w.message)
  /\ w.message.time = w.origin.time /\ w.message.id = w.origin.id
  /\ w.next \in 1 .. Len(w.rows) + 1
  /\ w.message.seen = w.origin.seen \union {w.rows[i].id : i \in 1 .. (w.next - 1)}

SweepInv ==
  /\ SweepTypes
  /\ \A m \in messages : CursorIsTrue(m, observed, steady)
  /\ \A m \in completed : Counts(m) /\ steady \subseteq m.seen
  /\ DOMAIN sweeps = Sweeper
  /\ \A s \in Sweeper : sweeps[s].next # 0 => InWork(sweeps[s], observed, steady)

\* The batch of a message is what lies next behind its cursor.
LEMMA BatchIsNext ==
    ASSUME SweepTypes, NEW m \in Message, CursorIsTrue(m, observed, steady)
    PROVE  RowsAreNext(m, Sweep!Rows(m), observed, steady)
<1> DEFINE A == Sweep!After(m)
           R == Sweep!Earlier
           n == Cardinality(A)
           size == Sweep!Min({BatchSize, n})
           rows == Sweep!Rows(m)
<1>15. SweepEvent \subseteq Int
  BY SweepAssumption
<1>0. /\ observed \in [SweepEvent -> Nat] /\ BatchSize \in Nat \ {0}
      /\ IsFiniteSet(SweepEvent)
  BY SweepAssumption DEF SweepTypes
<1>1. A \subseteq SweepEvent /\ IsFiniteSet(A) /\ n \in Nat
  BY <1>0, FS_Subset, FS_CardinalityType DEF Sweep!After, Sweep!Rowed
<1>2. \A x, y \in A : <<x, y>> \in R <=> Sweep!Precedes(observed[x], x, observed[y], y)
  BY <1>1 DEF Sweep!Earlier
<1>3. Orders(R, A)
  <2> HIDE DEF A, R
  <2>1. \A x \in A : x \in Int /\ observed[x] \in Int
    BY <1>0, <1>1, <1>15
  <2>2. \A x, y \in A : <<x, y>> \in R <=>
          (observed[x] < observed[y] \/ (observed[x] = observed[y] /\ x < y))
    BY <1>2 DEF Sweep!Precedes
  <2> QED BY <2>1, <2>2 DEF Orders
<1>4. size \in 0 .. n /\ size <= BatchSize /\ (size = n \/ size = BatchSize)
  BY <1>0, <1>1 DEF Sweep!Min
<1>5. rows = [k \in 1 .. size |-> [id |-> Nth(A, R, k), time |-> observed[Nth(A, R, k)],
                                  wanted |-> Nth(A, R, k) \in poor \ active]]
  <2>1. rows = [k \in 1 .. size |-> [id |-> InOrder(A, R)[k], time |-> observed[InOrder(A, R)[k]],
                                    wanted |-> InOrder(A, R)[k] \in poor \ active]]
    BY SweepRanks DEF Sweep!Rows
  <2>2. \A k \in 1 .. size : InOrder(A, R)[k] = Nth(A, R, k)
    BY <1>0, <1>1, <1>4 DEF InOrder
  <2> QED BY <2>1, <2>2
<1> DEFINE nth(k) == Nth(A, R, k)
<1>6. \A k \in 1 .. n : nth(k) \in A
  BY <1>1, <1>3, PlacesTaken
<1>13. \A x \in A : \E k \in 1 .. n : x = nth(k)
  BY <1>1, <1>3, PlacesTaken
<1>14. \A j, k \in 1 .. n : j < k <=> <<nth(j), nth(k)>> \in R
  BY <1>1, <1>3, PlacesTaken
<1>7. \A e \in A : Sweep!Precedes(m.time, m.id, observed[e], e) /\ observed[e] # 0
  BY DEF Sweep!After, Sweep!Rowed
<1>8. \A e \in steady : e \in m.seen \/ e \in A
  BY <1>0 DEF SweepTypes, Sweep!After, Sweep!Rowed, CursorIsTrue
<1> HIDE DEF A, R, n, size, rows, nth
<1>9. /\ DOMAIN rows = 1 .. size /\ Len(rows) = size /\ rows \in Seq(Row)
      /\ \A k \in 1 .. size : rows[k].id = nth(k) /\ rows[k].time = observed[nth(k)]
  <2>0. \A k \in 1 .. size : k \in 1 .. n
    BY <1>0, <1>1, <1>4
  <2>1. \A k \in 1 .. size : nth(k) \in SweepEvent /\ observed[nth(k)] \in Int
    BY <1>0, <1>1, <1>6, <2>0
  <2>2. \A k \in 1 .. size, f \in BOOLEAN :
          [id |-> nth(k), time |-> observed[nth(k)], wanted |-> f] \in Row
    BY <2>1 DEF Row
  <2>3. \A k \in 1 .. size : rows[k] \in Row /\ rows[k].id = nth(k) /\ rows[k].time = observed[nth(k)]
    <3> SUFFICES ASSUME NEW k \in 1 .. size
                 PROVE  rows[k] \in Row /\ rows[k].id = nth(k) /\ rows[k].time = observed[nth(k)]
      OBVIOUS
    <3> DEFINE f == nth(k) \in poor \ active
    <3>1. rows[k] = [id |-> nth(k), time |-> observed[nth(k)], wanted |-> f]
      BY <1>5 DEF nth
    <3>2. f \in BOOLEAN
      OBVIOUS
    <3> HIDE DEF f
    <3> QED BY <2>2, <3>1, <3>2
  <2>4. rows \in [1 .. size -> Row] /\ size \in Nat
    BY <1>0, <1>1, <1>4, <1>5, <2>3
  <2> QED BY <2>3, <2>4
<1>10. ASSUME NEW i \in 1 .. size, NEW j \in 1 .. size, i < j
       PROVE  /\ Sweep!Precedes(rows[i].time, rows[i].id, rows[j].time, rows[j].id)
              /\ rows[i].id # rows[j].id
  <2>1. <<nth(i), nth(j)>> \in R /\ nth(i) \in A /\ nth(j) \in A
    BY <1>0, <1>1, <1>4, <1>6, <1>10, <1>14
  <2>2. Sweep!Precedes(observed[nth(i)], nth(i), observed[nth(j)], nth(j)) /\ nth(i) # nth(j)
    BY <1>2, <1>3, <2>1 DEF Orders
  <2> QED BY <1>9, <2>2
<1>11. ASSUME NEW i \in 1 .. size
       PROVE  /\ Sweep!Precedes(m.time, m.id, rows[i].time, rows[i].id) /\ rows[i].id \notin m.seen
              /\ observed[rows[i].id] # 0 /\ observed[rows[i].id] <= rows[i].time
  <2>0. i \in 1 .. n
    BY <1>0, <1>1, <1>4
  <2>1. nth(i) \in A /\ nth(i) \in SweepEvent /\ observed[nth(i)] \in Nat
    BY <1>0, <1>1, <1>6, <2>0
  <2>2. nth(i) \notin m.seen
    BY <1>7, <2>1 DEF CursorIsTrue
  <2> QED BY <1>7, <1>9, <2>1, <2>2
<1>12. ASSUME NEW e \in steady, e \notin m.seen
       PROVE  \/ \E i \in 1 .. size : rows[i].id = e
              \/ size = BatchSize /\ Sweep!Precedes(rows[BatchSize].time, rows[BatchSize].id, observed[e], e)
  <2>1. PICK k \in 1 .. n : e = nth(k)
    BY <1>8, <1>12, <1>13
  <2>2. CASE k <= size
    BY <1>0, <1>1, <1>4, <1>9, <2>1, <2>2
  <2>3. CASE k > size
    <3>1. size = BatchSize /\ BatchSize \in 1 .. n /\ BatchSize < k
      BY <1>0, <1>1, <1>4, <2>3
    <3>2. <<nth(BatchSize), e>> \in R /\ nth(BatchSize) \in A /\ e \in A
      BY <1>0, <1>6, <1>14, <2>1, <3>1
    <3> QED BY <1>2, <1>9, <3>1, <3>2
  <2> QED BY <1>0, <1>1, <1>4, <2>2, <2>3
<1> QED BY <1>4, <1>9, <1>10, <1>11, <1>12 DEF RowsAreNext, rows

\* Events that come or are dated back take nothing away: what lies before a
\* cursor stays there.
WorldMoves ==
  /\ \A e \in SweepEvent : observed[e] # 0 => observed'[e] # 0 /\ observed'[e] <= observed[e]
  /\ \A e \in steady' : e \in steady /\ observed'[e] = observed[e]

\* So a cursor that told the truth does so still.
LEMMA CursorsStay ==
    ASSUME SweepTypes, SweepTypes', WorldMoves, NEW m \in Message
    PROVE  CursorIsTrue(m, observed, steady) => CursorIsTrue(m, observed', steady')
<1> SUFFICES ASSUME CursorIsTrue(m, observed, steady) PROVE CursorIsTrue(m, observed', steady')
  OBVIOUS
<1>1. m.seen \subseteq SweepEvent /\ m.time \in Int
  BY DEF Message
<1>2. ASSUME NEW e \in m.seen
      PROVE  observed'[e] # 0 /\ ~Sweep!Precedes(m.time, m.id, observed'[e], e)
  <2>1. observed[e] \in Nat /\ observed'[e] \in Nat
    BY <1>1 DEF SweepTypes
  <2>2. observed[e] # 0 /\ ~Sweep!Precedes(m.time, m.id, observed[e], e)
    BY DEF CursorIsTrue
  <2>3. observed'[e] # 0 /\ observed'[e] <= observed[e]
    BY <1>1, <2>2 DEF WorldMoves
  <2> QED BY <1>1, <2>1, <2>2, <2>3 DEF Sweep!Precedes
<1>3. ASSUME NEW e \in steady'
      PROVE  e \in m.seen \/ Sweep!Precedes(m.time, m.id, observed'[e], e)
  BY DEF CursorIsTrue, WorldMoves
<1> QED BY <1>2, <1>3 DEF CursorIsTrue, Counts

\* And so does a batch in work.
LEMMA WorkStays ==
    ASSUME SweepTypes, SweepTypes', WorldMoves, NEW w, InWork(w, observed, steady)
    PROVE  InWork(w, observed', steady')
<1> DEFINE m == w.origin
           rows == w.rows
<1>1. m \in Message /\ RowsAreNext(m, rows, observed, steady) /\ CursorIsTrue(m, observed, steady)
  BY DEF InWork
<1>2. CursorIsTrue(m, observed', steady')
  BY <1>1, CursorsStay
<1>3. RowsAreNext(m, rows, observed', steady')
  <2> HIDE DEF m, rows
  <2>1. ASSUME NEW i \in DOMAIN rows
        PROVE  observed'[rows[i].id] # 0 /\ observed'[rows[i].id] <= rows[i].time
    <3>1. rows[i] \in Row
      BY <1>1 DEF RowsAreNext
    <3>2. rows[i].id \in SweepEvent /\ rows[i].time \in Int
      BY <3>1 DEF Row
    <3>3. observed[rows[i].id] \in Nat /\ observed'[rows[i].id] \in Nat
      BY <3>2 DEF SweepTypes
    <3>4. observed[rows[i].id] # 0 /\ observed[rows[i].id] <= rows[i].time
      BY <1>1 DEF RowsAreNext
    <3> QED BY <3>2, <3>3, <3>4 DEF WorldMoves
  <2>2. ASSUME NEW e \in steady'
        PROVE  \/ e \in m.seen
               \/ \E i \in DOMAIN rows : rows[i].id = e
               \/ /\ Len(rows) = BatchSize
                  /\ Sweep!Precedes(rows[BatchSize].time, rows[BatchSize].id, observed'[e], e)
    <3>1. e \in steady /\ observed'[e] = observed[e]
      BY DEF WorldMoves
    <3> QED BY <1>1, <3>1 DEF RowsAreNext
  <2> QED BY <1>1, <2>1, <2>2 DEF RowsAreNext
<1> QED BY <1>2, <1>3 DEF InWork, Counts

\* A message's successor: its cursor is the last row, which everything that was
\* seen lies before and everything steady that was not lies behind.
LEMMA SuccessorIsTrue ==
    ASSUME SweepTypes, NEW s \in Sweeper, InWork(sweeps[s], observed, steady), Sweep!Looked(s),
           Len(sweeps[s].rows) = BatchSize
    PROVE  Sweep!Successor(s) \in Message /\ CursorIsTrue(Sweep!Successor(s), observed, steady)
<1> DEFINE w == sweeps[s]
           m == w.origin
           rows == w.rows
           last == rows[BatchSize]
           new == Sweep!Successor(s)
<1>0. BatchSize \in Nat \ {0}
  BY SweepAssumption
<1>1. /\ m \in Message /\ CursorIsTrue(m, observed, steady) /\ RowsAreNext(m, rows, observed, steady)
      /\ w.message \in Message /\ Counts(w.message)
      /\ w.message.time = m.time /\ w.message.id = m.id
  BY DEF InWork
<1>2. DOMAIN rows = 1 .. BatchSize /\ w.next = BatchSize + 1 /\ rows \in Seq(Row)
  BY <1>0, <1>1 DEF InWork, Sweep!Looked, RowsAreNext
<1>3. w.message.seen = m.seen \union {rows[i].id : i \in 1 .. BatchSize}
  BY <1>0, <1>2 DEF InWork
<1>4. new = [w.message EXCEPT !.time = last.time, !.id = last.id]
  BY DEF Sweep!Successor
<1> HIDE DEF w, m, rows, last, new
<1>5. last \in Row /\ last.time \in Int /\ last.id \in Int
  <2>1. last \in Row
    BY <1>0, <1>2 DEF last
  <2>2. last.time \in Int /\ last.id \in SweepEvent
    BY <2>1 DEF Row
  <2> QED BY <2>1, <2>2, SweepAssumption
<1>6. new \in Message /\ Counts(new) /\ new.time = last.time /\ new.id = last.id
      /\ new.seen = w.message.seen
  BY <1>1, <1>4, <1>5 DEF Message, Counts
<1>7. ASSUME NEW e \in new.seen
      PROVE  observed[e] # 0 /\ ~Sweep!Precedes(new.time, new.id, observed[e], e)
  <2>1. e \in SweepEvent /\ observed[e] \in Int /\ e \in Int
    <3>1. e \in SweepEvent
      BY <1>6 DEF Message
    <3>2. observed[e] \in Nat
      BY <3>1 DEF SweepTypes
    <3> QED BY <3>1, <3>2, SweepAssumption
  <2>2. CASE e \in m.seen
    <3>1. observed[e] # 0 /\ ~Sweep!Precedes(m.time, m.id, observed[e], e)
      BY <1>1, <2>2 DEF CursorIsTrue
    <3>2. Sweep!Precedes(m.time, m.id, last.time, last.id)
      BY <1>0, <1>1, <1>2 DEF RowsAreNext, last
    <3>3. m.time \in Int /\ m.id \in Int
      BY <1>1 DEF Message
    <3> QED BY <1>5, <1>6, <2>1, <3>1, <3>2, <3>3 DEF Sweep!Precedes
  <2>3. CASE e \notin m.seen
    <3>1. PICK i \in 1 .. BatchSize : e = rows[i].id
      BY <1>3, <1>6, <2>3
    <3>2. observed[e] # 0 /\ observed[e] <= rows[i].time
      BY <1>1, <1>2, <3>1 DEF RowsAreNext
    <3>3. i < BatchSize => Sweep!Precedes(rows[i].time, rows[i].id, last.time, last.id)
      BY <1>0, <1>1, <1>2, <3>1 DEF RowsAreNext, last
    <3>4. rows[i].time \in Int
      <4>1. rows[i] \in Row
        BY <1>2, <3>1
      <4> QED BY <4>1 DEF Row
    <3>5. i < BatchSize \/ rows[i] = last
      BY <1>0, <3>1 DEF last
    <3> QED BY <1>5, <1>6, <2>1, <3>1, <3>2, <3>3, <3>4, <3>5 DEF Sweep!Precedes
  <2> QED BY <2>2, <2>3
<1>8. ASSUME NEW e \in steady, e \notin new.seen
      PROVE  Sweep!Precedes(new.time, new.id, observed[e], e)
  BY <1>1, <1>2, <1>3, <1>6, <1>8 DEF RowsAreNext, last
<1> QED BY <1>6, <1>7, <1>8 DEF CursorIsTrue, new

\* Every step of a sweep, or of the world it looks at, keeps the invariant.
LEMMA SweepNext ==
    ASSUME SweepInv, [Sweep!Next]_sweepVars
    PROVE  SweepInv'
<1> USE DEF SweepInv
<1>0. BatchSize \in Nat \ {0}
  BY SweepAssumption
<1>1. ASSUME NEW s \in Sweeper, Sweep!TakeBatch(s) PROVE SweepInv'
  <2>1. PICK m \in messages :
           /\ messages' = messages \ {m}
           /\ sweeps' = [sweeps EXCEPT ![s] =
                           [origin |-> m, message |-> m, rows |-> Sweep!Rows(m), next |-> 1]]
    BY <1>1 DEF Sweep!TakeBatch, Sweep!Hold
  <2>2. UNCHANGED <<observed, poor, active, steady, completed>>
    BY <1>1 DEF Sweep!TakeBatch
  <2> DEFINE w == [origin |-> m, message |-> m, rows |-> Sweep!Rows(m), next |-> 1]
  <2>3. m \in Message /\ CursorIsTrue(m, observed, steady) /\ RowsAreNext(m, Sweep!Rows(m), observed, steady)
    BY BatchIsNext DEF SweepTypes
  <2>4. Sweep!Rows(m) \in Seq(Row)
    BY <2>3 DEF RowsAreNext
  <2>5. InWork(w, observed, steady)
    <3>1. {Sweep!Rows(m)[i].id : i \in 1 .. (1 - 1)} = {}
      OBVIOUS
    <3>2. 1 \in 1 .. Len(Sweep!Rows(m)) + 1
      BY <2>4
    <3> QED BY <2>3, <3>1, <3>2 DEF InWork, CursorIsTrue
  <2>7. \A v : CursorIsTrue(v, observed, steady) => CursorIsTrue(v, observed', steady')
    BY <2>2 DEF CursorIsTrue, Counts
  <2>6. ASSUME NEW v, InWork(v, observed, steady) PROVE InWork(v, observed', steady')
    <3>1. RowsAreNext(v.origin, v.rows, observed', steady')
      BY <2>2, <2>6 DEF InWork, RowsAreNext
    <3> QED BY <2>6, <2>7, <3>1 DEF InWork
  <2>8. SweepTypes'
    BY <2>1, <2>2 DEF SweepTypes
  <2> HIDE DEF w
  <2>9. \A t \in Sweeper : sweeps'[t].next # 0 => InWork(sweeps'[t], observed', steady')
    BY <2>1, <2>5, <2>6 DEF w
  <2> QED BY <2>1, <2>2, <2>7, <2>8, <2>9
<1>2. ASSUME NEW s \in Sweeper, Sweep!Scan(s) PROVE SweepInv'
  <2> DEFINE w == sweeps[s]
             row == w.rows[w.next]
  <2>0. InWork(w, observed, steady) /\ w.next \in Nat \ {0} /\ w.next <= Len(w.rows) /\ w.rows \in Seq(Row)
    <3>1. InWork(w, observed, steady)
      BY <1>2 DEF Sweep!Scan, Sweep!Busy
    <3>2. w.rows \in Seq(Row) /\ w.next \in 1 .. Len(w.rows) + 1
      BY <3>1 DEF InWork, RowsAreNext
    <3>3. ~(w.next > Len(w.rows))
      BY <1>2 DEF Sweep!Scan, Sweep!Looked
    <3> QED BY <3>1, <3>2, <3>3
  <2>1. PICK m1 \in {[w.message EXCEPT !.skipped = @ + 1], [w.message EXCEPT !.queued = @ + 1],
                     [w.message EXCEPT !.failed = @ + 1]} :
          sweeps' = [sweeps EXCEPT ![s] =
                       [w EXCEPT !.next = @ + 1,
                                 !.message = [m1 EXCEPT !.scanned = @ + 1,
                                                        !.seen = @ \union {row.id}]]]
    BY <1>2 DEF Sweep!Scan, Sweep!Hold
  <2>2. UNCHANGED <<observed, messages, steady, completed>>
    BY <1>2 DEF Sweep!Scan
  <2>3. InWork(sweeps'[s], observed', steady')
    <3> DEFINE m == w.message
               m2 == [m1 EXCEPT !.scanned = @ + 1, !.seen = @ \union {row.id}]
               v == [w EXCEPT !.next = @ + 1, !.message = m2]
    <3>1. v.origin = w.origin /\ v.rows = w.rows /\ v.next = w.next + 1 /\ v.message = m2
      OBVIOUS
    <3>11. w.next \in DOMAIN w.rows
      BY <2>0
    <3>12. row \in Row
      BY <2>0, <3>11
    <3>2. row.id \in SweepEvent
      BY <3>12 DEF Row
    <3>3. RowsAreNext(w.origin, w.rows, observed, steady) /\ m \in Message /\ Counts(m)
          /\ m.seen = w.origin.seen \union {w.rows[i].id : i \in 1 .. (w.next - 1)}
      BY <2>0 DEF InWork
    <3>4. row.id \notin m.seen
      <4>1. row.id \notin w.origin.seen
        BY <3>3, <3>11 DEF RowsAreNext
      <4>2. \A i \in 1 .. (w.next - 1) : i \in DOMAIN w.rows /\ i < w.next
        BY <2>0
      <4>3. \A i \in 1 .. (w.next - 1) : w.rows[i].id # row.id
        BY <3>3, <3>11, <4>2 DEF RowsAreNext
      <4> QED BY <3>3, <4>1, <4>3
    <3> HIDE DEF v, m, row
    <3>5. /\ m2 \in Message /\ m2.scanned = m.scanned + 1
          /\ m2.time = m.time /\ m2.id = m.id /\ m2.seen = m.seen \union {row.id}
          /\ m2.queued + m2.skipped + m2.failed = m.queued + m.skipped + m.failed + 1
      <4>1. m1 \in {[m EXCEPT !.skipped = @ + 1], [m EXCEPT !.queued = @ + 1],
                    [m EXCEPT !.failed = @ + 1]}
        BY DEF m
      <4>2. /\ m1 \in Message /\ m1.scanned = m.scanned
            /\ m1.time = m.time /\ m1.id = m.id /\ m1.seen = m.seen
            /\ m1.queued + m1.skipped + m1.failed = m.queued + m.skipped + m.failed + 1
        BY <3>3, <4>1 DEF Message
      <4>3. /\ m2.scanned = m1.scanned + 1 /\ m2.seen = m1.seen \union {row.id}
            /\ m2.time = m1.time /\ m2.id = m1.id /\ m2.queued = m1.queued
            /\ m2.skipped = m1.skipped /\ m2.failed = m1.failed
        BY <4>2 DEF Message
      <4>4. m2 \in Message
        <5>1. m1.scanned + 1 \in Nat /\ m1.seen \union {row.id} \in SUBSET SweepEvent
          BY <3>2, <4>2 DEF Message
        <5> QED BY <4>2, <5>1 DEF Message
      <4> QED BY <4>2, <4>3, <4>4
    <3> HIDE DEF m2
    <3>6. Counts(v.message)
      <4>1. m.seen \subseteq SweepEvent /\ IsFiniteSet(SweepEvent)
        BY <3>3, SweepAssumption DEF Message
      <4>2. Cardinality(m.seen \union {row.id}) = Cardinality(m.seen) + 1
        BY <3>4, <4>1, FS_Subset, FS_AddElement
      <4> QED BY <3>1, <3>3, <3>5, <4>2 DEF Counts, Message
    <3>7. v.message.seen = w.origin.seen \union {w.rows[i].id : i \in 1 .. (v.next - 1)}
      <4>1. {w.rows[i].id : i \in 1 .. (v.next - 1)} =
              {w.rows[i].id : i \in 1 .. (w.next - 1)} \union {row.id}
        <5>1. \A i : i \in 1 .. (v.next - 1) <=> i \in 1 .. (w.next - 1) \/ i = w.next
          BY <2>0, <3>1, <3>11
        <5> QED BY <5>1 DEF row
      <4> QED BY <3>1, <3>3, <3>5, <4>1
    <3>8. sweeps'[s] = v
      BY <2>1 DEF v, m2
    <3>9. w.message.time = w.origin.time /\ w.message.id = w.origin.id /\ w.origin \in Message
          /\ CursorIsTrue(w.origin, observed, steady)
      BY <2>0 DEF InWork
    <3> HIDE DEF w
    <3>10. v.next \in 1 .. Len(v.rows) + 1
      BY <2>0, <3>1, <3>11
    <3>13. v.message \in Message /\ v.message.time = v.origin.time /\ v.message.id = v.origin.id
      BY <3>1, <3>5, <3>9 DEF m
    <3> QED BY <2>2, <3>1, <3>3, <3>6, <3>7, <3>8, <3>9, <3>10, <3>13 DEF InWork
  <2>7. \A v : CursorIsTrue(v, observed, steady) => CursorIsTrue(v, observed', steady')
    BY <2>2 DEF CursorIsTrue, Counts
  <2>6. ASSUME NEW v, InWork(v, observed, steady) PROVE InWork(v, observed', steady')
    <3>1. RowsAreNext(v.origin, v.rows, observed', steady')
      BY <2>2, <2>6 DEF InWork, RowsAreNext
    <3> QED BY <2>6, <2>7, <3>1 DEF InWork
  <2>8. SweepTypes'
    BY <2>2 DEF SweepTypes
  <2>9. \A t \in Sweeper : sweeps'[t].next # 0 => InWork(sweeps'[t], observed', steady')
    BY <2>1, <2>3, <2>6
  <2> QED BY <2>1, <2>2, <2>7, <2>8, <2>9
<1>3. ASSUME NEW s \in Sweeper, Sweep!Finish(s) \/ Sweep!Lost(s) \/ Sweep!Dies(s) PROVE SweepInv'
  <2> DEFINE w == sweeps[s]
             new == Sweep!Successor(s)
  <2>0. InWork(w, observed, steady) /\ w.origin \in Message /\ CursorIsTrue(w.origin, observed, steady)
    BY <1>3 DEF Sweep!Finish, Sweep!Lost, Sweep!Dies, Sweep!Busy, InWork
  <2>1. Sweep!Looked(s) /\ Len(w.rows) = BatchSize => new \in Message /\ CursorIsTrue(new, observed, steady)
    BY <2>0, SuccessorIsTrue
  <2>2. UNCHANGED <<observed, steady>> /\ sweeps' = [sweeps EXCEPT ![s] = Sweep!Idle]
    BY <1>3 DEF Sweep!Finish, Sweep!Lost, Sweep!Dies, Sweep!Hold
  <2> HIDE DEF new, w
  <2>3. messages' \subseteq messages \union {w.origin}
        \/ (Sweep!Looked(s) /\ Len(w.rows) = BatchSize
            /\ messages' \subseteq messages \union {w.origin, new})
    <3>1. Len(w.rows) <= BatchSize /\ Len(w.rows) \in Nat
      BY <2>0 DEF InWork, RowsAreNext
    <3> QED BY <1>0, <1>3, <3>1 DEF Sweep!Finish, Sweep!Lost, Sweep!Dies, new, w
  <2>4. completed' = completed \/ (completed' = completed \union {w.message} /\ Sweep!Looked(s)
                                   /\ Len(w.rows) # BatchSize)
    BY <1>3, <1>0 DEF Sweep!Finish, Sweep!Lost, Sweep!Dies, w
  <2>5. Sweep!Looked(s) /\ Len(w.rows) # BatchSize =>
          w.message \in Message /\ Counts(w.message) /\ steady \subseteq w.message.seen
    <3> SUFFICES ASSUME Sweep!Looked(s), Len(w.rows) # BatchSize
                 PROVE  w.message \in Message /\ Counts(w.message) /\ steady \subseteq w.message.seen
      OBVIOUS
    <3>1. w.rows \in Seq(Row) /\ w.next = Len(w.rows) + 1 /\ w.message \in Message /\ Counts(w.message)
      BY <2>0 DEF InWork, RowsAreNext, Sweep!Looked, w
    <3>2. w.message.seen = w.origin.seen \union {w.rows[i].id : i \in DOMAIN w.rows}
      <4>1. DOMAIN w.rows = 1 .. (w.next - 1)
        BY <3>1
      <4> QED BY <2>0, <4>1 DEF InWork
    <3>3. \A e \in steady : e \in w.origin.seen \/ \E i \in DOMAIN w.rows : w.rows[i].id = e
      BY <2>0 DEF InWork, RowsAreNext
    <3> QED BY <3>1, <3>2, <3>3
  <2>7. \A v : CursorIsTrue(v, observed, steady) => CursorIsTrue(v, observed', steady')
    BY <2>2 DEF CursorIsTrue, Counts
  <2>6. ASSUME NEW v, InWork(v, observed, steady) PROVE InWork(v, observed', steady')
    <3>1. RowsAreNext(v.origin, v.rows, observed', steady')
      BY <2>2, <2>6 DEF InWork, RowsAreNext
    <3> QED BY <2>6, <2>7, <3>1 DEF InWork
  <2>8. SweepTypes'
    BY <2>0, <2>1, <2>2, <2>3, <2>4, <2>5 DEF SweepTypes
  <2>9. \A t \in Sweeper : sweeps'[t].next # 0 => InWork(sweeps'[t], observed', steady')
    BY <2>2, <2>6 DEF Sweep!Idle
  <2>10. \A m \in messages' : CursorIsTrue(m, observed', steady')
    BY <2>0, <2>1, <2>3, <2>7
  <2>11. \A m \in completed' : Counts(m) /\ steady \subseteq m.seen
    BY <2>4, <2>5
  <2> QED BY <2>2, <2>8, <2>9, <2>10, <2>11
<1>4. ASSUME NEW e \in SweepEvent,
             Sweep!Appears(e) \/ Sweep!MovesBack(e) \/ Sweep!MappingEnds(e)
      PROVE  SweepInv'
  <2>1. UNCHANGED <<messages, sweeps, completed>>
    BY <1>4 DEF Sweep!Appears, Sweep!MovesBack, Sweep!MappingEnds
  <2>2. SweepTypes' /\ WorldMoves
    <3>1. observed \in [SweepEvent -> Nat] /\ LatestSeen \in Nat
      BY SweepAssumption DEF SweepTypes
    <3>2. /\ observed' \in [SweepEvent -> Nat] /\ WorldMoves
          /\ \A d \in steady' : d \in steady
      <4>1. CASE Sweep!Appears(e)
        BY <3>1, <4>1 DEF Sweep!Appears, WorldMoves, SweepTypes
      <4>2. CASE Sweep!MovesBack(e)
        BY <3>1, <4>2 DEF Sweep!MovesBack, WorldMoves, SweepTypes
      <4>3. CASE Sweep!MappingEnds(e)
        BY <3>1, <4>3 DEF Sweep!MappingEnds, WorldMoves, SweepTypes
      <4> QED BY <1>4, <4>1, <4>2, <4>3
    <3> QED BY <2>1, <3>2 DEF SweepTypes, WorldMoves
  <2>3. \A m \in messages' : CursorIsTrue(m, observed', steady')
    BY <2>1, <2>2, CursorsStay DEF SweepTypes
  <2>4. \A m \in completed' : Counts(m) /\ steady' \subseteq m.seen
    BY <2>1, <2>2 DEF WorldMoves, Counts
  <2>5. \A t \in Sweeper : sweeps'[t].next # 0 => InWork(sweeps'[t], observed', steady')
    BY <2>1, <2>2, WorkStays
  <2> QED BY <2>1, <2>2, <2>3, <2>4, <2>5
<1>5. CASE UNCHANGED sweepVars
  BY <1>5 DEF sweepVars, SweepTypes, InWork, CursorIsTrue, RowsAreNext, Counts
<1> QED BY <1>1, <1>2, <1>3, <1>4, <1>5 DEF Sweep!Next

\* No event is looked at twice or lost count of, and none that kept its place is
\* passed by, through redelivered messages and two chains at once (worker.py,
\* backfill_asset_mappings).
THEOREM NothingIsMissed == EventsSpec => []SweepMissesNothing
<1>1. EventsInit => SweepInv
  <2> SUFFICES ASSUME Sweep!Init PROVE SweepInv
    BY DEF EventsInit
  <2> DEFINE m == Sweep!Start
  <2>1. m \in Message /\ m.time = 0 /\ m.id = 0 /\ m.seen = {}
    BY DEF Message, Sweep!Start
  <2>2. Counts(m)
    BY FS_EmptySet DEF Counts, Sweep!Start
  <2>3. SweepTypes
    BY SweepAssumption, <2>1 DEF Sweep!Init, SweepTypes
  <2>4. CursorIsTrue(m, observed, steady)
    <3>1. \A e \in steady : observed[e] \in Nat /\ observed[e] # 0
      BY <2>3 DEF SweepTypes
    <3> HIDE DEF m
    <3> QED BY <2>1, <2>2, <3>1 DEF CursorIsTrue, Sweep!Precedes
  <2>5. \A s \in Sweeper : sweeps[s].next = 0
    BY DEF Sweep!Init, Sweep!Idle
  <2>6. messages = {m} /\ completed = {} /\ DOMAIN sweeps = Sweeper
    BY DEF Sweep!Init
  <2> HIDE DEF m
  <2> QED BY <2>3, <2>4, <2>5, <2>6 DEF SweepInv
<1>2. SweepInv /\ [EventsNext]_<<part, eventVars>> => SweepInv'
  BY EventsMove, SweepNext
<1>3. SweepInv => SweepMissesNothing
  BY SweepRanks DEF SweepInv, SweepMissesNothing, Sweep!SweepMissesNothing, CursorIsTrue, Counts
<1> QED BY <1>1, <1>2, <1>3, PTL DEF EventsSpec

-----------------------------------------------------------------------------
(* One event per story (EventClusters).  A handler may hold an event for as *)
(* long as it likes while others overwrite its row, so what it holds is     *)
(* compared with the row and with the news the row has lost since.          *)

EventFields == {"members", "type", "published", "candidates", "mapping"}
Named(ev) == Clusters!Range(ev.members)

\* An event in order: one story, no news twice, dated by its earliest.
OneStory(ev) ==
  /\ DOMAIN ev = EventFields
  /\ ev.members \in Seq(News) /\ ev.members # <<>>
  /\ \A i, j \in 1 .. Len(ev.members) : ev.members[i] = ev.members[j] => i = j
  /\ \A i \in 1 .. Len(ev.members) : i # 1 => Likeness[ev.members[1]][ev.members[i]] >= 1
  /\ \E i \in 1 .. Len(ev.members) : ev.published = NewsPublished[ev.members[i]]
  /\ \A i \in 1 .. Len(ev.members) : ev.published <= NewsPublished[ev.members[i]]

AreStories(pool) ==
  DOMAIN pool = Clusters!EventId /\ \A e \in Clusters!EventId : pool[e] = Clusters!NoEvent \/ OneStory(pool[e])

\* Rows read earlier: what has left them since has been seen to go.
Since(before, after, gone) ==
  \A e \in Clusters!EventId :
    /\ before[e] # Clusters!NoEvent => after[e] # Clusters!NoEvent
    /\ \A n \in Named(before[e]) : n \in Named(after[e]) \/ n \in gone

\* What a handler holds of a stored event, with the news it adds to it.
Holding(w, pool, gone, added) ==
  /\ OneStory(w.copy) /\ w.id \in Clusters!EventId /\ pool[w.id] # Clusters!NoEvent
  /\ \A n \in Named(w.copy) : n \in Named(pool[w.id]) \/ n \in gone \/ n \in added

HandFields == {"kind", "step", "todo", "seen", "id", "copy"}
Kinds == {"idle", "news", "scan", "refresh", "mapping"}

\* What a handler of each kind holds at each step.
Fits(w, pool, gone) ==
  /\ DOMAIN w = HandFields /\ w.todo \in Seq(News) /\ w.kind \in Kinds
  /\ w.kind = "idle" => w = Clusters!Idle
  /\ w.kind \in {"refresh", "mapping"} \/ w.step = "dispatch" =>
       w.kind = "idle" \/ (w.todo = <<>> /\ Holding(w, pool, gone, {}))
  /\ w.kind \in {"news", "scan"} => w.step \in {"look", "extract", "match", "save", "dispatch"}
  /\ w.kind = "news" /\ w.step # "dispatch" => \E n \in News : w.todo = <<n>>
  /\ w.kind = "scan" => w.step # "dispatch" /\ (w.step # "look" =>
       w.todo # <<>> /\ AreStories(w.seen) /\ Since(w.seen, pool, gone))
  /\ w.kind \in {"news", "scan"} /\ w.step = "match" =>
       \E type : w.copy = Clusters!Extracted(w.todo[1], type)
  /\ w.kind \in {"news", "scan"} /\ w.step = "save" =>
       \/ w.id = 0 /\ OneStory(w.copy) /\ Named(w.copy) = {w.todo[1]}
       \/ Holding(w, pool, gone, {w.todo[1]})

HandsFit ==
  DOMAIN handler = Handler /\ \A h \in Handler : Fits(handler[h], clusters, stolen)

\* Mapping tasks name events there are.
MappedExist ==
  \A e \in Clusters!EventId, forced \in BOOLEAN :
    <<e, forced>> \in mappings => clusters[e] # Clusters!NoEvent

\* News in two hands is known to be.
HandsApart ==
  \A g, h \in Handler : g # h =>
    \A n \in Clusters!InHand(g) : n \in Clusters!InHand(h) => n \in overlapping

\* News a handler has looked for and has alone is in no row.
HandsNew ==
  \A h \in Handler : handler[h].step # "look" =>
    \A n \in Clusters!InHand(h) : n \in overlapping \/ n \in stolen \/
      \A e \in Clusters!EventId : n \notin Named(clusters[e])

OneEach ==
  \A d, e \in Clusters!EventId : d # e =>
    \A n \in Named(clusters[d]) : n \in Named(clusters[e]) => n \in overlapping \/ n \in stolen

ClustersInv ==
  AreStories(clusters) /\ HandsFit /\ MappedExist /\ HandsApart /\ HandsNew /\ OneEach

-----------------------------------------------------------------------------
\* What is known of earlier rows stays known of them when the rows move on.
LEMMA SinceThen ==
    ASSUME NEW first, NEW second, NEW third, NEW gone, NEW more,
           Since(first, second, gone), Since(second, third, more), gone \subseteq more
    PROVE  Since(first, third, more)
BY DEF Since

\* What a handler holds fits the rows as they move on.
LEMMA FitsStays ==
    ASSUME NEW w, NEW before, NEW after, NEW gone, NEW more, Fits(w, before, gone),
           Since(before, after, more), gone \subseteq more
    PROVE  Fits(w, after, more)
<1>1. ASSUME NEW added, Holding(w, before, gone, added) PROVE Holding(w, after, more, added)
  BY <1>1 DEF Holding, Since
<1>2. ASSUME Since(w.seen, before, gone) PROVE Since(w.seen, after, more)
  BY <1>2, SinceThen
<1> QED BY <1>1, <1>2 DEF Fits

\* A step of handler h, seen from the rows and the other handlers.
HandMoves(h, w) ==
  /\ handler' = [handler EXCEPT ![h] = w] /\ Fits(w, clusters', stolen')
  /\ AreStories(clusters') /\ Since(clusters, clusters', stolen')
  /\ stolen \subseteq stolen' /\ overlapping \subseteq overlapping'
  /\ \A n \in Clusters!Range(w.todo) :
       /\ n \in Clusters!InHand(h) \/ n \in overlapping'
          \/ \A g \in Handler : g # h => n \notin Clusters!InHand(g)
       /\ w.step = "look" \/ n \in overlapping' \/ n \in stolen'
          \/ \A e \in Clusters!EventId : n \notin Named(clusters'[e])
  /\ \A e \in Clusters!EventId : \A n \in Named(clusters'[e]) :
       \/ n \in Named(clusters[e]) \/ n \in stolen'
       \/ /\ n \in Clusters!InHand(h) /\ handler[h].step # "look"
          /\ \A d \in Clusters!EventId : d # e => clusters'[d] = clusters[d]

\* Such a step keeps what is known of all the rows and hands.
LEMMA HandMovesKeeps ==
    ASSUME ClustersInv, NEW h \in Handler, NEW w, HandMoves(h, w)
    PROVE  AreStories(clusters)' /\ HandsFit' /\ HandsApart' /\ HandsNew' /\ OneEach'
<1>0. /\ DOMAIN handler = Handler /\ DOMAIN handler' = Handler /\ handler'[h] = w
      /\ \A g \in Handler : g # h => handler'[g] = handler[g]
  BY DEF HandMoves, ClustersInv, HandsFit
<1>1. /\ Clusters!InHand(h)' = Clusters!Range(w.todo)
      /\ \A g \in Handler : g # h => Clusters!InHand(g)' = Clusters!InHand(g)
  BY <1>0 DEF Clusters!InHand
<1>2. HandsFit'
  <2> SUFFICES ASSUME NEW g \in Handler PROVE Fits(handler'[g], clusters', stolen')
    BY <1>0 DEF HandsFit
  <2>1. CASE g = h
    BY <2>1, <1>0 DEF HandMoves
  <2>2. CASE g # h
    <3>1. Fits(handler[g], clusters, stolen)
      BY DEF ClustersInv, HandsFit
    <3> QED BY <3>1, <2>2, <1>0, FitsStays DEF HandMoves
  <2> QED BY <2>1, <2>2
<1>3. HandsApart'
  BY <1>1 DEF HandsApart, HandMoves, ClustersInv
<1>4. HandsNew'
  <2> SUFFICES ASSUME NEW g \in Handler, handler'[g].step # "look", NEW n \in Clusters!InHand(g)',
                      n \notin overlapping', n \notin stolen', NEW e \in Clusters!EventId,
                      n \in Named(clusters'[e])
               PROVE  FALSE
    BY DEF HandsNew, Named
  <2>1. CASE g = h
    BY <2>1, <1>0, <1>1 DEF HandMoves
  <2>2. CASE g # h
    <3>1. n \notin Named(clusters[e])
      BY <2>2, <1>0, <1>1 DEF HandsNew, ClustersInv, HandMoves
    <3>2. n \in Clusters!InHand(h)
      BY <3>1 DEF HandMoves
    <3> QED BY <3>2, <2>2, <1>1 DEF HandsApart, ClustersInv, HandMoves
  <2> QED BY <2>1, <2>2
<1>5. OneEach'
  <2> SUFFICES ASSUME NEW d \in Clusters!EventId, NEW e \in Clusters!EventId, d # e, NEW n,
                      n \in Named(clusters'[d]), n \in Named(clusters'[e]),
                      n \notin overlapping', n \notin stolen'
               PROVE  FALSE
    BY DEF OneEach, Named
  <2>0. n \notin overlapping /\ n \notin stolen
    BY DEF HandMoves
  <2>1. CASE n \in Named(clusters[d]) /\ n \in Named(clusters[e])
    BY <2>0, <2>1 DEF OneEach, ClustersInv
  <2>2. ASSUME NEW a \in Clusters!EventId, NEW b \in Clusters!EventId, a # b,
               n \in Named(clusters'[a]), n \in Named(clusters'[b]), n \notin Named(clusters[a])
        PROVE  FALSE
    <3>1. /\ n \in Clusters!InHand(h) /\ handler[h].step # "look"
          /\ clusters'[b] = clusters[b]
      BY <2>2 DEF HandMoves
    <3>2. n \notin Named(clusters[b])
      BY <3>1, <2>0 DEF HandsNew, ClustersInv
    <3> QED BY <3>1, <3>2, <2>2
  <2> QED BY <2>1, <2>2
<1>6. AreStories(clusters)'
  BY DEF HandMoves
<1> QED BY <1>2, <1>3, <1>4, <1>5, <1>6

-----------------------------------------------------------------------------
\* The news of an event are the elements of its list.
LEMMA NamedAre ==
    ASSUME NEW ev, OneStory(ev)
    PROVE  /\ Len(ev.members) \in Nat /\ Len(ev.members) >= 1
           /\ \A i \in 1 .. Len(ev.members) : ev.members[i] \in News /\ ev.members[i] \in Named(ev)
           /\ \A n \in Named(ev) : \E i \in 1 .. Len(ev.members) : n = ev.members[i]
           /\ NewsPublished[ev.members[1]] \in Int
<1>1. ev.members \in Seq(News) /\ ev.members # <<>>
  BY DEF OneStory
<1>2. /\ Len(ev.members) \in Nat /\ DOMAIN ev.members = 1 .. Len(ev.members)
      /\ \A i \in 1 .. Len(ev.members) : ev.members[i] \in News
  BY <1>1, ElementOfSeq, LenProperties
<1>3. Len(ev.members) >= 1
  BY <1>1, <1>2, EmptySeq
<1>4. 1 \in 1 .. Len(ev.members)
  BY <1>2, <1>3
<1> QED BY <1>2, <1>3, <1>4, ClustersAssumption DEF Named, Clusters!Range

\* An event that differs in nothing that its story is told by is in order too.
LEMMA StoryStays ==
    ASSUME NEW ev, NEW fv, OneStory(ev), DOMAIN fv = EventFields,
           fv.members = ev.members, fv.published = ev.published
    PROVE  OneStory(fv) /\ Named(fv) = Named(ev)
BY DEF OneStory, Named

\* What the model makes of one item is an event in order.
LEMMA ExtractedIsStory ==
    ASSUME NEW n \in News, NEW type
    PROVE  OneStory(Clusters!Extracted(n, type)) /\ Named(Clusters!Extracted(n, type)) = {n}
<1> DEFINE ev == Clusters!Extracted(n, type)
<1>1. ev.members = <<n>> /\ ev.published = NewsPublished[n] /\ DOMAIN ev = EventFields
  BY DEF Clusters!Extracted, EventFields
<1>2. Len(<<n>>) = 1 /\ <<n>> \in Seq(News) /\ DOMAIN <<n>> = 1 .. 1 /\ <<n>>[1] = n /\ <<n>> # <<>>
  OBVIOUS
<1>3. NewsPublished[n] \in Int
  BY ClustersAssumption
<1> HIDE DEF ev
<1>4. OneStory(ev)
  BY <1>1, <1>2, <1>3 DEF OneStory
<1>5. Named(ev) = {n}
  BY <1>1, <1>2 DEF Named, Clusters!Range
<1> QED BY <1>4, <1>5 DEF ev

\* An event that takes in one item of the same story is still one story.
LEMMA MergedIsStory ==
    ASSUME NEW ev, OneStory(ev), NEW n \in News, NEW fresh, fresh.members = <<n>>,
           fresh.published = NewsPublished[n], Likeness[ev.members[1]][n] >= 1
    PROVE  /\ OneStory(Clusters!MergeEvent(ev, fresh))
           /\ Named(Clusters!MergeEvent(ev, fresh)) = Named(ev) \union {n}
<1> DEFINE merged == Clusters!MergeEvent(ev, fresh)
           least == Clusters!Min({ev.published, fresh.published})
<1>0. fresh.members[1] = n
  OBVIOUS
<1>1. /\ DOMAIN merged = EventFields /\ merged.published = least
      /\ n \in Named(ev) => merged.members = ev.members
      /\ n \notin Named(ev) => merged.members = ev.members \o <<n>>
  <2>1. DOMAIN ev = EventFields
    BY DEF OneStory
  <2> QED BY <1>0, <2>1 DEF Clusters!MergeEvent, EventFields, Named
<1>2. ev.published \in Int /\ fresh.published \in Int
  <2>1. PICK i \in 1 .. Len(ev.members) : ev.published = NewsPublished[ev.members[i]]
    BY DEF OneStory
  <2> QED BY <2>1, NamedAre, ClustersAssumption
<1>3. least \in {ev.published, fresh.published} /\ least <= ev.published /\ least <= fresh.published
  <2>1. \E x \in {ev.published, fresh.published} : \A y \in {ev.published, fresh.published} : x <= y
    BY <1>2
  <2> QED BY <2>1, <1>2 DEF Clusters!Min
<1> HIDE DEF merged, least
<1>4. CASE n \in Named(ev)
  <2>1. least = ev.published
    <3>1. PICK i \in 1 .. Len(ev.members) : n = ev.members[i]
      BY <1>4, NamedAre
    <3>2. ev.published <= fresh.published
      BY <3>1 DEF OneStory
    <3> QED BY <3>2, <1>2, <1>3
  <2>2. OneStory(merged) /\ Named(merged) = Named(ev)
    BY <1>1, <1>4, <2>1, StoryStays
  <2> QED BY <2>2, <1>4 DEF merged
<1>5. CASE n \notin Named(ev)
  <2> DEFINE m == ev.members
             l == Len(ev.members)
             q == ev.members \o <<n>>
  <2>1. m \in Seq(News) /\ l \in Nat /\ l >= 1 /\ \A i \in 1 .. l : m[i] \in News /\ m[i] # n
    <3>1. m \in Seq(News)
      BY DEF OneStory
    <3>2. l \in Nat /\ l >= 1 /\ \A i \in 1 .. l : m[i] \in News /\ m[i] \in Named(ev)
      BY NamedAre
    <3> QED BY <1>5, <3>1, <3>2
  <2>2. q \in Seq(News) /\ Len(q) = l + 1 /\ (\A i \in 1 .. l : q[i] = m[i]) /\ q[l + 1] = n
    BY <2>1
  <2>3. /\ \A i, j \in 1 .. l : m[i] = m[j] => i = j
        /\ \A i \in 1 .. l : i # 1 => Likeness[m[1]][m[i]] >= 1
        /\ \E i \in 1 .. l : ev.published = NewsPublished[m[i]]
        /\ \A i \in 1 .. l : ev.published <= NewsPublished[m[i]] /\ NewsPublished[m[i]] \in Int
    BY <2>1, ClustersAssumption DEF OneStory
  <2>4. merged.members = q /\ q # <<>> /\ q[1] = m[1] /\ Likeness[m[1]][n] >= 1
    BY <1>1, <1>5, <2>1, <2>2
  <2>5. DOMAIN q = 1 .. l + 1
    BY <2>2
  <2> HIDE DEF m, l, q
  <2>6. \A i \in 1 .. l + 1 : i \in 1 .. l \/ i = l + 1
    BY <2>1
  <2>7. \A i, j \in 1 .. l + 1 : q[i] = q[j] => i = j
    BY <2>1, <2>2, <2>3, <2>6
  <2>8. \A i \in 1 .. l + 1 : i # 1 => Likeness[q[1]][q[i]] >= 1
    BY <2>2, <2>3, <2>4, <2>6
  <2>9. \E i \in 1 .. l + 1 : least = NewsPublished[q[i]]
    <3>1. CASE least = ev.published
      <4>1. PICK i \in 1 .. l : ev.published = NewsPublished[m[i]]
        BY <2>3
      <4>2. i \in 1 .. l + 1
        BY <2>1
      <4> QED BY <3>1, <4>1, <4>2, <2>2
    <3>2. CASE least = fresh.published
      <4>1. l + 1 \in 1 .. l + 1
        BY <2>1
      <4> QED BY <3>2, <4>1, <2>2
    <3> QED BY <3>1, <3>2, <1>3
  <2>10. \A i \in 1 .. l + 1 : least <= NewsPublished[q[i]]
    <3>1. \A i \in 1 .. l : least <= NewsPublished[m[i]]
      BY <2>3, <1>2, <1>3
    <3> QED BY <3>1, <1>3, <2>2, <2>6
  <2>11. OneStory(merged)
    BY <1>1, <2>2, <2>4, <2>7, <2>8, <2>9, <2>10 DEF OneStory
  <2>12. Named(merged) = Named(ev) \union {n}
    <3>1. Named(merged) = {q[i] : i \in 1 .. l + 1}
      BY <2>4, <2>5 DEF Named, Clusters!Range
    <3>2. \A x \in Named(merged) : x \in Named(ev) \/ x = n
      BY <3>1, <2>2, <2>6, NamedAre DEF m, l
    <3>3. \A x \in Named(ev) : x \in Named(merged)
      <4>1. \A i \in 1 .. l : i \in 1 .. l + 1
        BY <2>1
      <4> QED BY <4>1, <3>1, <2>2, NamedAre DEF m, l
    <3>4. n \in Named(merged)
      BY <3>1, <2>1, <2>2
    <3> QED BY <3>2, <3>3, <3>4
  <2> QED BY <2>11, <2>12 DEF merged
<1> QED BY <1>4, <1>5

\* The earliest of its members dates an event in order.
LEMMA EarliestDates ==
    ASSUME NEW ev, OneStory(ev)
    PROVE  ev.published = Clusters!Min({NewsPublished[n] : n \in Named(ev)})
<1> DEFINE S == {NewsPublished[n] : n \in Named(ev)}
<1>1. ev.published \in S /\ ev.published \in Int /\ \A x \in S : x \in Int /\ ev.published <= x
  <2>1. PICK i \in 1 .. Len(ev.members) : ev.published = NewsPublished[ev.members[i]]
    BY DEF OneStory
  <2>2. ASSUME NEW n \in Named(ev) PROVE NewsPublished[n] \in Int /\ ev.published <= NewsPublished[n]
    <3>1. PICK j \in 1 .. Len(ev.members) : n = ev.members[j]
      BY NamedAre
    <3>2. n \in News /\ ev.published <= NewsPublished[n]
      BY <3>1, NamedAre DEF OneStory
    <3> QED BY <3>2, ClustersAssumption
  <2>3. ev.members[i] \in Named(ev)
    BY NamedAre
  <2> QED BY <2>1, <2>2, <2>3
<1> HIDE DEF S
<1>2. Clusters!Min(S) \in S /\ \A x \in S : Clusters!Min(S) <= x
  BY <1>1 DEF Clusters!Min
<1>3. ev.published = Clusters!Min(S)
  BY <1>1, <1>2
<1> QED BY <1>3 DEF S

\* An event rebuilt of its members is as old as it was.
LEMMA RebuiltIsStory ==
    ASSUME NEW ev, OneStory(ev), NEW type
    PROVE  /\ OneStory(Clusters!RebuildEvent(ev, type))
           /\ Named(Clusters!RebuildEvent(ev, type)) = Named(ev)
<1> DEFINE rebuilt == Clusters!RebuildEvent(ev, type)
<1>1. DOMAIN ev = EventFields
  BY DEF OneStory
<1>2. /\ rebuilt.published = Clusters!Min({NewsPublished[n] : n \in Named(ev)})
      /\ rebuilt.members = ev.members /\ DOMAIN rebuilt = EventFields
  BY <1>1 DEF Clusters!RebuildEvent, Named, EventFields
<1> HIDE DEF rebuilt
<1>3. rebuilt.published = ev.published
  BY <1>2, EarliestDates
<1>4. OneStory(rebuilt) /\ Named(rebuilt) = Named(ev)
  BY <1>2, <1>3, StoryStays
<1> QED BY <1>4 DEF rebuilt

-----------------------------------------------------------------------------
\* What a handler writes of a story: news a row loses goes to the stolen.
LEMMA WritesAStory ==
    ASSUME AreStories(clusters), NEW t \in Clusters!EventId, NEW ev, OneStory(ev),
           Clusters!Writes(t, ev)
    PROVE  /\ AreStories(clusters') /\ Since(clusters, clusters', stolen') /\ stolen \subseteq stolen'
           /\ clusters'[t] = ev /\ \A e \in Clusters!EventId : e # t => clusters'[e] = clusters[e]
           /\ \A e \in Clusters!EventId : clusters[e] # Clusters!NoEvent => clusters'[e] # Clusters!NoEvent
<1>1. DOMAIN ev # DOMAIN Clusters!NoEvent
  BY DEF OneStory, EventFields, Clusters!NoEvent
<1>2. ev # Clusters!NoEvent
  BY <1>1
<1>3. /\ DOMAIN clusters' = Clusters!EventId /\ clusters'[t] = ev
      /\ \A e \in Clusters!EventId : e # t => clusters'[e] = clusters[e]
      /\ stolen' = stolen \union (Named(clusters[t]) \ Named(ev))
  BY DEF Clusters!Writes, AreStories, Named
<1>4. AreStories(clusters')
  BY <1>3 DEF AreStories
<1>5. Since(clusters, clusters', stolen')
  BY <1>2, <1>3 DEF Since
<1> QED BY <1>2, <1>3, <1>4, <1>5

\* There is a free row, and it is one of the rows.
LEMMA FreeIsARow ==
    ASSUME Clusters!Free # {}
    PROVE  Clusters!Min(Clusters!Free) \in Clusters!EventId /\ clusters[Clusters!Min(Clusters!Free)] = Clusters!NoEvent
<1>1. Clusters!Free \subseteq Nat
  BY ClustersAssumption DEF Clusters!Free, Clusters!EventId
<1>2. \E x \in Clusters!Free : \A y \in Clusters!Free : x <= y
  BY <1>1, LeastExists
<1>3. Clusters!Min(Clusters!Free) \in Clusters!Free
  BY <1>2 DEF Clusters!Min
<1> QED BY <1>3 DEF Clusters!Free

-----------------------------------------------------------------------------
\* A step that writes nothing, of a handler that takes up no news.
LEMMA QuietMoves ==
    ASSUME ClustersInv, NEW h \in Handler, NEW w, handler' = [handler EXCEPT ![h] = w],
           UNCHANGED <<clusters, stolen, overlapping>>, Fits(w, clusters, stolen),
           \A n \in Clusters!Range(w.todo) :
             /\ n \in Clusters!InHand(h)
             /\ \/ handler[h].step # "look"
                \/ \A e \in Clusters!EventId : n \notin Named(clusters[e])
    PROVE  HandMoves(h, w)
<1>1. Since(clusters, clusters, stolen)
  BY DEF Since
<1>2. \A n \in Clusters!Range(w.todo) :
        n \in overlapping \/ n \in stolen \/ \A e \in Clusters!EventId : n \notin Named(clusters[e])
  BY DEF ClustersInv, HandsNew
<1>3. AreStories(clusters)
  BY DEF ClustersInv
<1>4. clusters' = clusters /\ stolen' = stolen /\ overlapping' = overlapping
  OBVIOUS
<1> QED BY <1>1, <1>2, <1>3, <1>4 DEF HandMoves

\* What a handler may write: what the row has, or has lost, and what it adds.
MayWrite(h, t, ev, added) ==
  /\ OneStory(ev) /\ t \in Clusters!EventId
  /\ \A n \in Named(ev) : n \in Named(clusters[t]) \/ n \in stolen \/ n \in added
  /\ \A n \in added : n \in Clusters!InHand(h) /\ handler[h].step # "look"

\* A step that writes an event, and leaves the handler the rest of its news.
LEMMA WriteMoves ==
    ASSUME ClustersInv, NEW h \in Handler, NEW w, handler' = [handler EXCEPT ![h] = w],
           NEW t, NEW ev, NEW added, MayWrite(h, t, ev, added), Clusters!Writes(t, ev),
           overlapping' = overlapping, Fits(w, clusters', stolen'),
           \A n \in Clusters!Range(w.todo) :
             n \in Clusters!InHand(h) /\ handler[h].step # "look" /\ n \notin added
    PROVE  HandMoves(h, w)
<1>1. AreStories(clusters) /\ OneStory(ev) /\ t \in Clusters!EventId
  BY DEF ClustersInv, MayWrite
<1>2. /\ AreStories(clusters') /\ Since(clusters, clusters', stolen') /\ stolen \subseteq stolen'
      /\ clusters'[t] = ev /\ \A e \in Clusters!EventId : e # t => clusters'[e] = clusters[e]
  BY <1>1, WritesAStory
<1>3. ASSUME NEW e \in Clusters!EventId, NEW n \in Named(clusters'[e])
      PROVE  \/ n \in Named(clusters[e]) \/ n \in stolen'
             \/ /\ n \in added
                /\ \A d \in Clusters!EventId : d # e => clusters'[d] = clusters[d]
  <2>1. CASE e = t
    BY <2>1, <1>2 DEF MayWrite
  <2>2. CASE e # t
    BY <2>2, <1>2
  <2> QED BY <2>1, <2>2
<1>4. ASSUME NEW n \in Clusters!Range(w.todo), n \notin overlapping, n \notin stolen',
             NEW e \in Clusters!EventId
      PROVE  n \notin Named(clusters'[e])
  <2>1. n \notin Named(clusters[e])
    BY <1>2, <1>4 DEF ClustersInv, HandsNew
  <2> QED BY <2>1, <1>3, <1>4
<1>5. \A n \in added : n \in Clusters!InHand(h) /\ handler[h].step # "look"
  BY DEF MayWrite
<1> QED BY <1>2, <1>3, <1>4, <1>5 DEF HandMoves

\* News that a handler has in hand.
LEMMA FirstInHand ==
    ASSUME NEW w, w.todo \in Seq(News), w.todo # <<>>
    PROVE  /\ w.todo[1] \in News /\ w.todo[1] \in Clusters!Range(w.todo)
           /\ Tail(w.todo) \in Seq(News)
           /\ \A i \in 1 .. Len(Tail(w.todo)) : Tail(w.todo)[i] \in Clusters!Range(w.todo)
<1>1. /\ Len(w.todo) \in Nat /\ DOMAIN w.todo = 1 .. Len(w.todo) /\ Len(w.todo) >= 1
      /\ \A i \in 1 .. Len(w.todo) : w.todo[i] \in News
  BY ElementOfSeq, LenProperties, EmptySeq
<1>2. Tail(w.todo) \in Seq(News) /\ Len(Tail(w.todo)) = Len(w.todo) - 1
      /\ \A i \in 1 .. Len(Tail(w.todo)) : Tail(w.todo)[i] = w.todo[i + 1]
  BY HeadTailProperties
<1>3. \A i \in 1 .. Len(Tail(w.todo)) : i + 1 \in 1 .. Len(w.todo)
  BY <1>1, <1>2
<1>4. 1 \in 1 .. Len(w.todo)
  BY <1>1
<1> QED BY <1>1, <1>2, <1>3, <1>4 DEF Clusters!Range

\* A step of one handler that publishes no task of an event there is not.
LEMMA StepKeeps ==
    ASSUME ClustersInv, NEW h \in Handler, NEW w, HandMoves(h, w),
           \A e \in Clusters!EventId, forced \in BOOLEAN :
             <<e, forced>> \in mappings' => <<e, forced>> \in mappings \/ clusters'[e] # Clusters!NoEvent
    PROVE  ClustersInv'
<1>1. MappedExist'
  BY DEF MappedExist, HandMoves, ClustersInv, Since
<1> QED BY <1>1, HandMovesKeeps DEF ClustersInv

\* An idle handler fits whatever the rows are.
LEMMA IdleFits ==
    ASSUME NEW pool, NEW gone
    PROVE  Fits(Clusters!Idle, pool, gone) /\ Clusters!Range(Clusters!Idle.todo) = {}
           /\ Clusters!Range(<<>>) = {} /\ Named(Clusters!NoEvent) = {}
BY DEF Fits, Clusters!Idle, HandFields, Kinds, Clusters!Range, Named, Clusters!NoEvent

\* A row in use is an event in order.
LEMMA RowIsStory ==
    ASSUME NEW pool, AreStories(pool), NEW e \in Clusters!EventId, pool[e] # Clusters!NoEvent
    PROVE  OneStory(pool[e])
BY DEF AreStories

-----------------------------------------------------------------------------
\* What is left of a batch is what is proved of here.
LEMMA ClustersRanks ==
    /\ \A S : Clusters!Cardinality(S) = Cardinality(S)
    /\ \A s, S : Clusters!Without(s, S) = Without(s, S)
<1>1. \A S : Clusters!Cardinality(S) = Cardinality(S)
  BY Zenon DEF Clusters!Cardinality, Cardinality
<1>2. \A S, R, x : Clusters!Rank(S, R, x) = Rank(S, R, x)
  BY <1>1, Zenon DEF Clusters!Rank, Rank
<1>3. \A S, R, k : Clusters!Nth(S, R, k) = Nth(S, R, k)
  BY <1>2, Zenon DEF Clusters!Nth, Nth
<1>4. \A S, R : Clusters!InOrder(S, R) = InOrder(S, R)
  BY <1>1, <1>3, Zenon DEF Clusters!InOrder, InOrder
<1>5. \A S : Clusters!Upwards(S) = Upwards(S)
  BY Zenon DEF Clusters!Upwards, Upwards
<1>6. \A S : Clusters!Ascending(S) = Ascending(S)
  BY <1>4, <1>5, Zenon DEF Clusters!Ascending, Ascending
<1>7. \A s, I : Clusters!Picked(s, I) = Picked(s, I)
  BY <1>1, <1>6, Zenon DEF Clusters!Picked, Picked
<1>8. \A s, S : Clusters!Without(s, S) = Without(s, S)
  BY <1>7, Zenon DEF Clusters!Without, Without
<1> QED BY <1>1, <1>8

\* Taking news up keeps the invariant: what two hands share is noted.
LEMMA TakeNewsKeeps ==
    ASSUME ClustersInv, NEW h \in Handler, NEW kind \in {"news", "scan"}, NEW batch \in Seq(News),
           kind = "news" => \E n \in News : batch = <<n>>, Clusters!TakeNews(h, kind, batch)
    PROVE  ClustersInv'
<1> DEFINE w == [Clusters!Idle EXCEPT !.kind = kind, !.step = "look", !.todo = batch]
<1>1. /\ DOMAIN w = HandFields /\ w.kind = kind /\ w.step = "look" /\ w.todo = batch
  BY DEF Clusters!Idle, HandFields
<1>2. /\ handler' = [handler EXCEPT ![h] = w]
      /\ UNCHANGED <<clusters, mappings, stolen>>
      /\ overlapping' = overlapping \union
           UNION {Clusters!InHand(g) \intersect Clusters!Range(batch) : g \in Handler \ {h}}
  BY DEF Clusters!TakeNews, Clusters!Hold
<1> HIDE DEF w
<1>3. Fits(w, clusters, stolen)
  BY <1>1 DEF Fits, Kinds
<1>4. \A n \in Clusters!Range(batch) : n \in overlapping' \/
        \A g \in Handler : g # h => n \notin Clusters!InHand(g)
  BY <1>2
<1>5. AreStories(clusters) /\ Since(clusters, clusters, stolen)
  BY DEF ClustersInv, Since
<1>6. HandMoves(h, w)
  BY <1>1, <1>2, <1>3, <1>4, <1>5 DEF HandMoves
<1> QED BY <1>2, <1>6, StepKeeps

\* A handler that looks for its news finds an event of it, or none names it.
LEMMA LookKeeps ==
    ASSUME ClustersInv, NEW h \in Handler, Clusters!Look(h)
    PROVE  ClustersInv'
<1> DEFINE v == handler[h]
           named == Clusters!Naming(clusters, v.todo[1])
<1>1. Fits(v, clusters, stolen) /\ v.kind = "news" /\ v.step = "look"
  BY DEF ClustersInv, HandsFit, Clusters!Look, Clusters!At
<1>2. PICK n \in News : v.todo = <<n>>
  BY <1>1 DEF Fits
<1>3. DOMAIN v = HandFields /\ v.todo[1] = n /\ Clusters!Range(v.todo) = {n}
  BY <1>1, <1>2 DEF Fits, Clusters!Range
<1>4. UNCHANGED <<clusters, mappings, overlapping, stolen>>
  BY DEF Clusters!Look
<1>5. CASE named = {} /\ Clusters!Hold(h, [v EXCEPT !.step = "extract"])
  <2> DEFINE w == [v EXCEPT !.step = "extract"]
  <2>1. DOMAIN w = HandFields /\ w.kind = "news" /\ w.step = "extract" /\ w.todo = <<n>>
    BY <1>1, <1>2, <1>3 DEF HandFields
  <2>2. handler' = [handler EXCEPT ![h] = w]
    BY <1>5 DEF Clusters!Hold
  <2> HIDE DEF w
  <2>3. \A e \in Clusters!EventId : n \notin Named(clusters[e])
    BY <1>3, <1>5, IdleFits DEF Clusters!Naming, Clusters!Stored, Named
  <2>4. Fits(w, clusters, stolen)
    BY <2>1 DEF Fits, Kinds
  <2>5. HandMoves(h, w)
    BY <1>2, <1>3, <1>4, <2>1, <2>2, <2>3, <2>4, QuietMoves DEF Clusters!InHand
  <2> QED BY <1>4, <2>5, StepKeeps
<1>6. ASSUME NEW e \in named,
             Clusters!Hold(h, [v EXCEPT !.step = "dispatch", !.todo = <<>>, !.id = e, !.copy = clusters[e]])
      PROVE  ClustersInv'
  <2> DEFINE w == [v EXCEPT !.step = "dispatch", !.todo = <<>>, !.id = e, !.copy = clusters[e]]
  <2>1. /\ DOMAIN w = HandFields /\ w.kind = "news" /\ w.step = "dispatch" /\ w.todo = <<>>
        /\ w.id = e /\ w.copy = clusters[e]
    BY <1>1, <1>3 DEF HandFields
  <2>2. handler' = [handler EXCEPT ![h] = w]
    BY <1>6 DEF Clusters!Hold
  <2> HIDE DEF w
  <2>3. e \in Clusters!EventId /\ clusters[e] # Clusters!NoEvent
    BY DEF Clusters!Naming, Clusters!Stored
  <2>4. OneStory(clusters[e])
    BY <2>3, RowIsStory DEF ClustersInv
  <2>5. Holding(w, clusters, stolen, {})
    BY <2>1, <2>3, <2>4 DEF Holding
  <2>6. Fits(w, clusters, stolen)
    BY <2>1, <2>5 DEF Fits, Kinds
  <2>7. HandMoves(h, w)
    BY <1>4, <2>1, <2>2, <2>6, IdleFits, QuietMoves
  <2> QED BY <1>4, <2>7, StepKeeps
<1> QED BY <1>5, <1>6 DEF Clusters!Look

\* A scan drops the news that some event names.
LEMMA LookAtPoolKeeps ==
    ASSUME ClustersInv, NEW h \in Handler, Clusters!LookAtPool(h)
    PROVE  ClustersInv'
<1> DEFINE v == handler[h]
           known == UNION {Clusters!Range(clusters[e].members) : e \in Clusters!EventId}
           rest == Clusters!Without(v.todo, known)
           more == [v EXCEPT !.step = "extract", !.todo = rest, !.seen = clusters]
           w == IF rest = <<>> THEN Clusters!Idle ELSE more
<1>1. Fits(v, clusters, stolen) /\ v.kind = "scan" /\ v.step = "look"
  BY DEF ClustersInv, HandsFit, Clusters!LookAtPool, Clusters!At
<1>2. UNCHANGED <<clusters, mappings, overlapping, stolen>> /\ handler' = [handler EXCEPT ![h] = w]
  BY DEF Clusters!LookAtPool, Clusters!Hold
<1>3. DOMAIN v = HandFields /\ v.todo \in Seq(News)
  BY <1>1 DEF Fits
<1>4. rest = Without(v.todo, known)
  BY ClustersRanks
<1>5. rest \in Seq(News) /\ \A n \in Clusters!Range(rest) : n \in Clusters!Range(v.todo) /\ n \notin known
  <2>1. DOMAIN v.todo = 1 .. Len(v.todo)
    BY <1>3, LenProperties
  <2> HIDE DEF rest, known
  <2>2. /\ Without(v.todo, known) \in Seq(News)
        /\ \A k \in DOMAIN Without(v.todo, known) : \E i \in 1 .. Len(v.todo) :
             Without(v.todo, known)[k] = v.todo[i] /\ v.todo[i] \notin known
    BY <1>3, WithoutLeaves
  <2> QED BY <1>4, <2>1, <2>2 DEF Clusters!Range
<1>6. \A n \in Clusters!Range(rest) : \A e \in Clusters!EventId : n \notin Named(clusters[e])
  BY <1>5 DEF Named
<1>7. /\ DOMAIN more = HandFields /\ more.kind = "scan" /\ more.step = "extract"
      /\ more.todo = rest /\ more.seen = clusters
  BY <1>1, <1>3 DEF HandFields
<1> HIDE DEF known, rest, more
<1>8. AreStories(clusters) /\ Since(clusters, clusters, stolen)
  BY DEF ClustersInv, Since
<1>9. Fits(w, clusters, stolen)
  <2>1. CASE rest = <<>>
    BY <2>1, IdleFits
  <2>2. CASE rest # <<>>
    <3>1. Fits(more, clusters, stolen)
      BY <2>2, <1>5, <1>7, <1>8 DEF Fits, Kinds
    <3> QED BY <3>1, <2>2
  <2> QED BY <2>1, <2>2
<1>10. \A n \in Clusters!Range(w.todo) : n \in Clusters!Range(rest)
  BY <1>7, IdleFits
<1> HIDE DEF w
<1>11. HandMoves(h, w)
  BY <1>2, <1>5, <1>6, <1>9, <1>10, QuietMoves DEF Clusters!InHand
<1> QED BY <1>2, <1>11, StepKeeps

\* The model has read the first news in hand.
LEMMA ExtractKeeps ==
    ASSUME ClustersInv, NEW h \in Handler, Clusters!Extract(h)
    PROVE  ClustersInv'
<1> DEFINE v == handler[h]
<1>1. Fits(v, clusters, stolen) /\ v.kind \in {"news", "scan"} /\ v.step = "extract"
  BY DEF ClustersInv, HandsFit, Clusters!Extract, Clusters!At
<1>2. PICK type : handler' = [handler EXCEPT ![h] =
        [v EXCEPT !.step = "match", !.copy = Clusters!Extracted(v.todo[1], type)]]
  BY DEF Clusters!Extract, Clusters!Hold
<1>3. UNCHANGED <<clusters, mappings, overlapping, stolen>>
  BY DEF Clusters!Extract
<1> DEFINE w == [v EXCEPT !.step = "match", !.copy = Clusters!Extracted(v.todo[1], type)]
<1>4. /\ DOMAIN w = HandFields /\ w.kind = v.kind /\ w.step = "match" /\ w.todo = v.todo
      /\ w.seen = v.seen /\ w.copy = Clusters!Extracted(v.todo[1], type)
  BY <1>1 DEF Fits, HandFields
<1>5. handler' = [handler EXCEPT ![h] = w]
  BY <1>2
<1> HIDE DEF w
<1>6. Fits(w, clusters, stolen)
  BY <1>1, <1>4 DEF Fits
<1>7. HandMoves(h, w)
  BY <1>1, <1>3, <1>4, <1>5, <1>6, QuietMoves DEF Clusters!InHand
<1> QED BY <1>3, <1>7, StepKeeps

\* An event of a pool that tells the same story takes the news in, or none does.
LEMMA JoinsKeeps ==
    ASSUME ClustersInv, NEW h \in Handler, handler[h].kind \in {"news", "scan"},
           handler[h].step = "match", UNCHANGED <<clusters, mappings, overlapping, stolen>>,
           NEW pool, AreStories(pool), Since(pool, clusters, stolen),
           NEW order, Clusters!Joins(h, pool, order)
    PROVE  ClustersInv'
<1> DEFINE v == handler[h]
           fresh == v.copy
           n == v.todo[1]
           same == {e \in Clusters!Stored(pool) : Clusters!SameStory(pool[e], fresh, order)}
<1>1. Fits(v, clusters, stolen)
  BY DEF ClustersInv, HandsFit
<1>2. DOMAIN v = HandFields /\ v.todo \in Seq(News) /\ v.todo # <<>>
  BY <1>1 DEF Fits
<1>3. PICK type : fresh = Clusters!Extracted(n, type)
  BY <1>1 DEF Fits
<1>4. n \in News /\ OneStory(fresh) /\ Named(fresh) = {n}
  BY <1>2, <1>3, FirstInHand, ExtractedIsStory
<1>5. fresh.members = <<n>> /\ fresh.published = NewsPublished[n] /\ fresh.members[1] = n
  BY <1>3 DEF Clusters!Extracted
<1>6. ASSUME NEW w, DOMAIN w = HandFields, w.kind = v.kind, w.step = "save", w.todo = v.todo, w.seen = v.seen,
             handler' = [handler EXCEPT ![h] = w],
             \/ w.id = 0 /\ OneStory(w.copy) /\ Named(w.copy) = {n}
             \/ Holding(w, clusters, stolen, {n})
      PROVE  ClustersInv'
  <2>1. Fits(w, clusters, stolen)
    BY <1>1, <1>6 DEF Fits
  <2>2. HandMoves(h, w)
    BY <1>6, <2>1, QuietMoves DEF Clusters!InHand
  <2> QED BY <2>2, StepKeeps
<1>7. CASE Clusters!Hold(h, [v EXCEPT !.step = "save", !.id = 0])
  <2> DEFINE w == [v EXCEPT !.step = "save", !.id = 0]
  <2>1. /\ DOMAIN w = HandFields /\ w.kind = v.kind /\ w.step = "save" /\ w.todo = v.todo
        /\ w.seen = v.seen /\ w.id = 0 /\ w.copy = fresh
    BY <1>2 DEF HandFields
  <2>2. handler' = [handler EXCEPT ![h] = w]
    BY <1>7 DEF Clusters!Hold
  <2> HIDE DEF w
  <2> QED BY <1>4, <1>6, <2>1, <2>2
<1>8. ASSUME NEW e \in same,
             Clusters!Hold(h, [v EXCEPT !.step = "save", !.id = e, !.copy = Clusters!MergeEvent(pool[e], fresh)])
      PROVE  ClustersInv'
  <2> DEFINE merged == Clusters!MergeEvent(pool[e], fresh)
             w == [v EXCEPT !.step = "save", !.id = e, !.copy = merged]
  <2>1. /\ DOMAIN w = HandFields /\ w.kind = v.kind /\ w.step = "save" /\ w.todo = v.todo
        /\ w.seen = v.seen /\ w.id = e /\ w.copy = merged
    BY <1>2 DEF HandFields
  <2>2. handler' = [handler EXCEPT ![h] = w]
    BY <1>8 DEF Clusters!Hold
  <2>3. /\ e \in Clusters!EventId /\ pool[e] # Clusters!NoEvent
        /\ Clusters!SameStory(pool[e], fresh, order)
    BY DEF Clusters!Stored
  <2>4. OneStory(pool[e])
    BY <2>3, RowIsStory
  <2>5. Likeness[pool[e].members[1]][n] >= 1
    <3>1. Clusters!Alike(pool[e], fresh) \in {2, 3} \/ Clusters!Alike(pool[e], fresh) >= 1
      BY <2>3 DEF Clusters!SameStory
    <3>2. Clusters!Alike(pool[e], fresh) = Likeness[pool[e].members[1]][n]
      BY <1>5 DEF Clusters!Alike
    <3> QED BY <3>1, <3>2
  <2>6. OneStory(merged) /\ Named(merged) = Named(pool[e]) \union {n}
    BY <1>4, <1>5, <2>4, <2>5, MergedIsStory
  <2> HIDE DEF w, merged
  <2>7. Holding(w, clusters, stolen, {n})
    BY <2>1, <2>3, <2>6 DEF Holding, Since
  <2> QED BY <1>6, <2>1, <2>2, <2>7
<1> QED BY <1>7, <1>8 DEF Clusters!Joins

\* Matching with the rows, or with the pool read for a batch.
LEMMA FindKeeps ==
    ASSUME ClustersInv, NEW h \in Handler, Clusters!FindCluster(h) \/ Clusters!FindInPool(h)
    PROVE  ClustersInv'
<1>1. Fits(handler[h], clusters, stolen)
  BY DEF ClustersInv, HandsFit
<1>2. CASE Clusters!FindCluster(h)
  <2>1. Since(clusters, clusters, stolen) /\ AreStories(clusters)
    BY DEF Since, ClustersInv
  <2> QED BY <1>2, <2>1, JoinsKeeps DEF Clusters!FindCluster, Clusters!At
<1>3. CASE Clusters!FindInPool(h)
  <2>1. AreStories(handler[h].seen) /\ Since(handler[h].seen, clusters, stolen)
    BY <1>1, <1>3 DEF Fits, Clusters!FindInPool, Clusters!At
  <2> QED BY <1>3, <2>1, JoinsKeeps DEF Clusters!FindInPool, Clusters!At
<1> QED BY <1>2, <1>3

-----------------------------------------------------------------------------
\* Where an event with one more item is saved, and what is known of it there.
LEMMA TargetIsARow ==
    ASSUME ClustersInv, NEW h \in Handler, handler[h].kind \in {"news", "scan"},
           handler[h].step = "save", handler[h].id = 0 => Clusters!Free # {}
    PROVE  MayWrite(h, Clusters!Target(h), handler[h].copy, {handler[h].todo[1]})
<1> DEFINE v == handler[h]
<1>1. Fits(v, clusters, stolen)
  BY DEF ClustersInv, HandsFit
<1>2. v.todo \in Seq(News) /\ v.todo # <<>>
  BY <1>1 DEF Fits
<1>3. v.todo[1] \in Clusters!InHand(h)
  BY <1>2, FirstInHand DEF Clusters!InHand
<1>4. CASE v.id = 0 /\ OneStory(v.copy) /\ Named(v.copy) = {v.todo[1]}
  <2>1. Clusters!Target(h) \in Clusters!EventId
    BY <1>4, FreeIsARow DEF Clusters!Target
  <2> QED BY <1>3, <1>4, <2>1 DEF MayWrite
<1>5. CASE Holding(v, clusters, stolen, {v.todo[1]})
  <2>1. v.id \in Clusters!EventId /\ v.id # 0
    BY <1>5, ClustersAssumption DEF Holding, Clusters!EventId
  <2>2. Clusters!Target(h) = v.id
    BY <2>1 DEF Clusters!Target
  <2> QED BY <1>3, <1>5, <2>1, <2>2 DEF MayWrite, Holding
<1> QED BY <1>1, <1>4, <1>5 DEF Fits

\* The event of one item is saved, new or in place of what its row has become.
LEMMA SaveNewsKeeps ==
    ASSUME ClustersInv, NEW h \in Handler, Clusters!SaveNews(h)
    PROVE  ClustersInv'
<1> DEFINE v == handler[h]
           t == Clusters!Target(h)
           w == [v EXCEPT !.step = "dispatch", !.todo = <<>>, !.id = t]
<1>1. v.kind = "news" /\ v.step = "save" /\ Fits(v, clusters, stolen)
  BY DEF ClustersInv, HandsFit, Clusters!SaveNews, Clusters!At
<1>2. MayWrite(h, t, v.copy, {v.todo[1]})
  BY <1>1, TargetIsARow DEF Clusters!SaveNews
<1>3. /\ Clusters!Writes(t, v.copy) /\ handler' = [handler EXCEPT ![h] = w]
      /\ UNCHANGED <<mappings, overlapping>>
  BY DEF Clusters!SaveNews, Clusters!Hold
<1>4. /\ DOMAIN w = HandFields /\ w.kind = "news" /\ w.step = "dispatch" /\ w.todo = <<>>
      /\ w.id = t /\ w.copy = v.copy
  BY <1>1 DEF Fits, HandFields
<1> HIDE DEF w, t
<1>5. /\ OneStory(v.copy) /\ t \in Clusters!EventId /\ clusters'[t] = v.copy
      /\ v.copy # Clusters!NoEvent
  <2>1. OneStory(v.copy) /\ t \in Clusters!EventId /\ AreStories(clusters)
    BY <1>2 DEF MayWrite, ClustersInv
  <2>2. DOMAIN v.copy # DOMAIN Clusters!NoEvent
    BY <2>1 DEF OneStory, EventFields, Clusters!NoEvent
  <2> QED BY <1>3, <2>1, <2>2, WritesAStory
<1>6. Holding(w, clusters', stolen', {})
  BY <1>4, <1>5 DEF Holding
<1>7. Fits(w, clusters', stolen')
  BY <1>4, <1>6 DEF Fits, Kinds
<1>8. HandMoves(h, w)
  BY <1>2, <1>3, <1>4, <1>7, IdleFits, WriteMoves
<1> QED BY <1>3, <1>8, StepKeeps

\* In a batch the pool takes in what was saved, and the same item is dropped.
LEMMA SaveInPoolKeeps ==
    ASSUME ClustersInv, NEW h \in Handler, Clusters!SaveInPool(h)
    PROVE  ClustersInv'
<1> DEFINE v == handler[h]
           n == v.todo[1]
           t == Clusters!Target(h)
           rest == Clusters!Without(Tail(v.todo), {n})
           pool == [v.seen EXCEPT ![t] = v.copy]
           more == [v EXCEPT !.step = "extract", !.todo = rest, !.id = 0,
                             !.copy = Clusters!NoEvent, !.seen = pool]
           w == IF rest = <<>> THEN Clusters!Idle ELSE more
<1>1. v.kind = "scan" /\ v.step = "save" /\ Fits(v, clusters, stolen)
  BY DEF ClustersInv, HandsFit, Clusters!SaveInPool, Clusters!At
<1>2. MayWrite(h, t, v.copy, {n})
  BY <1>1, TargetIsARow DEF Clusters!SaveInPool
<1>3. DOMAIN v = HandFields /\ v.todo \in Seq(News) /\ v.todo # <<>> /\ AreStories(v.seen)
      /\ Since(v.seen, clusters, stolen)
  BY <1>1 DEF Fits
<1>4. [v.seen EXCEPT ![Clusters!Target(h)] = v.copy] = pool
  OBVIOUS
<1>5. /\ Clusters!Writes(t, v.copy) /\ handler' = [handler EXCEPT ![h] = w]
      /\ UNCHANGED <<mappings, overlapping>>
  BY DEF Clusters!SaveInPool, Clusters!Hold
<1>6. /\ DOMAIN more = HandFields /\ more.kind = "scan" /\ more.step = "extract"
      /\ more.todo = rest /\ more.seen = pool
  BY <1>1, <1>3 DEF HandFields
<1>7. /\ rest \in Seq(News)
      /\ \A m \in Clusters!Range(rest) : m \in Clusters!Range(v.todo) /\ m # n
  <2>1. rest = Without(Tail(v.todo), {n})
    BY ClustersRanks
  <2>2. /\ Tail(v.todo) \in Seq(News)
        /\ \A i \in 1 .. Len(Tail(v.todo)) : Tail(v.todo)[i] \in Clusters!Range(v.todo)
    BY <1>3, FirstInHand
  <2> HIDE DEF rest, n
  <2>3. /\ Without(Tail(v.todo), {n}) \in Seq(News)
        /\ \A k \in DOMAIN Without(Tail(v.todo), {n}) : \E i \in 1 .. Len(Tail(v.todo)) :
             Without(Tail(v.todo), {n})[k] = Tail(v.todo)[i] /\ Tail(v.todo)[i] \notin {n}
    BY <2>2, WithoutLeaves
  <2>4. ASSUME NEW m \in Clusters!Range(rest) PROVE m \in Clusters!Range(v.todo) /\ m # n
    <3>1. PICK k \in DOMAIN rest : m = rest[k]
      BY <2>4 DEF Clusters!Range
    <3>2. PICK i \in 1 .. Len(Tail(v.todo)) : rest[k] = Tail(v.todo)[i] /\ Tail(v.todo)[i] \notin {n}
      BY <2>1, <2>3
    <3> QED BY <2>2, <3>1, <3>2
  <2> QED BY <2>1, <2>3, <2>4
<1>8. /\ OneStory(v.copy) /\ t \in Clusters!EventId /\ AreStories(clusters)
  BY <1>2 DEF MayWrite, ClustersInv
<1>9. /\ clusters'[t] = v.copy /\ v.copy # Clusters!NoEvent
      /\ Since(clusters, clusters', stolen') /\ stolen \subseteq stolen'
  <2>1. DOMAIN v.copy # DOMAIN Clusters!NoEvent
    BY <1>8 DEF OneStory, EventFields, Clusters!NoEvent
  <2> HIDE DEF t
  <2> QED BY <1>5, <1>8, <2>1, WritesAStory
<1>10. /\ DOMAIN pool = Clusters!EventId /\ pool[t] = v.copy
       /\ \A e \in Clusters!EventId : e # t => pool[e] = v.seen[e]
  BY <1>3, <1>8 DEF AreStories
<1> HIDE DEF t, rest, more, pool
<1>11. AreStories(pool)
  BY <1>3, <1>8, <1>10 DEF AreStories
<1>12. Since(pool, clusters', stolen')
  <2>1. Since(v.seen, clusters', stolen')
    BY <1>3, <1>9, SinceThen
  <2> QED BY <2>1, <1>9, <1>10 DEF Since
<1>13. Fits(w, clusters', stolen')
  <2>1. CASE rest = <<>>
    BY <2>1, IdleFits
  <2>2. CASE rest # <<>>
    <3>1. Fits(more, clusters', stolen')
      BY <2>2, <1>6, <1>7, <1>11, <1>12 DEF Fits, Kinds
    <3> QED BY <3>1, <2>2
  <2> QED BY <2>1, <2>2
<1>14. \A m \in Clusters!Range(w.todo) : m \in Clusters!InHand(h) /\ m # n
  BY <1>6, <1>7, IdleFits DEF Clusters!InHand
<1> HIDE DEF w
<1>15. HandMoves(h, w)
  BY <1>1, <1>2, <1>5, <1>13, <1>14, WriteMoves
<1> QED BY <1>5, <1>15, StepKeeps

-----------------------------------------------------------------------------
\* A handler that holds a stored event may write it again, told otherwise.
LEMMA HeldMayBeWritten ==
    ASSUME ClustersInv, NEW h \in Handler, NEW ev, Holding(handler[h], clusters, stolen, {}),
           OneStory(ev), Named(ev) = Named(handler[h].copy)
    PROVE  MayWrite(h, handler[h].id, ev, {})
BY DEF MayWrite, Holding

\* It is left with what it wrote, or with nothing.
LEMMA WritesAndHolds ==
    ASSUME ClustersInv, NEW h \in Handler, NEW ev, Holding(handler[h], clusters, stolen, {}),
           OneStory(ev), Named(ev) = Named(handler[h].copy), Clusters!Writes(handler[h].id, ev),
           NEW w, handler' = [handler EXCEPT ![h] = w], overlapping' = overlapping, w.todo = <<>>,
           \/ w = Clusters!Idle
           \/ /\ DOMAIN w = HandFields /\ w.kind \in {"refresh", "mapping"} /\ w.id = handler[h].id
              /\ OneStory(w.copy) /\ Named(w.copy) = Named(ev),
           \A e \in Clusters!EventId, forced \in BOOLEAN :
             <<e, forced>> \in mappings' => <<e, forced>> \in mappings \/ e = handler[h].id
    PROVE  ClustersInv'
<1> DEFINE t == handler[h].id
<1>1. MayWrite(h, t, ev, {}) /\ t \in Clusters!EventId /\ AreStories(clusters)
  BY HeldMayBeWritten DEF Holding, ClustersInv
<1>2. /\ AreStories(clusters') /\ clusters'[t] = ev
  BY <1>1, WritesAStory
<1>3. clusters'[t] # Clusters!NoEvent
  <2>1. DOMAIN ev # DOMAIN Clusters!NoEvent
    BY DEF OneStory, EventFields, Clusters!NoEvent
  <2> QED BY <1>2, <2>1
<1>4. Fits(w, clusters', stolen')
  <2>1. CASE w = Clusters!Idle
    BY <2>1, IdleFits
  <2>2. CASE w.kind \in {"refresh", "mapping"} /\ w # Clusters!Idle
    <3>1. Holding(w, clusters', stolen', {})
      BY <2>2, <1>1, <1>2, <1>3 DEF Holding
    <3> QED BY <2>2, <3>1 DEF Fits, Kinds
  <2> QED BY <2>1, <2>2
<1>5. HandMoves(h, w)
  BY <1>1, <1>4, IdleFits, WriteMoves
<1> QED BY <1>3, <1>5, StepKeeps

\* A handler that rests holds nothing; its step wrote nothing.
LEMMA RestKeeps ==
    ASSUME ClustersInv, NEW h \in Handler, handler' = [handler EXCEPT ![h] = Clusters!Idle],
           UNCHANGED <<clusters, stolen, overlapping>>, mappings' \subseteq mappings
    PROVE  ClustersInv'
<1>1. HandMoves(h, Clusters!Idle)
  BY IdleFits, QuietMoves
<1> QED BY <1>1, StepKeeps

\* A refresh or a mapping that takes up a stored event.
LEMMA TakesEventKeeps ==
    ASSUME ClustersInv, NEW h \in Handler, NEW e \in Clusters!EventId, clusters[e] # Clusters!NoEvent,
           NEW kind \in {"refresh", "mapping"}, NEW step,
           handler' = [handler EXCEPT ![h] =
             [Clusters!Idle EXCEPT !.kind = kind, !.step = step, !.id = e, !.copy = clusters[e]]],
           UNCHANGED <<clusters, stolen, overlapping>>, mappings' \subseteq mappings
    PROVE  ClustersInv'
<1> DEFINE w == [Clusters!Idle EXCEPT !.kind = kind, !.step = step, !.id = e, !.copy = clusters[e]]
<1>1. /\ DOMAIN w = HandFields /\ w.kind = kind /\ w.step = step /\ w.todo = <<>>
      /\ w.id = e /\ w.copy = clusters[e]
  BY DEF Clusters!Idle, HandFields
<1> HIDE DEF w
<1>2. OneStory(clusters[e])
  BY RowIsStory DEF ClustersInv
<1>3. Holding(w, clusters, stolen, {})
  BY <1>1, <1>2 DEF Holding
<1>4. Fits(w, clusters, stolen)
  BY <1>1, <1>3 DEF Fits, Kinds
<1>5. HandMoves(h, w)
  BY <1>1, <1>4, IdleFits, QuietMoves DEF w
<1> QED BY <1>5, StepKeeps

\* Dispatch marks the event and publishes its mapping, or leaves all as it is.
LEMMA DispatchKeeps ==
    ASSUME ClustersInv, NEW h \in Handler, Clusters!Dispatch(h)
    PROVE  ClustersInv'
<1> DEFINE v == handler[h]
           ev == [v.copy EXCEPT !.mapping = "queued"]
<1>1. Holding(v, clusters, stolen, {}) /\ OneStory(v.copy)
  BY DEF ClustersInv, HandsFit, Fits, Clusters!Dispatch, Clusters!At, Holding
<1>2. handler' = [handler EXCEPT ![h] = Clusters!Idle] /\ overlapping' = overlapping
  BY DEF Clusters!Dispatch, Clusters!Hold
<1>3. DOMAIN ev = EventFields /\ ev.members = v.copy.members /\ ev.published = v.copy.published
  BY <1>1 DEF OneStory, EventFields
<1>4. CASE /\ Clusters!Writes(v.id, ev)
           /\ mappings' = mappings \union {<<v.id, v.kind = "refresh">>}
  <2> HIDE DEF ev
  <2>1. OneStory(ev) /\ Named(ev) = Named(v.copy)
    BY <1>1, <1>3, StoryStays
  <2>2. \A e \in Clusters!EventId, forced \in BOOLEAN :
          <<e, forced>> \in mappings' => <<e, forced>> \in mappings \/ e = v.id
    BY <1>4
  <2>3. Clusters!Idle.todo = <<>>
    BY DEF Clusters!Idle
  <2> QED BY <1>1, <1>2, <1>4, <2>1, <2>2, <2>3, WritesAndHolds
<1>5. CASE UNCHANGED <<clusters, stolen, mappings>>
  BY <1>2, <1>5, RestKeeps
<1> QED BY <1>4, <1>5 DEF Clusters!Dispatch

\* A refresh writes what the members say now, and goes on to be dispatched.
LEMMA RefreshKeeps ==
    ASSUME ClustersInv, NEW h \in Handler, Clusters!Refresh(h)
    PROVE  ClustersInv'
<1> DEFINE v == handler[h]
<1>1. v.kind = "refresh" /\ Fits(v, clusters, stolen)
  BY DEF ClustersInv, HandsFit, Clusters!Refresh, Clusters!At
<1>2. Holding(v, clusters, stolen, {}) /\ OneStory(v.copy) /\ DOMAIN v = HandFields /\ v.todo = <<>>
  BY <1>1 DEF Fits, Holding
<1>3. PICK type : /\ Clusters!Writes(v.id, Clusters!RebuildEvent(v.copy, type))
                  /\ Clusters!Hold(h, [v EXCEPT !.step = "dispatch", !.copy = Clusters!RebuildEvent(v.copy, type)])
  BY DEF Clusters!Refresh
<1> DEFINE ev == Clusters!RebuildEvent(v.copy, type)
           w == [v EXCEPT !.step = "dispatch", !.copy = ev]
<1>4. OneStory(ev) /\ Named(ev) = Named(v.copy)
  BY <1>2, RebuiltIsStory
<1>5. Clusters!Writes(v.id, ev) /\ handler' = [handler EXCEPT ![h] = w]
  BY <1>3 DEF Clusters!Hold
<1> HIDE DEF ev
<1>6. /\ DOMAIN w = HandFields /\ w.kind = "refresh" /\ w.id = v.id /\ w.copy = ev /\ w.todo = <<>>
  BY <1>1, <1>2 DEF HandFields
<1>7. UNCHANGED <<mappings, overlapping>>
  BY DEF Clusters!Refresh
<1> HIDE DEF w
<1> QED BY <1>2, <1>4, <1>5, <1>6, <1>7, WritesAndHolds

\* A mapping task marks its event, and saves what it found of it.
LEMMA MappingKeeps ==
    ASSUME ClustersInv, NEW h \in Handler, Clusters!MarkMapping(h) \/ Clusters!SaveMapping(h)
    PROVE  ClustersInv'
<1> DEFINE v == handler[h]
<1>1. v.kind = "mapping" /\ Fits(v, clusters, stolen) /\ UNCHANGED <<mappings, overlapping>>
  BY DEF ClustersInv, HandsFit, Clusters!MarkMapping, Clusters!SaveMapping, Clusters!At
<1>2. Holding(v, clusters, stolen, {}) /\ OneStory(v.copy) /\ DOMAIN v = HandFields /\ v.todo = <<>>
  BY <1>1 DEF Fits, Holding
<1>3. CASE Clusters!MarkMapping(h)
  <2> DEFINE w == [v EXCEPT !.step = "save"]
  <2>1. DOMAIN w = HandFields /\ w.kind = "mapping" /\ w.id = v.id /\ w.copy = v.copy /\ w.todo = <<>>
    BY <1>1, <1>2 DEF HandFields
  <2>2. Clusters!Writes(v.id, v.copy) /\ handler' = [handler EXCEPT ![h] = w]
    BY <1>3 DEF Clusters!MarkMapping, Clusters!Hold
  <2> HIDE DEF w
  <2> QED BY <1>1, <1>2, <2>1, <2>2, WritesAndHolds
<1>4. CASE Clusters!SaveMapping(h)
  <2>1. PICK found : Clusters!Writes(v.id, [v.copy EXCEPT !.candidates = Clusters!Strongest(found),
                                                         !.mapping = "completed"])
    BY <1>4 DEF Clusters!SaveMapping
  <2> DEFINE ev == [v.copy EXCEPT !.candidates = Clusters!Strongest(found), !.mapping = "completed"]
  <2>2. DOMAIN ev = EventFields /\ ev.members = v.copy.members /\ ev.published = v.copy.published
    BY <1>2 DEF OneStory, EventFields
  <2>3. Clusters!Writes(v.id, ev) /\ handler' = [handler EXCEPT ![h] = Clusters!Idle]
    BY <1>4, <2>1 DEF Clusters!SaveMapping, Clusters!Hold
  <2>4. Clusters!Idle.todo = <<>>
    BY DEF Clusters!Idle
  <2> HIDE DEF ev
  <2>5. OneStory(ev) /\ Named(ev) = Named(v.copy)
    BY <1>2, <2>2, StoryStays
  <2> QED BY <1>1, <1>2, <2>3, <2>4, <2>5, WritesAndHolds
<1> QED BY <1>3, <1>4

\* A refresh and a mapping begin with the row as it is.
LEMMA TakesKeep ==
    ASSUME ClustersInv, NEW h \in Handler, NEW e \in Clusters!EventId,
           \/ Clusters!TakeRefresh(h, e)
           \/ \E forced \in BOOLEAN : Clusters!TakeMapping(h, e, forced)
    PROVE  ClustersInv'
<1>1. CASE Clusters!TakeRefresh(h, e)
  BY <1>1, TakesEventKeeps DEF Clusters!TakeRefresh, Clusters!Hold
<1>2. ASSUME NEW forced \in BOOLEAN, Clusters!TakeMapping(h, e, forced) PROVE ClustersInv'
  <2>1. clusters[e] # Clusters!NoEvent
    BY <1>2 DEF Clusters!TakeMapping, ClustersInv, MappedExist
  <2>2. UNCHANGED <<clusters, stolen, overlapping>> /\ mappings' \subseteq mappings
    BY <1>2 DEF Clusters!TakeMapping
  <2>3. CASE handler' = [handler EXCEPT ![h] = Clusters!Idle]
    BY <2>2, <2>3, RestKeeps
  <2>4. CASE handler' = [handler EXCEPT ![h] =
               [Clusters!Idle EXCEPT !.kind = "mapping", !.step = "mark", !.id = e, !.copy = clusters[e]]]
    BY <2>1, <2>2, <2>4, TakesEventKeeps
  <2> QED BY <1>2, <2>3, <2>4 DEF Clusters!TakeMapping, Clusters!Hold
<1> QED BY <1>1, <1>2

\* Every step of the handlers keeps the invariant.
LEMMA ClustersKeep ==
    ASSUME ClustersInv, [Clusters!Next]_clusterVars
    PROVE  ClustersInv'
<1>1. ASSUME NEW h \in Handler, NEW n \in News, Clusters!TakeNews(h, "news", <<n>>) PROVE ClustersInv'
  <2>1. <<n>> \in Seq(News)
    OBVIOUS
  <2> QED BY <1>1, <2>1, TakeNewsKeeps
<1>2. ASSUME NEW h \in Handler, NEW batch \in Batch, Clusters!TakeNews(h, "scan", batch) PROVE ClustersInv'
  <2>1. batch \in Seq(News)
    BY ClustersAssumption
  <2> QED BY <1>2, <2>1, TakeNewsKeeps
<1>3. ASSUME NEW h \in Handler, Clusters!Dies(h) PROVE ClustersInv'
  BY <1>3, RestKeeps DEF Clusters!Dies, Clusters!Hold
<1>4. CASE UNCHANGED clusterVars
  BY <1>4 DEF clusterVars, ClustersInv, AreStories, HandsFit, MappedExist, HandsApart, HandsNew, OneEach,
    Clusters!InHand
<1> QED
  BY <1>1, <1>2, <1>3, <1>4, TakesKeep, LookKeeps, LookAtPoolKeeps, ExtractKeeps, FindKeeps, SaveNewsKeeps,
    SaveInPoolKeeps, DispatchKeeps, RefreshKeeps, MappingKeeps DEF Clusters!Next

\* An event in order has as many news as its list is long.
LEMMA MembersCount ==
    ASSUME NEW ev, OneStory(ev)
    PROVE  Cardinality(Named(ev)) = Len(ev.members)
<1> DEFINE l == Len(ev.members)
           f == [i \in 1 .. l |-> ev.members[i]]
<1>1. /\ l \in Nat /\ \A i \in 1 .. l : ev.members[i] \in Named(ev)
      /\ \A n \in Named(ev) : \E i \in 1 .. l : n = ev.members[i]
  BY NamedAre
<1>2. \A i, j \in 1 .. l : ev.members[i] = ev.members[j] => i = j
  BY DEF OneStory
<1>3. f \in Bijection(1 .. l, Named(ev))
  BY <1>1, <1>2 DEF Bijection, Injection, Surjection, IsInjective
<1>4. IsFiniteSet(1 .. l) /\ Cardinality(1 .. l) = l
  BY <1>1, FS_Interval
<1> HIDE DEF l, f
<1>5. Cardinality(Named(ev)) = Cardinality(1 .. l)
  BY <1>3, <1>4, FS_Bijection DEF ExistsBijection
<1> QED BY <1>4, <1>5 DEF l

\* The invariant says what the runs check.
LEMMA StoriesAreOne ==
    ASSUME ClustersInv
    PROVE  Clusters!ClusterIsOneStory
<1>1. ASSUME NEW e \in Clusters!Stored(clusters)
      PROVE  LET members == clusters[e].members
             IN  /\ \A n \in Clusters!Range(members) : n # members[1] => Likeness[members[1]][n] >= 1
                 /\ Clusters!Cardinality(Clusters!Range(members)) = Len(members)
                 /\ clusters[e].published = Clusters!Min({NewsPublished[n] : n \in Clusters!Range(members)})
  <2> DEFINE ev == clusters[e]
             S == {NewsPublished[n] : n \in Named(ev)}
  <2>1. OneStory(ev)
    BY RowIsStory DEF ClustersInv, Clusters!Stored
  <2>2. \A n \in Named(ev) : n # ev.members[1] => Likeness[ev.members[1]][n] >= 1
    BY <2>1, NamedAre DEF OneStory
  <2>3. Clusters!Cardinality(Named(ev)) = Len(ev.members)
    BY <2>1, MembersCount, ClustersRanks
  <2>4. ev.published = Clusters!Min(S)
    BY <2>1, EarliestDates
  <2> QED BY <2>2, <2>3, <2>4 DEF Named
<1>2. ASSUME NEW n \in News \ (overlapping \union stolen)
      PROVE  Clusters!Cardinality(Clusters!Naming(clusters, n)) <= 1
  <2> DEFINE S == Clusters!Naming(clusters, n)
  <2>1. \A d, e \in S : d = e
    BY DEF Clusters!Naming, Clusters!Stored, Named, ClustersInv, OneEach
  <2> HIDE DEF S
  <2>2. CASE S = {}
    BY <2>2, FS_EmptySet, ClustersRanks DEF S
  <2>3. CASE \E e : S = {e}
    <3>1. Cardinality(S) = 1
      BY <2>3, FS_Singleton
    <3>2. Clusters!Cardinality(S) = Cardinality(S)
      BY ClustersRanks
    <3> QED BY <3>1, <3>2 DEF S
  <2>4. S = {} \/ \E e : S = {e}
    BY <2>1
  <2> QED BY <2>2, <2>3, <2>4
<1> QED BY <1>1, <1>2 DEF Clusters!ClusterIsOneStory

\* However handlers overwrite each other's events, an event is one story, dated
\* by its earliest news, and an item that no two handlers had at once and no
\* row lost is in one event (jobs/extract.go, services/events.py).
THEOREM EventsAreStories == EventsSpec => []ClusterIsOneStory
<1>1. EventsInit => ClustersInv
  BY IdleFits DEF EventsInit, Clusters!Init, ClustersInv, AreStories, HandsFit, MappedExist, HandsApart,
    HandsNew, OneEach, Clusters!InHand
<1>2. ClustersInv /\ [EventsNext]_<<part, eventVars>> => ClustersInv'
  BY EventsMove, ClustersKeep
<1>3. ClustersInv => ClusterIsOneStory
  BY StoriesAreOne DEF ClusterIsOneStory
<1> QED BY <1>1, <1>2, <1>3, PTL DEF EventsSpec

-----------------------------------------------------------------------------
\* Names that the module of the report shares with this one.
LEMMA ReportsCount ==
    /\ \A S : Reports!Cardinality(S) = Cardinality(S)
    /\ \A s, I : Reports!Picked(s, I) = Picked(s, I)
    /\ \A s, S : Reports!Without(s, S) = Without(s, S)
<1>1. \A S : Reports!Cardinality(S) = Cardinality(S)
  BY Zenon DEF Reports!Cardinality, Cardinality
<1>2. \A S, R, x : Reports!Rank(S, R, x) = Rank(S, R, x)
  BY <1>1, Zenon DEF Reports!Rank, Rank
<1>3. \A S, R, k : Reports!Nth(S, R, k) = Nth(S, R, k)
  BY <1>2, Zenon DEF Reports!Nth, Nth
<1>4. \A S, R : Reports!InOrder(S, R) = InOrder(S, R)
  BY <1>1, <1>3, Zenon DEF Reports!InOrder, InOrder
<1>5. \A S : Reports!Upwards(S) = Upwards(S)
  BY Zenon DEF Reports!Upwards, Upwards
<1>6. \A S : Reports!Ascending(S) = Ascending(S)
  BY <1>4, <1>5, Zenon DEF Reports!Ascending, Ascending
<1>7. \A s, I : Reports!Picked(s, I) = Picked(s, I)
  BY <1>1, <1>6, Zenon DEF Reports!Picked, Picked
<1>8. \A s, S : Reports!Without(s, S) = Without(s, S)
  BY <1>7, Zenon DEF Reports!Without, Without
<1> QED BY <1>1, <1>7, <1>8

\* What a draft says of a target; a candidate without a proposal is `listed'.
Impact == [name : STRING \union {"listed"}, asset : Int, score : Int, confidence : Nat,
           cites : BOOLEAN, action : BOOLEAN, gaps : BOOLEAN]

\* The proposals of a draft are such impacts.
LEMMA ProposalsAreImpacts == \A impacts \in LlmImpacts \union RuleImpacts : impacts \in Seq(Impact)
<1> DEFINE T == [name : STRING, asset : Int, score : Int, confidence : Nat,
                 cites : BOOLEAN, action : BOOLEAN, gaps : BOOLEAN]
<1>1. T \subseteq Impact
  BY DEF Impact
<1>2. \A impacts \in LlmImpacts \union RuleImpacts : impacts \in Seq(T)
  BY ReportsAssumption, Zenon
<1> HIDE DEF T
<1>3. ASSUME NEW s \in Seq(T) PROVE s \in Seq(Impact)
  <2>1. Len(s) \in Nat /\ s \in [1 .. Len(s) -> T]
    BY LenProperties
  <2>2. s \in [1 .. Len(s) -> Impact]
    BY <1>1, <2>1
  <2> QED BY <2>1, <2>2, SeqDef
<1> QED BY <1>2, <1>3

\* Evidence as it is graded.
Graded(items) ==
  /\ IsFiniteSet(items)
  /\ \A e \in items : e.quality \in 0 .. 100 /\ e.fresh \in 0 .. 100

\* More evidence never makes fewer independent groups: what counts once among
\* all of it counted once before.
LEMMA GroupsGrow ==
    ASSUME NEW A, NEW B, A \subseteq B, IsFiniteSet(B)
    PROVE  /\ Cardinality(Reports!Groups(A)) \in Nat /\ Cardinality(Reports!Groups(B)) \in Nat
           /\ Cardinality(Reports!Groups(A)) <= Cardinality(Reports!Groups(B))
<1> DEFINE Repeated(items) == {e.content : e \in {f \in items : \E g \in items : g # f /\ g.content = f.content}}
           Key(e, items) == IF e.content \in Repeated(items) THEN <<"content", e.content>>
                            ELSE <<"group", e.group>>
           a == [e \in A |-> Key(e, A)]
           b == [e \in B |-> Key(e, B)]
           GA == {Key(e, A) : e \in A}
           GB == {Key(e, B) : e \in B}
           from(x) == CHOOSE e \in A : a[e] = x
           h == [x \in GA |-> b[from(x)]]
<1>1. Reports!Groups(A) = GA /\ Reports!Groups(B) = GB
  BY Zenon DEF Reports!Groups
<1>2. ASSUME NEW items, NEW e \in items
      PROVE  e.content \in Repeated(items) <=> \E g \in items : g # e /\ g.content = e.content
  OBVIOUS
<1>3. ASSUME NEW e \in A, NEW f \in A, Key(e, B) = Key(f, B) PROVE Key(e, A) = Key(f, A)
  <2>1. e \in B /\ f \in B
    OBVIOUS
  <2>2. CASE e = f
    BY <2>2
  <2>3. CASE e # f /\ e.content = f.content
    <3>1. e.content \in Repeated(A) /\ f.content \in Repeated(A)
      BY <1>2, <2>3
    <3> HIDE DEF Repeated
    <3> QED BY <2>3, <3>1
  <2>4. CASE e # f /\ e.content # f.content
    <3>1. e.content \notin Repeated(B) /\ f.content \notin Repeated(B) /\ e.group = f.group
      <4> HIDE DEF Repeated
      <4> QED BY <1>3, <2>4
    <3>2. e.content \notin Repeated(A) /\ f.content \notin Repeated(A)
      BY <1>2, <2>1, <3>1
    <3> HIDE DEF Repeated
    <3> QED BY <3>1, <3>2
  <2> QED BY <2>2, <2>3, <2>4
<1> HIDE DEF Key
<1>4. IsFiniteSet(A)
  BY FS_Subset
<1>5. a \in Surjection(A, GA) /\ b \in Surjection(B, GB)
  BY DEF Surjection
<1>6. IsFiniteSet(GA) /\ IsFiniteSet(GB)
  BY <1>4, <1>5, FS_Surjection
<1>7. \A x \in GA : from(x) \in A /\ a[from(x)] = x
  OBVIOUS
<1>8. \A e \in A : a[e] = Key(e, A) /\ b[e] = Key(e, B) /\ b[e] \in GB
  OBVIOUS
<1> HIDE DEF a, b, GA, GB, from
<1>9. \A x \in GA : h[x] \in GB
  BY <1>7, <1>8
<1>10. \A x, y \in GA : h[x] = h[y] => x = y
  BY <1>3, <1>7, <1>8
<1>11. h \in Injection(GA, GB)
  BY <1>9, <1>10 DEF Injection, IsInjective
<1> HIDE DEF h
<1> QED BY <1>1, <1>6, <1>11, FS_Injection, FS_CardinalityType DEF ExistsInjection

\* The best grade of more evidence is no worse.
LEMMA BestGrows ==
    ASSUME NEW A, NEW B, A \subseteq B, \A x \in B : x \in 0 .. 100
    PROVE  /\ Reports!Best(A) \in 0 .. 100 /\ Reports!Best(B) \in 0 .. 100
           /\ Reports!Best(A) <= Reports!Best(B)
<1>1. ASSUME NEW V, \A x \in V : x \in 0 .. 100
      PROVE  Reports!Best(V) \in V \union {0} /\ \A x \in V \union {0} : Reports!Best(V) >= x
  <2> DEFINE W == V \union {0}
  <2>1. W # {} /\ \A x \in W : x \in 0 .. 100
    BY <1>1
  <2> HIDE DEF W
  <2>2. PICK m \in W : \A x \in W : x <= m
    BY <2>1, GreatestExists
  <2>3. \A x \in W : m >= x
    BY <2>1, <2>2
  <2>4. Reports!Best(V) = CHOOSE x \in W : \A y \in W : x >= y
    BY Zenon DEF Reports!Best, Reports!Max, W
  <2>5. Reports!Best(V) \in W /\ \A x \in W : Reports!Best(V) >= x
    BY <2>3, <2>4
  <2> QED BY <2>5 DEF W
<1>2. Reports!Best(A) \in A \union {0}
  BY <1>1
<1>3. Reports!Best(B) \in B \union {0} /\ \A x \in B \union {0} : Reports!Best(B) >= x
  BY <1>1
<1> QED BY <1>2, <1>3

\* More evidence never makes the news less credible.
LEMMA ConfidenceGrows ==
    ASSUME topic \in Topic, NEW A, NEW B, A \subseteq B, Graded(B)
    PROVE  /\ Reports!NewsConfidence(A) \in Int /\ Reports!NewsConfidence(B) \in Int
           /\ Reports!NewsConfidence(A) <= Reports!NewsConfidence(B)
<1> DEFINE m == Cardinality(Reports!Groups(A))
           n == Cardinality(Reports!Groups(B))
           oa == Reports!Official(A)
           ob == Reports!Official(B)
           va == Reports!Verification(A)
           vb == Reports!Verification(B)
           qa == Reports!Best({e.quality : e \in A})
           qb == Reports!Best({e.quality : e \in B})
           fa == Reports!Best({e.fresh : e \in A})
           fb == Reports!Best({e.fresh : e \in B})
<1>1. m \in Nat /\ n \in Nat /\ m <= n
  BY GroupsGrow DEF Graded
<1>2. oa => ob
  BY DEF Reports!Official
<1>3. /\ va = IF m = 1 /\ oa THEN 70 ELSE IF m = 0 THEN 0 ELSE IF m = 1 THEN 50 ELSE IF m = 2 THEN 80 ELSE 100
      /\ vb = IF n = 1 /\ ob THEN 70 ELSE IF n = 0 THEN 0 ELSE IF n = 1 THEN 50 ELSE IF n = 2 THEN 80 ELSE 100
  BY ReportsCount, Zenon DEF Reports!Verification
<1>4. qa \in 0 .. 100 /\ qb \in 0 .. 100 /\ qa <= qb
  <2>1. {e.quality : e \in A} \subseteq {e.quality : e \in B} /\ \A x \in {e.quality : e \in B} : x \in 0 .. 100
    BY DEF Graded
  <2> QED BY <2>1, BestGrows
<1>5. fa \in 0 .. 100 /\ fb \in 0 .. 100 /\ fa <= fb
  <2>1. {e.fresh : e \in A} \subseteq {e.fresh : e \in B} /\ \A x \in {e.fresh : e \in B} : x \in 0 .. 100
    BY DEF Graded
  <2> QED BY <2>1, BestGrows
<1>6. /\ Reports!NewsConfidence(A) = 30 * qa + 20 * topic.original + 20 * va + 15 * topic.clarity
                                      + (15 * (60 * topic.filled + 40 * fa)) \div 100
      /\ Reports!NewsConfidence(B) = 30 * qb + 20 * topic.original + 20 * vb + 15 * topic.clarity
                                      + (15 * (60 * topic.filled + 40 * fb)) \div 100
  BY Zenon DEF Reports!NewsConfidence
<1>7. topic.original \in Nat /\ topic.clarity \in Nat /\ topic.filled \in Nat
  BY ReportsAssumption
<1> HIDE DEF m, n, oa, ob, va, vb, qa, qb, fa, fb
<1>8. va \in Int /\ vb \in Int /\ va <= vb
  BY <1>1, <1>2, <1>3
<1> QED BY <1>4, <1>5, <1>6, <1>7, <1>8

-----------------------------------------------------------------------------
\* A draft names every asset once.
NamedOnce(drafted) ==
  \A j, k \in DOMAIN drafted : drafted[j].asset = drafted[k].asset /\ drafted[j].asset # 0 => j = k

\* The first places of a sequence are all of one that is not longer.
LEMMA FirstKeeps ==
    ASSUME NEW T, NEW s \in Seq(T), NEW n \in Nat
    PROVE  /\ Reports!FirstOf(s, n) \in Seq(T)
           /\ \A k \in 1 .. Len(s) : k <= n => \E j \in DOMAIN Reports!FirstOf(s, n) : Reports!FirstOf(s, n)[j] = s[k]
           /\ Len(Reports!FirstOf(s, n)) \in Nat /\ Len(Reports!FirstOf(s, n)) <= n
           /\ DOMAIN Reports!FirstOf(s, n) = 1 .. Len(Reports!FirstOf(s, n))
<1> DEFINE places == {k \in DOMAIN s : k <= n}
<1>1. Reports!FirstOf(s, n) = Picked(s, places)
  BY ReportsCount DEF Reports!FirstOf
<1>2. DOMAIN s = 1 .. Len(s) /\ Len(s) \in Nat
  BY LenProperties
<1>3. \A k : k \in places <=> k \in 1 .. Len(s) /\ k <= n
  BY <1>2
<1>4. places \subseteq DOMAIN s
  OBVIOUS
<1>5. IsFiniteSet(1 .. n) /\ Cardinality(1 .. n) = n
  BY FS_Interval
<1>6. places \subseteq 1 .. n
  BY <1>2, <1>3
<1> HIDE DEF places
<1>7. Cardinality(places) <= n
  BY <1>5, <1>6, FS_Subset
<1>8. /\ Cardinality(places) \in Nat
      /\ Picked(s, places) \in Seq(T) /\ Len(Picked(s, places)) = Cardinality(places)
      /\ DOMAIN Picked(s, places) = 1 .. Cardinality(places)
      /\ \A k \in 1 .. Cardinality(places) : Picked(s, places)[k] = s[Ascending(places)[k]]
      /\ \A i \in places : \E k \in 1 .. Cardinality(places) : i = Ascending(places)[k]
  BY <1>4, PickedPlaces
<1> QED BY <1>1, <1>3, <1>7, <1>8

Candidate == [asset : Int \ {0}, peer : BOOLEAN]

\* The candidates judged directly are no more than there is room for.
LEMMA CandidatesFit ==
    ASSUME topic \in Topic
    PROVE  /\ Reports!Candidates \in Seq(Candidate)
           /\ Len(Reports!Candidates) \in Nat /\ Len(Reports!Candidates) <= MaxDirect
           /\ DOMAIN Reports!Candidates = 1 .. Len(Reports!Candidates)
           /\ \A d : d \in Reports!DirectIds <=>
                \E k \in 1 .. Len(Reports!Candidates) : Reports!Candidates[k].asset = d
<1>1. topic.candidates \in Seq(Candidate) /\ MaxDirect \in Nat
  BY ReportsAssumption DEF Candidate
<1>2. /\ Reports!Candidates \in Seq(Candidate)
      /\ Len(Reports!Candidates) \in Nat /\ Len(Reports!Candidates) <= MaxDirect
      /\ DOMAIN Reports!Candidates = 1 .. Len(Reports!Candidates)
  BY <1>1, FirstKeeps DEF Reports!Candidates
<1>3. \A d : d \in Reports!DirectIds <=> \E k \in DOMAIN Reports!Candidates : Reports!Candidates[k].asset = d
  BY DEF Reports!DirectIds, Reports!Range
<1> QED BY <1>2, <1>3

\* What is left after the activities that are no target is a list of proposals.
LEMMA SanitizedIsDrafted ==
    ASSUME NEW drafted \in Seq(Impact)
    PROVE  Reports!Sanitized(drafted) \in Seq(Impact)
<1> DEFINE places == {k \in DOMAIN drafted : drafted[k].asset # 0 \/ drafted[k].name # "volume"}
<1>1. places \subseteq DOMAIN drafted
  OBVIOUS
<1>2. Reports!Sanitized(drafted) = Picked(drafted, places)
  BY ReportsCount DEF Reports!Sanitized
<1> HIDE DEF places
<1> QED BY <1>1, <1>2, PickedPlaces

\* What is ordered are proposals; as long as every asset is named once, no
\* direct candidate is cut off: each has its own place, and there are no more
\* of them than there is room for.
LEMMA OrderedKeeps ==
    ASSUME topic \in Topic, NEW draft, draft.impacts \in Seq(Impact)
    PROVE  /\ Reports!Ordered(draft) \in Seq(Impact)
           /\ NamedOnce(Reports!Sanitized(draft.impacts)) =>
                \A d \in Reports!DirectIds : \E k \in DOMAIN Reports!Ordered(draft) :
                  Reports!Ordered(draft)[k].asset = d
<1> DEFINE C == Reports!Candidates
           p == Reports!Sanitized(draft.impacts)
           named == {i.asset : i \in Reports!Range(p)}
           cited == draft.cites # {}
           Empty(c) == [name |-> "listed", asset |-> c.asset, score |-> 0, confidence |-> 0,
                        cites |-> cited, action |-> TRUE, gaps |-> TRUE]
           L == {k \in DOMAIN C : C[k].asset \notin named}
           left == Picked(C, L)
           empties == [k \in DOMAIN left |-> Empty(left[k])]
           all == p \o empties
           D == {k \in DOMAIN all : all[k].asset \in Reports!DirectIds}
           direct == Reports!FirstOf(Picked(all, D), MaxDirect)
           indirect == Without(all, Reports!Range(direct))
<1>1. Reports!Ordered(draft) = Reports!FirstOf(direct \o indirect, MaxTargets)
  BY ReportsCount, Zenon DEF Reports!Ordered
<1>2. p \in Seq(Impact) /\ Len(p) \in Nat /\ DOMAIN p = 1 .. Len(p) /\ \A k \in 1 .. Len(p) : p[k] \in Impact
  BY SanitizedIsDrafted, LenProperties, ElementOfSeq
<1>3. /\ C \in Seq(Candidate) /\ Len(C) \in Nat /\ Len(C) <= MaxDirect /\ DOMAIN C = 1 .. Len(C)
      /\ \A d : d \in Reports!DirectIds <=> \E k \in 1 .. Len(C) : C[k].asset = d
      /\ \A k \in 1 .. Len(C) : C[k] \in Candidate
  BY CandidatesFit, ElementOfSeq
<1>4. /\ MaxDirect \in Nat /\ MaxTargets \in Nat /\ MaxDirect <= MaxTargets
  BY ReportsAssumption
<1>5. \A a : a \in named <=> \E k \in 1 .. Len(p) : p[k].asset = a
  BY <1>2 DEF Reports!Range
<1>6. cited \in BOOLEAN
  OBVIOUS
<1>7. L \subseteq DOMAIN C /\ \A k : k \in L <=> k \in 1 .. Len(C) /\ C[k].asset \notin named
  BY <1>3
<1> HIDE DEF C, p, named, cited, L
<1> DEFINE n == Cardinality(L)
           nth(k) == Ascending(L)[k]
<1>8. /\ n \in Nat /\ left \in Seq(Candidate) /\ Len(left) = n /\ DOMAIN left = 1 .. n
      /\ \A k \in 1 .. n : nth(k) \in L /\ left[k] = C[nth(k)]
  BY <1>3, <1>7, PickedPlaces
<1>9. \A i \in L : \E k \in 1 .. n : i = nth(k)
  BY <1>3, <1>7, PickedPlaces
<1>10. \A j, k \in 1 .. n : nth(j) = nth(k) => j = k
  <2>1. \A j, k \in 1 .. n : j < k <=> nth(j) < nth(k)
    BY <1>3, <1>7, PickedPlaces
  <2>2. \A k \in 1 .. n : nth(k) \in Int
    BY <1>3, <1>7, <1>8
  <2> HIDE DEF n, nth
  <2> QED BY <1>8, <2>1, <2>2
<1> HIDE DEF left, n, nth
<1>11. \A k \in 1 .. n : left[k] \in Candidate
  BY <1>8, ElementOfSeq
<1>12. ASSUME NEW c \in Candidate PROVE Empty(c) \in Impact
  <2>1. c.asset \in Int
    BY DEF Candidate
  <2>2. 0 \in Int /\ 0 \in Nat
    OBVIOUS
  <2>3. TRUE \in BOOLEAN
    OBVIOUS
  <2>4. "listed" \in STRING \union {"listed"}
    OBVIOUS
  <2> QED BY <1>6, <2>1, <2>2, <2>3, <2>4, Zenon DEF Impact
<1>13. \A c : Empty(c).asset = c.asset
  OBVIOUS
<1> HIDE DEF Empty
<1>14. /\ empties \in Seq(Impact) /\ Len(empties) = n
       /\ \A k \in 1 .. n : empties[k] = Empty(left[k])
  <2>1. empties \in [1 .. n -> Impact]
    BY <1>8, <1>11, <1>12
  <2>2. empties \in Seq(Impact)
    BY <1>8, <2>1, SeqDef
  <2>3. DOMAIN empties = 1 .. n /\ \A k \in 1 .. n : empties[k] = Empty(left[k])
    BY <1>8
  <2> HIDE DEF empties
  <2> QED BY <1>8, <2>2, <2>3, LenProperties
<1> HIDE DEF empties
<1>15. /\ all \in Seq(Impact) /\ Len(all) = Len(p) + n /\ DOMAIN all = 1 .. (Len(p) + n)
       /\ \A k \in 1 .. (Len(p) + n) : all[k] = IF k <= Len(p) THEN p[k] ELSE empties[k - Len(p)]
  <2>1. /\ all \in Seq(Impact) /\ Len(all) = Len(p) + n
        /\ \A k \in 1 .. (Len(p) + n) : all[k] = IF k <= Len(p) THEN p[k] ELSE empties[k - Len(p)]
    BY <1>2, <1>14, ConcatProperties
  <2> HIDE DEF all
  <2> QED BY <2>1, LenProperties
<1> HIDE DEF all
<1>16. D \subseteq DOMAIN all /\ \A k : k \in D <=> k \in 1 .. (Len(p) + n) /\ all[k].asset \in Reports!DirectIds
  BY <1>15
<1> HIDE DEF D
<1>17. /\ Cardinality(D) \in Nat /\ Picked(all, D) \in Seq(Impact) /\ Len(Picked(all, D)) = Cardinality(D)
       /\ DOMAIN Picked(all, D) = 1 .. Cardinality(D)
       /\ \A k \in 1 .. Cardinality(D) : Ascending(D)[k] \in D /\ Picked(all, D)[k] = all[Ascending(D)[k]]
       /\ \A i \in D : \E k \in 1 .. Cardinality(D) : i = Ascending(D)[k]
  BY <1>15, <1>16, PickedPlaces
<1>18. /\ direct \in Seq(Impact) /\ Len(direct) \in Nat /\ Len(direct) <= MaxDirect
       /\ DOMAIN direct = 1 .. Len(direct)
       /\ \A k \in 1 .. Cardinality(D) : k <= MaxDirect => \E j \in DOMAIN direct : direct[j] = Picked(all, D)[k]
  <2> DEFINE s == Picked(all, D)
  <2>1. s \in Seq(Impact) /\ Len(s) = Cardinality(D)
    BY <1>17
  <2> HIDE DEF s
  <2>2. /\ Reports!FirstOf(s, MaxDirect) \in Seq(Impact)
        /\ \A k \in 1 .. Len(s) : k <= MaxDirect =>
             \E j \in DOMAIN Reports!FirstOf(s, MaxDirect) : Reports!FirstOf(s, MaxDirect)[j] = s[k]
        /\ Len(Reports!FirstOf(s, MaxDirect)) \in Nat /\ Len(Reports!FirstOf(s, MaxDirect)) <= MaxDirect
        /\ DOMAIN Reports!FirstOf(s, MaxDirect) = 1 .. Len(Reports!FirstOf(s, MaxDirect))
    BY <1>4, <2>1, FirstKeeps
  <2>3. direct = Reports!FirstOf(s, MaxDirect)
    BY DEF s
  <2> HIDE DEF direct
  <2> QED BY <2>1, <2>2, <2>3 DEF s
<1>19. indirect \in Seq(Impact)
  BY <1>15, WithoutLeaves
<1> HIDE DEF direct, indirect
<1>20. /\ direct \o indirect \in Seq(Impact)
       /\ Len(direct \o indirect) = Len(direct) + Len(indirect) /\ Len(indirect) \in Nat
       /\ \A k \in 1 .. Len(direct) : (direct \o indirect)[k] = direct[k]
  <2>1. Len(indirect) \in Nat
    BY <1>19, LenProperties
  <2>2. /\ direct \o indirect \in Seq(Impact)
        /\ Len(direct \o indirect) = Len(direct) + Len(indirect)
        /\ \A i \in 1 .. (Len(direct) + Len(indirect)) :
             (direct \o indirect)[i] = IF i <= Len(direct) THEN direct[i] ELSE indirect[i - Len(direct)]
    BY <1>18, <1>19, ConcatProperties
  <2> QED BY <1>18, <2>1, <2>2
<1>21. Reports!Ordered(draft) \in Seq(Impact)
  <2> DEFINE q == direct \o indirect
  <2>1. q \in Seq(Impact)
    BY <1>20
  <2> HIDE DEF q
  <2>2. Reports!FirstOf(q, MaxTargets) \in Seq(Impact)
    BY <1>4, <2>1, FirstKeeps
  <2> QED BY <1>1, <2>2 DEF q
<1>22. ASSUME NamedOnce(p), NEW d \in Reports!DirectIds
       PROVE  \E k \in DOMAIN Reports!Ordered(draft) : Reports!Ordered(draft)[k].asset = d
  <2>1. \E k \in D : all[k].asset = d
    <3>1. CASE d \in named
      <4>1. PICK k \in 1 .. Len(p) : p[k].asset = d
        BY <1>5, <3>1
      <4>2. k \in 1 .. (Len(p) + n) /\ k <= Len(p)
        BY <1>2, <1>8
      <4>3. all[k] = p[k]
        BY <1>15, <4>2
      <4> QED BY <1>16, <4>1, <4>2, <4>3, <1>22
    <3>2. CASE d \notin named
      <4>1. PICK i \in 1 .. Len(C) : C[i].asset = d
        BY <1>3, <1>22
      <4>2. PICK k \in 1 .. n : i = nth(k)
        BY <1>7, <1>9, <3>2, <4>1
      <4>3. Len(p) + k \in 1 .. (Len(p) + n) /\ ~(Len(p) + k <= Len(p)) /\ (Len(p) + k) - Len(p) = k
        BY <1>2, <1>8
      <4>4. all[Len(p) + k] = empties[k]
        BY <1>15, <4>3
      <4>5. all[Len(p) + k].asset = d
        BY <1>8, <1>13, <1>14, <4>1, <4>2, <4>4
      <4> QED BY <1>16, <4>3, <4>5, <1>22
    <3> QED BY <3>1, <3>2
  <2>2. Cardinality(D) <= MaxDirect
    <3> DEFINE g == [k \in D |-> IF k <= Len(p) THEN CHOOSE i \in 1 .. Len(C) : C[i].asset = p[k].asset
                                 ELSE nth(k - Len(p))]
    <3>1. \A k \in D : k <= Len(p) => k \in 1 .. Len(p) /\ all[k] = p[k]
      BY <1>2, <1>8, <1>15, <1>16
    <3>2. \A k \in D : ~(k <= Len(p)) => k - Len(p) \in 1 .. n
      BY <1>2, <1>8, <1>16
    <3>3. \A k \in D : k <= Len(p) =>
            g[k] \in 1 .. Len(C) /\ C[g[k]].asset = p[k].asset /\ p[k].asset \in named
      <4> SUFFICES ASSUME NEW k \in D, k <= Len(p)
                   PROVE  g[k] \in 1 .. Len(C) /\ C[g[k]].asset = p[k].asset /\ p[k].asset \in named
        OBVIOUS
      <4>1. p[k].asset \in Reports!DirectIds /\ p[k].asset \in named
        BY <1>5, <1>16, <3>1
      <4>2. \E i \in 1 .. Len(C) : C[i].asset = p[k].asset
        BY <1>3, <4>1
      <4>3. g[k] = CHOOSE i \in 1 .. Len(C) : C[i].asset = p[k].asset
        OBVIOUS
      <4> QED BY <4>1, <4>2, <4>3
    <3>4. \A k \in D : ~(k <= Len(p)) => g[k] = nth(k - Len(p)) /\ g[k] \in L
      <4>1. \A k \in D : ~(k <= Len(p)) => g[k] = nth(k - Len(p))
        OBVIOUS
      <4> HIDE DEF g
      <4> QED BY <1>8, <3>2, <4>1
    <3> HIDE DEF g
    <3>5. \A k \in D : g[k] \in 1 .. Len(C)
      BY <1>7, <3>3, <3>4
    <3>6. \A j, k \in D : g[j] = g[k] => j = k
      <4> SUFFICES ASSUME NEW j \in D, NEW k \in D, g[j] = g[k] PROVE j = k
        OBVIOUS
      <4>1. CASE j <= Len(p) /\ k <= Len(p)
        <5>1. p[j].asset = p[k].asset /\ j \in 1 .. Len(p) /\ k \in 1 .. Len(p)
          BY <3>1, <3>3, <4>1
        <5>2. p[j].asset # 0
          <6>1. C[g[j]].asset = p[j].asset /\ C[g[j]] \in Candidate
            BY <1>3, <3>3, <3>5, <4>1
          <6> QED BY <6>1 DEF Candidate
        <5> QED BY <1>2, <1>22, <5>1, <5>2 DEF NamedOnce
      <4>2. CASE j <= Len(p) /\ ~(k <= Len(p))
        <5>1. C[g[k]].asset \notin named
          BY <1>7, <3>4, <4>2
        <5> QED BY <3>3, <4>2, <5>1
      <4>3. CASE ~(j <= Len(p)) /\ k <= Len(p)
        <5>1. C[g[j]].asset \notin named
          BY <1>7, <3>4, <4>3
        <5> QED BY <3>3, <4>3, <5>1
      <4>4. CASE ~(j <= Len(p)) /\ ~(k <= Len(p))
        <5>1. j - Len(p) = k - Len(p)
          BY <1>10, <3>2, <3>4, <4>4
        <5>2. j \in Int /\ k \in Int
          BY <1>2, <1>8, <1>16
        <5> QED BY <1>2, <5>1, <5>2
      <4> QED BY <4>1, <4>2, <4>3, <4>4
    <3>7. IsFiniteSet(1 .. Len(C)) /\ Cardinality(1 .. Len(C)) = Len(C)
      <4>1. Len(C) \in Nat
        BY <1>3
      <4> QED BY <4>1, IntervalSize
    <3>8. IsFiniteSet(D)
      <4>1. IsFiniteSet(1 .. (Len(p) + n))
        BY <1>2, <1>8, FS_Interval
      <4> QED BY <4>1, <1>15, <1>16, FS_Subset
    <3>9. g \in Injection(D, 1 .. Len(C))
      <4>1. g \in [D -> 1 .. Len(C)]
        <5>1. DOMAIN g = D /\ g = [k \in D |-> g[k]]
          BY DEF g
        <5> QED BY <3>5, <5>1
      <4> QED BY <3>6, <4>1 DEF Injection, IsInjective
    <3>10. Cardinality(D) <= Cardinality(1 .. Len(C))
      BY <3>7, <3>8, <3>9, FS_Injection DEF ExistsInjection
    <3> QED BY <1>3, <1>4, <1>17, <3>7, <3>10
  <2>3. PICK q \in D : all[q].asset = d
    BY <2>1
  <2>4. PICK k \in 1 .. Cardinality(D) : q = Ascending(D)[k]
    BY <1>17
  <2>5. Picked(all, D)[k].asset = d /\ k <= MaxDirect
    BY <1>4, <1>17, <2>2, <2>3, <2>4
  <2>6. PICK j \in DOMAIN direct : direct[j] = Picked(all, D)[k]
    BY <1>18, <2>5
  <2>7. j \in 1 .. Len(direct \o indirect) /\ j <= MaxTargets /\ (direct \o indirect)[j].asset = d
    BY <1>4, <1>18, <1>20, <2>5, <2>6
  <2>8. PICK i \in DOMAIN Reports!Ordered(draft) : Reports!Ordered(draft)[i] = (direct \o indirect)[j]
    <3> DEFINE s == direct \o indirect
    <3>1. s \in Seq(Impact) /\ j \in 1 .. Len(s) /\ j <= MaxTargets
      BY <1>20, <2>7
    <3> HIDE DEF s
    <3>2. \E i \in DOMAIN Reports!FirstOf(s, MaxTargets) : Reports!FirstOf(s, MaxTargets)[i] = s[j]
      BY <1>4, <3>1, FirstKeeps
    <3> QED BY <1>1, <3>2 DEF s
  <2> QED BY <2>7, <2>8
<1> QED BY <1>21, <1>22 DEF p

\* Of the impacts on one target the first is kept, so that no target is left
\* twice and none is lost.
LEMMA TargetsOnce ==
    ASSUME NEW impacts \in Seq(Impact)
    PROVE  LET firsts == Reports!FirstOfTarget(impacts)
           IN  /\ firsts \in Seq(Impact)
               /\ \A j, k \in DOMAIN firsts : Reports!Target(firsts[j]) = Reports!Target(firsts[k]) => j = k
               /\ \A i \in DOMAIN impacts : \E k \in DOMAIN firsts :
                    Reports!Target(firsts[k]) = Reports!Target(impacts[i])
<1> DEFINE firsts == Reports!FirstOfTarget(impacts)
           target(k) == Reports!Target(impacts[k])
           first == {k \in DOMAIN impacts : \A j \in 1 .. k - 1 : target(j) # target(k)}
           n == Cardinality(first)
           nth(k) == Ascending(first)[k]
<1>1. firsts = Picked(impacts, first)
  BY ReportsCount, Zenon DEF Reports!FirstOfTarget
<1>2. DOMAIN impacts = 1 .. Len(impacts) /\ Len(impacts) \in Nat
  BY LenProperties
<1>3. \A k : k \in first <=> k \in 1 .. Len(impacts) /\ \A j \in 1 .. k - 1 : target(j) # target(k)
  BY <1>2
<1>4. first \subseteq DOMAIN impacts
  OBVIOUS
<1> HIDE DEF first
<1>5. /\ n \in Nat /\ Picked(impacts, first) \in Seq(Impact) /\ DOMAIN Picked(impacts, first) = 1 .. n
      /\ \A k \in 1 .. n : nth(k) \in first /\ Picked(impacts, first)[k] = impacts[nth(k)]
      /\ \A i \in first : \E k \in 1 .. n : i = nth(k)
      /\ \A j, k \in 1 .. n : j < k <=> nth(j) < nth(k)
  BY <1>4, PickedPlaces
<1>6. \A k \in 1 .. n : Reports!Target(firsts[k]) = target(nth(k))
  BY <1>1, <1>5
<1> HIDE DEF n, nth, target, firsts
<1>7. ASSUME NEW j \in 1 .. n, NEW k \in 1 .. n, target(nth(j)) = target(nth(k)), j < k PROVE FALSE
  <2>1. nth(j) < nth(k) /\ nth(j) \in 1 .. Len(impacts) /\ nth(k) \in 1 .. Len(impacts)
    BY <1>3, <1>5, <1>7
  <2>2. nth(j) \in 1 .. nth(k) - 1
    BY <1>2, <2>1
  <2> QED BY <1>3, <1>5, <1>7, <2>2
<1>8. \A j, k \in 1 .. n : target(nth(j)) = target(nth(k)) => j = k
  <2> SUFFICES ASSUME NEW j \in 1 .. n, NEW k \in 1 .. n, target(nth(j)) = target(nth(k)), j # k PROVE FALSE
    OBVIOUS
  <2>1. j < k \/ k < j
    BY <1>5
  <2> QED BY <1>7, <2>1
<1>9. ASSUME NEW i \in 1 .. Len(impacts) PROVE \E k \in 1 .. n : target(nth(k)) = target(i)
  <2> DEFINE same == {k \in 1 .. Len(impacts) : target(k) = target(i)}
  <2>1. same \subseteq Nat /\ same # {}
    <3>1. 1 .. Len(impacts) \subseteq Nat
      BY <1>2
    <3> QED BY <3>1
  <2>2. PICK k \in same : \A j \in same : k <= j
    <3> HIDE DEF same
    <3> QED BY <2>1, LeastExists
  <2>3. k \in 1 .. Len(impacts) /\ target(k) = target(i)
    OBVIOUS
  <2>4. \A j \in 1 .. k - 1 : target(j) # target(k)
    <3> SUFFICES ASSUME NEW j \in 1 .. k - 1, target(j) = target(k) PROVE FALSE
      OBVIOUS
    <3>1. j \in 1 .. Len(impacts) /\ ~(k <= j)
      BY <1>2, <2>3
    <3> QED BY <2>2, <2>3, <3>1
  <2>5. k \in first
    BY <1>3, <2>3, <2>4
  <2> QED BY <1>5, <2>3, <2>5
<1>10. firsts \in Seq(Impact) /\ DOMAIN firsts = 1 .. n
  BY <1>1, <1>5
<1>11. \A i \in DOMAIN impacts : \E k \in DOMAIN firsts : Reports!Target(firsts[k]) = target(i)
  BY <1>2, <1>6, <1>9, <1>10
<1>12. \A j, k \in DOMAIN firsts : Reports!Target(firsts[j]) = Reports!Target(firsts[k]) => j = k
  BY <1>6, <1>8, <1>10
<1> QED BY <1>10, <1>11, <1>12 DEF firsts, target

\* What a report says of its news, its draft and its targets.
Answers(r, peers, direct, news, drafted, complete, rules) ==
  /\ \A k \in DOMAIN r.impacts : r.impacts[k].tradeable =>
       /\ complete /\ ~r.failed /\ r.impacts[k].target[1] \notin peers
       /\ r.impacts[k].score >= 30 /\ r.impacts[k].confidence >= 55
  /\ rules => \A k \in DOMAIN r.impacts :
       ~r.impacts[k].tradeable /\ r.impacts[k].score \in -69 .. 69
  /\ \A j, k \in DOMAIN r.impacts : r.impacts[j].target = r.impacts[k].target => j = k
  /\ NamedOnce(Reports!Sanitized(drafted)) =>
       \A d \in direct : \E k \in DOMAIN r.impacts : r.impacts[k].target[1] = d
  /\ r.news = news

\* The score of a report that stands in is in the bounds of the rules.
LEMMA ClampBounds ==
    ASSUME NEW s \in Int PROVE Reports!Clamp(s) \in -69 .. 69
<1> DEFINE low == Reports!Min({69, s})
           W == {-69, low}
<1>1. low = (CHOOSE x \in {69, s} : \A y \in {69, s} : x <= y)
  BY DEF Reports!Min
<1>2. \E x \in {69, s} : \A y \in {69, s} : x <= y
  OBVIOUS
<1>3. low \in Int /\ low <= 69
  BY <1>1, <1>2
<1> HIDE DEF low
<1>4. Reports!Clamp(s) = CHOOSE x \in W : \A y \in W : x >= y
  BY Zenon DEF Reports!Clamp, Reports!Max, low
<1>5. \E x \in W : \A y \in W : x >= y
  BY <1>3
<1>6. Reports!Clamp(s) \in W /\ \A y \in W : Reports!Clamp(s) >= y
  BY <1>4, <1>5
<1> QED BY <1>3, <1>6

\* A report answers for all of it.
LEMMA ReportAnswers ==
    ASSUME topic \in Topic, outline.impacts \in Seq(Impact)
    PROVE  Answers(Reports!Report, Reports!Peers, Reports!DirectIds, Reports!NewsConfidence(grounds),
                   outline.impacts, verdict.complete, draftError)
<1> DEFINE r == Reports!Report
           failed == draftError \/ topic.unmapped
           ordered == Reports!Ordered(outline)
           firsts == Reports!FirstOfTarget(ordered)
           of(k) == Reports!Published(firsts[k], failed, verdict.complete)
<1>1. /\ r.impacts = [k \in DOMAIN firsts |-> of(k)]
      /\ r.news = Reports!NewsConfidence(grounds) /\ r.failed = failed
  BY DEF Reports!Report
<1>2. /\ ordered \in Seq(Impact)
      /\ NamedOnce(Reports!Sanitized(outline.impacts)) =>
           \A d \in Reports!DirectIds : \E k \in DOMAIN ordered : ordered[k].asset = d
  BY OrderedKeeps
<1>3. /\ firsts \in Seq(Impact)
      /\ \A j, k \in DOMAIN firsts : Reports!Target(firsts[j]) = Reports!Target(firsts[k]) => j = k
      /\ \A i \in DOMAIN ordered : \E k \in DOMAIN firsts :
           Reports!Target(firsts[k]) = Reports!Target(ordered[i])
  BY <1>2, TargetsOnce
<1>4. \A k \in DOMAIN firsts : firsts[k] \in Impact
  BY <1>3, ElementOfSeq, LenProperties
<1>5. \A i : Reports!Target(i)[1] = i.asset
  BY DEF Reports!Target
<1> HIDE DEF r, ordered, firsts
<1>6. \A k \in DOMAIN firsts :
        /\ of(k).target = Reports!Target(firsts[k])
        /\ of(k).score = IF failed THEN Reports!Clamp(firsts[k].score) ELSE firsts[k].score
        /\ of(k).tradeable => ~failed /\ verdict.complete /\ of(k).score >= 30 /\ of(k).confidence >= 55
                             /\ firsts[k].asset \notin Reports!Peers
  BY DEF Reports!Published
<1>7. \A k \in DOMAIN firsts : firsts[k].score \in Int
  BY <1>4 DEF Impact
<1> HIDE DEF of, failed
<1>8. DOMAIN r.impacts = DOMAIN firsts /\ \A k \in DOMAIN firsts : r.impacts[k] = of(k)
  BY <1>1
<1>9. \A k \in DOMAIN r.impacts : r.impacts[k].tradeable =>
        /\ verdict.complete /\ ~r.failed /\ r.impacts[k].target[1] \notin Reports!Peers
        /\ r.impacts[k].score >= 30 /\ r.impacts[k].confidence >= 55
  BY <1>1, <1>5, <1>6, <1>8
<1>10. draftError => \A k \in DOMAIN r.impacts :
         ~r.impacts[k].tradeable /\ r.impacts[k].score \in -69 .. 69
  BY <1>6, <1>7, <1>8, ClampBounds DEF failed
<1>11. \A j, k \in DOMAIN r.impacts : r.impacts[j].target = r.impacts[k].target => j = k
  BY <1>3, <1>6, <1>8
<1>12. NamedOnce(Reports!Sanitized(outline.impacts)) =>
         \A d \in Reports!DirectIds : \E k \in DOMAIN r.impacts : r.impacts[k].target[1] = d
  <2> SUFFICES ASSUME NamedOnce(Reports!Sanitized(outline.impacts)), NEW d \in Reports!DirectIds
               PROVE  \E k \in DOMAIN r.impacts : r.impacts[k].target[1] = d
    OBVIOUS
  <2>1. PICK i \in DOMAIN ordered : ordered[i].asset = d
    BY <1>2
  <2>2. PICK k \in DOMAIN firsts : Reports!Target(firsts[k]) = Reports!Target(ordered[i])
    BY <1>3
  <2> QED BY <1>5, <1>6, <1>8, <2>1, <2>2
<1> QED BY <1>1, <1>9, <1>10, <1>11, <1>12 DEF Answers, r

-----------------------------------------------------------------------------
\* What a complete draft cites is there, enough, and known in time.
Accounted(cites, items, later) ==
  /\ cites \subseteq items
  /\ \/ Reports!Official(cites \intersect items)
     \/ Cardinality(Reports!Groups(cites \intersect items)) >= 2
  /\ later \/ \A e \in items : ~e.late

\* A replay knows what was known at its time.
KnownThen == topic.replay => phase # "search" /\ \A e \in grounds : e \in topic.news /\ ~e.late

ReportStands ==
  phase \in {"write", "done"} =>
    /\ Answers(report, Reports!Peers, Reports!DirectIds, Reports!NewsConfidence(grounds),
               outline.impacts, verdict.complete, draftError)
    /\ reportStatus = IF verdict.complete /\ ~report.failed THEN "completed" ELSE "insufficient_evidence"

\* A verdict speaks of the draft there is; only a search adds to what it saw.
ReportInv ==
  /\ topic \in Topic /\ outline.impacts \in Seq(Impact) /\ grounds \subseteq topic.news \union Web
  /\ KnownThen
  /\ phase = "draft" => ~verdict.complete
  /\ verdict.complete => Accounted(outline.cites, grounds, extended)
  /\ credible \in Int /\ (phase # "start" => credible <= Reports!NewsConfidence(grounds))
  /\ ReportStands

\* News and what the web has are graded.
LEMMA GroundsAreGraded ==
    ASSUME NEW t \in Topic, NEW items, items \subseteq t.news \union Web PROVE Graded(items)
<1>1. IsFiniteSet(t.news) /\ IsFiniteSet(Web)
  BY ReportsAssumption
<1>2. IsFiniteSet(items)
  BY <1>1, FS_Union, FS_Subset
<1>3. \A e \in items : e.quality \in 0 .. 100 /\ e.fresh \in 0 .. 100
  BY ReportsAssumption
<1> QED BY <1>2, <1>3 DEF Graded

\* A verdict is complete only if the draft is accounted for.
LEMMA VerdictAccounts ==
    ASSUME NEW draft, NEW items, NEW later, Reports!Verdict(draft, items, later).complete
    PROVE  Accounted(draft.cites, items, later)
BY ReportsCount DEF Reports!Verdict, Accounted

\* What is drafted are proposals of the model or of the rules.
LEMMA DraftsAreImpacts ==
    ASSUME NEW items, NEW draft \in Reports!Drafted(items) \union Reports!RuleDrafts(items)
    PROVE  draft.impacts \in Seq(Impact)
<1>1. draft.impacts \in LlmImpacts \union RuleImpacts
  BY DEF Reports!Drafted, Reports!RuleDrafts
<1> QED BY <1>1, ProposalsAreImpacts

LEMMA ReportStarts == Reports!Init => ReportInv
<1> SUFFICES ASSUME Reports!Init PROVE ReportInv
  OBVIOUS
<1>1. outline.impacts \in Seq(Impact)
  BY EmptySeq DEF Reports!Init, Reports!NoDraft
<1>2. /\ topic \in Topic /\ grounds \subseteq topic.news \union Web /\ KnownThen
      /\ phase = "start" /\ ~verdict.complete /\ credible \in Int
  BY DEF Reports!Init, Reports!NoVerdict, KnownThen
<1>3. ReportStands
  BY <1>2 DEF ReportStands
<1> QED BY <1>1, <1>2, <1>3 DEF ReportInv

\* A run begins with what is known of the news, and the report of the last
\* attempt does not speak for it.
LEMMA RunKeeps == ASSUME ReportInv, Reports!Run PROVE ReportInv'
<1>1. topic \in Topic /\ topic' = topic /\ phase' = "draft"
  BY DEF ReportInv, Reports!Run
<1>2. outline'.impacts \in Seq(Impact)
  BY EmptySeq DEF Reports!Run, Reports!NoDraft
<1>3. grounds' = {e \in topic.news : topic.replay => ~e.late}
  BY DEF Reports!Run
<1>4. grounds' \subseteq topic'.news \union Web /\ KnownThen'
  BY <1>1, <1>3 DEF KnownThen
<1>5. ~verdict'.complete
  BY DEF Reports!Run, Reports!NoVerdict
<1>6. credible' \in Int /\ credible' <= Reports!NewsConfidence(grounds)'
  <2>1. credible' = Reports!NewsConfidence(grounds')
    BY DEF Reports!Run
  <2>2. Reports!NewsConfidence(grounds)' = Reports!NewsConfidence(grounds')
    BY <1>1, Zenon DEF Reports!NewsConfidence
  <2>3. Reports!NewsConfidence(grounds') \in Int
    <3>1. Graded(grounds')
      BY <1>1, <1>4, GroundsAreGraded
    <3> QED BY <1>1, <3>1, ConfidenceGrows
  <2> QED BY <2>1, <2>2, <2>3
<1>7. ReportStands'
  BY <1>1 DEF ReportStands
<1> QED BY <1>1, <1>2, <1>4, <1>5, <1>6, <1>7 DEF ReportInv

\* A new draft, judged or not, over the evidence there is.
LEMMA DraftingKeeps ==
    ASSUME ReportInv, UNCHANGED <<topic, grounds, extended, credible>>,
           outline' = outline \/ outline' \in Reports!Drafted(grounds) \union Reports!RuleDrafts(grounds),
           \/ ~verdict'.complete
           \/ verdict' = Reports!Verdict(outline', grounds, extended)
           \/ outline' = outline /\ verdict' = verdict,
           phase # "start", phase' \in {"verify", "search", "repair", "finalize"},
           phase' = "search" => ~topic.replay
    PROVE  ReportInv'
<1>1. topic' \in Topic /\ grounds' \subseteq topic'.news \union Web
  BY DEF ReportInv
<1>2. outline'.impacts \in Seq(Impact)
  <2>1. CASE outline' = outline
    BY <2>1 DEF ReportInv
  <2>2. CASE outline' \in Reports!Drafted(grounds) \union Reports!RuleDrafts(grounds)
    BY <2>2, DraftsAreImpacts
  <2> QED BY <2>1, <2>2
<1>3. KnownThen'
  BY DEF ReportInv, KnownThen
<1>4. verdict'.complete => Accounted(outline'.cites, grounds', extended')
  <2>1. CASE verdict' = Reports!Verdict(outline', grounds, extended)
    BY <2>1, VerdictAccounts
  <2>2. CASE outline' = outline /\ verdict' = verdict
    BY <2>2 DEF ReportInv
  <2> QED BY <2>1, <2>2
<1>5. credible' \in Int /\ credible' <= Reports!NewsConfidence(grounds)'
  <2>1. credible \in Int /\ credible <= Reports!NewsConfidence(grounds)
    BY DEF ReportInv
  <2>2. Reports!NewsConfidence(grounds)' = Reports!NewsConfidence(grounds)
    BY Zenon DEF Reports!NewsConfidence
  <2> QED BY <2>1, <2>2
<1>6. ReportStands' /\ (phase' = "draft" => ~verdict'.complete)
  BY DEF ReportStands
<1> QED BY <1>1, <1>2, <1>3, <1>4, <1>5, <1>6 DEF ReportInv

\* A search only adds to what there is, and says that it did.
LEMMA SearchKeeps == ASSUME ReportInv, Reports!Search PROVE ReportInv'
<1>1. PICK found \in SUBSET (Web \ grounds) :
        /\ grounds' = grounds \union found
        /\ extended' = (extended \/ found # {})
        /\ phase' \in {"redraft", "repair"}
  BY DEF Reports!Search
<1>2. /\ topic' = topic /\ outline' = outline /\ verdict' = verdict /\ credible' = credible
      /\ topic \in Topic /\ phase = "search"
  BY DEF Reports!Search, ReportInv
<1>3. outline'.impacts \in Seq(Impact) /\ grounds' \subseteq topic'.news \union Web
  BY <1>1, <1>2 DEF ReportInv
<1>4. KnownThen'
  BY <1>2 DEF ReportInv, KnownThen
<1>5. verdict'.complete => Accounted(outline'.cites, grounds', extended')
  <2> SUFFICES ASSUME verdict.complete PROVE Accounted(outline.cites, grounds', extended')
    BY <1>2
  <2>1. Accounted(outline.cites, grounds, extended)
    BY DEF ReportInv
  <2>2. outline.cites \subseteq grounds' /\ outline.cites \intersect grounds' = outline.cites \intersect grounds
    BY <1>1, <2>1 DEF Accounted
  <2>3. extended' \/ \A e \in grounds' : ~e.late
    BY <1>1, <2>1 DEF Accounted
  <2> QED BY <2>1, <2>2, <2>3 DEF Accounted
<1>6. credible' \in Int /\ credible' <= Reports!NewsConfidence(grounds)'
  <2>1. credible <= Reports!NewsConfidence(grounds)
    BY <1>2 DEF ReportInv
  <2>2. Reports!NewsConfidence(grounds)' = Reports!NewsConfidence(grounds')
    BY <1>2, Zenon DEF Reports!NewsConfidence
  <2>3. grounds \subseteq grounds' /\ Graded(grounds')
    BY <1>1, <1>2, <1>3, GroundsAreGraded
  <2>4. /\ Reports!NewsConfidence(grounds) \in Int /\ Reports!NewsConfidence(grounds') \in Int
        /\ Reports!NewsConfidence(grounds) <= Reports!NewsConfidence(grounds')
    BY <1>2, <2>3, ConfidenceGrows
  <2>5. credible \in Int
    BY DEF ReportInv
  <2> QED BY <1>2, <2>1, <2>2, <2>4, <2>5
<1>7. ReportStands' /\ (phase' = "draft" => ~verdict'.complete)
  BY <1>1 DEF ReportStands
<1> QED BY <1>2, <1>3, <1>4, <1>5, <1>6, <1>7 DEF ReportInv

\* What the report answers for rests as long as it does.
LEMMA AnswersRest ==
    ASSUME ReportInv, UNCHANGED <<topic, grounds, extended, outline, verdict, draftError, credible>>
    PROVE  /\ topic' \in Topic /\ outline'.impacts \in Seq(Impact) /\ grounds' \subseteq topic'.news \union Web
           /\ phase' # "search" => KnownThen'
           /\ verdict'.complete => Accounted(outline'.cites, grounds', extended')
           /\ credible' \in Int /\ (phase # "start" => credible' <= Reports!NewsConfidence(grounds)')
           /\ Reports!Peers' = Reports!Peers /\ Reports!DirectIds' = Reports!DirectIds
           /\ Reports!NewsConfidence(grounds)' = Reports!NewsConfidence(grounds)
<1>1. /\ topic' \in Topic /\ outline'.impacts \in Seq(Impact) /\ grounds' \subseteq topic'.news \union Web
      /\ verdict'.complete => Accounted(outline'.cites, grounds', extended')
  BY DEF ReportInv
<1>2. phase' # "search" => KnownThen'
  BY DEF ReportInv, KnownThen
<1>3. Reports!Peers' = Reports!Peers
  BY Zenon DEF Reports!Peers
<1>4. Reports!DirectIds' = Reports!DirectIds
  BY Zenon DEF Reports!DirectIds, Reports!Candidates
<1>5. Reports!NewsConfidence(grounds)' = Reports!NewsConfidence(grounds)
  BY Zenon DEF Reports!NewsConfidence
<1>6. credible' \in Int /\ (phase # "start" => credible' <= Reports!NewsConfidence(grounds)')
  BY <1>5 DEF ReportInv
<1> QED BY <1>1, <1>2, <1>3, <1>4, <1>5, <1>6

LEMMA FinalizeKeeps == ASSUME ReportInv, Reports!Finalize PROVE ReportInv'
<1>1. /\ UNCHANGED <<topic, grounds, extended, outline, verdict, draftError, credible>>
      /\ phase = "finalize" /\ phase' = "write" /\ report' = Reports!Report
      /\ reportStatus' = IF verdict.complete /\ ~report'.failed THEN "completed"
                         ELSE "insufficient_evidence"
  BY DEF Reports!Finalize
<1>2. Answers(Reports!Report, Reports!Peers, Reports!DirectIds, Reports!NewsConfidence(grounds),
              outline.impacts, verdict.complete, draftError)
  BY ReportAnswers DEF ReportInv
<1>3. ReportStands'
  BY <1>1, <1>2, AnswersRest DEF ReportStands
<1> QED BY <1>1, <1>3, AnswersRest DEF ReportInv

LEMMA WriteKeeps == ASSUME ReportInv, Reports!WriteReport PROVE ReportInv'
<1>1. /\ UNCHANGED <<topic, grounds, extended, outline, verdict, draftError, credible, report, reportStatus>>
      /\ phase = "write" /\ phase' = "done"
  BY DEF Reports!WriteReport
<1>2. ReportStands'
  BY <1>1, AnswersRest DEF ReportStands, ReportInv
<1> QED BY <1>1, <1>2, AnswersRest DEF ReportInv

LEMMA BreaksKeeps == ASSUME ReportInv, Reports!Breaks PROVE ReportInv'
<1>1. /\ UNCHANGED <<topic, grounds, extended, outline, verdict, draftError, credible>>
      /\ phase' = "start"
  BY DEF Reports!Breaks
<1>2. ReportStands'
  BY <1>1 DEF ReportStands
<1> QED BY <1>1, <1>2, AnswersRest DEF ReportInv

\* The invariant is kept by every step.
LEMMA ReportKeeps == ASSUME ReportInv, [Reports!Next]_reportVars PROVE ReportInv'
<1>1. CASE Reports!Draft
  <2>1. /\ UNCHANGED <<topic, grounds, extended, credible, verdict>>
        /\ outline' \in Reports!Drafted(grounds) \union Reports!RuleDrafts(grounds)
        /\ phase = "draft" /\ phase' = "verify"
    BY <1>1 DEF Reports!Draft
  <2>2. ~verdict'.complete
    BY <2>1 DEF ReportInv
  <2> QED BY <2>1, <2>2, DraftingKeeps
<1>2. CASE Reports!Verify
  <2>1. /\ UNCHANGED <<topic, grounds, extended, credible, outline>>
        /\ verdict' = Reports!Verdict(outline, grounds, extended)
        /\ phase = "verify" /\ phase' \in {"search", "repair"} /\ (phase' = "search" => ~topic.replay)
    BY <1>2 DEF Reports!Verify
  <2> QED BY <2>1, DraftingKeeps
<1>3. CASE Reports!Redraft
  <2>1. /\ UNCHANGED <<topic, grounds, extended, credible>>
        /\ outline' \in Reports!Drafted(grounds) \union Reports!RuleDrafts(grounds)
        /\ verdict' = Reports!Verdict(outline', grounds, extended)
        /\ phase = "redraft" /\ phase' = "repair"
    BY <1>3 DEF Reports!Redraft
  <2> QED BY <2>1, DraftingKeeps
<1>4. CASE Reports!Revise
  <2>1. /\ UNCHANGED <<topic, grounds, extended, credible>>
        /\ outline' = outline \/ outline' \in Reports!Drafted(grounds) \union Reports!RuleDrafts(grounds)
        /\ \/ verdict' = Reports!Verdict(outline', grounds, extended)
           \/ outline' = outline /\ verdict' = verdict
        /\ phase = "repair" /\ phase' = "finalize"
    BY <1>4 DEF Reports!Revise
  <2> QED BY <2>1, DraftingKeeps
<1>5. CASE UNCHANGED reportVars
  <2>1. /\ UNCHANGED <<topic, grounds, extended, outline, verdict, draftError, credible>>
        /\ report' = report /\ reportStatus' = reportStatus /\ phase' = phase
    BY <1>5 DEF reportVars
  <2>2. ReportStands'
    BY <2>1, AnswersRest DEF ReportStands, ReportInv
  <2>3. KnownThen'
    BY <2>1 DEF ReportInv, KnownThen
  <2>4. phase' = "draft" => ~verdict'.complete
    BY <2>1 DEF ReportInv
  <2> QED BY <2>1, <2>2, <2>3, <2>4, AnswersRest DEF ReportInv
<1> QED BY <1>1, <1>2, <1>3, <1>4, <1>5, RunKeeps, SearchKeeps, FinalizeKeeps, WriteKeeps, BreaksKeeps
        DEF Reports!Next

\* A report that stands is sound.
LEMMA StandingIsSound == ASSUME ReportInv PROVE Reports!ReportIsSound
<1> SUFFICES ASSUME phase \in {"write", "done"} PROVE Reports!ReportIsSound
  BY DEF Reports!ReportIsSound
<1> DEFINE impacts == Reports!Range(report.impacts)
           cited == outline.cites \intersect grounds
           answered == Answers(report, Reports!Peers, Reports!DirectIds, Reports!NewsConfidence(grounds),
                               outline.impacts, verdict.complete, draftError)
<1>1. /\ answered
      /\ reportStatus = IF verdict.complete /\ ~report.failed THEN "completed" ELSE "insufficient_evidence"
      /\ KnownThen /\ credible <= Reports!NewsConfidence(grounds)
      /\ verdict.complete => Accounted(outline.cites, grounds, extended)
  BY DEF ReportInv, ReportStands
<1>2. \A i : i \in impacts <=> \E k \in DOMAIN report.impacts : i = report.impacts[k]
  BY DEF Reports!Range
<1>3. reportStatus = "completed" =>
        /\ outline.cites \subseteq grounds
        /\ Reports!Official(cited) \/ Reports!Cardinality(Reports!Groups(cited)) >= 2
        /\ extended \/ \A e \in grounds : ~e.late
  BY <1>1, ReportsCount DEF Accounted
<1> HIDE DEF impacts
<1>4. \A i \in impacts : i.tradeable =>
        /\ reportStatus = "completed" /\ i.target[1] \notin Reports!Peers
        /\ i.score >= 30 /\ i.confidence >= 55
  BY <1>1, <1>2 DEF Answers
<1>5. draftError => \A i \in impacts : ~i.tradeable /\ i.score \in -69 .. 69
  BY <1>1, <1>2 DEF Answers
<1>6. \A j, k \in DOMAIN report.impacts :
        report.impacts[j].target = report.impacts[k].target => j = k
  BY <1>1 DEF Answers
<1>7. NamedOnce(Reports!Sanitized(outline.impacts)) => Reports!DirectIds \subseteq {i.target[1] : i \in impacts}
  BY <1>1, <1>2 DEF Answers
<1>8. topic.replay => \A e \in grounds : e \in topic.news /\ ~e.late
  BY <1>1 DEF KnownThen
<1>9. report.news >= credible
  BY <1>1 DEF Answers
<1> QED BY <1>3, <1>4, <1>5, <1>6, <1>7, <1>8, <1>9 DEF Reports!ReportIsSound, NamedOnce, impacts

\* What a report says its run can answer for (services/event_research.py,
\* services/macro_impacts.py).
THEOREM ReportsAnswer == EventsSpec => []ReportIsSound
<1>1. EventsInit => ReportInv
  BY ReportStarts DEF EventsInit
<1>2. ReportInv /\ [EventsNext]_<<part, eventVars>> => ReportInv'
  BY EventsMove, ReportKeeps
<1>3. ReportInv => ReportIsSound
  BY StandingIsSound DEF ReportIsSound
<1> QED BY <1>1, <1>2, <1>3, PTL DEF EventsSpec

-----------------------------------------------------------------------------
\* Names that the module of the mapping shares with this one.
LEMMA MapperCounts == \A S : Mapper!Cardinality(S) = Cardinality(S)
BY Zenon DEF Mapper!Cardinality, Cardinality

\* An asset that the source of the event names (AssetMapping).
FromSource(a) ==
  \/ Mapper!MentionsIssuer(text, a) \/ Mapper!SourceCode(a)
  \/ \E o \in MapAsset : Mapper!ProductsIn(text, o) # {} /\ Mapper!Linked(o, a)

Relationships == {"direct", "entity", "product_owner"}
Peer == [relationship |-> "industry_peer", relevance |-> 40, confidence |-> 55]

\* What a proposal can make of an asset, and how much it then counts.
Claims(c, a) ==
  \/ c.relationship \in Relationships /\ c.relevance \in Int /\ c.relevance >= 60
  \/ c.relationship = "cross_listing_issuer" /\ c.relevance = 55 /\ Listing[a].primary # 0

\* A candidate is none, a verified one or, in the end, a peer.
CandidateFits(a) ==
  \/ candidates[a] = Mapper!NoCandidate
  \/ /\ Claims(candidates[a], a) /\ FromSource(a)
     /\ candidates[a].relationship # "product_owner" /\ shortlist # {} => a \in shortlist
  \/ stage = "mapped" /\ candidates[a] = Peer

PeerSet == {a \in MapAsset : candidates[a] = Peer}

\* Peers fill the places that are left, the largest first.
PeersFit ==
  /\ PeerSet # {} => Cardinality(Mapper!Mapped) <= MaxMapped
  /\ \A a \in PeerSet : \A b \in master :
       Listing[b].active /\ Listing[b].industry = Listing[a].industry
         /\ Listing[b].market = Listing[a].market /\ Mapper!Larger(b, a) => b \in Mapper!Mapped

MapperInv ==
  /\ DOMAIN candidates = MapAsset /\ master \subseteq MapAsset
  /\ stage \in {"asked", "mapped"}
  /\ \A a \in MapAsset : CandidateFits(a)
  /\ \A a \in Mapper!ProductOwners(text, Known) : candidates[a].relevance >= 85
  /\ PeersFit

-----------------------------------------------------------------------------
\* The master only takes in listings there are.
LEMMA MasterGrows ==
    ASSUME master \subseteq MapAsset, NEW hint, NEW k
    PROVE  Mapper!MasterAfter(hint, k) \subseteq MapAsset
<1>1. ASSUME NEW known, known \subseteq MapAsset, NEW query PROVE Mapper!With(known, query) \subseteq MapAsset
  BY <1>1 DEF Mapper!With, Mapper!Discovered
<1>2. Mapper!With(master, hint.symbol) \subseteq MapAsset
  BY <1>1
<1>3. Mapper!With(Mapper!With(master, hint.symbol), hint.name) \subseteq MapAsset
  BY <1>1, <1>2
<1>4. Mapper!With(Mapper!With(Mapper!With(master, hint.symbol), hint.name), hint.mention) \subseteq MapAsset
  BY <1>1, <1>3
<1> QED BY <1>2, <1>3, <1>4 DEF Mapper!MasterAfter

\* What is validated is named by the source, and offered if anything was.
LEMMA ValidIsVerified ==
    ASSUME master \subseteq MapAsset, NEW hint \in Hints, NEW a \in Mapper!Validated(hint)
    PROVE  /\ a \in MapAsset /\ FromSource(a) /\ Claims(Mapper!Candidate(hint, a), a)
           /\ Mapper!Candidate(hint, a).relationship # "product_owner" /\ shortlist # {} => a \in shortlist
<1>1. Mapper!Admissible(hint)
  BY DEF Mapper!Validated
<1>2. hint.mention \in text /\ hint.confidence >= 60 /\ hint.confidence \in Int /\ hint.relationship \in Relationships
  BY <1>1, MapperAssumption DEF Mapper!Admissible, Relationships
<1>3. Claims(Mapper!Candidate(hint, a), a)
  <2>1. CASE hint.relationship # "product_owner" /\ Listing[a].primary # 0 /\ ~Mapper!SourceCode(a)
    <3>1. Mapper!Min({hint.confidence, 55}) = 55
      <4>1. \E x \in {hint.confidence, 55} : \A y \in {hint.confidence, 55} : x <= y
        BY <1>2
      <4>2. Mapper!Min({hint.confidence, 55}) \in {hint.confidence, 55}
            /\ Mapper!Min({hint.confidence, 55}) <= 55
        BY <4>1 DEF Mapper!Min
      <4> QED BY <4>2, <1>2
    <3> QED BY <2>1, <3>1 DEF Mapper!Candidate, Claims
  <2>2. CASE ~(hint.relationship # "product_owner" /\ Listing[a].primary # 0 /\ ~Mapper!SourceCode(a))
    BY <2>2, <1>2 DEF Mapper!Candidate, Claims
  <2> QED BY <2>1, <2>2
<1>4. CASE hint.relationship = "product_owner"
  <2>1. a \in Mapper!ProductOwners({hint.mention}, master)
    BY <1>1, <1>4 DEF Mapper!Validated
  <2>2. PICK o \in master : Mapper!ProductsIn({hint.mention}, o) # {} /\ Mapper!Linked(o, a)
    BY <2>1 DEF Mapper!ProductOwners
  <2>3. a \in MapAsset /\ o \in MapAsset
    BY <2>1 DEF Mapper!ProductOwners
  <2>4. Mapper!ProductsIn(text, o) # {}
    BY <1>2, <2>2 DEF Mapper!ProductsIn
  <2>5. Mapper!Candidate(hint, a).relationship = "product_owner"
    BY <1>4 DEF Mapper!Candidate
  <2> QED BY <1>3, <2>2, <2>3, <2>4, <2>5 DEF FromSource
<1>5. CASE hint.relationship # "product_owner"
  <2>1. a \in Mapper!Resolved(hint)
    BY <1>1, <1>5 DEF Mapper!Validated
  <2>2. Mapper!IdentityMatches(hint, a)
    BY <2>1 DEF Mapper!Resolved
  <2>3. FromSource(a)
    BY <1>2, <2>2 DEF Mapper!IdentityMatches, Mapper!MentionsIssuer, FromSource
  <2>4. CASE a \in {hint.asset} \intersect master
    <3>1. a \in MapAsset /\ a # 0 /\ a = hint.asset
      BY <2>4, MapperAssumption
    <3>2. shortlist # {} => a \in shortlist
      BY <1>1, <1>5, <3>1 DEF Mapper!Admissible
    <3> QED BY <1>3, <2>3, <3>1, <3>2
  <2>5. ASSUME NEW k \in 1 .. 3,
               a \in Mapper!ResolveAssets({Mapper!Queries(hint)[k]}, Mapper!MasterAfter(hint, k - 1)),
               shortlist # {} => a \in shortlist
        PROVE  a \in MapAsset
    <3> DEFINE known == Mapper!MasterAfter(hint, k - 1)
               query == {Mapper!Queries(hint)[k]}
    <3>1. known \subseteq MapAsset
      BY MasterGrows
    <3> HIDE DEF known, query
    <3>2. a \in Mapper!ResolveAssets(query, known)
      BY <2>5 DEF known, query
    <3> QED BY <3>1, <3>2 DEF Mapper!ResolveAssets, Mapper!Exact, Mapper!MappingAssets, Mapper!Discovered
  <2>6. \/ a \in {hint.asset} \intersect master
        \/ /\ shortlist # {} => a \in shortlist
           /\ \E k \in 1 .. 3 : a \in Mapper!ResolveAssets({Mapper!Queries(hint)[k]}, Mapper!MasterAfter(hint, k - 1))
    BY <2>1, Zenon DEF Mapper!Resolved
  <2> QED BY <1>3, <2>3, <2>4, <2>5, <2>6
<1> QED BY <1>4, <1>5

-----------------------------------------------------------------------------
\* Of two listings the one that is larger, or was numbered earlier.
LEMMA LargerOrders ==
    /\ \A a \in MapAsset : ~Mapper!Larger(a, a)
    /\ \A a, b, c \in MapAsset : Mapper!Larger(a, b) /\ Mapper!Larger(b, c) => Mapper!Larger(a, c)
    /\ \A a, b \in MapAsset : a = b \/ Mapper!Larger(a, b) \/ Mapper!Larger(b, a)
<1>1. \A a \in MapAsset : a \in Int
  BY MapperAssumption, Zenon
<1>2. \A a \in MapAsset : Listing[a].cap \in Int
  BY MapperAssumption, Zenon
<1> QED BY <1>1, <1>2 DEF Mapper!Larger

\* Listings of the same industry in the same market, as long as they are active.
Comparable(a, b) ==
  /\ Listing[a].active /\ Listing[b].active
  /\ Listing[a].industry = Listing[b].industry /\ Listing[a].market = Listing[b].market

\* The larger of two comparable listings stands before the other.
LEMMA StandingFollows ==
    ASSUME NEW known, known \subseteq MapAsset
    PROVE  /\ \A a \in known : Mapper!Standing(a, known) \in Int
           /\ \A a, b \in known : Comparable(a, b) /\ Mapper!Larger(b, a) =>
                Mapper!Standing(b, known) < Mapper!Standing(a, known)
<1> DEFINE Above(a) == {b \in known \ {a} :
             /\ Listing[b].active /\ Listing[b].industry = Listing[a].industry
             /\ Listing[b].market = Listing[a].market /\ Mapper!Larger(b, a)}
<1>1. \A a : Above(a) \subseteq MapAsset
  OBVIOUS
<1>2. \A a, b \in known : Comparable(a, b) /\ Mapper!Larger(b, a) =>
        Above(b) \subseteq Above(a) /\ b \in Above(a) /\ b \notin Above(b)
  <2> SUFFICES ASSUME NEW a \in known, NEW b \in known, Comparable(a, b), Mapper!Larger(b, a)
               PROVE  Above(b) \subseteq Above(a) /\ b \in Above(a) /\ b \notin Above(b)
    OBVIOUS
  <2>1. a \in MapAsset /\ b \in MapAsset /\ a # b
    BY LargerOrders
  <2>2. ASSUME NEW c \in Above(b) PROVE c \in Above(a)
    <3>1. c \in MapAsset /\ Mapper!Larger(c, a) /\ c # a
      BY <2>1, LargerOrders
    <3> QED BY <3>1 DEF Comparable
  <2> QED BY <2>1, <2>2 DEF Comparable
<1>3. \A a : Mapper!Standing(a, known) = 1 + Cardinality(Above(a))
  BY MapperCounts DEF Mapper!Standing
<1> HIDE DEF Above
<1>4. \A a : IsFiniteSet(Above(a)) /\ Cardinality(Above(a)) \in Nat
  BY <1>1, MapperAssumption, FS_Subset, FS_CardinalityType
<1>5. ASSUME NEW a \in known, NEW b \in known, Comparable(a, b), Mapper!Larger(b, a)
      PROVE  Cardinality(Above(b)) < Cardinality(Above(a))
  BY <1>2, <1>4, <1>5, FS_Subset
<1> QED BY <1>3, <1>4, <1>5

\* The peers offered for some industries, one of each market in turn.
LEMMA AheadOrders ==
    ASSUME NEW known, known \subseteq MapAsset, NEW industries,
           industries \subseteq {Industries[k] : k \in DOMAIN Industries}
    PROVE  Orders({p \in Mapper!Listed(industries, known) \X Mapper!Listed(industries, known) :
                     Mapper!Ahead(p[1], p[2], known)},
                  Mapper!Listed(industries, known))
<1> DEFINE S == Mapper!Listed(industries, known)
           place(a) == Mapper!Place(a)
           standing(a) == Mapper!Standing(a, known)
           turn(a) == Mapper!MarketOrder[Listing[a].market]
           ahead(a, b) == Mapper!Ahead(a, b, known)
<1>1. \A a \in S : a \in known /\ a \in MapAsset /\ Listing[a].active
        /\ Listing[a].industry \in industries /\ Listing[a].market \in {"CN", "HK", "US"}
  BY DEF Mapper!Listed, Mapper!MarketOrder
<1>2. \A a \in S : place(a) \in Int /\ Industries[place(a)] = Listing[a].industry
  <2> SUFFICES ASSUME NEW a \in S PROVE place(a) \in Int /\ Industries[place(a)] = Listing[a].industry
    OBVIOUS
  <2>1. \E k \in DOMAIN Industries : Industries[k] = Listing[a].industry
    BY <1>1
  <2>2. place(a) \in DOMAIN Industries /\ Industries[place(a)] = Listing[a].industry
    BY <2>1 DEF Mapper!Place
  <2> QED BY <2>2, MapperAssumption
<1>3. \A a \in S : standing(a) \in Int
  BY <1>1, StandingFollows
<1>4. \A a \in S : turn(a) \in Int
  BY <1>1 DEF Mapper!MarketOrder
<1>5. \A a, b \in S : turn(a) = turn(b) => Listing[a].market = Listing[b].market
  BY <1>1 DEF Mapper!MarketOrder
<1>6. \A a, b \in S : place(a) = place(b) /\ standing(a) = standing(b) /\ turn(a) = turn(b) => a = b
  <2> SUFFICES ASSUME NEW a \in S, NEW b \in S, place(a) = place(b), standing(a) = standing(b),
                      turn(a) = turn(b), a # b
               PROVE  FALSE
    OBVIOUS
  <2>1. Comparable(a, b) /\ Comparable(b, a)
    BY <1>1, <1>2, <1>5 DEF Comparable
  <2>2. Mapper!Larger(a, b) \/ Mapper!Larger(b, a)
    BY <1>1, LargerOrders
  <2>3. standing(a) < standing(b) \/ standing(b) < standing(a)
    BY <1>1, <2>1, <2>2, StandingFollows
  <2> QED BY <2>3, <1>3
<1>7. \A a, b \in S : ahead(a, b) <=>
        \/ place(a) < place(b)
        \/ place(a) = place(b) /\ standing(a) < standing(b)
        \/ place(a) = place(b) /\ standing(a) = standing(b) /\ turn(a) < turn(b)
  BY DEF Mapper!Ahead
<1> DEFINE R == {p \in S \X S : ahead(p[1], p[2])}
<1> HIDE DEF S, place, standing, turn, ahead
<1>8. \A a, b \in S : <<a, b>> \in R <=> ahead(a, b)
  OBVIOUS
<1> HIDE DEF R
<1>9. \A a, b, c \in S : ahead(a, b) /\ ahead(b, c) => ahead(a, c)
  BY <1>2, <1>3, <1>4, <1>7
<1>10. \A a \in S : ~ahead(a, a)
  BY <1>2, <1>3, <1>4, <1>7
<1>11. \A a, b \in S : a = b \/ ahead(a, b) \/ ahead(b, a)
  BY <1>2, <1>3, <1>4, <1>6, <1>7
<1>12. Orders(R, S)
  BY <1>8, <1>9, <1>10, <1>11 DEF Orders
<1> QED BY <1>12 DEF R, S, ahead

\* There are no more of them than there is room for; no larger one is left out.
LEMMA PeersAreLargest ==
    ASSUME NEW known, known \subseteq MapAsset, NEW industries,
           industries \subseteq {Industries[k] : k \in DOMAIN Industries}, NEW n \in Nat
    PROVE  LET P == Mapper!Representatives(industries, known, n)
           IN  /\ P \subseteq known /\ IsFiniteSet(P) /\ Cardinality(P) <= n
               /\ \A a \in P : \A b \in known :
                    Comparable(a, b) /\ Mapper!Larger(b, a) => b \in P
               /\ \A a \in P : Listing[a].active
<1> DEFINE S == Mapper!Listed(industries, known)
           R == {p \in S \X S : Mapper!Ahead(p[1], p[2], known)}
           P == Mapper!Representatives(industries, known, n)
<1>1. Orders(R, S)
  BY AheadOrders
<1>2. S \subseteq known /\ IsFiniteSet(S)
  <2>1. S \subseteq known
    BY DEF Mapper!Listed
  <2>2. S \subseteq MapAsset
    BY <2>1
  <2> HIDE DEF S
  <2> QED BY <2>1, <2>2, MapperAssumption, FS_Subset
<1>3. \A a \in S : {b \in S : Mapper!Ahead(b, a, known)} = {b \in S : <<b, a>> \in R}
  OBVIOUS
<1>4. P = {a \in S : Rank(S, R, a) < n}
  <2>1. P = {a \in S : Cardinality({b \in S : Mapper!Ahead(b, a, known)}) < n}
    BY MapperCounts DEF Mapper!Representatives
  <2> HIDE DEF S, R
  <2> QED BY <1>3, <2>1 DEF Rank
<1>5. P \subseteq known /\ IsFiniteSet(P) /\ Cardinality(P) <= n
  <2> HIDE DEF S, R, P
  <2> QED BY <1>1, <1>2, <1>4, FewComeFirst
<1>6. ASSUME NEW a \in P, NEW b \in known, Comparable(a, b), Mapper!Larger(b, a) PROVE b \in P
  <2>1. a \in S /\ a \in known /\ Mapper!Standing(a, known) <= 3
    BY <1>4, <1>2 DEF Mapper!Listed
  <2>2. /\ Mapper!Standing(b, known) < Mapper!Standing(a, known)
        /\ Mapper!Standing(b, known) \in Int /\ Mapper!Standing(a, known) \in Int
    BY <1>6, <2>1, StandingFollows
  <2>3. b \in S
    <3>1. Listing[a].industry \in industries /\ Listing[a].market \in DOMAIN Mapper!MarketOrder
      BY <2>1 DEF Mapper!Listed
    <3>2. Mapper!Standing(b, known) <= 3
      BY <2>1, <2>2
    <3> QED BY <3>1, <3>2, <1>6 DEF Mapper!Listed, Comparable
  <2>4. Mapper!Place(b) = Mapper!Place(a)
    BY <1>6 DEF Mapper!Place, Comparable
  <2>5. <<b, a>> \in R
    BY <2>1, <2>2, <2>3, <2>4 DEF Mapper!Ahead
  <2> HIDE DEF S, R, P
  <2>6. /\ Rank(S, R, b) < Rank(S, R, a)
        /\ Rank(S, R, b) \in 0 .. (Cardinality(S) - 1) /\ Rank(S, R, a) \in 0 .. (Cardinality(S) - 1)
    BY <1>1, <1>2, <2>1, <2>3, <2>5, RanksFollow
  <2> QED BY <1>4, <2>3, <2>6
<1>7. \A a \in P : Listing[a].active
  BY <1>4 DEF Mapper!Listed
<1> HIDE DEF P
<1>8. QED BY <1>5, <1>6, <1>7 DEF P

-----------------------------------------------------------------------------
\* Before the end nothing is mapped as a peer.
LEMMA NoPeersAsked ==
    ASSUME MapperInv, stage = "asked"
    PROVE  \A a \in MapAsset : candidates[a] # Peer
<1>1. \A a \in MapAsset : ~Claims(Peer, a)
  BY DEF Claims, Peer, Relationships
<1>2. Peer # Mapper!NoCandidate
  BY DEF Peer, Mapper!NoCandidate
<1> QED BY <1>1, <1>2 DEF MapperInv, CandidateFits

\* What an asset counts for, if it is mapped at all.
LEMMA RelevanceIsKnown ==
    ASSUME NEW a, CandidateFits(a)
    PROVE  candidates[a].relevance \in Int
BY DEF CandidateFits, Claims, Mapper!NoCandidate, Peer

\* A proposal that is read, whatever it says.
LEMMA ProposeKeeps ==
    ASSUME MapperInv, NEW hint \in Hints, Mapper!Propose(hint)
    PROVE  MapperInv'
<1> DEFINE valid == Mapper!Validated(hint)
           claim(a) == Mapper!Candidate(hint, a)
<1>1. /\ DOMAIN candidates' = MapAsset
      /\ \A a \in MapAsset : candidates'[a] =
           IF a \in valid /\ claim(a).relevance > candidates[a].relevance THEN claim(a) ELSE candidates[a]
      /\ stage = "asked" /\ UNCHANGED <<text, tags, shortlist, stage>>
  BY DEF Mapper!Propose
<1>2. master' \subseteq MapAsset /\ master \subseteq MapAsset
  BY MasterGrows DEF Mapper!Propose, MapperInv
<1>3. \A a \in valid : /\ FromSource(a) /\ Claims(claim(a), a)
                       /\ claim(a).relationship # "product_owner" /\ shortlist # {} => a \in shortlist
  BY <1>2, ValidIsVerified
<1>4. \A a : FromSource(a)' <=> FromSource(a)
  BY <1>1 DEF FromSource, Mapper!MentionsIssuer, Mapper!SourceCode, Mapper!ExplicitCode,
    Mapper!ProductsIn, Mapper!Linked
<1> HIDE DEF valid, claim
<1>5. \A a \in MapAsset : CandidateFits(a)'
  BY <1>1, <1>3, <1>4 DEF MapperInv, CandidateFits
<1>6. \A a \in MapAsset : candidates'[a].relevance >= candidates[a].relevance
  <2>1. \A a \in MapAsset : candidates[a].relevance \in Int
    BY RelevanceIsKnown DEF MapperInv
  <2>2. \A a \in valid : claim(a).relevance \in Int
    BY <1>3 DEF Claims
  <2> QED BY <1>1, <2>1, <2>2
<1>7. Mapper!ProductOwners(text, Known)' = Mapper!ProductOwners(text, Known)
  BY <1>1 DEF Mapper!ProductOwners, Mapper!ProductsIn, Mapper!Linked
<1>8. \A a \in Mapper!ProductOwners(text, Known)' : candidates'[a].relevance >= 85
  <2>1. \A a \in Mapper!ProductOwners(text, Known) : a \in MapAsset
    BY MapperAssumption DEF Mapper!ProductOwners
  <2>2. \A a \in MapAsset : candidates[a].relevance \in Int /\ candidates'[a].relevance \in Int
    BY <1>5, RelevanceIsKnown, <1>1, <1>3 DEF MapperInv, Claims
  <2> QED BY <1>6, <1>7, <2>1, <2>2 DEF MapperInv
<1>9. PeersFit'
  <2>1. ASSUME NEW a \in MapAsset PROVE candidates'[a] # Peer
    <3>1. \A c : Claims(c, a) => c # Peer
      BY DEF Claims, Peer, Relationships
    <3> QED BY <1>1, <1>3, <3>1, NoPeersAsked
  <2>2. PeerSet' = {}
    BY <2>1 DEF PeerSet
  <2> QED BY <2>2 DEF PeersFit
<1> QED BY <1>1, <1>2, <1>5, <1>8, <1>9 DEF MapperInv

\* The end of the mapping: peers take the places that are left.
LEMMA ConcludeKeeps ==
    ASSUME MapperInv, NEW industries \in SUBSET {Industries[k] : k \in DOMAIN Industries},
           Mapper!Conclude(industries)
    PROVE  MapperInv'
<1> DEFINE all == Mapper!Mentioned(text) \union industries
           n == Mapper!Max({0, MaxMapped - Mapper!Cardinality(Mapper!Mapped)})
           P == Mapper!Representatives(all, master, n)
           New == {a \in P : candidates[a] = Mapper!NoCandidate}
<1>0. master \subseteq MapAsset /\ DOMAIN candidates = MapAsset /\ stage = "asked"
  BY DEF MapperInv, Mapper!Conclude
<1>1. /\ DOMAIN candidates' = MapAsset /\ stage' = "mapped"
      /\ \A a \in MapAsset : candidates'[a] =
           IF a \in P /\ candidates[a] = Mapper!NoCandidate THEN Peer ELSE candidates[a]
      /\ UNCHANGED <<text, tags, master, shortlist>>
  BY DEF Mapper!Conclude, Peer
<1>2. Mapper!Mapped \subseteq MapAsset /\ IsFiniteSet(Mapper!Mapped) /\ Cardinality(Mapper!Mapped) \in Nat
  <2>1. Mapper!Mapped \subseteq MapAsset
    BY DEF Mapper!Mapped
  <2> QED BY <2>1, MapperAssumption, FS_Subset, FS_CardinalityType
<1>3. n \in Nat /\ (n = 0 \/ n = MaxMapped - Cardinality(Mapper!Mapped))
  <2> DEFINE room == MaxMapped - Cardinality(Mapper!Mapped)
  <2>1. room \in Int
    BY <1>2, MapperAssumption
  <2>2. n = Mapper!Max({0, room})
    BY MapperCounts
  <2> HIDE DEF room
  <2>3. \E x \in {0, room} : \A y \in {0, room} : x >= y
    BY <2>1
  <2>4. n \in {0, room} /\ n >= 0 /\ n >= room
    BY <2>2, <2>3 DEF Mapper!Max
  <2> HIDE DEF n
  <2>5. n \in Nat /\ (n = 0 \/ n = room)
    BY <2>1, <2>4
  <2> QED BY <2>5 DEF room
<1>4. all \subseteq {Industries[k] : k \in DOMAIN Industries}
  BY DEF Mapper!Mentioned
<1> HIDE DEF n, all
<1>5. /\ P \subseteq master /\ IsFiniteSet(P) /\ Cardinality(P) <= n
      /\ \A a \in P : \A b \in master : Comparable(a, b) /\ Mapper!Larger(b, a) => b \in P
      /\ \A a \in P : Listing[a].active
  BY <1>0, <1>3, <1>4, PeersAreLargest
<1> HIDE DEF P
<1>6. Peer # Mapper!NoCandidate /\ \A a \in MapAsset : candidates[a] # Peer
  BY <1>0, NoPeersAsked DEF Peer, Mapper!NoCandidate
<1>7. PeerSet' = New
  BY <1>0, <1>1, <1>5, <1>6 DEF PeerSet
<1>8. Mapper!Mapped' = Mapper!Mapped \union New
  BY <1>0, <1>1, <1>5, <1>6 DEF Mapper!Mapped
<1>9. PeerSet' # {} => Mapper!Cardinality(Mapper!Mapped') <= MaxMapped
  <2> SUFFICES ASSUME New # {} PROVE Mapper!Cardinality(Mapper!Mapped') <= MaxMapped
    BY <1>7
  <2>1. New \subseteq P
    OBVIOUS
  <2> HIDE DEF New
  <2>2. IsFiniteSet(New) /\ Cardinality(New) <= Cardinality(P) /\ Cardinality(New) \in Nat /\ Cardinality(P) \in Nat
    BY <1>5, <2>1, FS_Subset, FS_CardinalityType
  <2>3. Cardinality(New) # 0
    BY <2>2, FS_EmptySet
  <2>4. n = MaxMapped - Cardinality(Mapper!Mapped) /\ Cardinality(New) <= n
    BY <1>3, <1>5, <2>2, <2>3
  <2>5. /\ IsFiniteSet(Mapper!Mapped \union New)
        /\ Cardinality(Mapper!Mapped \union New) =
             Cardinality(Mapper!Mapped) + Cardinality(New) - Cardinality(Mapper!Mapped \intersect New)
        /\ Cardinality(Mapper!Mapped \intersect New) \in Nat
    BY <1>2, <2>2, FS_Union, FS_Intersection, FS_CardinalityType
  <2>6. Cardinality(Mapper!Mapped \union New) <= MaxMapped
    BY <1>2, <2>2, <2>4, <2>5, MapperAssumption
  <2> QED BY <1>8, <2>6, MapperCounts
<1>10. ASSUME NEW a \in PeerSet', NEW b \in master', Listing[b].active,
              Listing[b].industry = Listing[a].industry, Listing[b].market = Listing[a].market,
              Mapper!Larger(b, a)
       PROVE  b \in Mapper!Mapped'
  <2>1. a \in P /\ Comparable(a, b) /\ b \in master
    BY <1>1, <1>5, <1>7, <1>10 DEF Comparable
  <2>2. b \in P /\ b \in MapAsset
    BY <1>0, <1>5, <1>10, <2>1
  <2> QED BY <1>8, <2>2 DEF Mapper!Mapped
<1>11. PeersFit'
  <2>1. Mapper!Cardinality(Mapper!Mapped') = Cardinality(Mapper!Mapped')
    BY MapperCounts
  <2>2. \A a, b : Mapper!Larger(b, a)' <=> Mapper!Larger(b, a)
    BY DEF Mapper!Larger
  <2> QED BY <1>9, <1>10, <2>1, <2>2 DEF PeersFit
<1>12. \A a : FromSource(a)' <=> FromSource(a)
  BY <1>1 DEF FromSource, Mapper!MentionsIssuer, Mapper!SourceCode, Mapper!ExplicitCode,
    Mapper!ProductsIn, Mapper!Linked
<1>13. \A a \in MapAsset : CandidateFits(a)'
  BY <1>0, <1>1, <1>12 DEF MapperInv, CandidateFits
<1>14. \A a \in Mapper!ProductOwners(text, Known)' : candidates'[a].relevance >= 85
  <2>1. Mapper!ProductOwners(text, Known)' = Mapper!ProductOwners(text, Known)
    BY <1>1 DEF Mapper!ProductOwners, Mapper!ProductsIn, Mapper!Linked
  <2>2. \A a \in Mapper!ProductOwners(text, Known) : a \in MapAsset
    BY MapperAssumption DEF Mapper!ProductOwners
  <2>3. \A a \in Mapper!ProductOwners(text, Known) : candidates[a].relevance >= 85
    BY DEF MapperInv
  <2>4. ~(0 >= 85) /\ Mapper!NoCandidate.relevance = 0
    BY DEF Mapper!NoCandidate
  <2>5. \A a \in Mapper!ProductOwners(text, Known) : candidates[a] # Mapper!NoCandidate
    BY <2>3, <2>4
  <2> QED BY <1>1, <2>1, <2>2, <2>3, <2>5
<1> QED BY <1>0, <1>1, <1>11, <1>13, <1>14 DEF MapperInv

\* The first mapping is of the owners of the products the text names.
LEMMA MapperStarts ==
    ASSUME Mapper!Init
    PROVE  MapperInv
<1>1. /\ DOMAIN candidates = MapAsset /\ master = Known /\ stage = "asked"
      /\ \A a \in MapAsset : candidates[a] =
           IF a \in Mapper!ProductOwners(text, Known)
           THEN [relationship |-> "product_owner", relevance |-> 85, confidence |-> 99] ELSE Mapper!NoCandidate
  BY DEF Mapper!Init
<1>2. \A a \in Mapper!ProductOwners(text, Known) : a \in MapAsset /\ FromSource(a)
  BY MapperAssumption DEF Mapper!ProductOwners, FromSource
<1>3. ASSUME NEW a \in MapAsset PROVE CandidateFits(a) /\ candidates[a] # Peer
  BY <1>1, <1>2 DEF CandidateFits, Claims, Relationships, Peer, Mapper!NoCandidate
<1>4. PeerSet = {}
  BY <1>3 DEF PeerSet
<1>5. \A a \in Mapper!ProductOwners(text, Known) : candidates[a].relevance >= 85
  BY <1>1, <1>2
<1>6. PeersFit
  BY <1>4 DEF PeersFit
<1>7. master \subseteq MapAsset
  BY <1>1, MapperAssumption
<1> QED BY <1>1, <1>3, <1>5, <1>6, <1>7 DEF MapperInv

\* Every step of the mapping keeps the invariant.
LEMMA MapperKeeps ==
    ASSUME MapperInv, [Mapper!Next]_mapperVars
    PROVE  MapperInv'
<1>1. CASE UNCHANGED mapperVars
  BY <1>1 DEF mapperVars, MapperInv, CandidateFits, FromSource, PeersFit, PeerSet, Mapper!ProductOwners,
    Mapper!Mapped, Mapper!MentionsIssuer, Mapper!SourceCode, Mapper!ExplicitCode, Mapper!ProductsIn,
    Mapper!Linked, Mapper!Larger
<1> QED BY <1>1, ProposeKeeps, ConcludeKeeps DEF Mapper!Next

\* The invariant says what the runs check.
LEMMA MappedIsVerified ==
    ASSUME MapperInv
    PROVE  Mapper!MappingIsVerified
<1> DEFINE named == {a \in Mapper!Mapped : candidates[a].relationship # "industry_peer"}
           peers == Mapper!Mapped \ named
<1>1. ASSUME NEW a \in named
      PROVE  /\ a \in MapAsset /\ Claims(candidates[a], a) /\ FromSource(a)
             /\ candidates[a].relationship # "product_owner" /\ shortlist # {} => a \in shortlist
  BY DEF MapperInv, CandidateFits, Mapper!Mapped, Peer
<1>2. ASSUME NEW a \in peers PROVE a \in PeerSet /\ candidates[a] = Peer
  <2>1. a \in MapAsset /\ candidates[a] # Mapper!NoCandidate /\ candidates[a].relationship = "industry_peer"
    BY DEF Mapper!Mapped
  <2> QED BY <2>1 DEF MapperInv, CandidateFits, Claims, Relationships, PeerSet
<1>3. ASSUME NEW a \in Mapper!ProductOwners(text, Known) PROVE a \in named /\ candidates[a].relevance >= 85
  <2>1. a \in MapAsset /\ candidates[a].relevance >= 85
    BY MapperAssumption DEF MapperInv, Mapper!ProductOwners
  <2>2. candidates[a] # Mapper!NoCandidate /\ candidates[a] # Peer
    BY <2>1 DEF Mapper!NoCandidate, Peer
  <2> QED BY <2>1, <2>2 DEF MapperInv, CandidateFits, Claims, Relationships, Mapper!Mapped
<1>4. ASSUME NEW a \in named, candidates[a].relationship = "cross_listing_issuer",
             NEW b \in named, b = Listing[a].primary
      PROVE  candidates[b].relevance > candidates[a].relevance
  <2>1. candidates[a].relevance = 55
    BY <1>1, <1>4 DEF Claims, Relationships
  <2>2. Listing[b].primary = 0
    BY <1>1, <1>4, MapperAssumption
  <2>3. candidates[b].relevance \in Int /\ candidates[b].relevance >= 60
    BY <1>1, <2>2 DEF Claims
  <2> QED BY <2>1, <2>3
<1>5. ASSUME NEW a \in peers, NEW b \in named PROVE candidates[a].relevance < candidates[b].relevance
  <2>1. candidates[a].relevance = 40
    BY <1>2 DEF Peer
  <2>2. candidates[b].relevance \in Int /\ candidates[b].relevance >= 55
    BY <1>1 DEF Claims
  <2> QED BY <2>1, <2>2
<1>6. peers # {} => Mapper!Cardinality(Mapper!Mapped) <= MaxMapped
  BY <1>2, MapperCounts DEF MapperInv, PeersFit
<1>7. \A a \in peers : \A b \in master :
        Listing[b].active /\ Listing[b].industry = Listing[a].industry
          /\ Listing[b].market = Listing[a].market /\ Mapper!Larger(b, a) => b \in Mapper!Mapped
  BY <1>2 DEF MapperInv, PeersFit
<1> HIDE DEF peers
<1>8. \A a \in named : \/ Mapper!MentionsIssuer(text, a) \/ Mapper!SourceCode(a)
                        \/ \E o \in MapAsset : Mapper!ProductsIn(text, o) # {} /\ Mapper!Linked(o, a)
  BY <1>1 DEF FromSource
<1> QED BY <1>1, <1>3, <1>4, <1>5, <1>6, <1>7, <1>8 DEF Mapper!MappingIsVerified, peers

\* Whatever the model proposes, what an event is mapped to is named by its
\* source, offered if anything was, never outbid by a weaker claim, and peers
\* are the largest of the places that are left (services/asset_mapping.py).
THEOREM MappingsAreVerified == EventsSpec => []MappingIsVerified
<1>1. EventsInit => MapperInv
  BY MapperStarts DEF EventsInit
<1>2. MapperInv /\ [EventsNext]_<<part, eventVars>> => MapperInv'
  BY EventsMove, MapperKeeps
<1>3. MapperInv => MappingIsVerified
  BY MappedIsVerified DEF MappingIsVerified
<1> QED BY <1>1, <1>2, <1>3, PTL DEF EventsSpec

-----------------------------------------------------------------------------
\* A step of the services moves one of them, and the others rest.
LEMMA ServicesMove ==
    ASSUME [ServicesNext]_<<part, serviceVars>>
    PROVE  /\ [Evolution!Next]_evolutionVars
           /\ [Tasks!Next]_taskVars
           /\ [Page!Next]_viewVars
           /\ [Cache!Next]_cacheVars
           /\ part' = part
BY DEF ServicesNext, EvolutionMoves, TasksMove, PageMoves, CacheMoves, serviceVars

-----------------------------------------------------------------------------
Step == {"idle", "apply", "gates", "merge", "merging", "deploy", "redeploy",
         "promote", "save", "except", "cleanup"}

\* The commits an execution works with: its own candidate has a branch while it
\* is in hand, and so has the candidate that is checked out.
CommitsExist ==
  /\ at \in Step /\ deaths \in Nat
  /\ main \in Evolution!Commit /\ healthy \subseteq Evolution!Commit
  /\ good \in Evolution!Commit \union {Evolution!NoCommit}
  /\ tag \in Evolution!Commit \union {Evolution!NoCommit}
  /\ at \in {"merging", "deploy", "redeploy", "promote"} => tag \in Evolution!Commit
  /\ branch \in [EvolutionCandidate -> Evolution!Commit \union {Evolution!NoCommit}]
  /\ head # Evolution!Main => head \in EvolutionCandidate /\ branch[head] \in Evolution!Commit
  /\ at # "idle" => doing \in EvolutionCandidate /\ branch[doing] \in Evolution!Commit

\* Where main and the tags stand at each step of execute(), while no process
\* has died: main is unverified only between the merge and the verdict of the
\* deployment, and then the execution's own tag leads back.
MainIsRecoverable ==
  /\ good # Evolution!NoCommit => good \in healthy
  /\ at \notin {"deploy", "except"} => main \in healthy
  /\ at \in {"idle", "merging", "deploy", "redeploy", "promote"} => head = Evolution!Main
  /\ at \in {"apply", "gates", "merge"} => tag = Evolution!NoCommit
  /\ at = "merging" => tag = main
  /\ at \in {"deploy", "redeploy", "promote"} => tag \in healthy
  /\ at = "save" /\ head = Evolution!Main /\ tag # Evolution!NoCommit => tag \in healthy
  /\ at = "except" => IF head = Evolution!Main /\ tag # Evolution!NoCommit THEN tag \in healthy ELSE main \in healthy

\* A commit is never the mark for no commit.
LEMMA CommitIsNoMark ==
    Evolution!NoCommit \notin Evolution!Commit
BY CandidateAssumption DEF Evolution!NoCommit, Evolution!Commit

\* Every step keeps the commits in order: what is merged or reset is a commit.
LEMMA CommitsStay ==
    ASSUME CommitsExist, [Evolution!Next]_evolutionVars
    PROVE  CommitsExist'
<1> USE CandidateAssumption, CommitIsNoMark DEF CommitsExist, Step, Evolution!gitVars, Evolution!runVars, Evolution!histVars
<1>20. \A a, b \in Evolution!Commit : a \union b \in Evolution!Commit
  BY DEF Evolution!Commit
<1>21. \A a \in Evolution!Commit, c \in EvolutionCandidate : a \union {c} \in Evolution!Commit
  BY DEF Evolution!Commit
<1>1. ASSUME NEW c \in EvolutionCandidate, Evolution!Propose(c) PROVE CommitsExist'
  BY <1>1 DEF Evolution!Propose
<1>2. ASSUME NEW c \in EvolutionCandidate, Evolution!Start(c) PROVE CommitsExist'
  BY <1>2 DEF Evolution!Start, Evolution!Checkout
<1>3. CASE Evolution!Apply
  BY <1>3 DEF Evolution!Apply, Evolution!Save
<1>4. CASE Evolution!GatesPass
  BY <1>4, <1>21 DEF Evolution!GatesPass
<1>5. CASE Evolution!GatesFail
  BY <1>5 DEF Evolution!GatesFail, Evolution!Save
<1>6. CASE Evolution!TagMain
  BY <1>6 DEF Evolution!TagMain
<1>7. CASE Evolution!Merge
  BY <1>7, <1>20 DEF Evolution!Merge
<1>8. CASE Evolution!DeployPasses
  BY <1>8 DEF Evolution!DeployPasses
<1>9. CASE Evolution!DeployFails
  BY <1>9 DEF Evolution!DeployFails
<1>10. CASE Evolution!Redeploy
  BY <1>10 DEF Evolution!Redeploy, Evolution!Save
<1>11. CASE Evolution!Promote
  BY <1>11 DEF Evolution!Promote
<1>12. CASE Evolution!FinalSave
  BY <1>12 DEF Evolution!FinalSave, Evolution!Save
<1>13. CASE Evolution!Raises
  BY <1>13 DEF Evolution!Raises
<1>14. CASE Evolution!ExceptRollsBack
  BY <1>14 DEF Evolution!ExceptRollsBack, Evolution!Save
<1>15. CASE Evolution!Cleanup
  BY <1>15 DEF Evolution!Cleanup
<1>16. CASE Evolution!Dies
  BY <1>16 DEF Evolution!Dies
<1>17. CASE Evolution!HealthRollback
  BY <1>17 DEF Evolution!HealthRollback
<1>18. CASE UNCHANGED evolutionVars
  BY <1>18 DEF evolutionVars
<1> QED
  BY <1>1, <1>2, <1>3, <1>4, <1>5, <1>6, <1>7, <1>8, <1>9, <1>10,
     <1>11, <1>12, <1>13, <1>14, <1>15, <1>16, <1>17, <1>18 DEF Evolution!Next

\* Every step but the death of the process keeps main recoverable.
LEMMA MainStays ==
    ASSUME CommitsExist, MainIsRecoverable,
           deaths = 0, [Evolution!Next]_evolutionVars, deaths' = 0
    PROVE  MainIsRecoverable'
<1> USE CandidateAssumption, CommitIsNoMark DEF CommitsExist, MainIsRecoverable, Step, Evolution!gitVars, Evolution!runVars, Evolution!histVars
<1>1. ASSUME NEW c \in EvolutionCandidate, Evolution!Propose(c) PROVE MainIsRecoverable'
  BY <1>1 DEF Evolution!Propose
<1>2. ASSUME NEW c \in EvolutionCandidate, Evolution!Start(c) PROVE MainIsRecoverable'
  BY <1>2 DEF Evolution!Start, Evolution!Checkout
<1>3. CASE Evolution!Apply
  BY <1>3 DEF Evolution!Apply, Evolution!Save
<1>4. CASE Evolution!GatesPass
  BY <1>4 DEF Evolution!GatesPass
<1>5. CASE Evolution!GatesFail
  BY <1>5 DEF Evolution!GatesFail, Evolution!Save
<1>6. CASE Evolution!TagMain
  BY <1>6 DEF Evolution!TagMain
<1>7. CASE Evolution!Merge
  BY <1>7 DEF Evolution!Merge
<1>8. CASE Evolution!DeployPasses
  BY <1>8 DEF Evolution!DeployPasses
<1>9. CASE Evolution!DeployFails
  BY <1>9 DEF Evolution!DeployFails
<1>10. CASE Evolution!Redeploy
  BY <1>10 DEF Evolution!Redeploy, Evolution!Save
<1>11. CASE Evolution!Promote
  BY <1>11 DEF Evolution!Promote
<1>12. CASE Evolution!FinalSave
  BY <1>12 DEF Evolution!FinalSave, Evolution!Save
<1>13. CASE Evolution!Raises
  BY <1>13 DEF Evolution!Raises
<1>14. CASE Evolution!ExceptRollsBack
  BY <1>14 DEF Evolution!ExceptRollsBack, Evolution!Save
<1>15. CASE Evolution!Cleanup
  BY <1>15 DEF Evolution!Cleanup
<1>16. CASE Evolution!Dies
  BY <1>16 DEF Evolution!Dies
<1>17. CASE Evolution!HealthRollback
  BY <1>17 DEF Evolution!HealthRollback
<1>18. CASE UNCHANGED evolutionVars
  BY <1>18 DEF evolutionVars
<1> QED
  BY <1>1, <1>2, <1>3, <1>4, <1>5, <1>6, <1>7, <1>8, <1>9, <1>10,
     <1>11, <1>12, <1>13, <1>14, <1>15, <1>16, <1>17, <1>18 DEF Evolution!Next

-----------------------------------------------------------------------------
Status == {"none", "proposed", "testing", "rejected", "rolled_back", "merged"}

\* What has a branch has been executed, once; nothing else is in any commit.
AllExecuted(commit) == \A c \in commit : branch[c] # Evolution!NoCommit

OnlyExecuted ==
  /\ saved \in [EvolutionCandidate -> Status] /\ status \in Status
  /\ \A c \in EvolutionCandidate : branch[c] = Evolution!NoCommit => saved[c] \in {"none", "proposed"}
  /\ AllExecuted(main)
  /\ good # Evolution!NoCommit => AllExecuted(good)
  /\ tag # Evolution!NoCommit => AllExecuted(tag)
  /\ \A c \in EvolutionCandidate : branch[c] # Evolution!NoCommit => AllExecuted(branch[c])

\* A candidate enters a commit only by its execution, and has a branch since.
LEMMA ExecutedStay ==
    ASSUME CommitsExist, OnlyExecuted, [Evolution!Next]_evolutionVars
    PROVE  OnlyExecuted'
<1> USE CandidateAssumption, CommitIsNoMark DEF CommitsExist, OnlyExecuted, AllExecuted, Evolution!Commit, Step, Status, Evolution!gitVars, Evolution!runVars, Evolution!histVars
<1>1. ASSUME NEW c \in EvolutionCandidate, Evolution!Propose(c) PROVE OnlyExecuted'
  BY <1>1 DEF Evolution!Propose
<1>2. ASSUME NEW c \in EvolutionCandidate, Evolution!Start(c) PROVE OnlyExecuted'
  BY <1>2 DEF Evolution!Start, Evolution!Checkout
<1>3. CASE Evolution!Apply
  BY <1>3 DEF Evolution!Apply, Evolution!Save
<1>4. CASE Evolution!GatesPass
  BY <1>4 DEF Evolution!GatesPass
<1>5. CASE Evolution!GatesFail
  BY <1>5 DEF Evolution!GatesFail, Evolution!Save
<1>6. CASE Evolution!TagMain
  BY <1>6 DEF Evolution!TagMain
<1>7. CASE Evolution!Merge
  BY <1>7 DEF Evolution!Merge
<1>8. CASE Evolution!DeployPasses
  BY <1>8 DEF Evolution!DeployPasses
<1>9. CASE Evolution!DeployFails
  BY <1>9 DEF Evolution!DeployFails
<1>10. CASE Evolution!Redeploy
  BY <1>10 DEF Evolution!Redeploy, Evolution!Save
<1>11. CASE Evolution!Promote
  BY <1>11 DEF Evolution!Promote
<1>12. CASE Evolution!FinalSave
  BY <1>12 DEF Evolution!FinalSave, Evolution!Save
<1>13. CASE Evolution!Raises
  BY <1>13 DEF Evolution!Raises
<1>14. CASE Evolution!ExceptRollsBack
  BY <1>14 DEF Evolution!ExceptRollsBack, Evolution!Save
<1>15. CASE Evolution!Cleanup
  BY <1>15 DEF Evolution!Cleanup
<1>16. CASE Evolution!Dies
  BY <1>16 DEF Evolution!Dies
<1>17. CASE Evolution!HealthRollback
  BY <1>17 DEF Evolution!HealthRollback
<1>18. CASE UNCHANGED evolutionVars
  BY <1>18 DEF evolutionVars
<1> QED
  BY <1>1, <1>2, <1>3, <1>4, <1>5, <1>6, <1>7, <1>8, <1>9, <1>10,
     <1>11, <1>12, <1>13, <1>14, <1>15, <1>16, <1>17, <1>18 DEF Evolution!Next

\* What the database calls merged is on main or was taken out by the monitor,
\* and is on the commit the execution in progress may go back to.
MergedAreIn ==
  /\ status = "merged" => at \in {"save", "except", "cleanup"}
  /\ at \in {"merge", "merging"} => doing \in branch[doing]
  /\ at \in {"deploy", "promote"} => doing \in main
  /\ at = "save" /\ status = "merged" => doing \in main
  /\ at \notin {"idle", "cleanup"} => saved[doing] # "merged"
  /\ \A c \in EvolutionCandidate : saved[c] = "merged" =>
       /\ c \in main \union rolledBack
       /\ at # "cleanup" /\ tag # Evolution!NoCommit => c \in tag \union rolledBack

Refused(c) == saved[c] \in {"rejected", "rolled_back"}

\* What is refused, and what is in hand before its merge, is on no commit the
\* execution merges into or goes back to, while no process has died.
RefusedAreOut ==
  /\ at = "idle" => head = Evolution!Main /\ ~dirty
  /\ at \notin {"idle", "redeploy", "save", "except", "cleanup"} => ~Refused(doing)
  /\ at \in {"apply", "gates", "merge", "merging"} =>
       doing \notin main /\ branch[doing] \subseteq main \union {doing}
  /\ at \notin {"idle", "cleanup"} =>
       /\ good # Evolution!NoCommit => doing \notin good
       /\ tag # Evolution!NoCommit => doing \notin tag
  /\ at = "save" /\ status = "rolled_back" => doing \notin main
  /\ at = "redeploy" => doing \notin main
  /\ status = "rejected" => at = "cleanup"
  /\ status = "rolled_back" => at \in {"save", "except", "cleanup"}
  /\ at \in {"save", "except"} /\ ~(head = Evolution!Main /\ tag # Evolution!NoCommit) => doing \notin main
  /\ \A c \in EvolutionCandidate : Refused(c) =>
       /\ c \notin main
       /\ good # Evolution!NoCommit => c \notin good
       /\ at \notin {"idle", "cleanup"} /\ tag # Evolution!NoCommit => c \notin tag

\* A merge or a reset never takes a merged candidate off main unnoticed.
LEMMA MergedStay ==
    ASSUME CommitsExist, OnlyExecuted, MergedAreIn,
           [Evolution!Next]_evolutionVars
    PROVE  MergedAreIn'
<1> USE CandidateAssumption, CommitIsNoMark DEF CommitsExist, OnlyExecuted, AllExecuted, Evolution!Commit, Step, Status,
           MergedAreIn, Evolution!gitVars, Evolution!runVars, Evolution!histVars
<1>20. at \in {"merging", "deploy", "redeploy", "promote"} => tag # Evolution!NoCommit
  BY DEF Evolution!NoCommit
<1>1. ASSUME NEW c \in EvolutionCandidate, Evolution!Propose(c) PROVE MergedAreIn'
  BY <1>1 DEF Evolution!Propose
<1>2. ASSUME NEW c \in EvolutionCandidate, Evolution!Start(c) PROVE MergedAreIn'
  BY <1>2 DEF Evolution!Start, Evolution!Checkout
<1>3. CASE Evolution!Apply
  BY <1>3 DEF Evolution!Apply, Evolution!Save
<1>4. CASE Evolution!GatesPass
  BY <1>4 DEF Evolution!GatesPass
<1>5. CASE Evolution!GatesFail
  BY <1>5 DEF Evolution!GatesFail, Evolution!Save
<1>6. CASE Evolution!TagMain
  BY <1>6 DEF Evolution!TagMain
<1>7. CASE Evolution!Merge
  BY <1>7 DEF Evolution!Merge
<1>8. CASE Evolution!DeployPasses
  BY <1>8 DEF Evolution!DeployPasses
<1>9. CASE Evolution!DeployFails
  BY <1>9, <1>20 DEF Evolution!DeployFails
<1>10. CASE Evolution!Redeploy
  BY <1>10, <1>20 DEF Evolution!Redeploy, Evolution!Save
<1>11. CASE Evolution!Promote
  BY <1>11, <1>20 DEF Evolution!Promote
<1>12. CASE Evolution!FinalSave
  BY <1>12 DEF Evolution!FinalSave, Evolution!Save
<1>13. CASE Evolution!Raises
  BY <1>13, <1>20 DEF Evolution!Raises
<1>14. CASE Evolution!ExceptRollsBack
  BY <1>14, <1>20 DEF Evolution!ExceptRollsBack, Evolution!Save
<1>15. CASE Evolution!Cleanup
  BY <1>15 DEF Evolution!Cleanup
<1>16. CASE Evolution!Dies
  BY <1>16 DEF Evolution!Dies
<1>17. CASE Evolution!HealthRollback
  BY <1>17 DEF Evolution!HealthRollback
<1>18. CASE UNCHANGED evolutionVars
  BY <1>18 DEF evolutionVars
<1> QED
  BY <1>1, <1>2, <1>3, <1>4, <1>5, <1>6, <1>7, <1>8, <1>9, <1>10,
     <1>11, <1>12, <1>13, <1>14, <1>15, <1>16, <1>17, <1>18 DEF Evolution!Next

\* Refusals keep their candidate off main, and nothing brings it back.
LEMMA RefusedStay ==
    ASSUME CommitsExist, OnlyExecuted, RefusedAreOut,
           MainIsRecoverable, deaths = 0, [Evolution!Next]_evolutionVars, deaths' = 0
    PROVE  RefusedAreOut'
<1> USE CandidateAssumption, CommitIsNoMark DEF CommitsExist, OnlyExecuted, AllExecuted, Evolution!Commit, Step, Status,
           RefusedAreOut, Refused, MainIsRecoverable, Evolution!gitVars, Evolution!runVars, Evolution!histVars
<1>20. at \in {"merging", "deploy", "redeploy", "promote"} => tag # Evolution!NoCommit
  BY DEF Evolution!NoCommit
<1>1. ASSUME NEW c \in EvolutionCandidate, Evolution!Propose(c) PROVE RefusedAreOut'
  BY <1>1 DEF Evolution!Propose
<1>2. ASSUME NEW c \in EvolutionCandidate, Evolution!Start(c) PROVE RefusedAreOut'
  BY <1>2 DEF Evolution!Start, Evolution!Checkout
<1>3. CASE Evolution!Apply
  BY <1>3 DEF Evolution!Apply, Evolution!Save
<1>4. CASE Evolution!GatesPass
  BY <1>4 DEF Evolution!GatesPass
<1>5. CASE Evolution!GatesFail
  BY <1>5 DEF Evolution!GatesFail, Evolution!Save
<1>6. CASE Evolution!TagMain
  BY <1>6 DEF Evolution!TagMain
<1>7. CASE Evolution!Merge
  BY <1>7 DEF Evolution!Merge
<1>8. CASE Evolution!DeployPasses
  BY <1>8 DEF Evolution!DeployPasses
<1>9. CASE Evolution!DeployFails
  BY <1>9, <1>20 DEF Evolution!DeployFails
<1>10. CASE Evolution!Redeploy
  BY <1>10, <1>20 DEF Evolution!Redeploy, Evolution!Save
<1>11. CASE Evolution!Promote
  BY <1>11, <1>20 DEF Evolution!Promote
<1>12. CASE Evolution!FinalSave
  BY <1>12 DEF Evolution!FinalSave, Evolution!Save
<1>13. CASE Evolution!Raises
  BY <1>13, <1>20 DEF Evolution!Raises
<1>14. CASE Evolution!ExceptRollsBack
  BY <1>14, <1>20 DEF Evolution!ExceptRollsBack, Evolution!Save
<1>15. CASE Evolution!Cleanup
  BY <1>15 DEF Evolution!Cleanup
<1>16. CASE Evolution!Dies
  BY <1>16 DEF Evolution!Dies
<1>17. CASE Evolution!HealthRollback
  BY <1>17 DEF Evolution!HealthRollback
<1>18. CASE UNCHANGED evolutionVars
  BY <1>18 DEF evolutionVars
<1> QED
  BY <1>1, <1>2, <1>3, <1>4, <1>5, <1>6, <1>7, <1>8, <1>9, <1>10,
     <1>11, <1>12, <1>13, <1>14, <1>15, <1>16, <1>17, <1>18 DEF Evolution!Next

-----------------------------------------------------------------------------
\* The inductive invariant.
EvolutionInv ==
  /\ CommitsExist /\ OnlyExecuted /\ MergedAreIn
  /\ deaths = 0 => MainIsRecoverable /\ RefusedAreOut

\* It holds at first and after every step.
LEMMA EvolutionInvHolds == ServicesSpec => []EvolutionInv
<1>1. ServicesInit => EvolutionInv
  BY CandidateAssumption
     DEF ServicesInit, Evolution!Init, EvolutionInv, CommitsExist, OnlyExecuted, AllExecuted,
         MergedAreIn, MainIsRecoverable, RefusedAreOut, Refused, Evolution!Commit, Step, Status,
         Evolution!NoCommit
<1>2. ASSUME EvolutionInv, [ServicesNext]_<<part, serviceVars>> PROVE EvolutionInv'
  <2> USE <1>2 DEF EvolutionInv
  <2>0. [Evolution!Next]_evolutionVars
    BY ServicesMove
  <2>1. CommitsExist' /\ OnlyExecuted' /\ MergedAreIn'
    BY <2>0, CommitsStay, ExecutedStay, MergedStay
  <2>2. deaths' = 0 => deaths = 0
    BY <2>0
       DEF CommitsExist, Evolution!Next, Evolution!Propose, Evolution!Start, Evolution!Apply,
           Evolution!GatesPass, Evolution!GatesFail, Evolution!TagMain, Evolution!Merge,
           Evolution!DeployPasses, Evolution!DeployFails, Evolution!Redeploy, Evolution!Promote,
           Evolution!FinalSave, Evolution!Raises, Evolution!ExceptRollsBack, Evolution!Cleanup,
           Evolution!Dies, Evolution!HealthRollback, evolutionVars, Evolution!gitVars,
           Evolution!runVars, Evolution!histVars
  <2>3. deaths' = 0 => MainIsRecoverable' /\ RefusedAreOut'
    BY <2>0, <2>2, MainStays, RefusedStay
  <2> QED BY <2>1, <2>3
<1> QED BY <1>1, <1>2, PTL DEF ServicesSpec

\* last-known-good names a commit that passed a deployment, and so does main
\* between executions, so long as no process has died (services/evolution.py,
\* execute and rollback).
THEOREM LastGoodIsDeployed == ServicesSpec => []LastGoodIsGood
<1>1. EvolutionInv => LastGoodIsGood
  BY DEF EvolutionInv, MainIsRecoverable, LastGoodIsGood, Evolution!LastGoodIsGood
<1> QED BY <1>1, EvolutionInvHolds, PTL

-----------------------------------------------------------------------------
Build == [by : Reader \union {"thread"}, at : {"read", "store", "persist", "end"}, seen : Int]
PageCopy == [seen : Int, stale : BOOLEAN]

CacheTypes ==
  /\ changes \in Nat /\ marked \in Nat /\ marked <= changes
  /\ page \in PageCopy /\ persisted \in Int /\ shown \in Int
  /\ request \in [Reader -> {"none", "waiting", "woken", "building"}]

\* What a build in progress has seen, measured against the page in place.
BuildIsAhead(b) ==
  /\ b \in Build /\ b.seen <= changes /\ b.seen >= 0 - 1
  /\ b.at = "read" => b.seen <= page.seen
  /\ b.at = "store" => b.seen >= page.seen /\ (b.seen >= marked \/ inside)
  /\ b.at \in {"persist", "end"} => b.seen <= page.seen

OneBuild ==
  /\ refreshing <=> builds # {}
  /\ \A a, b \in builds : a = b
  /\ \A b \in builds : BuildIsAhead(b)

ReadersAreServed ==
  \A r \in Reader :
    /\ request[r] = "waiting" => refreshing
    /\ request[r] = "building" => \E b \in builds : b.by = r

PageIsBetween ==
  /\ page.seen <= changes /\ shown <= page.seen /\ persisted <= page.seen
  /\ page.seen >= 0 - 1 /\ persisted >= 0 - 1
  /\ ~page.stale => page.seen >= marked \/ inside

CacheInv == CacheTypes /\ OneBuild /\ ReadersAreServed /\ PageIsBetween

\* The API starts with the copy in Redis and one thread at work.
LEMMA CacheInit == Cache!Init => CacheInv
<1> SUFFICES ASSUME Cache!Init PROVE CacheInv
  OBVIOUS
<1> USE DEF Cache!Init, Cache!NoPage, Cache!Thread
<1>1. CacheTypes
  <2> DEFINE none == [seen |-> 0 - 1, stale |-> TRUE]
  <2>1. none \in PageCopy /\ none.seen \in Int
    BY DEF PageCopy
  <2> QED BY <2>1 DEF CacheTypes
<1>2. OneBuild
  BY DEF OneBuild, BuildIsAhead, Build
<1>3. ReadersAreServed
  BY DEF ReadersAreServed
<1>4. PageIsBetween
  BY DEF PageIsBetween
<1> QED BY <1>1, <1>2, <1>3, <1>4 DEF CacheInv

\* A module that is instantiated counts as any other.
LEMMA CacheCounts == \A S : Cache!Cardinality(S) = Cardinality(S)
BY Zenon DEF Cache!Cardinality, Cardinality

\* While a build is in progress, it is the only one.
LEMMA OnlyBuild ==
    ASSUME CacheInv, NEW b \in builds
    PROVE  builds = {b} /\ refreshing /\ BuildIsAhead(b)
BY DEF CacheInv, OneBuild

\* What is left of the builds when the only one goes on.
LEMMA BuildMoves ==
    ASSUME CacheInv, NEW b \in builds, NEW a \in {"read", "store", "persist", "end"},
           NEW seen \in Int, Cache!Steps(b, a, seen)
    PROVE  \E c \in Build : builds' = {c} /\ c.by = b.by /\ c.at = a /\ c.seen = seen
<1> DEFINE c == [b EXCEPT !.at = a, !.seen = seen]
<1>1. c \in Build /\ c.by = b.by /\ c.at = a /\ c.seen = seen
  BY OnlyBuild DEF BuildIsAhead, Build
<1>2. builds' = {c}
  BY OnlyBuild DEF Cache!Steps
<1> QED BY <1>1, <1>2

\* Every step keeps the invariant: a step of the build in progress, of a reader,
\* or of the world around the cache.
LEMMA CacheNext ==
    ASSUME CacheInv, [Cache!Next]_cacheVars
    PROVE  CacheInv'
<1> USE DEF CacheInv, CacheTypes, OneBuild, ReadersAreServed, PageIsBetween, PageCopy, BuildIsAhead,
            Build
<1>1. CASE Cache!Change
  BY <1>1 DEF Cache!Change
<1>2. CASE Cache!Mark
  <2> DEFINE new == Cache!Thread("read")
  <2>0. new \in Build /\ new.by = "thread" /\ new.at = "read" /\ new.seen = 0 - 1
    BY DEF Build, Cache!Thread
  <2>9. builds' = {new} \/ (builds' = builds /\ builds # {})
    BY <1>2 DEF Cache!Mark, OneBuild
  <2> HIDE DEF new
  <2>1. CacheTypes'
    <3>1. /\ page' = [page EXCEPT !.stale = TRUE] /\ marked' = changes /\ changes' = changes
          /\ persisted' = persisted /\ shown' = shown /\ request' = request
      BY <1>2 DEF Cache!Mark
    <3>2. page' \in PageCopy
      BY <3>1 DEF CacheTypes, PageCopy
    <3>3. marked' \in Nat /\ changes' \in Nat /\ marked' <= changes'
      BY <3>1 DEF CacheTypes
    <3>4. persisted' \in Int /\ shown' \in Int
      BY <3>1 DEF CacheTypes
    <3>5. request' \in [Reader -> {"none", "waiting", "woken", "building"}]
      BY <3>1 DEF CacheTypes
    <3> QED BY <3>2, <3>3, <3>4, <3>5 DEF CacheTypes
  <2>2. OneBuild'
    BY <1>2, <2>0, <2>9 DEF Cache!Mark
  <2>3. ReadersAreServed'
    BY <1>2, <2>0, <2>9 DEF Cache!Mark
  <2>4. PageIsBetween'
    BY <1>2, <2>0, <2>9 DEF Cache!Mark
  <2> QED BY <2>1, <2>2, <2>3, <2>4
<1>3. CASE Cache!Ages
  BY <1>3 DEF Cache!Ages, Cache!NoPage
<1>4. CASE Cache!Restart
  <2> DEFINE new == Cache!Thread("read")
  <2>0. new \in Build /\ new.by = "thread" /\ new.at = "read" /\ new.seen = 0 - 1
    BY DEF Build, Cache!Thread
  <2>9. builds' = {new} \/ (builds' = builds /\ builds # {})
    BY <1>4 DEF Cache!Restart, Cache!NoPage, OneBuild
  <2> HIDE DEF new
  <2>1. CacheTypes'
    BY <1>4, <2>0, <2>9 DEF Cache!Restart, Cache!NoPage
  <2>2. OneBuild'
    <3>1. builds' = {new} /\ refreshing' = TRUE /\ page'.seen = persisted /\ changes' = changes
      BY <1>4, <2>9 DEF Cache!Restart, new
    <3> QED BY <3>1, <2>0
  <2>3. ReadersAreServed'
    BY <1>4, <2>0, <2>9 DEF Cache!Restart, Cache!NoPage
  <2>4. PageIsBetween'
    BY <1>4, <2>0, <2>9 DEF Cache!Restart, Cache!NoPage
  <2> QED BY <2>1, <2>2, <2>3, <2>4
<1>5. ASSUME NEW b \in builds, Cache!Read(b) PROVE CacheInv'
  <2>0. PICK c \in Build : /\ builds' = {c} /\ c.by = b.by
                           /\ \/ c.at = "store" /\ c.seen = changes
                              \/ c.at = "end" /\ c.seen = b.seen
    BY <1>5, BuildMoves, OnlyBuild DEF Cache!Read, BuildIsAhead, Build, CacheTypes
  <2>9. builds = {b} /\ refreshing /\ BuildIsAhead(b)
    BY OnlyBuild
  <2>1. CacheTypes'
    BY <1>5, <2>0, <2>9 DEF Cache!Read
  <2>2. OneBuild'
    BY <1>5, <2>0, <2>9 DEF Cache!Read
  <2>3. ReadersAreServed'
    BY <1>5, <2>0, <2>9 DEF Cache!Read
  <2>4. PageIsBetween'
    BY <1>5, <2>0, <2>9 DEF Cache!Read
  <2> QED BY <2>1, <2>2, <2>3, <2>4
<1>6. ASSUME NEW b \in builds, Cache!Store(b) PROVE CacheInv'
  <2>0. PICK c \in Build : builds' = {c} /\ c.by = b.by /\ c.at = "persist" /\ c.seen = b.seen
    BY <1>6, BuildMoves, OnlyBuild DEF Cache!Store, BuildIsAhead, Build, CacheTypes
  <2>9. builds = {b} /\ refreshing /\ BuildIsAhead(b)
    BY OnlyBuild
  <2>1. CacheTypes'
    BY <1>6, <2>0, <2>9 DEF Cache!Store
  <2>2. OneBuild'
    BY <1>6, <2>0, <2>9 DEF Cache!Store
  <2>3. ReadersAreServed'
    BY <1>6, <2>0, <2>9 DEF Cache!Store
  <2>4. PageIsBetween'
    BY <1>6, <2>0, <2>9 DEF Cache!Store
  <2> QED BY <2>1, <2>2, <2>3, <2>4
<1>7. ASSUME NEW b \in builds, Cache!Persist(b) PROVE CacheInv'
  <2>0. PICK c \in Build : builds' = {c} /\ c.by = b.by /\ c.at = "end" /\ c.seen = b.seen
    BY <1>7, BuildMoves, OnlyBuild DEF Cache!Persist, BuildIsAhead, Build, CacheTypes
  <2>9. builds = {b} /\ refreshing /\ BuildIsAhead(b)
    BY OnlyBuild
  <2>1. CacheTypes'
    BY <1>7, <2>0, <2>9 DEF Cache!Persist
  <2>2. OneBuild'
    BY <1>7, <2>0, <2>9 DEF Cache!Persist
  <2>3. ReadersAreServed'
    BY <1>7, <2>0, <2>9 DEF Cache!Persist
  <2>4. PageIsBetween'
    BY <1>7, <2>0, <2>9 DEF Cache!Persist
  <2> QED BY <2>1, <2>2, <2>3, <2>4
<1>8. ASSUME NEW b \in builds, Cache!End(b) PROVE CacheInv'
  <2>9. builds = {b} /\ refreshing /\ BuildIsAhead(b)
    BY OnlyBuild
  <2>1. CacheTypes'
    BY <1>8, <2>9 DEF Cache!End
  <2>2. OneBuild'
    BY <1>8, <2>9 DEF Cache!End
  <2>3. ReadersAreServed'
    BY <1>8, <2>9 DEF Cache!End
  <2>4. PageIsBetween'
    BY <1>8, <2>9 DEF Cache!End
  <2> QED BY <2>1, <2>2, <2>3, <2>4
<1>9. ASSUME NEW r \in Reader, Cache!Waits(r) PROVE CacheInv'
  BY <1>9 DEF Cache!Waits
<1>10. ASSUME NEW r \in Reader, Cache!GivesUp(r) PROVE CacheInv'
  BY <1>10 DEF Cache!GivesUp
<1>11. ASSUME NEW r \in Reader, Cache!Refused(r) PROVE CacheInv'
  BY <1>11 DEF Cache!Refused
<1>12. ASSUME NEW r \in Reader, Cache!Builds(r) PROVE CacheInv'
  <2> DEFINE new == [by |-> r, at |-> "read", seen |-> 0 - 1]
  <2>0. new \in Build /\ new.by = r /\ new.at = "read" /\ new.seen = 0 - 1
    BY DEF Build, Cache!Thread
  <2>9. builds' = {new} \/ (builds' = builds /\ builds # {})
    BY <1>12 DEF Cache!Builds, OneBuild
  <2> HIDE DEF new
  <2>1. CacheTypes'
    BY <1>12, <2>0, <2>9 DEF Cache!Builds
  <2>2. OneBuild'
    BY <1>12, <2>0, <2>9 DEF Cache!Builds
  <2>3. ReadersAreServed'
    BY <1>12, <2>0, <2>9 DEF Cache!Builds
  <2>4. PageIsBetween'
    BY <1>12, <2>0, <2>9 DEF Cache!Builds
  <2> QED BY <2>1, <2>2, <2>3, <2>4
<1>13. ASSUME NEW r \in Reader, Cache!Answers(r) PROVE CacheInv'
  <2> DEFINE new == Cache!Thread("read")
  <2>0. new \in Build /\ new.by = "thread" /\ new.at = "read" /\ new.seen = 0 - 1
    BY DEF Build, Cache!Thread
  <2>9. builds' = {new} \/ (builds' = builds /\ builds # {}) \/ (builds' = builds /\ ~refreshing')
    BY <1>13 DEF Cache!Answers, OneBuild
  <2>8. refreshing' <=> refreshing \/ page.stale
    BY <1>13 DEF Cache!Answers
  <2> HIDE DEF new
  <2>1. CacheTypes'
    BY <1>13, <2>0, <2>9 DEF Cache!Answers
  <2>2. OneBuild'
    <3>1. CASE builds' = builds
      BY <3>1, <1>13, <2>8, <2>9 DEF Cache!Answers, OneBuild, BuildIsAhead
    <3>2. CASE builds' = {new}
      BY <3>2, <1>13, <2>0, <2>8, <2>9 DEF Cache!Answers
    <3> QED BY <3>1, <3>2, <2>9
  <2>3. ReadersAreServed'
    BY <1>13, <2>0, <2>9 DEF Cache!Answers
  <2>4. PageIsBetween'
    BY <1>13, <2>0, <2>9 DEF Cache!Answers
  <2> QED BY <2>1, <2>2, <2>3, <2>4
<1>14. CASE UNCHANGED cacheVars
  BY <1>14 DEF cacheVars
<1> QED
  BY <1>1, <1>2, <1>3, <1>4, <1>5, <1>6, <1>7, <1>8, <1>9, <1>10, <1>11, <1>12, <1>13,
     <1>14 DEF Cache!Next

\* One build at a time, nobody waits for none, no page goes back behind what was
\* shown, and a fresh page has seen what the last mark was about, unless the
\* build had read before it (main.py, _refresh_model_queue_snapshot).
THEOREM CacheKeepsUp == ServicesSpec => []Cache!PageKeepsUp
<1>0. ServicesInit => CacheInv
  BY CacheInit DEF ServicesInit
<1>2. CacheInv /\ [ServicesNext]_<<part, serviceVars>> => CacheInv'
  BY CacheNext, ServicesMove
<1>1. CacheInv => Cache!PageKeepsUp
  <2> SUFFICES ASSUME CacheInv PROVE Cache!PageKeepsUp
    OBVIOUS
  <2>1. Cardinality(builds) = IF refreshing THEN 1 ELSE 0
    <3>1. CASE builds = {}
      BY <3>1, FS_EmptySet DEF CacheInv, OneBuild
    <3>2. CASE builds # {}
      BY <3>2, OnlyBuild, FS_Singleton
    <3> QED BY <3>1, <3>2
  <2>2. Cache!Cardinality(builds) = IF refreshing THEN 1 ELSE 0
    BY <2>1, CacheCounts
  <2>3. /\ \A r \in Reader : request[r] = "waiting" => refreshing
        /\ \A r \in Reader : request[r] = "building" => \E b \in builds : b.by = r
        /\ shown <= page.seen /\ persisted <= page.seen
        /\ ~page.stale => page.seen >= marked \/ inside
    BY DEF CacheInv, ReadersAreServed, PageIsBetween
  <2> QED BY <2>2, <2>3 DEF Cache!PageKeepsUp
<1> QED BY <1>0, <1>1, <1>2, PTL DEF ServicesSpec

-----------------------------------------------------------------------------
\* The cases of a task are in the order that is proved of here.
LEMMA TasksRanks ==
    /\ \A S : Tasks!Cardinality(S) = Cardinality(S)
    /\ \A S : Tasks!Ascending(S) = Ascending(S)
<1>1. \A S : Tasks!Cardinality(S) = Cardinality(S)
  BY Zenon DEF Tasks!Cardinality, Cardinality
<1>2. \A S, R, x : Tasks!Rank(S, R, x) = Rank(S, R, x)
  BY <1>1, Zenon DEF Tasks!Rank, Rank
<1>3. \A S, R, k : Tasks!Nth(S, R, k) = Nth(S, R, k)
  BY <1>2, Zenon DEF Tasks!Nth, Nth
<1>4. \A S, R : Tasks!InOrder(S, R) = InOrder(S, R)
  BY <1>1, <1>3, Zenon DEF Tasks!InOrder, InOrder
<1>5. \A S : Tasks!Upwards(S) = Upwards(S)
  BY Zenon DEF Tasks!Upwards, Upwards
<1>6. \A S : Tasks!Ascending(S) = Ascending(S)
  BY <1>4, <1>5, Zenon DEF Tasks!Ascending, Ascending
<1> QED BY <1>1, <1>6

Verdicts == {"none", "proposed", "testing", "merged", "rejected", "rolled_back"}
TaskMessage == [task : EvolutionTask, kind : {"outcomes", "failures", "execute"}, cand : TaskCandidate \cup {0}]

TaskTypes ==
  /\ \A t \in EvolutionTask : record[t].cand \in TaskCandidate \cup {0}
  /\ DOMAIN record = EvolutionTask
  /\ \A m \in deliveries : m \in TaskMessage /\ (m.kind = "execute" => m.cand # 0)
  /\ verdicts \in [TaskCandidate -> Verdicts]
  /\ hand.at \in {"idle", "propose", "execute", "gates"}
  /\ hand.at # "idle" => hand.message \in TaskMessage /\ (hand.message.kind = "execute" => hand.message.cand # 0)
  /\ hand.at \in {"execute", "gates"} => hand.cand \in TaskCandidate
  /\ hand.at = "propose" => hand.cand = 0

\* A verdict is given to a candidate in its gates, once; until then no record
\* names one.
RecordsAreTrue ==
  /\ \A t \in EvolutionTask :
       record[t].status \in Tasks!Verdict =>
         record[t].cand \in TaskCandidate /\ verdicts[record[t].cand] = record[t].status
  /\ \A c \in TaskCandidate : verdicts[c] \in Tasks!Verdict \cup {"testing"} => c \in branched
  /\ hand.at = "gates" => verdicts[hand.cand] = "testing"

CasesAreRight ==
  /\ recorded \in Histories
  /\ \A t \in EvolutionTask : record[t].status = "completed" => ~enabled \/ Tasks!Cases = <<>>
  /\ branched # {} => enabled
  /\ given = <<>> \/ given = Tasks!Cases

TasksInv == TaskTypes /\ RecordsAreTrue /\ CasesAreRight

\* A record that is tracked changes alone, and not once it is cancelled.
LEMMA TrackedChanges ==
    ASSUME TaskTypes, NEW t \in EvolutionTask, NEW st, NEW c \in TaskCandidate \cup {0},
           record' = Tasks!Tracked(t, st, c)
    PROVE  /\ DOMAIN record' = EvolutionTask
           /\ \A u \in EvolutionTask : record'[u].cand \in TaskCandidate \cup {0}
           /\ \A u \in EvolutionTask :
                 \/ record'[u] = record[u]
                 \/ u = t /\ record'[u].status = st /\ (c # 0 => record'[u].cand = c)
BY DEF TaskTypes, Tasks!Tracked

\* Every step of a code task keeps the invariant.
LEMMA TasksNext ==
    ASSUME TasksInv, [Tasks!Next]_taskVars
    PROVE  TasksInv'
<1> USE TasksAssumption DEF TasksInv, TaskTypes, RecordsAreTrue, CasesAreRight, Tasks!Verdict
<1>0. recorded' = recorded /\ enabled' = enabled /\ Tasks!Cases' = Tasks!Cases
  <2>1. recorded' = recorded /\ enabled' = enabled
    BY DEF Tasks!Next, Tasks!Dispatch, Tasks!AskForPatch, Tasks!AskForExecution, Tasks!Retry,
           Tasks!Publish, Tasks!DropCancelled, Tasks!StartOutcomes, Tasks!StartFailures,
           Tasks!StartExecution, Tasks!Take, Tasks!Propose, Tasks!ExecuteReturns, Tasks!Execute,
           Tasks!Raises, Tasks!Dies, Tasks!Clear, taskVars
  <2>2. Tasks!Misses' = Tasks!Misses
    BY <2>1 DEF Tasks!Misses
  <2> QED BY <2>1, <2>2 DEF Tasks!Cases, Tasks!CasesOf
<1>1. ASSUME NEW t \in EvolutionTask, NEW kind \in {"outcomes", "failures", "execute"},
             NEW c \in TaskCandidate \cup {0}, kind = "execute" => c # 0, Tasks!Publish(t, kind, c)
      PROVE  TasksInv'
  <2>1. PICK st \in {"queued", "failed"} : record' = [record EXCEPT ![t] = [status |-> st, cand |-> c]]
    BY <1>1 DEF Tasks!Publish
  <2>2. \A u \in EvolutionTask : record'[u] = record[u] \/ (record'[u].status = st /\ record'[u].cand = c)
    BY <2>1
  <2>3. \A u \in EvolutionTask : record'[u].cand \in TaskCandidate \cup {0}
    BY <2>2
  <2>4. \A u \in EvolutionTask : record'[u] = record[u] \/ record'[u].status \in {"queued", "failed"}
    BY <2>2
  <2>5. DOMAIN record' = EvolutionTask /\ UNCHANGED <<verdicts, branched, hand, given>>
    BY <1>1 DEF Tasks!Publish
  <2>6. \A m \in deliveries' : m \in TaskMessage /\ (m.kind = "execute" => m.cand # 0)
    BY <1>1 DEF Tasks!Publish, TaskMessage
  <2>7. TaskTypes'
    BY <2>3, <2>5, <2>6
  <2>8. RecordsAreTrue'
    BY <2>4, <2>5
  <2>9. CasesAreRight'
    BY <1>0, <2>4, <2>5
  <2> QED BY <2>7, <2>8, <2>9
<1>2. ASSUME NEW m \in deliveries, Tasks!DropCancelled(m) \/ Tasks!StartOutcomes(m)
                 \/ Tasks!StartFailures(m) \/ Tasks!StartExecution(m)
      PROVE  TasksInv'
  <2>0. m \in TaskMessage /\ m.task \in EvolutionTask /\ m.cand \in TaskCandidate \cup {0}
    BY DEF TaskMessage
  <2>1. CASE Tasks!DropCancelled(m)
    BY <1>0, <2>1 DEF Tasks!DropCancelled
  <2>2. ASSUME Tasks!Take(m, "outcomes") \/ Tasks!Take(m, "failures") \/ Tasks!Take(m, "execute")
        PROVE  deliveries' \subseteq deliveries /\ UNCHANGED <<verdicts, branched>> /\ hand.at = "idle"
    BY <2>2 DEF Tasks!Take, Tasks!Idle
  <2>3. CASE Tasks!StartOutcomes(m)
    <3>1. PICK st \in {"completed", "generating"} :
            /\ record' = Tasks!Tracked(m.task, st, 0)
            /\ st = "completed" => ~enabled \/ Tasks!Cases = <<>>
      BY <2>3 DEF Tasks!StartOutcomes
    <3>2. /\ hand' = hand \/ (hand'.at = "propose" /\ hand'.message = m /\ hand'.cand = 0)
          /\ given' = given \/ given' = Tasks!Cases
          /\ m.kind = "outcomes"
      BY <2>3 DEF Tasks!StartOutcomes, Tasks!Holds, Tasks!Take
    <3>3. deliveries' \subseteq deliveries /\ UNCHANGED <<verdicts, branched>> /\ hand.at = "idle"
      BY <2>2, <2>3 DEF Tasks!StartOutcomes
    <3>4. TaskTypes'
      BY <2>0, <3>1, <3>2, <3>3, TrackedChanges
    <3>5. RecordsAreTrue'
      BY <2>0, <3>1, <3>2, <3>3, TrackedChanges
    <3>6. CasesAreRight'
      BY <1>0, <2>0, <3>1, <3>2, <3>3, TrackedChanges
    <3> QED BY <3>4, <3>5, <3>6
  <2>4. CASE Tasks!StartFailures(m)
    <3>1. PICK st \in {"failed", "generating"} : record' = Tasks!Tracked(m.task, st, 0)
      BY <2>4 DEF Tasks!StartFailures
    <3>2. /\ hand' = hand \/ (hand'.at = "propose" /\ hand'.message = m /\ hand'.cand = 0)
          /\ given' = given /\ m.kind = "failures"
      BY <2>4 DEF Tasks!StartFailures, Tasks!Holds, Tasks!Take
    <3>3. deliveries' \subseteq deliveries /\ UNCHANGED <<verdicts, branched>> /\ hand.at = "idle"
      BY <2>2, <2>4 DEF Tasks!StartFailures
    <3>4. TaskTypes'
      BY <2>0, <3>1, <3>2, <3>3, TrackedChanges
    <3>5. RecordsAreTrue'
      BY <2>0, <3>1, <3>2, <3>3, TrackedChanges
    <3>6. CasesAreRight'
      BY <1>0, <2>0, <3>1, <3>2, <3>3, TrackedChanges
    <3> QED BY <3>4, <3>5, <3>6
  <2>5. CASE Tasks!StartExecution(m)
    <3>1. record' = Tasks!Tracked(m.task, "testing", m.cand)
      BY <2>5 DEF Tasks!StartExecution
    <3>2. /\ hand'.at = "execute" /\ hand'.message = m /\ hand'.cand = m.cand
          /\ given' = given /\ m.cand # 0
      BY <2>5 DEF Tasks!StartExecution, Tasks!Holds, Tasks!Take
    <3>3. deliveries' \subseteq deliveries /\ UNCHANGED <<verdicts, branched>> /\ hand.at = "idle"
      BY <2>2, <2>5 DEF Tasks!StartExecution
    <3>4. TaskTypes'
      BY <2>0, <3>1, <3>2, <3>3, TrackedChanges
    <3>5. RecordsAreTrue'
      BY <2>0, <3>1, <3>2, <3>3, TrackedChanges
    <3>6. CasesAreRight'
      BY <1>0, <2>0, <3>1, <3>2, <3>3, TrackedChanges
    <3> QED BY <3>4, <3>5, <3>6
  <2> QED BY <1>2, <2>1, <2>3, <2>4, <2>5
<1>3. ASSUME NEW c \in TaskCandidate, Tasks!Propose(c) PROVE TasksInv'
  <2>0. hand.message.task \in EvolutionTask
    BY <1>3 DEF Tasks!Propose, TaskMessage
  <2>1. record' = Tasks!Tracked(hand.message.task, "testing", c)
    BY <1>3 DEF Tasks!Propose
  <2>2. /\ verdicts' = [verdicts EXCEPT ![c] = "proposed"] /\ verdicts[c] = "none"
        /\ hand'.at = "execute" /\ hand'.message = hand.message /\ hand'.cand = c
        /\ UNCHANGED <<deliveries, branched, given>> /\ hand.at = "propose"
    BY <1>3 DEF Tasks!Propose, Tasks!Holds
  <2>3. TaskTypes'
    BY <2>0, <2>1, <2>2, TrackedChanges DEF Verdicts
  <2>4. RecordsAreTrue'
    BY <2>0, <2>1, <2>2, TrackedChanges
  <2>5. CasesAreRight'
    BY <1>0, <2>0, <2>1, <2>2, TrackedChanges
  <2> QED BY <2>3, <2>4, <2>5
<1>4. ASSUME NEW v \in Tasks!Verdict \union {"testing"}, Tasks!ExecuteReturns(v) PROVE TasksInv'
  <2>0. hand.message.task \in EvolutionTask /\ hand.cand \in TaskCandidate /\ hand.cand # 0
    BY <1>4 DEF Tasks!ExecuteReturns, TaskMessage
  <2>1. record' = Tasks!Tracked(hand.message.task, v, hand.cand)
    BY <1>4 DEF Tasks!ExecuteReturns
  <2>2. /\ verdicts' = [verdicts EXCEPT ![hand.cand] = v] /\ verdicts[hand.cand] = "testing"
        /\ hand'.at = "idle" /\ hand.at = "gates"
        /\ UNCHANGED <<deliveries, branched, given>>
    BY <1>4 DEF Tasks!ExecuteReturns, Tasks!Idle
  <2>3. TaskTypes'
    BY <2>0, <2>1, <2>2, TrackedChanges DEF Verdicts
  <2>4. RecordsAreTrue'
    BY <2>0, <2>1, <2>2, TrackedChanges
  <2>5. CasesAreRight'
    BY <1>0, <2>0, <2>1, <2>2, TrackedChanges
  <2> QED BY <2>3, <2>4, <2>5
<1>5. CASE Tasks!Execute
  BY <1>0, <1>5 DEF Tasks!Execute, Verdicts
<1>6. CASE Tasks!Raises
  <2>0. hand.message.task \in EvolutionTask /\ hand.cand \in TaskCandidate \cup {0}
    BY <1>6 DEF Tasks!Raises, TaskMessage
  <2>1. record' = Tasks!Tracked(hand.message.task, "failed", hand.cand)
    BY <1>6 DEF Tasks!Raises
  <2>2. /\ verdicts' = verdicts \/ (/\ hand.at = "gates"
                                     /\ \E v \in {"testing", "rejected", "rolled_back"} :
                                           verdicts' = [verdicts EXCEPT ![hand.cand] = v])
        /\ hand'.at = "idle" /\ UNCHANGED <<deliveries, branched, given>>
    BY <1>6 DEF Tasks!Raises, Tasks!Idle
  <2>3. TaskTypes'
    BY <2>0, <2>1, <2>2, TrackedChanges DEF Verdicts
  <2>4. RecordsAreTrue'
    BY <2>0, <2>1, <2>2, TrackedChanges
  <2>5. CasesAreRight'
    BY <1>0, <2>0, <2>1, <2>2, TrackedChanges
  <2> QED BY <2>3, <2>4, <2>5
<1>7. CASE Tasks!Dies
  BY <1>0, <1>7 DEF Tasks!Dies, Tasks!Idle
<1>8. CASE Tasks!Clear
  BY <1>0, <1>8 DEF Tasks!Clear, Tasks!Idle, Tasks!Working, Tasks!Failed
<1>9. CASE UNCHANGED taskVars
  BY <1>0, <1>9 DEF taskVars
<1> QED
  BY <1>1, <1>2, <1>3, <1>4, <1>5, <1>6, <1>7, <1>8, <1>9
     DEF Tasks!Next, Tasks!Dispatch, Tasks!AskForPatch, Tasks!AskForExecution, Tasks!Retry

\* The lesser of two numbers.
LEMMA TasksMin == ASSUME NEW a \in Int, NEW b \in Int
                  PROVE  Tasks!Min({a, b}) = IF a <= b THEN a ELSE b
BY DEF Tasks!Min

\* What the model learns from: every missed outcome up to a limit, then what
\* ended without a result and is not among them.
LEMMA CasesAreComplete ==
    ASSUME recorded \in Histories
    PROVE  LET cases == Tasks!Cases
               misses == {i \in DOMAIN cases : cases[i].type = "outcome_miss"}
               missed == {o \in DOMAIN recorded : Tasks!Missed(recorded[o])}
               unserved == Tasks!Ended \ {cases[i].run : i \in DOMAIN cases}
               single == DOMAIN cases \ misses
           IN  /\ Len(cases) <= MaxCases
               /\ Cardinality(misses) = Tasks!Min({Cardinality(missed), MaxMisses})
               /\ \A i \in single : cases[i].run \in Tasks!Ended
               /\ \A i \in single, j \in DOMAIN cases : cases[i].run = cases[j].run => i = j
               /\ unserved # {} => Len(cases) = MaxCases
<1> DEFINE missed == {o \in DOMAIN recorded : Tasks!Missed(recorded[o])}
           n1 == Tasks!Min({Cardinality(missed), MaxMisses})
           miss == Tasks!Misses
           failed == {r \in Tasks!Ended : \A i \in DOMAIN miss : miss[i].run # r}
           room == MaxCases - n1
           n2 == Tasks!Min({Cardinality(failed), room})
           first == [i \in 1 .. n1 |-> [run |-> miss[i].run, type |-> "outcome_miss"]]
           Late(i) == LET r == Ascending(failed)[i]
                      IN  [run |-> r, type |-> Tasks!FailureType(Runs[r])]
           second == [i \in 1 .. n2 |-> Late(i)]
           cases == Tasks!Cases
<1>1. IsFiniteSet(missed) /\ missed \subseteq Int /\ Cardinality(missed) \in Nat
  <2>1. DOMAIN recorded = 1 .. Len(recorded) /\ Len(recorded) \in Nat
    BY TasksAssumption
  <2>2. missed \subseteq 1 .. Len(recorded) /\ IsFiniteSet(1 .. Len(recorded))
    BY <2>1, FS_Interval
  <2> HIDE DEF missed
  <2>3. IsFiniteSet(missed)
    BY <2>2, FS_Subset
  <2>4. missed \subseteq Int
    BY <2>2
  <2> QED BY <2>3, <2>4, FS_CardinalityType
<1>2. IsFiniteSet(failed) /\ failed \subseteq Int /\ Cardinality(failed) \in Nat
  <2>1. failed \subseteq 1 .. Len(Runs) /\ IsFiniteSet(1 .. Len(Runs))
    BY TasksAssumption, FS_Interval DEF Tasks!Ended
  <2> HIDE DEF failed
  <2>3. IsFiniteSet(failed)
    BY <2>1, FS_Subset
  <2>4. failed \subseteq Int
    BY <2>1
  <2> QED BY <2>3, <2>4, FS_CardinalityType
<1>3. n1 \in Nat /\ n1 <= MaxMisses /\ n1 = Tasks!Min({Cardinality(missed), MaxMisses})
  <2> DEFINE n == Cardinality(missed)
  <2>1. n \in Nat /\ MaxMisses \in Nat
    BY <1>1, TasksAssumption
  <2> HIDE DEF n, missed
  <2>2. Tasks!Min({n, MaxMisses}) = IF n <= MaxMisses THEN n ELSE MaxMisses
    BY <2>1, TasksMin
  <2>3. n1 = Tasks!Min({n, MaxMisses})
    BY DEF n
  <2> HIDE DEF n1
  <2>4. n1 \in Nat /\ n1 <= MaxMisses
    BY <2>1, <2>2, <2>3
  <2> QED BY <2>3, <2>4 DEF n
<1>4. room \in Nat
  BY <1>3, TasksAssumption
<1>5. n2 \in Nat /\ n2 <= Cardinality(failed) /\ n2 <= room /\ (n2 = Cardinality(failed) \/ n2 = room)
  <2> DEFINE n == Cardinality(failed)
  <2>1. n \in Nat /\ room \in Nat
    BY <1>2, <1>4
  <2> HIDE DEF n, failed, room
  <2>2. Tasks!Min({n, room}) = IF n <= room THEN n ELSE room
    BY <2>1, TasksMin
  <2>3. n2 = Tasks!Min({n, room})
    BY DEF n
  <2> HIDE DEF n2
  <2>4. n2 \in Nat /\ n2 <= n /\ n2 <= room /\ (n2 = n \/ n2 = room)
    BY <2>1, <2>2, <2>3
  <2> QED BY <2>4 DEF n
<1>6. DOMAIN miss = 1 .. n1 /\ Len(miss) = n1
  <2>1. Tasks!Cardinality(missed) = Cardinality(missed)
    BY TasksRanks
  <2>2. miss = [i \in 1 .. n1 |-> recorded[Tasks!Ascending(missed)[i]]]
    BY <2>1, Zenon DEF Tasks!Misses
  <2> HIDE DEF n1, missed, miss
  <2> QED BY <2>2, <1>3
<1>7. cases = first \o second
  <2>1. Tasks!Cardinality(failed) = Cardinality(failed) /\ Tasks!Ascending(failed) = Ascending(failed)
    BY TasksRanks
  <2>2. cases = Tasks!CasesOf(failed)
    BY DEF Tasks!Cases
  <2>3. Len(miss) = n1 /\ DOMAIN miss = 1 .. n1
    BY <1>6
  <2> HIDE DEF failed, cases, n1
  <2> QED BY <2>1, <2>2, <2>3, Zenon DEF Tasks!CasesOf
<1> HIDE DEF missed, n1, miss, failed, room, n2
<1>8. /\ Len(cases) = n1 + n2 /\ DOMAIN cases = 1 .. n1 + n2
      /\ \A i \in 1 .. n1 : cases[i].run = miss[i].run /\ cases[i].type = "outcome_miss"
      /\ \A i \in (n1 + 1) .. (n1 + n2) :
            cases[i].run = Ascending(failed)[i - n1] /\ cases[i].type # "outcome_miss"
  <2> DEFINE T == {first[i] : i \in 1 .. n1} \cup {second[i] : i \in 1 .. n2}
  <2>1. \A i \in 1 .. n1 : first[i] \in T /\ first[i].run = miss[i].run
                          /\ first[i].type = "outcome_miss"
    OBVIOUS
  <2>2. \A i \in 1 .. n2 : second[i] \in T /\ second[i].run = Ascending(failed)[i]
                          /\ second[i].type # "outcome_miss"
    BY DEF Tasks!FailureType
  <2>3. first = [i \in 1 .. n1 |-> first[i]] /\ second = [i \in 1 .. n2 |-> second[i]]
    OBVIOUS
  <2> HIDE DEF T, first, second
  <2>4. first \in Seq(T) /\ Len(first) = n1
    <3>1. \A i \in 1 .. n1 : first[i] \in T
      BY <2>1
    <3>2. n1 \in Nat
      BY <1>3
    <3>3. first = [i \in 1 .. n1 |-> first[i]]
      BY <2>3
    <3> QED BY <3>1, <3>2, <3>3
  <2>5. second \in Seq(T) /\ Len(second) = n2
    <3>1. \A i \in 1 .. n2 : second[i] \in T
      BY <2>2
    <3> QED BY <1>5, <3>1, <2>3
  <2>6. /\ Len(cases) = n1 + n2
        /\ \A i \in 1 .. n1 + n2 : cases[i] = IF i <= n1 THEN first[i] ELSE second[i - n1]
        /\ cases \in Seq(T)
    BY <1>7, <2>4, <2>5, ConcatProperties
  <2> HIDE DEF cases
  <2>7. \A i \in (n1 + 1) .. (n1 + n2) : i - n1 \in 1 .. n2 /\ i \in 1 .. n1 + n2 /\ ~(i <= n1)
    BY <1>3, <1>5
  <2>8. \A i \in 1 .. n1 : i \in 1 .. n1 + n2 /\ i <= n1
    BY <1>3, <1>5
  <2>9. DOMAIN cases = 1 .. n1 + n2
    BY <2>6
  <2> QED BY <2>1, <2>2, <2>6, <2>7, <2>8, <2>9
<1> HIDE DEF cases
<1>9. {i \in DOMAIN cases : cases[i].type = "outcome_miss"} = 1 .. n1
  <2>1. \A i \in 1 .. n1 + n2 : i \in 1 .. n1 \/ i \in (n1 + 1) .. (n1 + n2)
    BY <1>3, <1>5
  <2>2. \A i \in 1 .. n1 : i \in 1 .. n1 + n2
    BY <1>3, <1>5
  <2>3. /\ \A i \in 1 .. n1 : cases[i].type = "outcome_miss"
        /\ \A i \in (n1 + 1) .. (n1 + n2) : cases[i].type # "outcome_miss"
        /\ DOMAIN cases = 1 .. n1 + n2
    BY <1>8
  <2> QED BY <2>1, <2>2, <2>3, Zenon
<1>10. Cardinality(1 .. n1) = n1
  BY <1>3, FS_Interval
<1>11. \A i \in (n1 + 1) .. (n1 + n2) : i - n1 \in 1 .. Cardinality(failed)
  BY <1>2, <1>3, <1>5
<1>12. \A i \in (n1 + 1) .. (n1 + n2) : cases[i].run \in failed
  BY <1>2, <1>8, <1>11, AscendingIsInOrder
<1>13. /\ \A k \in 1 .. Cardinality(failed) : Ascending(failed)[k] \in Int
       /\ \A j, k \in 1 .. Cardinality(failed) : j < k <=> Ascending(failed)[j] < Ascending(failed)[k]
  BY <1>2, AscendingIsInOrder
<1>14. ASSUME NEW i \in (n1 + 1) .. (n1 + n2), NEW j \in 1 .. n1 + n2, cases[i].run = cases[j].run
       PROVE  i = j
  <2>1. ASSUME j <= n1 PROVE FALSE
    <3>1. j \in DOMAIN miss /\ cases[j].run = miss[j].run
      <4>1. j \in 1 .. n1
        BY <1>3, <1>5, <2>1
      <4> QED BY <1>6, <1>8, <4>1, Zenon
    <3>2. \A k \in DOMAIN miss : miss[k].run # cases[i].run
      BY <1>12 DEF failed
    <3> QED BY <1>14, <3>1, <3>2
  <2>2. CASE ~(j <= n1)
    <3>1. j \in (n1 + 1) .. (n1 + n2)
      BY <1>3, <1>5, <2>2
    <3>2. i - n1 \in 1 .. Cardinality(failed) /\ j - n1 \in 1 .. Cardinality(failed)
      BY <1>11, <3>1
    <3>3. Ascending(failed)[i - n1] = Ascending(failed)[j - n1]
      BY <1>8, <1>14, <3>1
    <3>4. ~(i - n1 < j - n1) /\ ~(j - n1 < i - n1)
      BY <1>13, <3>2, <3>3
    <3> QED BY <1>3, <1>5, <3>1, <3>4
  <2> QED BY <2>1, <2>2
<1>15. ASSUME NEW r \in Tasks!Ended, \A i \in DOMAIN cases : cases[i].run # r
       PROVE  Len(cases) = MaxCases
  <2>1. \A i \in DOMAIN miss : miss[i].run # r
    <3>1. \A i \in 1 .. n1 : i \in 1 .. n1 + n2
      BY <1>3, <1>5
    <3>2. \A i \in 1 .. n1 : cases[i].run = miss[i].run
      BY <1>8
    <3>3. \A i \in 1 .. n1 + n2 : cases[i].run # r
      BY <1>8, <1>15
    <3> QED BY <1>6, <3>1, <3>2, <3>3
  <2>2. r \in failed
    BY <2>1 DEF failed
  <2>3. PICK k \in 1 .. Cardinality(failed) : r = Ascending(failed)[k]
    BY <1>2, <2>2, AscendingIsInOrder
  <2>4. ASSUME k <= n2 PROVE FALSE
    <3>1. n1 + k \in (n1 + 1) .. (n1 + n2) /\ (n1 + k) - n1 = k
      BY <1>2, <1>3, <1>5, <2>4
    <3>2. n1 + k \in 1 .. n1 + n2
      BY <1>2, <1>3, <1>5, <2>4
    <3> QED BY <1>8, <1>15, <2>3, <3>1, <3>2
  <2>5. n2 = room
    BY <1>2, <1>5, <2>4
  <2> QED BY <1>3, <1>8, <2>5, TasksAssumption DEF room
<1>16. Len(cases) <= MaxCases
  BY <1>3, <1>4, <1>5, <1>8, TasksAssumption DEF room
<1>17. \A i \in DOMAIN cases \ (1 .. n1) : i \in (n1 + 1) .. (n1 + n2)
  BY <1>3, <1>5, <1>8
<1>18. failed \subseteq Tasks!Ended
  BY DEF failed
<1>19. ASSUME Tasks!Ended \ {cases[i].run : i \in DOMAIN cases} # {}
       PROVE  Len(cases) = MaxCases
  <2>1. PICK r \in Tasks!Ended : r \notin {cases[i].run : i \in DOMAIN cases}
    BY <1>19
  <2>2. \A i \in DOMAIN cases : cases[i].run # r
    BY <2>1
  <2> QED BY <2>2, <1>15
<1>20. \A i \in DOMAIN cases \ (1 .. n1) : cases[i].run \in Tasks!Ended
  BY <1>12, <1>17, <1>18
<1>21. \A i \in DOMAIN cases \ (1 .. n1), j \in DOMAIN cases : cases[i].run = cases[j].run => i = j
  BY <1>8, <1>14, <1>17
<1>22. Cardinality(1 .. n1) = Tasks!Min({Cardinality(missed), MaxMisses})
  BY <1>3, <1>10
<1> QED
  BY <1>9, <1>16, <1>19, <1>20, <1>21, <1>22, Zenon DEF cases, missed

\* At first there is nothing to be true of.
LEMMA TasksStart == ASSUME Tasks!Init PROVE TasksInv
BY TasksAssumption
   DEF Tasks!Init, TasksInv, TaskTypes, RecordsAreTrue, CasesAreRight, Tasks!Idle, Tasks!Verdict,
       Verdicts

\* The database tells the truth about main, unless a process has died while it
\* executed a patch, and the records of the code tasks about the database; what
\* the model learns from holds each failure once (services/evolution.py, execute
\* and rollback; worker.py, _evolution_failure_cases and execute_evolution).
THEOREM VerdictsAreTrue == ServicesSpec => []VerdictIsTrue
<1>1. ServicesInit => TasksInv
  BY TasksStart DEF ServicesInit
<1>2. TasksInv /\ [ServicesNext]_<<part, serviceVars>> => TasksInv'
  BY TasksNext, ServicesMove
<1>3. EvolutionInv => Evolution!VerdictIsTrue
  BY DEF EvolutionInv, MergedAreIn, RefusedAreOut, Refused, Evolution!VerdictIsTrue
<1>4. TasksInv => Tasks!CodeTaskIsTrue
  <2> SUFFICES ASSUME TasksInv PROVE Tasks!CodeTaskIsTrue
    OBVIOUS
  <2>1. /\ \A t \in EvolutionTask :
             record[t].status \in Tasks!Verdict => verdicts[record[t].cand] = record[t].status
        /\ \A t \in EvolutionTask : record[t].status = "completed" => ~enabled \/ Tasks!Cases = <<>>
        /\ branched # {} => enabled
    BY DEF TasksInv, RecordsAreTrue, CasesAreRight
  <2>2. given # <<>> => given = Tasks!Cases
    BY DEF TasksInv, CasesAreRight
  <2>3. recorded \in Histories
    BY DEF TasksInv, CasesAreRight
  <2> DEFINE Right(s) ==
        LET misses == {i \in DOMAIN s : s[i].type = "outcome_miss"}
            missed == {o \in DOMAIN recorded : Tasks!Missed(recorded[o])}
            unserved == Tasks!Ended \ {s[i].run : i \in DOMAIN s}
            single == DOMAIN s \ misses
        IN  /\ Len(s) <= MaxCases
            /\ Tasks!Cardinality(misses) = Tasks!Min({Tasks!Cardinality(missed), MaxMisses})
            /\ \A i \in single : s[i].run \in Tasks!Ended
            /\ \A i \in single, j \in DOMAIN s : s[i].run = s[j].run => i = j
            /\ unserved # {} => Len(s) = MaxCases
  <2>4. \A S : Tasks!Cardinality(S) = Cardinality(S)
    BY TasksRanks
  <2>5. Right(Tasks!Cases)
    BY <2>3, <2>4, CasesAreComplete, Zenon
  <2>6. given # <<>> => Right(given)
    <3> HIDE DEF Right
    <3> QED BY <2>2, <2>5
  <2> QED BY <2>1, <2>6, Zenon DEF Tasks!CodeTaskIsTrue
<1>5. EvolutionInv /\ TasksInv => VerdictIsTrue
  BY <1>3, <1>4 DEF VerdictIsTrue
<1> QED BY <1>1, <1>2, <1>5, EvolutionInvHolds, PTL DEF ServicesSpec

-----------------------------------------------------------------------------
\* Names that the module of the page shares with this one.
LEMMA PageCounts ==
    /\ \A S : Page!Cardinality(S) = Cardinality(S)
    /\ \A S, R : Page!InOrder(S, R) = InOrder(S, R)
    /\ \A f : Page!Total(f) = SumOf(f)
<1>1. \A S : Page!Cardinality(S) = Cardinality(S)
  BY Zenon DEF Page!Cardinality, Cardinality
<1>2. \A S, R, x : Page!Rank(S, R, x) = Rank(S, R, x)
  BY <1>1, Zenon DEF Page!Rank, Rank
<1>3. \A S, R, k : Page!Nth(S, R, k) = Nth(S, R, k)
  BY <1>2, Zenon DEF Page!Nth, Nth
<1>4. \A S, R : Page!InOrder(S, R) = InOrder(S, R)
  BY <1>1, <1>3, Zenon DEF Page!InOrder, InOrder
<1>5. \A f : Page!Total(f) = SumOf(f)
  BY Zenon DEF SumOf, Adds, Page!Total, Page!MapThenSumSet, Page!MapThenFoldSet
<1> QED BY <1>1, <1>4, <1>5

RunRow == [status : {"none", "queued", "running", "verifying", "completed", "insufficient_evidence", "failed"},
           updated : Nat, started : Nat, live : BOOLEAN]
TaskRow == [status : {"none", "queued", "running", "retrying", "completed", "failed", "unmapped"},
            updated : Nat]
Calls == [running : Nat, queued : Nat]

\* Two rows were never changed at one time, and none after now.
RunsApart ==
  /\ \A r \in PageRun : runs[r].updated <= now /\ runs[r].started <= runs[r].updated
  /\ \A r, q \in PageRun :
       runs[r].status # "none" /\ runs[q].status # "none" /\ runs[r].updated = runs[q].updated => r = q
StepsApart ==
  /\ \A e \in Event : records[e].updated <= now /\ steps[e].updated <= now
  /\ \A e, f \in Event :
       records[e].status # "none" /\ records[f].status # "none"
         /\ records[e].updated = records[f].updated => e = f
  /\ \A e, f \in Event :
       steps[e].status # "none" /\ steps[f].status # "none" /\ steps[e].updated = steps[f].updated => e = f
  /\ \A e, f \in Event :
       records[e].status # "none" /\ steps[f].status # "none" => records[e].updated # steps[f].updated

\* The sources keep their types, and only those of the lane in view are used.
PageInv ==
  /\ now \in Nat /\ broker \in Nat
  /\ runs \in [PageRun -> RunRow]
  /\ records \in [Event -> TaskRow] /\ steps \in [Event -> TaskRow]
  /\ slots \in [Instance -> Calls]
  /\ RunsApart /\ StepsApart
  /\ lane # "research" => \A r \in PageRun : runs[r].status = "none"
  /\ lane = "research" =>
       /\ broker = 0 /\ \A e \in Event : records[e].status = "none" /\ steps[e].status = "none"
       /\ \A i \in Instance : slots[i] = Page!NoCalls

LEMMA PageStarts == Page!Init => PageInv
<1> SUFFICES ASSUME Page!Init PROVE PageInv
  OBVIOUS
<1>1. Page!NoRow \in RunRow /\ Page!NoRow.status = "none" /\ Page!NoRow.updated = 0 /\ Page!NoRow.started = 0
  BY DEF Page!NoRow, RunRow
<1>2. Page!NoTask \in TaskRow /\ Page!NoTask.status = "none" /\ Page!NoTask.updated = 0
  BY DEF Page!NoTask, TaskRow
<1>3. Page!NoCalls \in Calls
  BY DEF Page!NoCalls, Calls
<1>4. /\ now = 0 /\ broker = 0
      /\ runs \in [PageRun -> RunRow] /\ \A r \in PageRun : runs[r] = Page!NoRow
      /\ records \in [Event -> TaskRow] /\ \A e \in Event : records[e] = Page!NoTask
      /\ steps \in [Event -> TaskRow] /\ \A e \in Event : steps[e] = Page!NoTask
      /\ slots \in [Instance -> Calls] /\ \A i \in Instance : slots[i] = Page!NoCalls
  BY <1>1, <1>2, <1>3 DEF Page!Init
<1>5. RunsApart
  BY <1>1, <1>4 DEF RunsApart
<1>6. StepsApart
  BY <1>2, <1>4 DEF StepsApart
<1> QED BY <1>1, <1>2, <1>4, <1>5, <1>6 DEF PageInv

LEMMA RunMovesKeep ==
    ASSUME PageInv, NEW r \in PageRun, NEW s, Page!RunMoves(r, s) PROVE PageInv'
<1> DEFINE row == [status |-> s, updated |-> now', started |-> IF s = "running" THEN now' ELSE runs[r].started,
                   live |-> s \in {"running", "verifying"}]
<1>1. /\ now' = now + 1 /\ now \in Nat /\ lane = "research"
      /\ runs' = [runs EXCEPT ![r] = row]
      /\ UNCHANGED <<lane, records, steps, broker, slots>>
  BY DEF Page!RunMoves, PageInv
<1>2. runs[r] \in RunRow /\ runs[r].updated <= now /\ runs[r].started <= runs[r].updated
  BY DEF PageInv, RunsApart
<1>3. s \in {"none", "queued", "running", "verifying", "completed", "insufficient_evidence", "failed"} /\ s # "none"
  <2>1. s \in Page!Follows[runs[r].status]
    BY DEF Page!RunMoves
  <2> QED BY <1>2, <2>1 DEF RunRow, Page!Follows
<1>4. row.status = s /\ row.updated = now + 1 /\ row.started <= now + 1 /\ row.started \in Nat
  BY <1>1, <1>2 DEF RunRow
<1>5. row \in RunRow
  <2>1. (s \in {"running", "verifying"}) \in BOOLEAN
    OBVIOUS
  <2>2. row.started \in Nat /\ row.updated \in Nat
    BY <1>1, <1>4
  <2>3. now' \in Nat /\ (IF s = "running" THEN now' ELSE runs[r].started) \in Nat
    BY <1>1, <2>2
  <2> QED BY <1>3, <2>1, <2>3, Zenon DEF RunRow
<1> HIDE DEF row
<1>6. runs' \in [PageRun -> RunRow]
  BY <1>1, <1>5 DEF PageInv
<1>7. \A q \in PageRun : runs'[q] = IF q = r THEN row ELSE runs[q]
  BY <1>1 DEF PageInv
<1>8. \A q \in PageRun : runs[q] \in RunRow /\ runs[q].updated \in Nat /\ runs[q].started \in Nat
  BY DEF PageInv, RunRow
<1>9. RunsApart'
  <2>1. \A q \in PageRun : runs[q].updated <= now /\ runs[q].started <= runs[q].updated
    BY DEF PageInv, RunsApart
  <2>2. \A q \in PageRun : runs'[q].updated <= now' /\ runs'[q].started <= runs'[q].updated
    BY <1>1, <1>4, <1>7, <1>8, <2>1
  <2>3. \A p, q \in PageRun :
          runs'[p].status # "none" /\ runs'[q].status # "none" /\ runs'[p].updated = runs'[q].updated => p = q
    BY <1>1, <1>4, <1>7, <1>8, <2>1 DEF PageInv, RunsApart
  <2> QED BY <2>2, <2>3 DEF RunsApart
<1>10. StepsApart'
  <2>1. StepsApart /\ \A e \in Event : records[e].updated \in Nat /\ steps[e].updated \in Nat
    BY DEF PageInv, TaskRow
  <2> QED BY <1>1, <2>1 DEF StepsApart
<1> QED BY <1>1, <1>6, <1>9, <1>10 DEF PageInv

LEMMA LapseKeeps ==
    ASSUME PageInv, NEW r \in PageRun, Page!LeaseLapses(r) PROVE PageInv'
<1> DEFINE row == [runs[r] EXCEPT !.live = FALSE]
<1>1. runs' = [runs EXCEPT ![r] = row] /\ UNCHANGED <<lane, now, records, steps, broker, slots>>
  BY DEF Page!LeaseLapses
<1>2. runs[r] \in RunRow
  BY DEF PageInv
<1>3. row \in RunRow /\ row.status = runs[r].status /\ row.updated = runs[r].updated
      /\ row.started = runs[r].started
  BY <1>2 DEF RunRow
<1> HIDE DEF row
<1>4. runs' \in [PageRun -> RunRow]
  BY <1>1, <1>3 DEF PageInv
<1>5. \A q \in PageRun : runs'[q] = IF q = r THEN row ELSE runs[q]
  BY <1>1 DEF PageInv
<1>6. \A q \in PageRun : runs'[q].status = runs[q].status /\ runs'[q].updated = runs[q].updated
        /\ runs'[q].started = runs[q].started
  BY <1>3, <1>5
<1>7. RunsApart'
  BY <1>1, <1>6 DEF PageInv, RunsApart
<1>8. StepsApart'
  BY <1>1 DEF PageInv, StepsApart
<1> QED BY <1>1, <1>4, <1>6, <1>7, <1>8 DEF PageInv

LEMMA RecordMovesKeep ==
    ASSUME PageInv, NEW e \in Event, NEW s, Page!RecordMoves(e, s) PROVE PageInv'
<1> DEFINE row == [status |-> s, updated |-> now']
<1>1. /\ now' = now + 1 /\ now \in Nat /\ lane = "assist"
      /\ records' = [records EXCEPT ![e] = row]
      /\ UNCHANGED <<lane, runs, steps, broker, slots>>
      /\ s \in {"queued", "running", "retrying", "completed", "failed"}
  BY DEF Page!RecordMoves, PageInv
<1>2. row \in TaskRow /\ row.updated = now + 1
  BY <1>1 DEF TaskRow
<1> HIDE DEF row
<1>3. records' \in [Event -> TaskRow] /\ \A f \in Event : records'[f] = IF f = e THEN row ELSE records[f]
  BY <1>1, <1>2 DEF PageInv
<1>4. \A f \in Event : records[f].updated \in Nat /\ steps[f].updated \in Nat
  BY DEF PageInv, TaskRow
<1>5. StepsApart'
  BY <1>1, <1>2, <1>3, <1>4 DEF PageInv, StepsApart
<1>6. RunsApart'
  <2>1. \A q \in PageRun : runs[q].updated \in Nat
    BY DEF PageInv, RunRow
  <2> QED BY <1>1, <2>1 DEF PageInv, RunsApart
<1> QED BY <1>1, <1>3, <1>5, <1>6 DEF PageInv

LEMMA StepMovesKeep ==
    ASSUME PageInv, NEW e \in Event, NEW s, Page!StepMoves(e, s) PROVE PageInv'
<1> DEFINE row == [status |-> s, updated |-> now']
<1>1. /\ now' = now + 1 /\ now \in Nat /\ lane = "assist"
      /\ steps' = [steps EXCEPT ![e] = row]
      /\ UNCHANGED <<lane, runs, records, broker, slots>>
      /\ s \in {"queued", "running", "unmapped", "failed"}
  BY DEF Page!StepMoves, PageInv
<1>2. row \in TaskRow /\ row.updated = now + 1
  BY <1>1 DEF TaskRow
<1> HIDE DEF row
<1>3. steps' \in [Event -> TaskRow] /\ \A f \in Event : steps'[f] = IF f = e THEN row ELSE steps[f]
  BY <1>1, <1>2 DEF PageInv
<1>4. \A f \in Event : records[f].updated \in Nat /\ steps[f].updated \in Nat
  BY DEF PageInv, TaskRow
<1>5. StepsApart'
  BY <1>1, <1>2, <1>3, <1>4 DEF PageInv, StepsApart
<1>6. RunsApart'
  <2>1. \A q \in PageRun : runs[q].updated \in Nat
    BY DEF PageInv, RunRow
  <2> QED BY <1>1, <2>1 DEF PageInv, RunsApart
<1> QED BY <1>1, <1>3, <1>5, <1>6 DEF PageInv

\* The broker and the slots have no rows.
LEMMA CountsMoveKeep ==
    ASSUME PageInv, lane = "assist", now' = now + 1, UNCHANGED <<lane, runs, records, steps>>,
           broker' \in Nat, slots' \in [Instance -> Calls]
    PROVE  PageInv'
<1>1. now \in Nat /\ \A q \in PageRun : runs[q].updated \in Nat
  BY DEF PageInv, RunRow
<1>2. \A f \in Event : records[f].updated \in Nat /\ steps[f].updated \in Nat
  BY DEF PageInv, TaskRow
<1>3. RunsApart'
  BY <1>1 DEF PageInv, RunsApart
<1>4. StepsApart'
  BY <1>1, <1>2 DEF PageInv, StepsApart
<1> QED BY <1>1, <1>3, <1>4 DEF PageInv

\* The invariant is kept by every step.
LEMMA PageKeeps == ASSUME PageInv, [Page!Next]_viewVars PROVE PageInv'
<1>1. ASSUME NEW i \in Instance, NEW k \in 0 .. 1, NEW n \in 0 .. 1, Page!CallsMove(i, k, n) PROVE PageInv'
  <2>1. slots' = [slots EXCEPT ![i] = [running |-> k, queued |-> n]] /\ broker' = broker
        /\ lane = "assist" /\ now' = now + 1 /\ UNCHANGED <<lane, runs, records, steps>>
    BY <1>1 DEF Page!CallsMove
  <2>2. [running |-> k, queued |-> n] \in Calls
    BY DEF Calls
  <2>3. slots' \in [Instance -> Calls] /\ broker' \in Nat
    BY <2>1, <2>2 DEF PageInv
  <2> QED BY <2>1, <2>3, CountsMoveKeep
<1>2. ASSUME NEW n \in 0 .. 2, Page!BrokerMoves(n) PROVE PageInv'
  <2>1. slots' = slots /\ broker' = n /\ lane = "assist" /\ now' = now + 1
        /\ UNCHANGED <<lane, runs, records, steps>>
    BY <1>2 DEF Page!BrokerMoves
  <2>2. slots' \in [Instance -> Calls] /\ broker' \in Nat
    BY <2>1 DEF PageInv
  <2> QED BY <2>1, <2>2, CountsMoveKeep
<1>3. CASE UNCHANGED viewVars
  BY <1>3 DEF PageInv, viewVars, RunsApart, StepsApart
<1> QED BY <1>1, <1>2, <1>3, RunMovesKeep, LapseKeeps, RecordMovesKeep, StepMovesKeep DEF Page!Next

-----------------------------------------------------------------------------
\* The greater of two numbers.
LEMMA PageMax ==
    ASSUME NEW a \in Int, NEW b \in Int
    PROVE  Page!Max({a, b}) \in {a, b} /\ Page!Max({a, b}) >= a /\ Page!Max({a, b}) >= b
<1>1. \E x \in {a, b} : \A y \in {a, b} : x >= y
  OBVIOUS
<1> QED BY <1>1 DEF Page!Max

\* The least of two numbers.
LEMMA PageMin ==
    ASSUME NEW a \in Int, NEW b \in Int
    PROVE  Page!Min({a, b}) \in {a, b} /\ Page!Min({a, b}) <= a /\ Page!Min({a, b}) <= b
<1>1. \E x \in {a, b} : \A y \in {a, b} : x <= y
  OBVIOUS
<1> QED BY <1>1 DEF Page!Min

AtWork == {"queued", "running", "verifying"}
Over == {"failed", "completed", "insufficient_evidence"}

\* What the page makes of a run.
RunTask(r) ==
  IF r \in Page!ActiveRuns THEN Page!Task("asset", <<"asset", r>>, AssetOf[r], runs[r], 0)
  ELSE Page!Task("asset", <<"run", r>>, AssetOf[r], runs[r], Page!TimeTaken(runs[r]))

LEMMA RunTaskSays ==
    ASSUME NEW r
    PROVE  /\ RunTask(r).entity = AssetOf[r] /\ RunTask(r).status = runs[r].status
           /\ RunTask(r).updated = runs[r].updated /\ RunTask(r).id[2] = r
           /\ r \notin Page!ActiveRuns => RunTask(r).took = Page!TimeTaken(runs[r])
BY DEF RunTask, Page!Task

\* A run at work is not over.
LEMMA RunsAre ==
    ASSUME PageInv
    PROVE  /\ \A r \in Page!ActiveRuns : r \in PageRun /\ runs[r].status \in AtWork
           /\ \A r \in Page!EndedRuns : r \in PageRun /\ runs[r].status \in Over /\ r \notin Page!ActiveRuns
BY DEF PageInv, RunRow, Page!ActiveRuns, Page!EndedRuns, AtWork, Over, Page!FailedStatus, Page!CompletedStatus

\* An asset at work has a run that is ahead of its others.
LEMMA RepresentativeIsThere ==
    ASSUME PageInv, NEW p \in Page!ActiveRuns
    PROVE  LET r == Page!Representative(AssetOf[p])
           IN  r \in Page!ActiveRuns /\ AssetOf[r] = AssetOf[p]
<1> DEFINE S == {q \in Page!ActiveRuns : AssetOf[q] = AssetOf[p]}
           P(q) == Page!Progress[runs[q].status]
           degrees == {P(q) : q \in S}
<1>1. \A q \in S : runs[q].status \in AtWork /\ runs[q].updated \in 0 .. now
  BY RunsAre DEF PageInv, RunRow, RunsApart
<1>2. \A q \in S : P(q) \in 0 .. 3
  BY <1>1 DEF AtWork, Page!Progress
<1>3. \A q, t \in S : P(q) = P(t) => runs[q].status = runs[t].status
  BY <1>1 DEF AtWork, Page!Progress
<1>4. degrees # {} /\ \A x \in degrees : x \in 0 .. 3
  BY <1>2
<1>5. PICK m \in degrees : \A x \in degrees : x <= m
  <2> HIDE DEF degrees
  <2> QED BY <1>4, GreatestExists
<1> DEFINE F == {q \in S : P(q) = m}
           times == {runs[q].updated : q \in F}
<1>6. now \in Nat
  BY DEF PageInv
<1>7. times # {} /\ \A x \in times : x \in 0 .. now
  BY <1>1, <1>5
<1>8. PICK n \in times : \A x \in times : x <= n
  <2> HIDE DEF times
  <2> QED BY <1>6, <1>7, GreatestExists
<1>9. PICK r \in S : P(r) = m /\ runs[r].updated = n
  BY <1>8
<1>10. \A q \in S : \/ P(q) < P(r)
                    \/ runs[q].status = runs[r].status /\ runs[q].updated <= runs[r].updated
  <2> SUFFICES ASSUME NEW q \in S, ~(P(q) < P(r))
               PROVE  runs[q].status = runs[r].status /\ runs[q].updated <= runs[r].updated
    OBVIOUS
  <2>1. P(q) <= m /\ P(q) \in Int /\ m \in Int
    BY <1>2, <1>4, <1>5
  <2>2. P(q) = P(r)
    BY <1>9, <2>1
  <2>3. q \in F
    BY <1>9, <2>2
  <2>4. runs[q].updated <= n
    BY <1>8, <2>3
  <2> QED BY <1>3, <1>9, <2>2, <2>4
<1> DEFINE Leads(x) ==
             \A q \in S :
               \/ P(q) < P(x)
               \/ runs[q].status = runs[x].status /\ runs[q].updated <= runs[x].updated
<1>11. Page!Representative(AssetOf[p]) = CHOOSE x \in S : Leads(x)
  BY Zenon DEF Page!Representative
<1> HIDE DEF S, P, F, times, degrees
<1>12. Leads(r)
  BY <1>10
<1> HIDE DEF Leads
<1>13. Page!Representative(AssetOf[p]) \in S
  BY <1>9, <1>11, <1>12
<1> QED BY <1>13 DEF S

\* The tasks of the research lane are those of the runs that lead or are over.
LEMMA ResearchTasksAre ==
    ASSUME PageInv, lane = "research"
    PROVE  /\ \A t \in Page!Tasks : \E r \in PageRun :
                /\ t = RunTask(r)
                /\ \/ r \in Page!EndedRuns
                   \/ r \in Page!ActiveRuns /\ r = Page!Representative(AssetOf[r])
           /\ \A r \in Page!EndedRuns : RunTask(r) \in Page!Tasks
           /\ \A r \in Page!ActiveRuns : RunTask(Page!Representative(AssetOf[r])) \in Page!Tasks
<1> DEFINE lead(a) == Page!Task("asset", <<"asset", Page!Representative(a)>>, a,
                                runs[Page!Representative(a)], 0)
           over(r) == Page!Task("asset", <<"run", r>>, AssetOf[r], runs[r], Page!TimeTaken(runs[r]))
<1>1. Page!Tasks = {lead(a) : a \in {AssetOf[q] : q \in Page!ActiveRuns}}
                     \union {over(r) : r \in Page!EndedRuns}
  BY DEF Page!Tasks, Page!ResearchTasks
<1>2. \A r \in Page!EndedRuns : r \in PageRun /\ over(r) = RunTask(r)
  BY RunsAre DEF RunTask
<1>3. \A q \in Page!ActiveRuns :
        LET r == Page!Representative(AssetOf[q])
        IN  /\ r \in Page!ActiveRuns /\ r \in PageRun /\ AssetOf[r] = AssetOf[q]
            /\ lead(AssetOf[q]) = RunTask(r)
  BY RepresentativeIsThere, RunsAre DEF RunTask
<1> HIDE DEF lead, over
<1> QED BY <1>1, <1>2, <1>3

\* What the page makes of a record and of a step.
RecordTask(e) == Page!Task("mapping", <<"record", e>>, e, records[e], 0)

\* A task is at work or over, and no two were changed at one time.
Shows(s) == s \in AtWork \union Over \union {"retrying", "unmapped"}

LEMMA MappingTasksAre ==
    ASSUME PageInv, lane # "research"
    PROVE  /\ \A t \in Page!Tasks : \E e \in Event :
                \/ t = RecordTask(e) /\ records[e].status # "none"
                \/ t = Page!StepTask(e) /\ steps[e].status # "none"
           /\ \A e \in Event : records[e].status \in Page!ActiveStatus => RecordTask(e) \in Page!Tasks
           /\ \A e \in Event : steps[e].status \in Page!ActiveStatus /\ records[e].status = "none" =>
                Page!StepTask(e) \in Page!Tasks
<1> DEFINE known(f) == records[f].status # "none"
                       /\ (records[f].status \in Page!ActiveStatus \/ Page!Recent(records[f].updated))
           seen(f) == /\ steps[f].status # "none"
                      /\ steps[f].status \in Page!ActiveStatus \/ Page!Recent(steps[f].updated)
                      /\ ~known(f)
<1>1. Page!Tasks = {RecordTask(e) : e \in {f \in Event : known(f)}}
                     \union {Page!StepTask(e) : e \in {f \in Event : seen(f)}}
  BY DEF Page!Tasks, Page!MappingTasks, RecordTask
<1>2. \A f \in Event : records[f].status \in Page!ActiveStatus => known(f)
  BY DEF Page!ActiveStatus, Page!Queued, Page!Running
<1>3. \A f \in Event : steps[f].status \in Page!ActiveStatus /\ records[f].status = "none" => seen(f)
  BY DEF Page!ActiveStatus, Page!Queued, Page!Running
<1>4. \A f \in Event : (known(f) => records[f].status # "none") /\ (seen(f) => steps[f].status # "none")
  OBVIOUS
<1> HIDE DEF known, seen
<1> QED BY <1>1, <1>2, <1>3, <1>4

LEMMA StepTaskSays ==
    ASSUME PageInv, NEW e \in Event
    PROVE  /\ RecordTask(e).entity = e /\ RecordTask(e).status = records[e].status
           /\ RecordTask(e).updated = records[e].updated
           /\ Page!StepTask(e).entity = e /\ Page!StepTask(e).updated = steps[e].updated
           /\ Page!StepTask(e).status = IF steps[e].status = "unmapped" THEN "completed" ELSE steps[e].status
<1>1. steps[e] \in TaskRow
  BY DEF PageInv
<1> QED BY <1>1 DEF RecordTask, Page!StepTask, Page!Task, TaskRow

LEMMA TasksDiffer ==
    ASSUME PageInv
    PROVE  /\ \A t \in Page!Tasks : t.updated \in Nat /\ Shows(t.status)
           /\ \A t, u \in Page!Tasks : t.updated = u.updated => t = u
<1>1. CASE lane = "research"
  <2>1. \A t \in Page!Tasks : \E r \in PageRun : t = RunTask(r) /\ runs[r].status \in AtWork \union Over
    BY <1>1, ResearchTasksAre, RunsAre
  <2>2. \A r \in PageRun : runs[r].updated \in Nat
    BY DEF PageInv, RunRow
  <2>3. \A r, q \in PageRun : runs[r].status \in AtWork \union Over /\ runs[q].status \in AtWork \union Over
          /\ runs[r].updated = runs[q].updated => r = q
    BY DEF PageInv, RunsApart, AtWork, Over
  <2> QED BY <2>1, <2>2, <2>3, RunTaskSays DEF Shows
<1>2. CASE lane # "research"
  <2>1. \A t \in Page!Tasks : \E e \in Event :
          \/ t = RecordTask(e) /\ records[e].status # "none"
          \/ t = Page!StepTask(e) /\ steps[e].status # "none"
    BY <1>2, MappingTasksAre
  <2>2. \A e \in Event : /\ records[e].updated \in Nat /\ steps[e].updated \in Nat
                         /\ records[e].status # "none" => Shows(RecordTask(e).status)
                         /\ steps[e].status # "none" => Shows(Page!StepTask(e).status)
    <3> SUFFICES ASSUME NEW e \in Event
                 PROVE  /\ records[e].updated \in Nat /\ steps[e].updated \in Nat
                        /\ records[e].status # "none" => Shows(RecordTask(e).status)
                        /\ steps[e].status # "none" => Shows(Page!StepTask(e).status)
      OBVIOUS
    <3>1. records[e] \in TaskRow /\ steps[e] \in TaskRow
      BY DEF PageInv
    <3>2. RecordTask(e).status = records[e].status
          /\ Page!StepTask(e).status = IF steps[e].status = "unmapped" THEN "completed" ELSE steps[e].status
      BY StepTaskSays
    <3>3. records[e].updated \in Nat /\ steps[e].updated \in Nat
      BY <3>1 DEF TaskRow
    <3>4. /\ records[e].status \in {"none", "queued", "running", "retrying", "completed", "failed", "unmapped"}
          /\ steps[e].status \in {"none", "queued", "running", "retrying", "completed", "failed", "unmapped"}
      BY <3>1 DEF TaskRow
    <3> QED BY <3>2, <3>3, <3>4 DEF Shows, AtWork, Over
  <2>3. \A t \in Page!Tasks : t.updated \in Nat /\ Shows(t.status)
    BY <2>1, <2>2, StepTaskSays
  <2>4. \A t, u \in Page!Tasks : t.updated = u.updated => t = u
    <3> SUFFICES ASSUME NEW t \in Page!Tasks, NEW u \in Page!Tasks, t.updated = u.updated PROVE t = u
      OBVIOUS
    <3>1. PICK e \in Event : \/ t = RecordTask(e) /\ records[e].status # "none"
                             \/ t = Page!StepTask(e) /\ steps[e].status # "none"
      BY <2>1
    <3>2. PICK f \in Event : \/ u = RecordTask(f) /\ records[f].status # "none"
                             \/ u = Page!StepTask(f) /\ steps[f].status # "none"
      BY <2>1
    <3>3. StepsApart
      BY DEF PageInv
    <3> QED BY <3>1, <3>2, <3>3, StepTaskSays DEF StepsApart
  <2> QED BY <2>3, <2>4
<1> QED BY <1>1, <1>2

\* There are finitely many.
LEMMA TasksAreFinite == ASSUME PageInv PROVE IsFiniteSet(Page!Tasks)
<1>1. ASSUME NEW U, IsFiniteSet(U), NEW W, NEW f, f \in Surjection(U, W) PROVE IsFiniteSet(W)
  BY <1>1, FS_Surjection
<1>2. CASE lane = "research"
  <2> DEFINE W == {RunTask(r) : r \in PageRun}
             f == [r \in PageRun |-> RunTask(r)]
  <2>1. f \in Surjection(PageRun, W)
    BY DEF Surjection
  <2>2. IsFiniteSet(W)
    <3> HIDE DEF f, W
    <3> QED BY <1>1, <2>1, PageAssumption
  <2>3. Page!Tasks \subseteq W
    BY <1>2, ResearchTasksAre
  <2> HIDE DEF W
  <2> QED BY <2>2, <2>3, FS_Subset
<1>3. CASE lane # "research"
  <2> DEFINE W == {RecordTask(e) : e \in Event}
             X == {Page!StepTask(e) : e \in Event}
             f == [e \in Event |-> RecordTask(e)]
             g == [e \in Event |-> Page!StepTask(e)]
  <2>1. f \in Surjection(Event, W) /\ g \in Surjection(Event, X)
    BY DEF Surjection
  <2>2. IsFiniteSet(W) /\ IsFiniteSet(X)
    <3> HIDE DEF f, W, g, X
    <3> QED BY <1>1, <2>1, PageAssumption
  <2>3. Page!Tasks \subseteq W \union X
    BY <1>3, MappingTasksAre
  <2> HIDE DEF W, X
  <2> QED BY <2>2, <2>3, FS_Union, FS_Subset
<1> QED BY <1>2, <1>3

-----------------------------------------------------------------------------
\* What the lane has to show: failures and what is at work or waits.
Visible == {t \in Page!Tasks : t.status \in Page!ActiveStatus \union Page!FailedStatus}
SoonerOf == {p \in Visible \X Visible : Page!Sooner(p[1], p[2])}

LEMMA VisibleTasks ==
    ASSUME PageInv
    PROVE  /\ IsFiniteSet(Visible) /\ Visible \subseteq Page!Tasks
           /\ \A t \in Visible :
                \/ t.status \in Page!ActiveStatus /\ t.status \notin Page!FailedStatus /\ Page!Priority(t) \in 0 .. 2
                \/ t.status \in Page!FailedStatus /\ t.status \notin Page!ActiveStatus /\ Page!Priority(t) = 3
<1>1. Visible \subseteq Page!Tasks
  BY DEF Visible
<1>2. IsFiniteSet(Visible)
  BY <1>1, TasksAreFinite, FS_Subset
<1>3. ASSUME NEW t \in Visible
      PROVE  \/ t.status \in Page!ActiveStatus /\ t.status \notin Page!FailedStatus /\ Page!Priority(t) \in 0 .. 2
             \/ t.status \in Page!FailedStatus /\ t.status \notin Page!ActiveStatus /\ Page!Priority(t) = 3
  <2>1. t.status \in Page!ActiveStatus \union Page!FailedStatus
    BY DEF Visible
  <2>2. CASE t.status \in Page!Running
    BY <2>2 DEF Page!Priority, Page!ActiveStatus, Page!FailedStatus, Page!Running, Page!Queued
  <2>3. CASE t.status \in {"retrying", "verifying"}
    BY <2>3 DEF Page!Priority, Page!ActiveStatus, Page!FailedStatus, Page!Running, Page!Queued
  <2>4. CASE t.status \in Page!Queued
    BY <2>4 DEF Page!Priority, Page!ActiveStatus, Page!FailedStatus, Page!Running, Page!Queued
  <2>5. CASE t.status \in Page!FailedStatus
    BY <2>5 DEF Page!Priority, Page!ActiveStatus, Page!FailedStatus, Page!Running, Page!Queued
  <2> QED BY <2>1, <2>2, <2>3, <2>4, <2>5 DEF Page!ActiveStatus
<1> QED BY <1>1, <1>2, <1>3

\* The tasks of a lane stand in one order.
LEMMA SoonerOrders == ASSUME PageInv PROVE Orders(SoonerOf, Visible)
<1> DEFINE pr(t) == Page!Priority(t)
           fails(t) == t.status \in Page!FailedStatus
           sooner(t, u) == Page!Sooner(t, u)
<1>1. \A t \in Visible : pr(t) \in Int /\ t.updated \in Int /\ (fails(t) <=> pr(t) = 3)
  BY VisibleTasks, TasksDiffer
<1>2. \A t, u \in Visible : t.updated = u.updated => t = u
  BY VisibleTasks, TasksDiffer
<1>3. \A t, u \in Visible : sooner(t, u) <=>
        \/ pr(t) < pr(u)
        \/ pr(t) = pr(u) /\ t # u /\ fails(t) /\ t.updated > u.updated
        \/ pr(t) = pr(u) /\ t # u /\ ~fails(t) /\ t.updated < u.updated
  BY DEF Page!Sooner
<1>4. \A t, u \in Visible : <<t, u>> \in SoonerOf <=> sooner(t, u)
  BY DEF SoonerOf
<1> HIDE DEF pr, fails, sooner
<1>5. \A t \in Visible : ~sooner(t, t)
  BY <1>1, <1>3
<1>6. \A t, u, v \in Visible : sooner(t, u) /\ sooner(u, v) => sooner(t, v)
  <2> SUFFICES ASSUME NEW t \in Visible, NEW u \in Visible, NEW v \in Visible, sooner(t, u), sooner(u, v)
               PROVE  sooner(t, v)
    OBVIOUS
  <2>1. /\ pr(t) \in Int /\ t.updated \in Int /\ (fails(t) <=> pr(t) = 3)
        /\ pr(u) \in Int /\ u.updated \in Int /\ (fails(u) <=> pr(u) = 3)
        /\ pr(v) \in Int /\ v.updated \in Int /\ (fails(v) <=> pr(v) = 3)
    BY <1>1
  <2>2. CASE pr(t) < pr(u) \/ pr(u) < pr(v)
    BY <1>3, <2>1, <2>2
  <2>3. CASE pr(t) = pr(u) /\ pr(u) = pr(v)
    <3>1. (fails(t) /\ t.updated > v.updated) \/ (~fails(t) /\ t.updated < v.updated)
      BY <1>3, <2>1, <2>3
    <3> QED BY <1>3, <2>1, <2>3, <3>1
  <2> QED BY <1>3, <2>2, <2>3
<1>7. \A t, u \in Visible : t = u \/ sooner(t, u) \/ sooner(u, t)
  BY <1>1, <1>2, <1>3
<1> QED BY <1>4, <1>5, <1>6, <1>7 DEF Orders

\* Sorted has each of them once, and one before another that is later.
LEMMA SortedHolds ==
    ASSUME PageInv
    PROVE  LET n == Cardinality(Visible)
               s == Page!Sorted
           IN  /\ n \in Nat /\ DOMAIN s = 1 .. n
               /\ \A k \in 1 .. n : s[k] \in Visible
               /\ \A t \in Visible : \E k \in 1 .. n : t = s[k]
               /\ \A j, k \in 1 .. n : j < k <=> <<s[j], s[k]>> \in SoonerOf
<1>1. Page!Sorted = InOrder(Visible, SoonerOf)
  BY PageCounts, Zenon DEF Page!Sorted, Visible, SoonerOf
<1>2. Page!Sorted = [k \in 1 .. Cardinality(Visible) |-> Nth(Visible, SoonerOf, k)]
  BY <1>1 DEF InOrder
<1>3. /\ Cardinality(Visible) \in Nat
      /\ \A k \in 1 .. Cardinality(Visible) : Nth(Visible, SoonerOf, k) \in Visible
      /\ \A x \in Visible : \E k \in 1 .. Cardinality(Visible) : x = Nth(Visible, SoonerOf, k)
      /\ \A j, k \in 1 .. Cardinality(Visible) :
           j < k <=> <<Nth(Visible, SoonerOf, j), Nth(Visible, SoonerOf, k)>> \in SoonerOf
  BY SoonerOrders, VisibleTasks, PlacesTaken
<1> QED BY <1>2, <1>3

\* A card is a task that is not made up for, the first of its asset that is not.
LEMMA CardsAre ==
    ASSUME PageInv, NEW t
    PROVE  t \in Page!Cards <=>
             /\ t \in Visible
             /\ lane = "research" =>
                  /\ ~Page!Superseded(t)
                  /\ \A u \in Visible : <<u, t>> \in SoonerOf /\ u.entity = t.entity => Page!Superseded(u)
<1> DEFINE n == Cardinality(Visible)
           s == Page!Sorted
           stands(i) == /\ \A j \in 1 .. i - 1 : s[j].entity = s[i].entity => Page!Superseded(s[j])
                       /\ ~Page!Superseded(s[i])
           first(u) == \A v \in Visible : <<v, u>> \in SoonerOf /\ v.entity = u.entity => Page!Superseded(v)
<1>1. Page!Cards = {s[i] : i \in {j \in DOMAIN s : lane = "research" => stands(j)}}
  BY Zenon DEF Page!Cards
<1>2. /\ n \in Nat /\ DOMAIN s = 1 .. n
      /\ \A k \in 1 .. n : s[k] \in Visible
      /\ \A u \in Visible : \E k \in 1 .. n : u = s[k]
      /\ \A j, k \in 1 .. n : j < k <=> <<s[j], s[k]>> \in SoonerOf
  BY SortedHolds
<1>3. ASSUME NEW i \in 1 .. n PROVE stands(i) <=> ~Page!Superseded(s[i]) /\ first(s[i])
  <2>1. ASSUME stands(i), NEW v \in Visible, <<v, s[i]>> \in SoonerOf, v.entity = s[i].entity
        PROVE  Page!Superseded(v)
    <3>1. PICK j \in 1 .. n : v = s[j]
      BY <1>2
    <3>2. j < i
      BY <1>2, <2>1, <3>1
    <3>3. j \in 1 .. i - 1
      BY <1>2, <3>2
    <3> HIDE DEF s
    <3> QED BY <2>1, <3>1, <3>3
  <2>2. ASSUME first(s[i]), NEW j \in 1 .. i - 1, s[j].entity = s[i].entity PROVE Page!Superseded(s[j])
    <3>1. j \in 1 .. n /\ j < i
      BY <1>2
    <3>2. s[j] \in Visible /\ <<s[j], s[i]>> \in SoonerOf
      BY <1>2, <3>1
    <3> HIDE DEF s
    <3> QED BY <2>2, <3>2
  <2>3. stands(i) => first(s[i])
    BY <2>1
  <2>4. first(s[i]) => \A j \in 1 .. i - 1 : s[j].entity = s[i].entity => Page!Superseded(s[j])
    BY <2>2
  <2> HIDE DEF s, first
  <2> QED BY <2>3, <2>4
<1> HIDE DEF n, s, stands, first
<1>4. t \in Page!Cards <=> t \in Visible /\ (lane = "research" => ~Page!Superseded(t) /\ first(t))
  BY <1>1, <1>2, <1>3
<1> QED BY <1>4 DEF first

-----------------------------------------------------------------------------
EndedOf(a) == {r \in Page!EndedRuns : AssetOf[r] = a}
LastOf(a) == CHOOSE r \in EndedOf(a) : \A q \in EndedOf(a) : runs[q].updated <= runs[r].updated

\* An asset with runs that are over has a last one.
LEMMA LastIs ==
    ASSUME PageInv, NEW a, EndedOf(a) # {}
    PROVE  LastOf(a) \in EndedOf(a) /\ \A q \in EndedOf(a) : runs[q].updated <= runs[LastOf(a)].updated
<1> DEFINE times == {runs[q].updated : q \in EndedOf(a)}
<1>1. \A q \in EndedOf(a) : q \in PageRun
  BY RunsAre DEF EndedOf
<1>2. now \in Nat /\ times # {} /\ \A x \in times : x \in 0 .. now
  BY <1>1 DEF PageInv, RunRow, RunsApart
<1>3. PICK n \in times : \A x \in times : x <= n
  <2> HIDE DEF times
  <2> QED BY <1>2, GreatestExists
<1>4. \E r \in EndedOf(a) : \A q \in EndedOf(a) : runs[q].updated <= runs[r].updated
  BY <1>3
<1> QED BY <1>4, Zenon DEF LastOf

\* A failure is made up for when the last run of its asset went through.
LEMMA MadeUp ==
    ASSUME PageInv, lane = "research", NEW t \in Visible
    PROVE  /\ Page!Superseded(t) => t.status \in Page!FailedStatus
           /\ t.status \in Page!FailedStatus =>
                /\ EndedOf(t.entity) # {}
                /\ Page!Superseded(t) <=> runs[LastOf(t.entity)].status # "failed"
<1> DEFINE a == t.entity
           over == {u \in Page!Tasks : u.entity = a
                                       /\ u.status \in Page!FailedStatus \union Page!CompletedStatus}
<1>1. Page!Superseded(t) => t.status \in Page!FailedStatus
  BY DEF Page!Superseded
<1> SUFFICES ASSUME t.status \in Page!FailedStatus
             PROVE  EndedOf(a) # {} /\ (Page!Superseded(t) <=> runs[LastOf(a)].status # "failed")
  BY <1>1
<1>2. \A u : u \in over <=> \E r \in EndedOf(a) : u = RunTask(r)
  <2>1. ASSUME NEW u \in over PROVE \E r \in EndedOf(a) : u = RunTask(r)
    <3>1. PICK r \in PageRun : /\ u = RunTask(r)
                               /\ \/ r \in Page!EndedRuns
                                  \/ r \in Page!ActiveRuns /\ r = Page!Representative(AssetOf[r])
      BY ResearchTasksAre
    <3>2. runs[r].status \in Page!FailedStatus \union Page!CompletedStatus /\ AssetOf[r] = a
      BY <3>1, RunTaskSays
    <3>3. r \notin Page!ActiveRuns
      BY <3>2, RunsAre DEF AtWork, Page!FailedStatus, Page!CompletedStatus
    <3> QED BY <3>1, <3>2, <3>3 DEF EndedOf
  <2>2. ASSUME NEW r \in EndedOf(a) PROVE RunTask(r) \in over
    BY ResearchTasksAre, RunTaskSays DEF EndedOf, Page!EndedRuns
  <2> HIDE DEF over
  <2> QED BY <2>1, <2>2
<1>3. t \in over
  BY VisibleTasks
<1> HIDE DEF over
<1>4. EndedOf(a) # {}
  BY <1>2, <1>3
<1> DEFINE l == LastOf(a)
<1>5. l \in EndedOf(a) /\ \A q \in EndedOf(a) : runs[q].updated <= runs[l].updated
  BY <1>4, LastIs
<1>6. \A q \in EndedOf(a) : q \in PageRun /\ runs[q].status \in Over /\ runs[q].updated \in Nat
  BY RunsAre DEF EndedOf, PageInv, RunRow
<1> HIDE DEF l
<1>7. Page!LatestEnded(a) = {RunTask(l)}
  <2>1. Page!LatestEnded(a) = {u \in over : \A v \in over : v.updated <= u.updated}
    BY DEF Page!LatestEnded, over
  <2>2. ASSUME NEW u \in over, \A v \in over : v.updated <= u.updated PROVE u = RunTask(l)
    <3>1. PICK r \in EndedOf(a) : u = RunTask(r)
      BY <1>2
    <3>2. runs[l].updated <= runs[r].updated
      BY <1>2, <1>5, <2>2, <3>1, RunTaskSays
    <3>3. runs[l].updated = runs[r].updated
      BY <1>5, <1>6, <3>2
    <3>4. r = l
      BY <1>5, <1>6, <3>3 DEF PageInv, RunsApart, Over
    <3> QED BY <3>1, <3>4
  <2>3. RunTask(l) \in over /\ \A v \in over : v.updated <= RunTask(l).updated
    BY <1>2, <1>5, RunTaskSays
  <2> QED BY <2>1, <2>2, <2>3
<1>8. Page!Superseded(t) <=> runs[l].status \in Page!CompletedStatus
  BY <1>7, RunTaskSays DEF Page!Superseded
<1>9. runs[l].status \in Page!CompletedStatus <=> runs[l].status # "failed"
  BY <1>5, <1>6 DEF Over, Page!CompletedStatus
<1> QED BY <1>4, <1>8, <1>9 DEF l

\* Of the visible tasks of an asset one comes first.
LEMMA FirstStands ==
    ASSUME PageInv, NEW t \in Visible
    PROVE  \E u \in Visible : /\ u.entity = t.entity
                              /\ \A v \in Visible : v.entity = t.entity => v = u \/ <<u, v>> \in SoonerOf
<1> DEFINE n == Cardinality(Visible)
           s == Page!Sorted
           K == {k \in 1 .. n : s[k].entity = t.entity}
<1>1. /\ n \in Nat
      /\ \A k \in 1 .. n : s[k] \in Visible
      /\ \A u \in Visible : \E k \in 1 .. n : u = s[k]
      /\ \A j, k \in 1 .. n : j < k <=> <<s[j], s[k]>> \in SoonerOf
  BY SortedHolds
<1> HIDE DEF n, s
<1>2. K \subseteq Nat /\ K # {}
  BY <1>1
<1>3. PICK k \in K : \A j \in K : k <= j
  <2> HIDE DEF K
  <2> QED BY <1>2, LeastExists
<1>4. ASSUME NEW v \in Visible, v.entity = t.entity PROVE v = s[k] \/ <<s[k], v>> \in SoonerOf
  <2>1. PICK j \in 1 .. n : v = s[j]
    BY <1>1
  <2>2. j \in K
    BY <1>4, <2>1
  <2>3. k <= j /\ k \in 1 .. n
    BY <1>3, <2>2
  <2>4. k < j \/ k = j
    BY <1>1, <2>3
  <2> QED BY <1>1, <2>1, <2>3, <2>4
<1>5. s[k] \in Visible /\ s[k].entity = t.entity
  BY <1>1, <1>3
<1> QED BY <1>4, <1>5

CardsOf(a) == {t \in Page!Cards : t.entity = a}

\* An asset has one card: of its run at work, or else of a failure that stands.
LEMMA OneCard ==
    ASSUME PageInv, lane = "research", NEW a
    PROVE  IF \E r \in Page!ActiveRuns : AssetOf[r] = a
           THEN \E t : CardsOf(a) = {t} /\ t.status \in Page!ActiveStatus
           ELSE IF EndedOf(a) # {} /\ runs[LastOf(a)].status = "failed"
                THEN \E t : CardsOf(a) = {t} /\ t.status = "failed"
                ELSE CardsOf(a) = {}
<1>1. \A t : t \in CardsOf(a) <=>
        /\ t \in Visible /\ t.entity = a /\ ~Page!Superseded(t)
        /\ \A u \in Visible : <<u, t>> \in SoonerOf /\ u.entity = a => Page!Superseded(u)
  BY CardsAre DEF CardsOf
<1>2. \A t \in Visible : t.entity = a =>
        \E r \in PageRun :
          /\ t = RunTask(r) /\ AssetOf[r] = a /\ t.status = runs[r].status
          /\ \/ r \in Page!EndedRuns /\ runs[r].status = "failed"
             \/ r \in Page!ActiveRuns /\ r = Page!Representative(a)
  <2> SUFFICES ASSUME NEW t \in Visible, t.entity = a
               PROVE  \E r \in PageRun :
                        /\ t = RunTask(r) /\ AssetOf[r] = a /\ t.status = runs[r].status
                        /\ \/ r \in Page!EndedRuns /\ runs[r].status = "failed"
                           \/ r \in Page!ActiveRuns /\ r = Page!Representative(a)
    OBVIOUS
  <2>1. PICK r \in PageRun : /\ t = RunTask(r)
                             /\ \/ r \in Page!EndedRuns
                                \/ r \in Page!ActiveRuns /\ r = Page!Representative(AssetOf[r])
    BY ResearchTasksAre, VisibleTasks
  <2>2. AssetOf[r] = a /\ t.status = runs[r].status
    BY <2>1, RunTaskSays
  <2>3. r \in Page!EndedRuns => runs[r].status = "failed"
    BY <2>2, RunsAre DEF Visible, Over, Page!ActiveStatus, Page!Queued, Page!Running, Page!FailedStatus
  <2> QED BY <2>1, <2>2, <2>3
<1>3. \A t, u \in Visible : <<t, u>> \in SoonerOf => <<u, t>> \notin SoonerOf /\ t # u
  BY SoonerOrders DEF Orders
<1>4. ASSUME NEW p \in Page!ActiveRuns, AssetOf[p] = a
      PROVE  \E t : CardsOf(a) = {t} /\ t.status \in Page!ActiveStatus
  <2> DEFINE r == Page!Representative(a)
             t == RunTask(r)
  <2>1. r \in Page!ActiveRuns /\ AssetOf[r] = a /\ t \in Page!Tasks
    BY <1>4, RepresentativeIsThere, ResearchTasksAre
  <2>2. t.status \in AtWork /\ t.entity = a
    BY <2>1, RunsAre, RunTaskSays
  <2>3. t.status \in Page!ActiveStatus
    BY <2>2 DEF AtWork, Page!ActiveStatus, Page!Queued, Page!Running
  <2>4. t \in Visible
    BY <2>1, <2>3 DEF Visible
  <2>5. t.status \notin Page!FailedStatus /\ Page!Priority(t) \in 0 .. 2
    BY <2>3, <2>4, VisibleTasks
  <2>6. \A u \in Visible : u.entity = a => u = t \/ <<t, u>> \in SoonerOf
    <3> SUFFICES ASSUME NEW u \in Visible, u.entity = a, u # t PROVE <<t, u>> \in SoonerOf
      OBVIOUS
    <3>1. u.status = "failed"
      BY <1>2
    <3>2. Page!Priority(u) = 3
      BY <3>1, VisibleTasks DEF Page!FailedStatus
    <3>3. Page!Priority(t) < Page!Priority(u)
      BY <2>5, <3>2
    <3> QED BY <2>4, <3>3 DEF SoonerOf, Page!Sooner
  <2>7. ~Page!Superseded(t)
    BY <2>4, <2>5, MadeUp
  <2> HIDE DEF t, r
  <2>8. CardsOf(a) = {t}
    BY <1>1, <1>3, <2>2, <2>4, <2>6, <2>7
  <2> QED BY <2>3, <2>8
<1>5. ASSUME \A r \in Page!ActiveRuns : AssetOf[r] # a,
             EndedOf(a) # {}, runs[LastOf(a)].status = "failed"
      PROVE  \E t : CardsOf(a) = {t} /\ t.status = "failed"
  <2>1. \A t \in Visible : t.entity = a => t.status = "failed"
    BY <1>2, <1>5
  <2>2. \A t \in Visible : t.entity = a => ~Page!Superseded(t)
    BY <1>5, <2>1, MadeUp DEF Page!FailedStatus
  <2> DEFINE u == RunTask(LastOf(a))
  <2>3. LastOf(a) \in EndedOf(a)
    BY <1>5, LastIs
  <2>4. u \in Visible /\ u.entity = a
    BY <1>5, <2>3, ResearchTasksAre, RunTaskSays DEF EndedOf, Visible, Page!FailedStatus
  <2> HIDE DEF u
  <2>5. PICK t \in Visible : t.entity = a /\ \A v \in Visible : v.entity = a => v = t \/ <<t, v>> \in SoonerOf
    BY <2>4, FirstStands
  <2>6. CardsOf(a) = {t}
    BY <1>1, <1>3, <2>2, <2>5
  <2> QED BY <2>1, <2>5, <2>6
<1>6. ASSUME \A r \in Page!ActiveRuns : AssetOf[r] # a,
             ~(EndedOf(a) # {} /\ runs[LastOf(a)].status = "failed")
      PROVE  CardsOf(a) = {}
  <2> SUFFICES ASSUME NEW t \in CardsOf(a) PROVE FALSE
    OBVIOUS
  <2>1. t \in Visible /\ t.entity = a /\ ~Page!Superseded(t)
    BY <1>1
  <2>2. t.status = "failed"
    BY <1>2, <1>6, <2>1
  <2> QED BY <1>6, <2>1, <2>2, MadeUp DEF Page!FailedStatus
<1> QED BY <1>4, <1>5, <1>6

-----------------------------------------------------------------------------
\* Numbers in ascending order, from the first to the last place.
Ascend(ds, n) ==
  /\ n \in Nat \ {0} /\ DOMAIN ds = 1 .. n /\ Len(ds) = n
  /\ \A i \in 1 .. n : ds[i] \in Int
  /\ \A i, j \in 1 .. n : i < j => ds[i] <= ds[j]

\* As many as stand up to a place are no more than its number, and less are
\* only some of those before it.
LEMMA PlacesCount ==
    ASSUME NEW ds, NEW n, Ascend(ds, n), NEW k \in 1 .. n
    PROVE  LET NoMore == Cardinality({i \in DOMAIN ds : ds[i] <= ds[k]})
               Less == Cardinality({i \in DOMAIN ds : ds[i] < ds[k]})
           IN  NoMore \in Nat /\ Less \in Nat /\ NoMore >= k /\ Less <= k - 1
<1> DEFINE S == {i \in 1 .. n : ds[i] <= ds[k]}
           L == {i \in 1 .. n : ds[i] < ds[k]}
<1>1. DOMAIN ds = 1 .. n /\ n \in Nat /\ k \in Nat /\ k >= 1
  BY DEF Ascend
<1>2. 1 .. k \subseteq S
  BY DEF Ascend
<1>3. L \subseteq 1 .. k - 1
  <2> SUFFICES ASSUME NEW i \in L PROVE i \in 1 .. k - 1
    OBVIOUS
  <2>1. i \in 1 .. n /\ ds[i] < ds[k] /\ ds[i] \in Int /\ ds[k] \in Int
    BY DEF Ascend
  <2>2. ~(k < i) /\ k # i
    BY <2>1 DEF Ascend
  <2> QED BY <1>1, <2>1, <2>2
<1>4. IsFiniteSet(1 .. n) /\ IsFiniteSet(1 .. k - 1) /\ Cardinality(1 .. k) = k /\ Cardinality(1 .. k - 1) = k - 1
  <2>1. 1 \in Int /\ n \in Int /\ k \in Int /\ k - 1 \in Int /\ k >= 1
    BY <1>1
  <2>2. \A b \in Int : IsFiniteSet(1 .. b) /\ Cardinality(1 .. b) = IF 1 > b THEN 0 ELSE b
    <3> TAKE b \in Int
    <3>1. IsFiniteSet(1 .. b) /\ Cardinality(1 .. b) = IF 1 > b THEN 0 ELSE b - 1 + 1
      BY FS_Interval
    <3> QED BY <3>1
  <2> QED BY <2>1, <2>2
<1>5. S \subseteq 1 .. n
  OBVIOUS
<1> HIDE DEF S, L
<1>6. IsFiniteSet(S) /\ Cardinality(S) \in Nat /\ Cardinality(1 .. k) <= Cardinality(S)
  <2>1. IsFiniteSet(S)
    BY <1>4, <1>5, FS_Subset
  <2> QED BY <1>2, <2>1, FS_CardinalityType, FS_Subset
<1>7. IsFiniteSet(L) /\ Cardinality(L) \in Nat /\ Cardinality(L) <= Cardinality(1 .. k - 1)
  BY <1>3, <1>4, FS_CardinalityType, FS_Subset
<1> QED BY <1>1, <1>4, <1>6, <1>7 DEF S, L

\* Half of them are no more than the first percentile, nine tenths no more than
\* the other.
LEMMA PercentilesAre ==
    ASSUME NEW ds, NEW n, Ascend(ds, n), NEW q \in {<<1, 2>>, <<9, 10>>}
    PROVE  LET p == Page!Percentile(ds, q[1], q[2])
               NoMore == Cardinality({i \in DOMAIN ds : ds[i] <= p})
               Less == Cardinality({i \in DOMAIN ds : ds[i] < p})
           IN  q[2] * NoMore >= q[1] * Len(ds) /\ q[2] * Less < q[1] * Len(ds)
<1> DEFINE c == (n * q[1] + q[2] - 1) \div q[2]
           k == Page!Max({1, Page!Min({n, c})})
<1>1. n \in Nat /\ n >= 1 /\ Len(ds) = n
  BY DEF Ascend
<1>2. c \in 1 .. n /\ q[2] * c >= q[1] * n /\ q[2] * (c - 1) < q[1] * n
  <2>1. CASE q = <<1, 2>>
    <3>1. q[1] = 1 /\ q[2] = 2
      BY <2>1
    <3>2. c = (n + 1) \div 2
      BY <1>1, <3>1
    <3> QED BY <1>1, <3>1, <3>2
  <2>2. CASE q = <<9, 10>>
    <3>1. q[1] = 9 /\ q[2] = 10
      BY <2>2
    <3>2. c = (9 * n + 9) \div 10
      BY <1>1, <3>1
    <3> QED BY <1>1, <3>1, <3>2
  <2> QED BY <2>1, <2>2
<1> HIDE DEF c
<1>3. Page!Min({n, c}) = c
  <2>1. n \in Int /\ c \in Int /\ c <= n
    BY <1>1, <1>2
  <2>2. Page!Min({n, c}) \in {n, c} /\ Page!Min({n, c}) <= c
    BY <2>1, PageMin
  <2> QED BY <2>1, <2>2
<1>4. k = c
  <2>1. c \in Int /\ c >= 1
    BY <1>1, <1>2
  <2>2. Page!Max({1, c}) \in {1, c} /\ Page!Max({1, c}) >= c
    BY <2>1, PageMax
  <2>3. Page!Max({1, c}) = c
    BY <2>1, <2>2
  <2> QED BY <1>3, <2>3
<1>5. Page!Percentile(ds, q[1], q[2]) = ds[c]
  <2>1. Page!Percentile(ds, q[1], q[2]) = ds[k]
    BY <1>1 DEF Page!Percentile, c
  <2> QED BY <1>4, <2>1
<1> DEFINE NoMore == Cardinality({i \in DOMAIN ds : ds[i] <= ds[c]})
           Less == Cardinality({i \in DOMAIN ds : ds[i] < ds[c]})
<1>6. NoMore \in Nat /\ Less \in Nat /\ NoMore >= c /\ Less <= c - 1
  BY <1>2, PlacesCount
<1> HIDE DEF NoMore, Less
<1>7. q[2] * NoMore >= q[1] * n /\ q[2] * Less < q[1] * n
  <2>1. CASE q = <<1, 2>>
    <3>1. q[1] = 1 /\ q[2] = 2
      BY <2>1
    <3> QED BY <1>1, <1>2, <1>6, <3>1
  <2>2. CASE q = <<9, 10>>
    <3>1. q[1] = 9 /\ q[2] = 10
      BY <2>2
    <3> QED BY <1>1, <1>2, <1>6, <3>1
  <2> QED BY <2>1, <2>2
<1> QED BY <1>1, <1>5, <1>7 DEF NoMore, Less

\* The times of the runs that are over ascend.
LEMMA DurationsAscend ==
    ASSUME PageInv, lane = "research", Page!Durations # <<>>
    PROVE  \E n : Ascend(Page!Durations, n)
<1> DEFINE over == {t \in Page!Tasks : t.status \in Page!FailedStatus \union Page!CompletedStatus /\ t.took > 0}
           R == {p \in over \X over :
                   \/ p[1].took < p[2].took
                   \/ p[1].took = p[2].took /\ p[1].id[2] < p[2].id[2]}
           n == Cardinality(over)
           nth(k) == Nth(over, R, k)
<1>1. Page!Durations = [i \in DOMAIN InOrder(over, R) |-> InOrder(over, R)[i].took]
  BY PageCounts, Zenon DEF Page!Durations
<1>2. InOrder(over, R) = [k \in 1 .. n |-> nth(k)]
  BY Zenon DEF InOrder
<1>3. IsFiniteSet(over)
  BY TasksAreFinite, FS_Subset
<1>4. ASSUME NEW t \in over
      PROVE  \E r \in PageRun : t = RunTask(r) /\ t.took \in Int /\ t.id[2] = r /\ r \in Int
  <2>1. PICK r \in PageRun : /\ t = RunTask(r)
                             /\ r \in Page!EndedRuns \/ r \in Page!ActiveRuns
    BY ResearchTasksAre
  <2>2. r \notin Page!ActiveRuns
    BY <2>1, RunsAre, RunTaskSays DEF AtWork, Page!FailedStatus, Page!CompletedStatus
  <2>3. t.took = Page!TimeTaken(runs[r]) /\ t.id[2] = r
    BY <2>1, <2>2, RunTaskSays
  <2>4. Page!TimeTaken(runs[r]) \in Int
    BY DEF PageInv, RunRow, Page!TimeTaken
  <2> QED BY <2>1, <2>3, <2>4, PageAssumption
<1>5. \A t, u \in over : <<t, u>> \in R <=> t.took < u.took \/ (t.took = u.took /\ t.id[2] < u.id[2])
  OBVIOUS
<1> HIDE DEF over, R
<1>6. \A t, u \in over : t.id[2] = u.id[2] => t = u
  BY <1>4
<1>7. \A t \in over : t.took \in Int /\ t.id[2] \in Int
  BY <1>4
<1>8. Orders(R, over)
  <2>1. \A t \in over : <<t, t>> \notin R
    BY <1>5, <1>7
  <2>2. \A t, u, v \in over : <<t, u>> \in R /\ <<u, v>> \in R => <<t, v>> \in R
    <3> SUFFICES ASSUME NEW t \in over, NEW u \in over, NEW v \in over, <<t, u>> \in R, <<u, v>> \in R
                 PROVE  <<t, v>> \in R
      OBVIOUS
    <3>1. t.took < v.took \/ (t.took = v.took /\ t.id[2] < v.id[2])
      BY <1>5, <1>7
    <3> QED BY <1>5, <3>1
  <2>3. \A t, u \in over : t = u \/ <<t, u>> \in R \/ <<u, t>> \in R
    <3> TAKE t, u \in over
    <3>1. /\ t.took \in Int /\ u.took \in Int /\ t.id[2] \in Int /\ u.id[2] \in Int
          /\ t.id[2] = u.id[2] => t = u
      BY <1>6, <1>7
    <3>2. /\ <<t, u>> \in R <=> t.took < u.took \/ (t.took = u.took /\ t.id[2] < u.id[2])
          /\ <<u, t>> \in R <=> u.took < t.took \/ (u.took = t.took /\ u.id[2] < t.id[2])
      BY <1>5
    <3> QED BY <3>1, <3>2
  <2> QED BY <2>1, <2>2, <2>3 DEF Orders
<1>9. /\ n \in Nat
      /\ \A k \in 1 .. n : nth(k) \in over
      /\ \A j, k \in 1 .. n : j < k <=> <<nth(j), nth(k)>> \in R
  BY <1>3, <1>8, PlacesTaken
<1> HIDE DEF n, nth
<1>10. Page!Durations = [k \in 1 .. n |-> nth(k).took]
  BY <1>1, <1>2
<1>11. n # 0
  <2> SUFFICES ASSUME n = 0 PROVE FALSE
    OBVIOUS
  <2>1. Page!Durations = [k \in {} |-> nth(k).took]
    BY <1>10
  <2> QED BY <2>1, EmptySeq
<1>12. Len(Page!Durations) = n
  <2>1. Page!Durations \in Seq({nth(k).took : k \in 1 .. n})
    BY <1>9, <1>10
  <2> QED BY <1>9, <1>10, <2>1, LenProperties
<1> DEFINE ds == Page!Durations
<1>13. DOMAIN ds = 1 .. n /\ \A k \in 1 .. n : ds[k] = nth(k).took
  BY <1>10
<1> HIDE DEF ds
<1>14. ASSUME NEW i \in 1 .. n, NEW j \in 1 .. n, i < j PROVE ds[i] <= ds[j]
  <2>1. nth(i) \in over /\ nth(j) \in over /\ <<nth(i), nth(j)>> \in R
    BY <1>9, <1>14
  <2>2. nth(i).took <= nth(j).took
    BY <1>5, <1>7, <2>1
  <2> QED BY <1>13, <2>2
<1>15. \A k \in 1 .. n : ds[k] \in Int
  BY <1>7, <1>9, <1>13
<1>16. n \in Nat \ {0} /\ Len(ds) = n
  BY <1>9, <1>11, <1>12 DEF ds
<1>17. Ascend(ds, n)
  BY <1>13, <1>14, <1>15, <1>16 DEF Ascend
<1> QED BY <1>17 DEF ds

\* The cards and the percentiles tell the truth.
LEMMA CardsTell == ASSUME PageInv PROVE Page!CardsTellTheTruth
<1> SUFFICES ASSUME lane = "research" PROVE Page!CardsTellTheTruth
  BY DEF Page!CardsTellTheTruth
<1> DEFINE ds == Page!Durations
           truth(a) ==
             LET cards == {t \in Page!Cards : t.entity = a}
                 ended == {r \in Page!EndedRuns : AssetOf[r] = a}
                 last == CHOOSE r \in ended : \A q \in ended : runs[q].updated <= runs[r].updated
             IN  IF \E r \in Page!ActiveRuns : AssetOf[r] = a
                 THEN Page!Cardinality(cards) = 1 /\ \A t \in cards : t.status \in Page!ActiveStatus
                 ELSE IF ended # {} /\ runs[last].status = "failed"
                      THEN Page!Cardinality(cards) = 1 /\ \A t \in cards : t.status = "failed"
                      ELSE cards = {}
           share(q) ==
             LET p == Page!Percentile(ds, q[1], q[2])
                 NoMore == Page!Cardinality({i \in DOMAIN ds : ds[i] <= p})
                 Less == Page!Cardinality({i \in DOMAIN ds : ds[i] < p})
             IN  q[2] * NoMore >= q[1] * Len(ds) /\ q[2] * Less < q[1] * Len(ds)
<1>1. \A S : Page!Cardinality(S) = Cardinality(S)
  BY PageCounts
<1>2. ASSUME NEW a PROVE truth(a)
  <2> DEFINE Of == CardsOf(a)
             l == LastOf(a)
  <2>1. truth(a) <=>
          IF \E r \in Page!ActiveRuns : AssetOf[r] = a
          THEN Page!Cardinality(Of) = 1 /\ \A t \in Of : t.status \in Page!ActiveStatus
          ELSE IF EndedOf(a) # {} /\ runs[l].status = "failed"
               THEN Page!Cardinality(Of) = 1 /\ \A t \in Of : t.status = "failed"
               ELSE Of = {}
    BY Zenon DEF CardsOf, LastOf, EndedOf
  <2>2. IF \E r \in Page!ActiveRuns : AssetOf[r] = a
        THEN \E t : Of = {t} /\ t.status \in Page!ActiveStatus
        ELSE IF EndedOf(a) # {} /\ runs[l].status = "failed"
             THEN \E t : Of = {t} /\ t.status = "failed"
             ELSE Of = {}
    BY OneCard
  <2>3. \A t : Of = {t} => Page!Cardinality(Of) = 1
    BY <1>1, FS_Singleton
  <2> HIDE DEF Of, l, truth
  <2> QED BY <2>1, <2>2, <2>3
<1>3. ASSUME ds # <<>>, NEW q \in {<<1, 2>>, <<9, 10>>} PROVE share(q)
  <2>1. PICK n : Ascend(ds, n)
    BY <1>3, DurationsAscend
  <2> HIDE DEF ds
  <2> QED BY <1>1, <1>3, <2>1, PercentilesAre
<1>4. Page!CardsTellTheTruth <=>
        /\ \A a \in {AssetOf[r] : r \in PageRun} : truth(a)
        /\ ds # <<>> => \A q \in {<<1, 2>>, <<9, 10>>} : share(q)
  BY Zenon DEF Page!CardsTellTheTruth
<1> HIDE DEF truth, share, ds
<1> QED BY <1>2, <1>3, <1>4

-----------------------------------------------------------------------------
\* Counts are numbers, and one of them speaks for a task at work.
LEMMA CountsAre ==
    ASSUME PageInv
    PROVE  /\ \A f, S : S \subseteq Page!Tasks => Page!Count(S, f) \in Nat
           /\ \A t \in Page!Tasks : t.status \in Page!ActiveStatus =>
                \E f \in {"queued", "running", "retrying", "verifying"} : Page!Count(Page!Tasks, f) > 0
<1> DEFINE of(S, f) == {t \in S : Page!FieldOf(t.status) = f}
<1>1. \A f, S : Page!Count(S, f) = Cardinality(of(S, f))
  BY PageCounts, Zenon DEF Page!Count
<1>2. \A f, S : S \subseteq Page!Tasks => IsFiniteSet(of(S, f))
  <2> SUFFICES ASSUME NEW f, NEW S, S \subseteq Page!Tasks PROVE IsFiniteSet(of(S, f))
    OBVIOUS
  <2>1. of(S, f) \subseteq Page!Tasks
    OBVIOUS
  <2> QED BY <2>1, TasksAreFinite, FS_Subset
<1>3. \A f, S : S \subseteq Page!Tasks => Page!Count(S, f) \in Nat
  BY <1>1, <1>2, FS_CardinalityType
<1>4. ASSUME NEW t \in Page!Tasks, t.status \in Page!ActiveStatus
      PROVE  \E f \in {"queued", "running", "retrying", "verifying"} : Page!Count(Page!Tasks, f) > 0
  <2> DEFINE f == Page!FieldOf(t.status)
  <2>1. f \in {"queued", "running", "retrying", "verifying"}
    <3>1. CASE t.status \in Page!Queued
      BY <3>1 DEF Page!FieldOf, Page!Queued, Page!Running, Page!FailedStatus, Page!CompletedStatus
    <3>2. CASE t.status \in Page!Running
      BY <3>2 DEF Page!FieldOf, Page!Queued, Page!Running, Page!FailedStatus, Page!CompletedStatus
    <3>3. CASE t.status \in {"retrying", "verifying"}
      BY <3>3 DEF Page!FieldOf, Page!Queued, Page!Running, Page!FailedStatus, Page!CompletedStatus
    <3> QED BY <1>4, <3>1, <3>2, <3>3 DEF Page!ActiveStatus
  <2>2. t \in of(Page!Tasks, f)
    OBVIOUS
  <2> HIDE DEF of, f
  <2>3. Cardinality(of(Page!Tasks, f)) # 0 /\ Cardinality(of(Page!Tasks, f)) \in Nat
    BY <1>2, <2>2, FS_EmptySet, FS_CardinalityType
  <2> QED BY <1>1, <2>1, <2>3
<1> QED BY <1>3, <1>4

\* What the instances have themselves.
LEMMA CountedAre ==
    ASSUME PageInv, NEW f
    PROVE  /\ \A i \in Instance : Page!Counted(i, f) \in Nat
           /\ Page!Total([i \in Instance |-> slots[i].running]) \in Nat
           /\ \A i \in Instance : slots[i].running <= Page!Total([j \in Instance |-> slots[j].running])
           /\ \A i \in Instance : slots[i] \in Calls
<1> DEFINE g == [i \in Instance |-> slots[i].running]
<1>1. \A i \in Instance : slots[i] \in Calls /\ slots[i].running \in Nat
  BY DEF PageInv, Calls
<1>2. \A i \in Instance : Page!Count(Page!TasksOn(i), f) \in Nat
  <2>1. \A i : Page!TasksOn(i) \subseteq Page!Tasks
    BY DEF Page!TasksOn
  <2> QED BY <2>1, CountsAre
<1>3. ASSUME NEW i \in Instance PROVE Page!Counted(i, f) \in Nat
  <2> DEFINE n == Page!Count(Page!TasksOn(i), f)
             m == slots[i].running
  <2>1. n \in Nat /\ m \in Nat
    BY <1>1, <1>2
  <2>2. Page!Counted(i, f) = IF f = "running" THEN Page!Max({n, m}) ELSE n
    BY DEF Page!Counted
  <2> HIDE DEF n, m
  <2>3. Page!Max({n, m}) \in {n, m}
    BY <2>1, PageMax
  <2> QED BY <2>1, <2>2, <2>3
<1>4. IsFiniteSet(DOMAIN g) /\ \A i \in DOMAIN g : g[i] \in Nat
  BY <1>1, PageAssumption
<1>5. DOMAIN g = Instance /\ \A i \in Instance : g[i] = slots[i].running
  OBVIOUS
<1>6. Page!Total(g) = SumOf(g)
  BY PageCounts
<1> HIDE DEF g
<1>7. Page!Total(g) \in Nat /\ \A i \in Instance : slots[i].running <= Page!Total(g)
  BY <1>4, <1>5, <1>6, SumBounds
<1> QED BY <1>1, <1>3, <1>7 DEF g

\* A lane claims what its tasks, the broker and the instances say.
LEMMA ClaimedAre ==
    ASSUME PageInv, NEW f
    PROVE  /\ Page!Claimed(f) \in Nat /\ Page!Count(Page!Tasks, f) \in Nat
           /\ Page!Claimed(f) >= Page!Count(Page!Tasks, f)
           /\ f = "queued" => Page!Claimed(f) >= broker
           /\ f = "running" => Page!Claimed(f) >= Page!Total([i \in Instance |-> slots[i].running])
<1> DEFINE n == Page!Count(Page!Tasks, f)
           m == Page!Total([i \in Instance |-> slots[i].running])
<1>1. n \in Nat /\ m \in Nat /\ broker \in Nat
  BY CountsAre, CountedAre DEF PageInv
<1>2. Page!Claimed(f) = CASE f = "queued" -> Page!Max({n, broker})
                          [] f = "running" -> Page!Max({n, m})
                          [] OTHER -> n
  BY DEF Page!Claimed
<1> HIDE DEF n, m
<1>3. /\ Page!Max({n, broker}) \in {n, broker} /\ Page!Max({n, broker}) >= n /\ Page!Max({n, broker}) >= broker
      /\ Page!Max({n, m}) \in {n, m} /\ Page!Max({n, m}) >= n /\ Page!Max({n, m}) >= m
  <2>1. n \in Int /\ m \in Int /\ broker \in Int
    BY <1>1
  <2>2. \A a, b \in Int : Page!Max({a, b}) \in {a, b} /\ Page!Max({a, b}) >= a /\ Page!Max({a, b}) >= b
    BY PageMax, Zenon
  <2> QED BY <2>1, <2>2, Zenon
<1>4. CASE f = "queued"
  BY <1>1, <1>2, <1>3, <1>4 DEF n, m
<1>5. CASE f = "running"
  BY <1>1, <1>2, <1>3, <1>5 DEF n, m
<1>6. CASE f # "queued" /\ f # "running"
  BY <1>1, <1>2, <1>6 DEF n, m
<1> QED BY <1>4, <1>5, <1>6

\* The instances together show no less than the lane claims.
LEMMA NothingIsLeftOut ==
    ASSUME PageInv, NEW f
    PROVE  Page!QueueCount(f) \in Nat /\ Page!QueueCount(f) >= Page!Claimed(f)
<1> DEFINE own == [i \in Instance |-> Page!Counted(i, f)]
           all == [i \in Instance |-> Page!InstanceCount(i, f)]
           d == IF Page!Claimed(f) > SumOf(own) THEN Page!Claimed(f) - SumOf(own) ELSE 0
<1>1. 1 \in Instance /\ IsFiniteSet(Instance)
  <2>1. IsFiniteSet(Instance) /\ Instance # {} /\ Instance = 1 .. Cardinality(Instance)
    BY PageAssumption
  <2>2. Cardinality(Instance) \in Nat
    BY <2>1, FS_CardinalityType
  <2>3. PICK i : i \in Instance
    BY <2>1
  <2>4. i \in 1 .. Cardinality(Instance)
    BY <2>1, <2>3
  <2>5. Cardinality(Instance) >= 1
    BY <2>2, <2>4
  <2>6. 1 \in 1 .. Cardinality(Instance)
    BY <2>2, <2>5
  <2> QED BY <2>1, <2>6
<1>2. DOMAIN own = Instance /\ DOMAIN all = Instance /\ \A i \in Instance : own[i] \in Nat
  BY CountedAre
<1>3. SumOf(own) \in Nat /\ Page!Claimed(f) \in Nat
  <2> HIDE DEF own
  <2> QED BY <1>1, <1>2, ClaimedAre, SumBounds
<1>4. d \in Int /\ SumOf(own) + d >= Page!Claimed(f)
  BY <1>3
<1>5. Page!Total(own) = SumOf(own)
  BY PageCounts
<1>6. \A i \in Instance : all[i] = own[i] + (IF i = 1 THEN d ELSE 0)
  <2> TAKE i \in Instance
  <2>1. all[i] = own[i] + (IF i = 1 /\ Page!Claimed(f) > Page!Total(own)
                            THEN Page!Claimed(f) - Page!Total(own) ELSE 0)
    BY DEF Page!InstanceCount
  <2> HIDE DEF all, own
  <2> QED BY <1>5, <2>1
<1>7. Page!QueueCount(f) = SumOf(all)
  BY PageCounts DEF Page!QueueCount
<1> HIDE DEF own, all, d
<1>8. SumOf(all) = SumOf(own) + d
  <2>1. /\ IsFiniteSet(DOMAIN own) /\ DOMAIN all = DOMAIN own /\ 1 \in DOMAIN own
        /\ \A i \in DOMAIN own : own[i] \in Int
        /\ \A i \in DOMAIN own : all[i] = own[i] + (IF i = 1 THEN d ELSE 0)
    BY <1>1, <1>2, <1>6
  <2> QED BY <1>4, <2>1, SumAdds
<1>9. d >= 0
  BY <1>3 DEF d
<1> QED BY <1>3, <1>4, <1>7, <1>8, <1>9

\* A lane that says it is idle has nothing to do.
LEMMA IdleIsIdle ==
    ASSUME PageInv, Page!State = "idle"
    PROVE  /\ \A f \in {"queued", "running", "retrying", "verifying"} : Page!QueueCount(f) = 0
           /\ \A i \in Instance : slots[i].queued = 0
<1> DEFINE working == Page!QueueCount("running") + Page!QueueCount("verifying")
           waiting == Page!QueueCount("queued") + Page!QueueCount("retrying")
           calls == \E i \in Instance : slots[i].queued > 0
           failed == Page!QueueCount("failed") > 0
<1>1. /\ Page!QueueCount("running") \in Nat /\ Page!QueueCount("verifying") \in Nat
      /\ Page!QueueCount("queued") \in Nat /\ Page!QueueCount("retrying") \in Nat
  BY NothingIsLeftOut
<1>2. working \in Nat /\ waiting \in Nat
  BY <1>1
<1>3. Page!State = CASE working > 0 -> "running"
                     [] working = 0 /\ (waiting > 0 \/ calls) -> "queued"
                     [] OTHER -> IF failed THEN "failed" ELSE "idle"
  BY DEF Page!State
<1> HIDE DEF working, waiting, calls, failed
<1>4. working = 0
  <2> SUFFICES ASSUME working # 0 PROVE FALSE
    OBVIOUS
  <2>1. working > 0
    BY <1>2
  <2>2. Page!State = "running"
    BY <1>3, <2>1
  <2> QED BY <2>2
<1>5. waiting = 0 /\ ~calls
  <2> SUFFICES ASSUME waiting # 0 \/ calls PROVE FALSE
    OBVIOUS
  <2>1. working = 0 /\ (waiting > 0 \/ calls) /\ ~(working > 0)
    BY <1>2, <1>4
  <2>2. Page!State = "queued"
    BY <1>3, <2>1
  <2> QED BY <2>2
<1>6. \A f \in {"queued", "running", "retrying", "verifying"} : Page!QueueCount(f) = 0
  BY <1>1, <1>4, <1>5 DEF working, waiting
<1>7. \A i \in Instance : slots[i].queued \in Nat
  BY DEF PageInv, Calls
<1> QED BY <1>5, <1>6, <1>7 DEF calls

\* No work is lost between the sources and the page.
LEMMA WorkIsKept == ASSUME PageInv PROVE Page!NoWorkIsLost
<1> DEFINE running == Page!Total([i \in Instance |-> slots[i].running])
<1>1. \A f : Page!QueueCount(f) \in Nat /\ Page!QueueCount(f) >= Page!Count(Page!Tasks, f)
  <2> TAKE f
  <2>1. Page!QueueCount(f) \in Nat /\ Page!QueueCount(f) >= Page!Claimed(f)
    BY NothingIsLeftOut
  <2>2. Page!Claimed(f) \in Nat /\ Page!Count(Page!Tasks, f) \in Nat
        /\ Page!Claimed(f) >= Page!Count(Page!Tasks, f)
    BY ClaimedAre
  <2> QED BY <2>1, <2>2
<1>2. Page!QueueCount("queued") >= broker
  <2>1. Page!Claimed("queued") \in Nat /\ Page!Claimed("queued") >= broker /\ broker \in Nat
    BY ClaimedAre DEF PageInv
  <2> QED BY <2>1, NothingIsLeftOut
<1>3. running \in Nat /\ Page!QueueCount("running") >= running
  <2>1. Page!Claimed("running") \in Nat /\ Page!Claimed("running") >= running /\ running \in Nat
    BY ClaimedAre, CountedAre
  <2> HIDE DEF running
  <2>2. Page!QueueCount("running") \in Nat /\ Page!QueueCount("running") >= Page!Claimed("running")
    BY NothingIsLeftOut
  <2> QED BY <2>1, <2>2
<1>4. ASSUME Page!State = "idle"
      PROVE  /\ broker = 0
             /\ \A e \in Event : records[e].status \notin Page!ActiveStatus
             /\ \A r \in PageRun : runs[r].status # "queued"
             /\ \A i \in Instance : slots[i] = Page!NoCalls
  <2>1. /\ \A f \in {"queued", "running", "retrying", "verifying"} : Page!QueueCount(f) = 0
        /\ \A i \in Instance : slots[i].queued = 0
    BY <1>4, IdleIsIdle
  <2>2. broker = 0
    BY <1>2, <2>1 DEF PageInv
  <2>3. \A t \in Page!Tasks : t.status \notin Page!ActiveStatus
    <3> SUFFICES ASSUME NEW t \in Page!Tasks, t.status \in Page!ActiveStatus PROVE FALSE
      OBVIOUS
    <3>1. PICK f \in {"queued", "running", "retrying", "verifying"} : Page!Count(Page!Tasks, f) > 0
      BY CountsAre
    <3>2. Page!Count(Page!Tasks, f) \in Nat
      BY CountsAre
    <3> QED BY <1>1, <2>1, <3>1, <3>2
  <2>4. ASSUME NEW e \in Event PROVE records[e].status \notin Page!ActiveStatus
    <3>1. CASE lane = "research"
      BY <3>1 DEF PageInv, Page!ActiveStatus, Page!Queued, Page!Running
    <3>2. CASE lane # "research"
      BY <2>3, <3>2, MappingTasksAre, StepTaskSays
    <3> QED BY <3>1, <3>2
  <2>5. ASSUME NEW r \in PageRun PROVE runs[r].status # "queued"
    <3>1. CASE lane # "research"
      BY <3>1 DEF PageInv
    <3>2. CASE lane = "research"
      <4> SUFFICES ASSUME runs[r].status = "queued" PROVE FALSE
        OBVIOUS
      <4>1. r \in Page!ActiveRuns
        BY DEF Page!ActiveRuns
      <4> DEFINE l == Page!Representative(AssetOf[r])
      <4>2. l \in Page!ActiveRuns
        BY <4>1, RepresentativeIsThere
      <4>3. RunTask(l) \in Page!Tasks
        BY <3>2, <4>1, ResearchTasksAre
      <4>4. RunTask(l).status \in AtWork
        BY <4>2, RunsAre, RunTaskSays
      <4> HIDE DEF l
      <4> QED BY <2>3, <4>3, <4>4 DEF AtWork, Page!ActiveStatus, Page!Queued, Page!Running
    <3> QED BY <3>1, <3>2
  <2>6. ASSUME NEW i \in Instance PROVE slots[i] = Page!NoCalls
    <3>1. slots[i] \in Calls /\ slots[i].running <= running
      BY CountedAre
    <3> HIDE DEF running
    <3>2. slots[i].running = 0 /\ slots[i].queued = 0
      BY <1>3, <2>1, <3>1 DEF Calls
    <3> QED BY <3>1, <3>2 DEF Calls, Page!NoCalls
  <2> QED BY <2>2, <2>4, <2>5, <2>6
<1>5. ASSUME lane = "assist", NEW e \in Event,
             steps[e].status \in Page!ActiveStatus, records[e].status = "none"
      PROVE  \E t \in Page!Cards : t.entity = e /\ t.status = steps[e].status
  <2> DEFINE t == Page!StepTask(e)
  <2>1. t \in Page!Tasks
    BY <1>5, MappingTasksAre
  <2>2. t.entity = e /\ t.status = steps[e].status
    <3>1. steps[e].status # "unmapped"
      BY <1>5 DEF Page!ActiveStatus, Page!Queued, Page!Running
    <3> QED BY <3>1, StepTaskSays
  <2> HIDE DEF t
  <2>3. t \in Visible
    BY <1>5, <2>1, <2>2 DEF Visible
  <2>4. t \in Page!Cards
    BY <1>5, <2>3, CardsAre
  <2> QED BY <2>2, <2>4
<1>6. Page!QueueCount("running") >= Page!Total([i \in Instance |-> slots[i].running])
  BY <1>3
<1> HIDE DEF running
<1> QED BY <1>1, <1>2, <1>4, <1>5, <1>6 DEF Page!NoWorkIsLost

\* The queue page and what is kept of it are faithful: nothing at work is missing
\* from a lane, no card says what its rows do not, and the page that is shown
\* keeps up with the changes (model_queue.py, main.py).
THEOREM PagesAreFaithful == ServicesSpec => []PageIsFaithful
<1>1. ServicesInit => PageInv /\ CacheInv
  BY PageStarts, CacheInit DEF ServicesInit
<1>2. PageInv /\ CacheInv /\ [ServicesNext]_<<part, serviceVars>> => PageInv' /\ CacheInv'
  BY PageKeeps, CacheNext, ServicesMove
<1>3. PageInv => Page!PageIsFaithful
  BY CardsTell, WorkIsKept DEF Page!PageIsFaithful
<1>4. ServicesSpec => []PageInv
  BY <1>1, <1>2, PTL DEF ServicesSpec
<1>5. ServicesSpec => []Cache!PageKeepsUp
  BY CacheKeepsUp
<1>6. PageInv /\ Cache!PageKeepsUp => PageIsFaithful
  BY <1>3 DEF PageIsFaithful
<1> QED BY <1>4, <1>5, <1>6, PTL
=============================================================================
