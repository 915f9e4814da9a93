------------------------------ MODULE Outcomes ------------------------------
(***************************************************************************)
(* Outcome evaluation (services/outcomes.py): the scheduled task           *)
(* evaluate_outcomes scores a recommendation on the prices of its horizon. *)
(* Nothing keeps two runs of the task apart and outcomes have no unique    *)
(* key, so overlapping evaluations are part of the model.                  *)
(*                                                                         *)
(* Time is 0 .. LastDay; a price series maps each moment to a close, 0     *)
(* where the provider has none (a weekend, a holiday, a value that is not  *)
(* a positive number).  A return stays a pair of closes.                   *)
(***************************************************************************)
EXTENDS Integers, Sequences, FiniteSets, FiniteSetsExt, SequencesExt, Ranks

CONSTANTS
  Evaluator,    \* runs of the task that may overlap
  LastDay,
  Closes,       \* closes of the asset, 0 for none
  Gaps,         \* moments at which the benchmark may have no close
  BenchmarkOf(_),  \* the benchmark's close at a moment, where it has one
  Horizons,     \* horizon_days
  Scores,       \* direction scores
  Band(_)       \* [horizon -> neutral band in per mille]

Day == 0 .. LastDay
Unit == {"calendar_days", "trading_sessions"}

VARIABLES
  advice,     \* the recommendation
  asset,      \* its price series
  benchmark,  \* the benchmark's price series
  today,
  scan,       \* each evaluation: what it read at its start
  outcomes,   \* the outcome rows
  overlapped  \* history: two evaluations ran at once

outcomeVars == <<advice, asset, benchmark, today, scan, outcomes, overlapped>>

Resting == [on |-> FALSE, known |-> FALSE, at |-> 0]

Init ==
  /\ advice \in [asOf : 0 .. 1, unit : Unit, horizon : Horizons, score : Scores,
                signal : {"directional", "technical_failure"}]
  /\ asset \in [Day -> Closes]
  /\ \E gap \in Gaps :
       benchmark = [d \in Day |-> IF d = gap THEN 0 ELSE BenchmarkOf(d)]
  /\ today = 0
  /\ scan = [e \in Evaluator |-> Resting]
  /\ outcomes = <<>>
  /\ overlapped = FALSE

-----------------------------------------------------------------------------
\* _price_points: the positive closes from `start' that were there by notAfter.
PricePoints(series, start, notAfter) ==
  Ascending({d \in start .. notAfter : series[d] > 0})

\* The first index from i on whose moment is not before t; 0 if there is none.
FirstFrom(points, i, t) ==
  LET late == {j \in i .. Len(points) : points[j] >= t}
  IN  IF late = {} THEN 0 ELSE Min(late)

\* Defect: the entry itself may serve as the exit.
WindowFromEntry(points, start, target) ==
  LET entry == FirstFrom(points, 1, start)
      exit == IF entry = 0 THEN 0 ELSE FirstFrom(points, entry, target)
  IN  IF exit = 0 THEN <<>> ELSE SubSeq(points, entry, exit)

Window(points, start, target) ==
  LET entry == FirstFrom(points, 1, start)
      exit == IF entry = 0 THEN 0 ELSE FirstFrom(points, entry + 1, target)
  IN  IF exit = 0 THEN <<>> ELSE SubSeq(points, entry, exit)

\* Defect: the entry counts as the first session.
SessionWindowOneShort(points, start, sessions) ==
  LET entry == FirstFrom(points, 1, start)
  IN  IF entry = 0 \/ entry + sessions - 1 > Len(points)
      THEN <<>> ELSE SubSeq(points, entry, entry + sessions - 1)

SessionWindow(points, start, sessions) ==
  LET entry == FirstFrom(points, 1, start)
  IN  IF entry = 0 \/ entry + sessions > Len(points)
      THEN <<>> ELSE SubSeq(points, entry, entry + sessions)

\* The window of _evaluate for an evaluation that observed at t.
WindowAt(t) ==
  LET points == PricePoints(asset, advice.asOf, t)
  IN  IF advice.signal = "technical_failure" THEN <<>>
      ELSE IF advice.unit = "trading_sessions"
           THEN SessionWindow(points, advice.asOf, advice.horizon)
      ELSE IF advice.asOf + advice.horizon > t THEN <<>>
      ELSE Window(points, advice.asOf, advice.asOf + advice.horizon)

\* _benchmark_return: the benchmark between the entry and the exit.
BenchmarkWindow(entry, exit, t) ==
  Window(PricePoints(benchmark, entry, t), entry, exit)

Above(from, to, band) == 1000 * (to - from) > band * from
Below(from, to, band) == 1000 * (from - to) > band * from

DirectionCorrect(score, from, to, band) ==
  CASE score > -30 /\ score < 30 -> ~Above(from, to, band) /\ ~Below(from, to, band)
    [] score >= 30 -> Above(from, to, band)
    [] score <= -30 -> Below(from, to, band)

\* The loop over the window: the running peak and the deepest fall below it,
\* as a pair <<close, peak>>.
Deeper(p, q) == p[1] * q[2] < q[1] * p[2]
MaxDrawdown(window) ==
  LET Step(x, acc) ==
        LET peak == IF x > acc.peak THEN x ELSE acc.peak
        IN  [peak |-> peak,
             worst |-> IF Deeper(<<x, peak>>, acc.worst) THEN <<x, peak>> ELSE acc.worst]
  IN  FoldLeft(LAMBDA acc, d : Step(asset[d], acc),
               [peak |-> asset[window[1]], worst |-> <<1, 1>>], window).worst

Outcome(t) ==
  LET w == WindowAt(t)
      b == BenchmarkWindow(w[1], w[Len(w)], t)
  IN  [entry |-> w[1], exit |-> w[Len(w)], observed |-> t,
       benchmark |-> IF b = <<>> THEN <<>> ELSE <<b[1], b[Len(b)]>>,
       correct |-> DirectionCorrect(advice.score, asset[w[1]], asset[w[Len(w)]], Band(advice.horizon)),
       drawdown |-> MaxDrawdown(w)]

-----------------------------------------------------------------------------
\* evaluate_due reads the outcomes that exist and the clock ...
StartScan(e) ==
  /\ ~scan[e].on
  /\ scan' = [scan EXCEPT ![e] = [on |-> TRUE, known |-> outcomes # <<>>, at |-> today]]
  /\ overlapped' = (overlapped \/ \E f \in Evaluator : f # e /\ scan[f].on)
  /\ UNCHANGED <<advice, asset, benchmark, today, outcomes>>

\* ... and scores the recommendation, or leaves it for a later run.
Evaluate(e) ==
  /\ scan[e].on
  /\ outcomes' = IF ~scan[e].known /\ WindowAt(scan[e].at) # <<>>
                 THEN Append(outcomes, Outcome(scan[e].at)) ELSE outcomes
  /\ scan' = [scan EXCEPT ![e] = Resting]
  /\ UNCHANGED <<advice, asset, benchmark, today, overlapped>>

DayPasses ==
  /\ today < LastDay
  /\ today' = today + 1
  /\ UNCHANGED <<advice, asset, benchmark, scan, outcomes, overlapped>>

Next == DayPasses \/ \E e \in Evaluator : StartScan(e) \/ Evaluate(e)

-----------------------------------------------------------------------------
Quoted(series, t) == {d \in 0 .. t : series[d] > 0}

\* Every outcome is scored on the right prices, said without indices: it enters
\* at the first close at or after the recommendation; a trading-session horizon
\* exits exactly that many closes later, a calendar horizon at the first later
\* close that is not before its end; nothing observed later is used; the
\* benchmark spans at least the same time; of the three calls up, flat and down
\* exactly one is right; the drawdown is the deepest of all pairs
\* (outcomes.py, _window, _trading_session_window, _evaluate).  And a second
\* outcome of one recommendation takes two runs of the task at once.
OutcomeIsRight ==
  /\ \A i \in DOMAIN outcomes :
       LET o == outcomes[i]
           closes == Quoted(asset, o.observed)
           inside == {d \in closes : o.entry <= d /\ d <= o.exit}
           between == {d \in closes : o.entry < d /\ d < o.exit}
       IN  /\ advice.signal # "technical_failure"
           /\ o.entry \in closes /\ o.exit \in closes /\ o.entry < o.exit
           /\ o.entry >= advice.asOf
           /\ \A d \in closes : d >= advice.asOf => d >= o.entry
           /\ IF advice.unit = "trading_sessions"
              THEN Cardinality(inside) = advice.horizon + 1
              ELSE /\ o.exit >= advice.asOf + advice.horizon
                   /\ \A d \in between : d < advice.asOf + advice.horizon
           /\ o.benchmark # <<>> =>
                /\ o.benchmark[1] >= o.entry /\ o.benchmark[2] >= o.exit
                /\ o.benchmark[2] <= o.observed
                /\ \A d \in Quoted(benchmark, o.observed) :
                     d >= o.entry => d >= o.benchmark[1]
           /\ Cardinality({s \in {-30, 0, 30} :
                DirectionCorrect(s, asset[o.entry], asset[o.exit], Band(advice.horizon))}) = 1
           /\ \A c, d \in inside :
                c <= d => ~Deeper(<<asset[d], asset[c]>>, o.drawdown)
  /\ ~overlapped => Len(outcomes) <= 1
=============================================================================
