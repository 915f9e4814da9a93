---------------------------- MODULE TargetTrends ----------------------------
(***************************************************************************)
(* The trend of one canonical target (services/target_trends.py), built    *)
(* from the event reports that name it (api_integrations.py,               *)
(* _event_target_changes): a 7-day shock, a 90-day regime and their mix.   *)
(*                                                                         *)
(* Confidences and decays are in per cent, a trend's score in hundredths   *)
(* of a hundredth of a point (Unit), so that a step is exact; a half-life  *)
(* enters as a table over the ages in use.                                 *)
(***************************************************************************)
EXTENDS Integers, Sequences, FiniteSets, FiniteSetsExt, SequencesExt, TradeGate

CONSTANTS
  Age,          \* ages in days of an event at as_of
  ShortDecay,   \* [Age -> per cent left with a half-life of 3 days]
  LongDecay,    \* [Age -> per cent left with a half-life of 30 days]
  Group,        \* the impacts a report may give the target, as sequences
  News,         \* news confidences
  MaxReports    \* bound: reports that name the target

Unit == 10000

VARIABLE snapshots   \* in the order of changed_at: [observation, rating]

Init == snapshots = <<>>

-----------------------------------------------------------------------------
Total(f) == MapThenSumSet(LAMBDA i : f[i], DOMAIN f)
Mean(value, weight) ==
  Total([i \in DOMAIN weight |-> value[i] * weight[i]]) \div Total(weight)

\* _canonical_observation: aliases of one target in one report, averaged.
ImpactWeight(i) == Max({5, i.rating})
Weighted(g, field) ==
  Mean([i \in DOMAIN g |-> g[i][field]], [i \in DOMAIN g |-> ImpactWeight(g[i])])

Conflicting(g) == \E i, j \in DOMAIN g : g[i].score - g[j].score >= 30

Observation(g, age, news, provisional) ==
  LET weak == provisional \/ Conflicting(g) \/ \A i \in DOMAIN g : g[i].failed
  IN  [age |-> age, news |-> news, weak |-> weak,
       score |-> Weighted(g, "score"),
       rating |-> Weighted(g, "rating"),
       persistence |-> Weighted(g, "persistence"),
       realization |-> Weighted(g, "realization")]

\* _representative_macro_impact gives the report its rating.
Representative(g) ==
  g[CHOOSE i \in DOMAIN g : \A j \in DOMAIN g : g[j].rating <= g[i].rating]

Quality(o) == (o.rating + o.news + o.persistence + o.realization) \div 4

RegimeBreak(o) ==
  /\ ~o.weak
  /\ o.rating >= 65 /\ o.news >= 75 /\ o.persistence >= 70 /\ o.realization >= 70
  /\ o.score >= 70 \/ o.score <= -70

Observed(ss) == [i \in DOMAIN ss |-> ss[i].observation]
InWindow(os, days) == {i \in DOMAIN os : 0 <= os[i].age /\ os[i].age <= days}

ShortWeight(o) == Max({1, (ShortDecay[o.age] * Max({5, Quality(o)})) \div 100})

\* _short_term_score: the decayed mean of the last seven days.
ShortTerm(os) ==
  LET included == InWindow(os, 7)
  IN  [count |-> Cardinality(included),
       score |-> IF included = {} THEN 0
                 ELSE Mean([i \in included |-> os[i].score * Unit],
                           [i \in included |-> ShortWeight(os[i])]),
       provisional |-> \E i \in included : os[i].weak \/ os[i].rating < 45]

\* Defect: an early guess counts like a finished report.
EligibleAnyway(o) == o.rating >= 45

Eligible(o) == ~o.weak /\ o.rating >= 45

\* The one that comes last, oldest first; events of one moment come in the order
\* of the reports.
Before(os, i, j) == os[i].age > os[j].age \/ (os[i].age = os[j].age /\ i < j)
Latest(os, s) == CHOOSE i \in s : \A j \in s : j = i \/ Before(os, j, i)

StepLimit(o) == IF RegimeBreak(o) THEN 45 ELSE 20
MaximumStep(o) == StepLimit(o) * LongDecay[o.age] * Quality(o)
Between(low, x, high) == Max({low, Min({x, high})})

\* Defect: the step is not limited.
StepAtOnce(score, o) == Between(-100 * Unit, o.score * Unit, 100 * Unit)

Step(score, o) ==
  Between(-100 * Unit,
          score + Between(-MaximumStep(o), o.score * Unit - score, MaximumStep(o)),
          100 * Unit)

\* _long_term_score: every eligible event of ninety days pulls the score
\* towards its own, by no more than its step.
LongTerm(os) ==
  LET included == InWindow(os, 90)
      eligible == {i \in included : Eligible(os[i])}
  IN  [count |-> Cardinality(included), eligible |-> Cardinality(eligible),
       score |-> MapThenFoldSet(LAMBDA o, score : Step(score, o), 0, LAMBDA i : os[i],
                                LAMBDA s : Latest(os, s), eligible),
       provisional |-> eligible = {}]

\* aggregate_target_trend.
Combined(os) ==
  IF ShortTerm(os).count = 0 THEN LongTerm(os).score
  ELSE (8 * LongTerm(os).score + 2 * ShortTerm(os).score) \div 10

\* The last two neighbours whose ratings differ; <<>> when none do, and then
\* the target is not listed at all.
LatestChange(ss) ==
  LET changes == {i \in 2 .. Len(ss) : ss[i].rating # ss[i - 1].rating}
  IN  IF changes = {} THEN <<>> ELSE <<Max(changes) - 1, Max(changes)>>

-----------------------------------------------------------------------------
\* An event run that names the target is finished or finished again.
Report(g, age, news, provisional) ==
  /\ Len(snapshots) < MaxReports
  /\ snapshots' = Append(snapshots,
       [observation |-> Observation(g, age, news, provisional),
        rating |-> Rating(Representative(g).score)])

Next ==
  \E g \in Group, a \in Age, n \in News, p \in BOOLEAN : Report(g, a, n, p)

-----------------------------------------------------------------------------
Abs(x) == IF x < 0 THEN -x ELSE x

\* One more report, whatever its date and wherever it falls among the others,
\* moves the long-term score by at most its own step: 20 points, 45 for a
\* regime break, less for an older or weaker event.  A report that is not
\* eligible moves it not at all (target_trends.py, _long_term_score); and the
\* combined score never leaves the range of a score.
OneEventMovesLittle ==
  [][snapshots' # snapshots =>
     LET before == Observed(snapshots)
         after == Observed(snapshots')
         o == after[Len(after)]
         moved == Abs(LongTerm(after).score - LongTerm(before).score)
     IN  /\ o.weak \/ o.rating < 45 \/ o.age > 90 => moved = 0
         /\ moved <= MaximumStep(o)
         /\ Abs(Combined(after)) <= 100 * Unit
         /\ LatestChange(snapshots') = <<>> <=>
              \A i, j \in DOMAIN snapshots' : snapshots'[i].rating = snapshots'[j].rating]_snapshots
=============================================================================
