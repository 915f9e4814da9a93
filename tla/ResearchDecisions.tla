-------------------------- MODULE ResearchDecisions --------------------------
(***************************************************************************)
(* What the system makes of an asset: who lets research of it in, what one *)
(* run recommends, the paper orders and outcomes that follow, and the      *)
(* trend of a target over the reports that name it.                        *)
(***************************************************************************)
EXTENDS Integers, Sequences, FiniteSets, Parts

CONSTANTS
  GateEvent, GatePublished, Moments, Cooldown, Python, Go, MaxRuns, \* ResearchAdmission
  Evidence, Context, GraphScores, MaxExecutions,                    \* ResearchGraph
  Buyer, Equity, Crypto, Price, FirstQuote, LotOf, CostBps, InitialCash, MinimumCash,
  MaxEquity, MaxCrypto, MaxTotalCrypto, PaperTarget, MaxOrders, MaxMoves,  \* PaperBook
  Evaluator, LastDay, Closes, Gaps, BenchmarkOf(_), Horizons, Scores, Band(_), \* Outcomes
  Age, ShortDecay, LongDecay, Group, TrendNews, MaxReports          \* TargetTrends

VARIABLES
  moment, rows, lock, asking,
  node, context, reason, factor, gathered, draft, structural, semantic, rec,
  runStatus, executions,
  held, cash, quote, buyer, count, moves,
  advice, asset, benchmark, today, scan, outcomes, overlapped,
  snapshots

Gate == INSTANCE ResearchAdmission WITH Event <- GateEvent, Published <- GatePublished
Graph == INSTANCE ResearchGraph WITH Scores <- GraphScores
Book == INSTANCE PaperBook WITH Target <- PaperTarget
Scored == INSTANCE Outcomes
Trends == INSTANCE TargetTrends WITH News <- TrendNews

\* The processes that may ask for research and the times they do it at; the
\* cooldown is switched on.
ASSUME GateAssumption ==
  /\ Python \cap Go = {} /\ Gate!Free \notin Python \cup Go
  /\ Moments \in Seq(Int) /\ Moments # <<>>
  /\ GatePublished \in [GateEvent -> Int]
  /\ Cooldown \in Int /\ Cooldown > 0

\* Finitely many assets, each with a lot size and a cost, and whole prices; the
\* limits are shares.
ASSUME BookAssumption ==
  /\ IsFiniteSet(Equity) /\ IsFiniteSet(Crypto)
  /\ Price \subseteq Nat \ {0} /\ FirstQuote \in [Equity \cup Crypto -> Nat]
  /\ LotOf \in [Equity \cup Crypto -> Nat \ {0}]
  /\ CostBps \in [Equity \cup Crypto -> Nat]
  /\ InitialCash \in Nat /\ PaperTarget \subseteq Nat
  /\ MinimumCash \in Nat /\ MaxEquity \in Nat /\ MaxCrypto \in Nat /\ MaxTotalCrypto \in Nat

\* Closes, days and horizons are numbers, and a horizon has a day at least.
ASSUME OutcomesAssumption ==
  /\ LastDay \in Nat /\ Closes \subseteq Nat
  /\ Horizons \subseteq Nat \ {0} /\ \A h \in Horizons : Band(h) \in Nat

\* Reports give scores between -100 and 100 and shares in per cent; decays are
\* shares too.
ASSUME TrendsAssumption ==
  LET Share == 0 .. 100
  IN  /\ Age \subseteq Int /\ TrendNews \subseteq Share
      /\ ShortDecay \in [Age -> Share] /\ LongDecay \in [Age -> Share]
      /\ \A g \in Group :
           /\ Len(g) \in Nat \ {0} /\ DOMAIN g = 1 .. Len(g)
           /\ \A k \in DOMAIN g :
                /\ g[k].score \in -100 .. 100 /\ g[k].rating \in Share
                /\ g[k].persistence \in Share /\ g[k].realization \in Share

gateVars == <<moment, rows, lock, asking>>
graphVars == <<node, context, reason, factor, gathered, draft, structural,
               semantic, rec, runStatus, executions>>
bookVars == <<held, cash, quote, buyer, count, moves>>
outcomeVars == <<advice, asset, benchmark, today, scan, outcomes, overlapped>>
researchVars == <<gateVars, graphVars, bookVars, outcomeVars, snapshots>>

ResearchInit == Gate!Init /\ Graph!Init /\ Book!Init /\ Scored!Init /\ Trends!Init

GateMoves ==
  part = "gate" /\ Gate!Next /\ UNCHANGED <<graphVars, bookVars, outcomeVars, snapshots>>
GraphMoves ==
  part = "graph" /\ Graph!Next /\ UNCHANGED <<gateVars, bookVars, outcomeVars, snapshots>>
BookMoves ==
  part = "book" /\ Book!Next /\ UNCHANGED <<gateVars, graphVars, outcomeVars, snapshots>>
OutcomesMove ==
  part = "outcomes" /\ Scored!Next /\ UNCHANGED <<gateVars, graphVars, bookVars, snapshots>>
TrendsMove ==
  part = "trends" /\ Trends!Next /\ UNCHANGED <<gateVars, graphVars, bookVars, outcomeVars>>

ResearchNext ==
  (GateMoves \/ GraphMoves \/ BookMoves \/ OutcomesMove \/ TrendsMove) /\ UNCHANGED part

ResearchSpec == ResearchInit /\ [][ResearchNext]_<<part, researchVars>>

-----------------------------------------------------------------------------
\* Research of an asset is let in fairly (worker.py, research_admission.py).
AdmissionIsFair == part = "gate" => Gate!AdmissionIsFair

\* What may be traded is sound (services/research.py).
TradeableIsSound == part = "graph" => Graph!TradeableIsSound

\* Orders keep the limits of the portfolio (services/portfolio.py).
OrderWithinLimits == Book!OrderWithinLimits

\* Outcomes are scored on the right prices (services/outcomes.py).
OutcomeIsRight == part = "outcomes" => Scored!OutcomeIsRight

\* One event moves a trend by its step (services/target_trends.py).
OneEventMovesLittle == Trends!OneEventMovesLittle
=============================================================================
