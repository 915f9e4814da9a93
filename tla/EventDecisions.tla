--------------------------- MODULE EventDecisions ---------------------------
(***************************************************************************)
(* What the system makes of the news: events out of stories, assets for an *)
(* event, a sweep over the events that have none, and the report on one.   *)
(***************************************************************************)
EXTENDS Integers, Sequences, FiniteSets, Parts

CONSTANTS
  News, NewsPublished, TypeOf, NamedBy, EntitiesOf, Likeness, Batch, MergeWindow, Handler,
  MaxEvents, MaxJobs,                                         \* EventClusters
  SweepEvent, FirstSeen, BatchSize, LatestSeen, Sweeper, MaxTrouble,  \* MappingSweep
  Topic, Web, LlmImpacts, RuleImpacts, MaxDirect, MaxTargets, MaxRounds,
  MaxAttempts,                                                \* EventReport
  MapAsset, Listing, Known, Texts, Tags, Hints, Industries, Ambiguous, MaxHints,
  ShortlistLimit, MaxMapped                                   \* AssetMapping

VARIABLES
  clusters, handler, mappings, overlapping, stolen, jobs,
  observed, poor, active, messages, sweeps, steady, completed, trouble,
  phase, topic, grounds, extended, outline, verdict, rounds, setback, draftError,
  kept, report, reportStatus, credible, attempts,
  text, tags, reply, master, shortlist, candidates, proposed, stage

Clusters == INSTANCE EventClusters WITH Published <- NewsPublished, Window <- MergeWindow
Sweep == INSTANCE MappingSweep WITH Event <- SweepEvent, Latest <- LatestSeen
Reports == INSTANCE EventReport
Mapper == INSTANCE AssetMapping WITH Asset <- MapAsset

\* A batch is a list of news, and likeness is measured.
ASSUME ClustersAssumption ==
  /\ NewsPublished \in [News -> Int] /\ Likeness \in [News -> [News -> Nat]]
  /\ Batch \subseteq Seq(News) /\ MaxEvents \in Nat

\* Events of a sweep are told apart by numbers, and times begin with 1.
ASSUME SweepAssumption ==
  /\ SweepEvent \subseteq Int /\ IsFiniteSet(SweepEvent)
  /\ FirstSeen \in [SweepEvent -> Nat] /\ LatestSeen \in Nat
  /\ BatchSize \in Nat \ {0}

\* Sources and drafts are graded with numbers, and there is room for the direct
\* candidates of an event (macro_impacts.py, MAX_DIRECT_TARGETS).
ASSUME ReportsAssumption ==
  /\ IsFiniteSet(Web) /\ \A e \in Web : e.quality \in 0 .. 100 /\ e.fresh \in 0 .. 100
  /\ \A t \in Topic :
       /\ IsFiniteSet(t.news) /\ \A e \in t.news : e.quality \in 0 .. 100 /\ e.fresh \in 0 .. 100
       /\ t.candidates \in Seq([asset : Int \ {0}, peer : BOOLEAN])
       /\ t.original \in Nat /\ t.clarity \in Nat /\ t.filled \in Nat
  /\ \A impacts \in LlmImpacts \union RuleImpacts :
       impacts \in Seq([name : STRING, asset : Int, score : Int, confidence : Nat,
                        cites : BOOLEAN, action : BOOLEAN, gaps : BOOLEAN])
  /\ MaxDirect \in Nat /\ MaxTargets \in Nat /\ MaxDirect <= MaxTargets

\* Listings are numbered from 1; a primary listing is nobody's secondary one;
\* proposals are of the three relationships of the schema.
ASSUME MapperAssumption ==
  /\ MapAsset \subseteq Int /\ 0 \notin MapAsset /\ IsFiniteSet(MapAsset) /\ Known \subseteq MapAsset
  /\ \A a \in MapAsset :
       /\ Listing[a].cap \in Int
       /\ Listing[a].primary \in MapAsset => Listing[Listing[a].primary].primary = 0
  /\ \A hint \in Hints :
       hint.relationship \in {"direct", "entity", "product_owner"} /\ hint.confidence \in Int
  /\ DOMAIN Industries \subseteq Int /\ MaxMapped \in Nat

clusterVars == <<clusters, handler, mappings, overlapping, stolen, jobs>>
sweepVars == <<observed, poor, active, messages, sweeps, steady, completed, trouble>>
reportVars == <<phase, topic, grounds, extended, outline, verdict, rounds, setback,
                draftError, kept, report, reportStatus, credible, attempts>>
mapperVars == <<text, tags, reply, master, shortlist, candidates, proposed, stage>>
eventVars == <<clusterVars, sweepVars, reportVars, mapperVars>>

EventsInit == Clusters!Init /\ Sweep!Init /\ Reports!Init /\ Mapper!Init

ClustersMove ==
  part = "clusters" /\ Clusters!Next /\ UNCHANGED <<sweepVars, reportVars, mapperVars>>
SweepMoves ==
  part = "sweep" /\ Sweep!Next /\ UNCHANGED <<clusterVars, reportVars, mapperVars>>
ReportsMove ==
  part = "report" /\ Reports!Next /\ UNCHANGED <<clusterVars, sweepVars, mapperVars>>
MapperMoves ==
  part = "mapping" /\ Mapper!Next /\ UNCHANGED <<clusterVars, sweepVars, reportVars>>

EventsNext ==
  (ClustersMove \/ SweepMoves \/ ReportsMove \/ MapperMoves) /\ UNCHANGED part

EventsSpec == EventsInit /\ [][EventsNext]_<<part, eventVars>>

-----------------------------------------------------------------------------
\* An event stays one story (jobs/extract.go, services/events.py).
ClusterIsOneStory == part = "clusters" => Clusters!ClusterIsOneStory

\* A backfill looks at every event once (worker.py).
SweepMissesNothing == part = "sweep" => Sweep!SweepMissesNothing

\* An event's report answers for what it says (services/event_research.py).
ReportIsSound == part = "report" => Reports!ReportIsSound

\* What an event is mapped to is verified (services/asset_mapping.py).
MappingIsVerified == part = "mapping" => Mapper!MappingIsVerified
=============================================================================
