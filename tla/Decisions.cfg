SPECIFICATION Spec
CONSTANTS
  \* EventClusters
  News = {1, 2, 3}
  NewsPublished <- MCPublished
  TypeOf <- MCTypeOf
  NamedBy <- MCNamedBy
  EntitiesOf <- MCEntitiesOf
  Likeness <- MCLikeness
  Batch <- MCBatch
  MergeWindow = 2
  Handler = {1, 2}
  MaxEvents = 3
  MaxJobs = 3
  \* MappingSweep
  SweepEvent = {1, 2, 3}
  FirstSeen <- MCFirstSeen
  BatchSize = 2
  LatestSeen = 3
  Sweeper = {1}
  MaxTrouble = 1
  \* EventReport
  Topic <- MCTopic
  Web <- MCWeb
  LlmImpacts <- MCLlmImpacts
  RuleImpacts <- MCRuleImpacts
  MaxDirect = 2
  MaxTargets = 3
  MaxRounds = 2
  MaxAttempts = 2
  \* AssetMapping
  MapAsset = {1, 2, 3, 4, 5, 6}
  Listing <- MCListing
  Known = {1, 2, 3, 4, 5}
  Texts <- MCTexts
  Tags <- MCTags
  Hints <- MCHints
  Industries <- MCIndustries
  Ambiguous = {"robot"}
  MaxHints = 2
  ShortlistLimit = 2
  MaxMapped = 3
  \* ResearchAdmission
  GateEvent = {1}
  GatePublished <- MCGatePublished
  Moments <- MCMoments
  Cooldown = 2
  Python = {"p1", "p2"}
  Go = {"g"}
  MaxRuns = 3
  \* ResearchGraph
  Evidence <- MCEvidence
  Context <- MCContext
  GraphScores <- MCGraphScores
  MaxExecutions = 2
  \* PaperBook
  stock = stock
  coin = coin
  token = token
  Buyer = {b1, b2}
  Equity = {stock}
  Crypto = {coin, token}
  Price = {7, 10}
  FirstQuote <- MCFirstQuote
  LotOf <- MCLotOf
  CostBps <- MCCostBps
  InitialCash = 1000
  MinimumCash = 50
  MaxEquity = 40
  MaxCrypto = 25
  MaxTotalCrypto = 40
  PaperTarget = {0, 20}
  MaxOrders = 2
  MaxMoves = 1
  \* Outcomes
  Evaluator = {1, 2}
  LastDay = 3
  Closes = {0, 100, 110}
  Gaps = {1, 4}
  BenchmarkOf <- Close
  Horizons = {1, 2}
  Scores = {40}
  Band <- HalfPercent
  \* TargetTrends
  Age = {0, 6, 30, 120}
  ShortDecay <- MCShortDecay
  LongDecay <- MCLongDecay
  Group <- MCGroup
  TrendNews = {80}
  MaxReports = 3
  \* Evolution
  EvolutionCandidate = {c1, c2}
  MaxDeaths = 1
  MaxRollbacks = 2
  \* EvolutionTasks
  EvolutionTask = {1, 2}
  TaskCandidate = {1, 2}
  Histories <- MCHistories
  Runs <- MCRuns
  MaxMisses = 2
  MaxCases = 3
  \* QueueView
  PageRun = {1, 2, 3}
  AssetOf <- MCAssetOf
  Event = {1, 2}
  Instance = {1, 2}
  MaxTime <- MCMaxTime
  Retention = 5
  \* PageCache
  Reader = {"r1", "r2"}
  MaxChanges = 3
  MaxRestarts = 1
INVARIANTS
  VerdictIsTrue
  LastGoodIsGood
  OutcomeIsRight
  
  PageIsFaithful
  
  SweepMissesNothing
  
  MappingIsVerified
  AdmissionIsFair
PROPERTIES
  
  OneEventMovesLittle
CHECK_DEADLOCK FALSE
