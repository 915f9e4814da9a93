--------------------------- MODULE ResearchGraph ---------------------------
(***************************************************************************)
(* One asset run through the research graph (services/research.py): gather *)
(* -> draft -> verify -> finalize.  The nodes acquire_evidence and revise  *)
(* are unreachable, since _route_after_verification answers "finalize".    *)
(*                                                                         *)
(* A piece of evidence is a record of what the checks read of it; the text *)
(* of a draft is whether every required section is there; confidences are  *)
(* in per cent.  An execution may raise or die at every node, and the task *)
(* then runs again on the same run, whose retryable_reason is kept.        *)
(***************************************************************************)
EXTENDS Integers, Sequences, FiniteSets, FiniteSetsExt, TradeGate

CONSTANTS
  Evidence,      \* [official, group, content, late, numeric]
  Context,       \* what the rating confidence reads besides the draft
  Scores,        \* direction scores a draft may carry
  MaxExecutions  \* bound: how often the task runs

Unknown == [official |-> FALSE, group |-> "none", content |-> "none",
            late |-> FALSE, numeric |-> FALSE]
NoDraft == [by |-> "none"]
Claims == {1, 2}
Answer == {"absent", "up", "down", "contradicted", "insufficient"}

VARIABLES
  node,        \* the node of the graph, or how the execution ended
  context,     \* event, mapping, history, market and timing of the run
  reason,      \* run.retryable_reason
  factor,      \* the signal of the programmed factors, in per cent
  gathered,    \* run.evidence
  draft,
  structural,  \* verification.evidence_complete
  semantic,    \* verification.semantic_evidence_complete
  rec,         \* the recommendation row this execution saved
  runStatus, executions

graphVars == <<node, context, reason, factor, gathered, draft, structural,
               semantic, rec, runStatus, executions>>

Init ==
  /\ node = "start" /\ context \in Context /\ reason = "none"
  /\ factor = 0 /\ gathered = {} /\ draft = NoDraft
  /\ structural = FALSE /\ semantic = FALSE
  /\ rec = NoDraft /\ runStatus = "queued" /\ executions = 0

-----------------------------------------------------------------------------
\* Defect: one group of sources is as good as two.
CorroboratedOnce(cited) ==
  (\E e \in cited : e.official) \/ cited # {}

\* independent_evidence_groups: reprints of one text count once.
Groups(cited) ==
  LET repeated == {e.content : e \in {f \in cited : \E g \in cited : g # f /\ g.content = f.content}}
  IN  {IF e.content \in repeated THEN <<"content", e.content>> ELSE <<"group", e.group>> : e \in cited}

Corroborated(cited) ==
  (\E e \in cited : e.official) \/ Cardinality(Groups(cited)) >= 2

\* The checks of _verify that need no model.
StructuralComplete(d) ==
  LET cited == d.cited \intersect gathered
  IN  /\ d.text /\ d.cited # {}
      /\ d.cited \subseteq gathered
      /\ \A e \in gathered : ~e.late
      /\ Corroborated(cited)

\* The claim-by-claim check, for a verifier that answers each claim and says
\* whether it supports the direction.  Every supported claim weighs 80.
Supported(answers) == {c \in Claims : answers[c] \in {"up", "down"}}
Strength(answers) == (80 * Cardinality(Supported(answers))) \div Cardinality(Claims)
StanceSum(answers) ==
  Cardinality({c \in Claims : answers[c] = "up"})
    - Cardinality({c \in Claims : answers[c] = "down"})
Direction(score) == IF score >= 30 THEN 1 ELSE IF score <= -30 THEN -1 ELSE 0
DirectionSupported(score, answers, says) ==
  \/ Direction(score) = 0
  \/ says /\ 5 * Direction(score) * StanceSum(answers) >= Cardinality(Supported(answers))
          /\ Supported(answers) # {}
SemanticComplete(score, answers, says) ==
  /\ \A c \in Claims : answers[c] \in {"up", "down"}
  /\ Strength(answers) >= 55
  /\ DirectionSupported(score, answers, says)

-----------------------------------------------------------------------------
\* rating_confidence_score, its factors in per cent.
MappingDistance(path) ==
  IF context.mapped > 0 THEN 0
  ELSE Max({1, Min({5, path - 2})})
DistanceValue(d) == <<100, 95, 80, 60, 40, 20>>[d + 1]
MappingStrength(path) ==
  IF context.mapped > 0 THEN context.mapped ELSE DistanceValue(MappingDistance(path))
PathStructure(path) == IF path >= 3 THEN 100 ELSE IF path = 2 THEN 60 ELSE 30
Causality(cited, path) ==
  LET sum == 45 * (IF cited = {} THEN 0 ELSE 100) + 30 * PathStructure(path)
               + 25 * context.financial
  IN  (IF cited = {} THEN sum \div 2 ELSE sum) \div 100
Historical(score) ==
  LET h == context.history
      matches == Cardinality({i \in DOMAIN h : h[i] = Direction(score)})
  IN  IF h = <<>> THEN 0
      ELSE IF Len(h) < 3 THEN (100 * matches) \div 3 ELSE (100 * matches) \div Len(h)
NumericCoverage(cited) ==
  Min({100, (100 * Cardinality({e \in cited : e.numeric})) \div 3})
ImpactScale(score, cited, path) ==
  LET certain == Max({Historical(score), context.market})
  IN  CASE Direction(score) # 0 ->
             (45 * (IF score < 0 THEN -score ELSE score) + 25 * NumericCoverage(cited)
               + 15 * context.mapped + 15 * context.business) \div 100
        [] Direction(score) = 0 /\ Causality(cited, path) >= 70
             /\ (MappingStrength(path) <= 40 \/ certain >= 60) ->
             Max({Causality(cited, path), certain})
        [] OTHER -> (40 * NumericCoverage(cited)) \div 100
Confidence(score, cited, path) ==
  IF ~context.event THEN 0
  ELSE (25 * MappingStrength(path) + 20 * Causality(cited, path) + 15 * Historical(score)
         + 15 * ImpactScale(score, cited, path) + 10 * context.timing
         + 15 * context.market) \div 100

\* What _finalize publishes.
Fallback == reason = "model"
Clamp(score) == IF score > 69 THEN 69 ELSE IF score < -69 THEN -69 ELSE score

Recommendation ==
  LET cited == draft.cited \intersect gathered
      score == IF Fallback THEN Clamp(draft.score) ELSE draft.score
      confidence == Confidence(score, cited, draft.path)
      missing == draft.missing \/ cited = {}
      source == IF Fallback THEN "rule_fallback" ELSE "llm"
      tradeable == /\ source = "llm" /\ structural
                   /\ Rating(score) \in {"bullish", "strongly_bullish"}
                   /\ confidence >= 55 /\ ~missing
  IN  [class |-> context.class, version |-> "llm-direction-v3", source |-> source,
       supported |-> context.class \in {"equity", "crypto"},
       status |-> IF tradeable THEN "tradeable" ELSE "untradeable",
       score |-> score, strength |-> score, complete |-> structural,
       rating |-> Rating(score), confidence |-> confidence,
       draft |-> draft, evidence |-> gathered, semantic |-> semantic]

-----------------------------------------------------------------------------
\* run(): the run is saved as running and the graph starts from its first node.
Run ==
  /\ node \in {"start", "dead"} /\ executions < MaxExecutions
  /\ executions' = executions + 1
  /\ runStatus' = "running" /\ node' = "gather"
  /\ gathered' = {} /\ draft' = NoDraft /\ structural' = FALSE /\ semantic' = FALSE
  /\ factor' = 0 /\ rec' = NoDraft
  /\ UNCHANGED <<context, reason>>

\* _build_evidence: every source drops what is later than the run's as_of.
Admissible == {e \in Evidence : ~e.late}

\* _gather: a provider may fail, its evidence is then missing.
Gather ==
  /\ node = "gather" /\ node' = "draft"
  /\ gathered' \in SUBSET Admissible
  /\ factor' \in {-80, 40}
  /\ UNCHANGED <<context, reason, draft, structural, semantic, rec, runStatus, executions>>

\* _draft with an answer of the model ...
Draft ==
  /\ node = "draft" /\ node' = "verify"
  /\ \E score \in Scores, cited \in SUBSET (gathered \union {Unknown}),
        text, missing \in BOOLEAN, path \in 2 .. 3 :
       draft' = [by |-> "llm", score |-> score, cited |-> cited, text |-> text,
                 missing |-> missing, path |-> path]
  /\ UNCHANGED <<context, reason, factor, gathered, structural, semantic, rec,
                 runStatus, executions>>

\* ... and without: rules draft from the factors and leave sections empty.
FallbackDraft ==
  /\ node = "draft" /\ node' = "verify"
  /\ reason' = "model"
  /\ draft' = [by |-> "rules", score |-> Clamp(factor), cited |-> gathered,
               text |-> FALSE, missing |-> FALSE, path |-> 2]
  /\ UNCHANGED <<context, factor, gathered, structural, semantic, rec, runStatus, executions>>

\* _verify; the semantic check runs only on a complete report of the model.
Verify ==
  /\ node = "verify" /\ node' = "finalize"
  /\ structural' = StructuralComplete(draft)
  /\ \/ /\ structural' /\ reason = "none"
        /\ \E answers \in [Claims -> Answer], says \in BOOLEAN :
             semantic' = SemanticComplete(draft.score, answers, says)
     \/ semantic' = FALSE      \* not run, or the verifier is unavailable
  /\ runStatus' = "verifying"
  /\ UNCHANGED <<context, reason, factor, gathered, draft, rec, executions>>

\* _finalize saves the recommendation, then the run, then writes the report.
SaveRecommendation ==
  /\ node = "finalize" /\ node' = "saving"
  /\ rec' = Recommendation
  /\ UNCHANGED <<context, reason, factor, gathered, draft, structural, semantic,
                 runStatus, executions>>

SaveRun ==
  /\ node = "saving" /\ node' = "report"
  /\ runStatus' = "completed"
  /\ UNCHANGED <<context, reason, factor, gathered, draft, structural, semantic,
                 rec, executions>>

WriteReport ==
  /\ node = "report" /\ node' = "done"
  /\ UNCHANGED <<context, reason, factor, gathered, draft, structural, semantic,
                 rec, runStatus, executions>>

\* Any node raises, the report's included: the run is saved as failed, with the
\* recommendation it may already have.
Raises ==
  /\ node \in {"gather", "draft", "verify", "finalize", "saving", "report"}
  /\ node' = "failed" /\ runStatus' = "failed"
  /\ UNCHANGED <<context, reason, factor, gathered, draft, structural, semantic,
                 rec, executions>>

\* The worker dies; the message comes back.
Dies ==
  /\ node \in {"gather", "draft", "verify", "finalize", "saving"}
  /\ executions < MaxExecutions
  /\ node' = "dead"
  /\ UNCHANGED <<context, reason, factor, gathered, draft, structural, semantic,
                 rec, runStatus, executions>>

Next ==
  \/ Run \/ Gather \/ Draft \/ FallbackDraft \/ Verify
  \/ SaveRecommendation \/ SaveRun \/ WriteReport \/ Raises \/ Dies

-----------------------------------------------------------------------------
\* A recommendation that may become an order rests on a complete report of the
\* model with a bullish score, whose citations all exist, none of them later
\* than the run's as_of, and which come from an official source or from two
\* texts that differ, and there is an event it is about (research.py, _verify
\* and _finalize; portfolio.py).  The semantic check is no part of it: its
\* result is only a warning.
TradeableIsSound ==
  rec # NoDraft /\ MayTrade(rec) => LET r == rec IN
    /\ r.draft.by = "llm" /\ r.draft.text /\ ~r.draft.missing
    /\ r.draft.score >= 30
    /\ r.draft.cited # {} /\ r.draft.cited \subseteq r.evidence
    /\ \A e \in r.evidence : ~e.late
    /\ \/ \E e \in r.draft.cited : e.official
       \/ \E e, f \in r.draft.cited : e.content # f.content
    /\ context.event
=============================================================================
