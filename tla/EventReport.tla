----------------------------- MODULE EventReport -----------------------------
(***************************************************************************)
(* The report on one event (services/event_research.py, the targets by     *)
(* services/macro_impacts.py, the credibility of the news by               *)
(* services/confidence_v3.py): draft, verify, search the web, draft again  *)
(* or revise, finalize.  An execution may raise or die at every step and   *)
(* the task then runs again on what the run saved last.                    *)
(*                                                                         *)
(* The text of a draft is whether its sections are there; the confidence   *)
(* of a rating, ResearchGraph models it, comes with the drafted impact.    *)
(* `late' evidence is later than the as_of the run was queued with.        *)
(* Values are in per cent.                                                 *)
(***************************************************************************)
EXTENDS Integers, Sequences, FiniteSets, FiniteSetsExt, Functions, Ranks

CONSTANTS
  Topic,       \* [news, candidates, macro, force, replay, unmapped, ...]
  Web,         \* what the search may find
  LlmImpacts,  \* the impacts the model may propose, sequences
  RuleImpacts, \* those of the versioned rules
  MaxDirect, MaxTargets,  \* MAX_DIRECT_TARGETS, MAX_TARGET_IMPACTS
  MaxRounds,   \* max_verification_rounds
  MaxAttempts  \* bound: how often the task runs

VARIABLES
  phase,       \* the next step of run(), or how the execution ended
  topic,
  grounds,     \* run.evidence
  extended,    \* the web search has moved run.as_of to its own time
  outline,     \* the draft
  verdict,     \* of the last verification
  rounds,      \* run.verification_round
  setback,     \* run.retryable_reason
  draftError,  \* the first draft of this execution is one of the rules
  kept,        \* run.retryable_reason as saved last
  report, reportStatus,
  credible,    \* history: the credibility of the news before the search
  attempts

vars == <<phase, topic, grounds, extended, outline, verdict, rounds, setback,
          draftError, kept, report, reportStatus, credible, attempts>>

Elsewhere == [quality |-> 0, group |-> "none", content |-> "none", late |-> FALSE, fresh |-> 0]
NoDraft == [structured |-> FALSE, cites |-> {}, impacts |-> <<>>]
NoVerdict == [complete |-> FALSE, sources |-> FALSE, timely |-> FALSE, sections |-> FALSE]
NoReport == [impacts |-> <<>>, complete |-> FALSE, news |-> 0, failed |-> FALSE]

Init ==
  /\ phase = "start" /\ topic \in Topic /\ grounds = {} /\ extended = FALSE
  /\ outline = NoDraft /\ verdict = NoVerdict /\ rounds = 0
  /\ setback = FALSE /\ draftError = FALSE /\ kept = FALSE
  /\ report = NoReport /\ reportStatus = "queued" /\ credible = 0 /\ attempts = 0

-----------------------------------------------------------------------------
\* independent_evidence_groups: reprints of one text count once.
Groups(items) ==
  LET repeated == {e.content : e \in {f \in items : \E g \in items : g # f /\ g.content = f.content}}
  IN  {IF e.content \in repeated THEN <<"content", e.content>> ELSE <<"group", e.group>> : e \in items}

Official(items) == \E e \in items : e.quality = 100
Best(values) == Max(values \union {0})

\* news_confidence_score, in hundredths of a per cent.
Verification(items) ==
  LET n == Cardinality(Groups(items))
  IN  IF n = 1 /\ Official(items) THEN 70
      ELSE IF n = 0 THEN 0 ELSE IF n = 1 THEN 50 ELSE IF n = 2 THEN 80 ELSE 100

NewsConfidence(items) ==
  30 * Best({e.quality : e \in items}) + 20 * topic.original + 20 * Verification(items)
    + 15 * topic.clarity
    + (15 * (60 * topic.filled + 40 * Best({e.fresh : e \in items}))) \div 100

\* _verify: the sections and citations, the point in time, the source gate.
Unique(impacts) == \A i, j \in DOMAIN impacts : impacts[i].name = impacts[j].name => i = j

Verdict(draft, items, later) ==
  LET cited == draft.cites \intersect items
      sections == /\ draft.structured /\ draft.impacts # <<>> /\ Unique(draft.impacts)
                  /\ draft.cites # {} /\ draft.cites \subseteq items
      timely == later \/ \A e \in items : ~e.late
      sources == Official(cited) \/ Cardinality(Groups(cited)) >= 2
  IN  [complete |-> sections /\ timely /\ sources,
       sources |-> sources, timely |-> timely, sections |-> sections]

-----------------------------------------------------------------------------
\* finalize_impacts.  _sanitize_target_drafts drops activity, not a target.
Sanitized(impacts) ==
  Picked(impacts, {k \in DOMAIN impacts : impacts[k].asset # 0 \/ impacts[k].name # "volume"})

FirstOf(impacts, n) == Picked(impacts, {k \in DOMAIN impacts : k <= n})
Candidates == FirstOf(topic.candidates, MaxDirect)
DirectIds == {c.asset : c \in Range(Candidates)}
Peers == {c.asset : c \in {d \in Range(topic.candidates) : d.peer}}

\* Defect: the proposals keep the order of the model.
OrderedAsProposed(draft) == FirstOf(Sanitized(draft.impacts), MaxTargets)

\* A direct candidate without a proposal gets an empty one; those of direct
\* candidates come first, what does not fit is dropped.
Ordered(draft) ==
  LET proposed == Sanitized(draft.impacts)
      named == {i.asset : i \in Range(proposed)}
      Empty(c) == [name |-> "listed", asset |-> c.asset, score |-> 0, confidence |-> 0,
                   cites |-> draft.cites # {}, action |-> TRUE, gaps |-> TRUE]
      left == Picked(Candidates, {k \in DOMAIN Candidates : Candidates[k].asset \notin named})
      all == proposed \o [k \in DOMAIN left |-> Empty(left[k])]
      direct == FirstOf(Picked(all, {k \in DOMAIN all : all[k].asset \in DirectIds}), MaxDirect)
      indirect == Without(all, Range(direct))
  IN  FirstOf(direct \o indirect, MaxTargets)

Target(impact) == <<impact.asset, IF impact.asset = 0 THEN impact.name ELSE "asset">>
FirstOfTarget(impacts) ==
  Picked(impacts, {k \in DOMAIN impacts :
                     \A j \in 1 .. k - 1 : Target(impacts[j]) # Target(impacts[k])})

Clamp(score) == Max({-69, Min({69, score})})

\* A report that failed the gate has it as a gap of every impact.
Published(impact, failed, complete) ==
  LET score == IF failed THEN Clamp(impact.score) ELSE impact.score
      gaps == \/ impact.gaps \/ ~impact.action \/ ~topic.staged
              \/ ~(impact.cites /\ outline.cites \intersect grounds # {})
              \/ impact.asset \in Peers
      tradeable == /\ impact.asset # 0 /\ score >= 30 /\ impact.confidence >= 55
                   /\ ~gaps /\ ~failed /\ complete
  IN  [target |-> Target(impact), score |-> score, confidence |-> impact.confidence,
       gaps |-> gaps \/ ~complete, tradeable |-> tradeable,
       source |-> IF failed THEN "rule_fallback" ELSE "llm"]

Report ==
  LET failed == draftError \/ topic.unmapped
      impacts == FirstOfTarget(Ordered(outline))
  IN  [impacts |-> [k \in DOMAIN impacts |-> Published(impacts[k], failed, verdict.complete)],
       complete |-> verdict.complete, news |-> NewsConfidence(grounds), failed |-> failed]

-----------------------------------------------------------------------------
\* The model answers, with citations right or wrong, or does not.
Drafted(items) ==
  {[structured |-> s, cites |-> c, impacts |-> i] :
     s \in BOOLEAN, i \in LlmImpacts, c \in {items, {}, items \union {Elsewhere}}
                                           \union {{e} : e \in items}}
RuleDrafts(items) == {[structured |-> TRUE, cites |-> items, impacts |-> i] : i \in RuleImpacts}

\* research_event and the head of run(): a finished run is not run again; a
\* replay keeps what was known at its time.  The reason of the last attempt
\* is still on the run.
Run ==
  /\ phase = "start" /\ reportStatus \notin {"completed", "insufficient_evidence"}
  /\ attempts < MaxAttempts /\ attempts' = attempts + 1
  /\ reportStatus' = "running"
  /\ grounds' = {n \in topic.news : topic.replay => ~n.late}
  /\ outline' = NoDraft /\ verdict' = NoVerdict /\ rounds' = 0
  /\ setback' = kept /\ draftError' = FALSE /\ credible' = NewsConfidence(grounds')
  /\ phase' = "draft"
  /\ UNCHANGED <<topic, extended, kept, report>>

Draft ==
  /\ phase = "draft" /\ phase' = "verify"
  /\ \/ outline' \in Drafted(grounds) /\ UNCHANGED <<setback, draftError>>
     \/ outline' \in RuleDrafts(grounds) /\ setback' = TRUE /\ draftError' = TRUE
  /\ kept' = setback'
  /\ UNCHANGED <<topic, grounds, extended, verdict, rounds, report, reportStatus, credible, attempts>>

Verify ==
  /\ phase = "verify" /\ reportStatus' = "verifying"
  /\ verdict' = Verdict(outline, grounds, extended) /\ rounds' = 1
  /\ phase' = IF ~topic.replay /\ (topic.force \/ topic.macro \/ ~verdict'.sources)
              THEN "search" ELSE "repair"
  /\ UNCHANGED <<topic, grounds, extended, outline, setback, draftError, kept, report, credible, attempts>>

\* Each result found moves as_of to now.
Search ==
  /\ phase = "search"
  /\ \E found \in SUBSET (Web \ grounds) :
       /\ grounds' = grounds \union found
       /\ extended' = (extended \/ found # {})
       /\ phase' = IF found # {} /\ MaxRounds > 1 /\ ~setback THEN "redraft" ELSE "repair"
  /\ UNCHANGED <<topic, outline, verdict, rounds, setback, draftError, kept, report, reportStatus, credible, attempts>>

\* Here a model that fails leaves a draft of the rules and no draft_error.
Redraft ==
  /\ phase = "redraft" /\ phase' = "repair"
  /\ \/ outline' \in Drafted(grounds) /\ UNCHANGED setback
     \/ outline' \in RuleDrafts(grounds) /\ setback' = TRUE
  /\ verdict' = Verdict(outline', grounds, extended) /\ rounds' = 2
  /\ UNCHANGED <<topic, grounds, extended, draftError, kept, report, reportStatus, credible, attempts>>

Repairable == ~verdict.complete /\ verdict.timely /\ ~verdict.sections

\* _revise, once: sources cannot be repaired, and the model may fail.
Revise ==
  /\ phase = "repair" /\ phase' = "finalize"
  /\ IF Repairable /\ ~setback /\ rounds < MaxRounds
     THEN /\ \/ outline' \in Drafted(grounds) /\ UNCHANGED setback
             \/ UNCHANGED outline /\ setback' = TRUE
          /\ verdict' = Verdict(outline', grounds, extended) /\ rounds' = 2
     ELSE UNCHANGED <<outline, setback, verdict, rounds>>
  /\ UNCHANGED <<topic, grounds, extended, draftError, kept, report, reportStatus, credible, attempts>>

Finalize ==
  /\ phase = "finalize" /\ phase' = "write"
  /\ report' = Report /\ kept' = setback
  /\ reportStatus' = IF verdict.complete /\ ~report'.failed THEN "completed"
                     ELSE "insufficient_evidence"
  /\ UNCHANGED <<topic, grounds, extended, outline, verdict, rounds, setback, draftError, credible, attempts>>

WriteReport ==
  /\ phase = "write" /\ phase' = "done"
  /\ UNCHANGED <<topic, grounds, extended, outline, verdict, rounds, setback, draftError, kept,
                 report, reportStatus, credible, attempts>>

\* An exception requeues the run, or fails it, whatever it had become; a
\* death leaves it as it was saved.
Breaks ==
  /\ phase \notin {"start", "done"} /\ phase' = "start"
  /\ reportStatus' \in {reportStatus, IF attempts < MaxAttempts THEN "queued" ELSE "failed"}
  /\ UNCHANGED <<topic, grounds, extended, outline, verdict, rounds, setback, draftError, kept,
                 report, credible, attempts>>

Next ==
  \/ Run \/ Draft \/ Verify \/ Search \/ Redraft \/ Revise \/ Finalize
  \/ WriteReport \/ Breaks

-----------------------------------------------------------------------------
\* A report is what its run can answer for: it is complete only if the draft
\* it was made from cites an official source or two independent ones among
\* evidence inside the run's as_of; it lets a target be traded only then, for
\* an asset the event's master data names itself, at the thresholds, and never
\* from the rules that stand in for a failed first draft; no target is judged
\* twice and no direct candidate is forgotten unless the draft names one asset
\* under two names; a replay knows nothing of the web or of later news; and a
\* search never makes the news less credible
\* (services/event_research.py, services/macro_impacts.py).
ReportIsSound ==
  phase \in {"write", "done"} =>
    LET impacts == Range(report.impacts)
        drafted == Sanitized(outline.impacts)
        cited == outline.cites \intersect grounds
    IN  /\ reportStatus = "completed" =>
             /\ outline.cites \subseteq grounds
             /\ Official(cited) \/ Cardinality(Groups(cited)) >= 2
             /\ extended \/ \A e \in grounds : ~e.late
        /\ \A i \in impacts : i.tradeable =>
             /\ reportStatus = "completed" /\ i.target[1] \notin Peers
             /\ i.score >= 30 /\ i.confidence >= 55
        /\ draftError => \A i \in impacts : ~i.tradeable /\ i.score \in -69 .. 69
        /\ \A j, k \in DOMAIN report.impacts :
             report.impacts[j].target = report.impacts[k].target => j = k
        /\ (\A j, k \in DOMAIN drafted :
              drafted[j].asset = drafted[k].asset /\ drafted[j].asset # 0 => j = k) =>
             DirectIds \subseteq {i.target[1] : i \in impacts}
        /\ topic.replay => \A e \in grounds : e \in topic.news /\ ~e.late
        /\ report.news >= credible
=============================================================================
