---------------------------- MODULE MCDecisions ----------------------------
(***************************************************************************)
(* An instance of all the parts that decide about a recommendation, an     *)
(* order, a patch or a page from what they have read.                      *)
(***************************************************************************)
EXTENDS EventDecisions, ResearchDecisions, ServiceDecisions

CONSTANTS stock, coin, token

\* PaperBook
MCFirstQuote == [a \in {stock, coin, token} |-> 10]
MCLotOf == [a \in {stock, coin, token} |-> IF a = stock THEN 10 ELSE 1]
MCCostBps == [a \in {stock, coin, token} |-> IF a = stock THEN 15 ELSE 25]

\* Outcomes
Close(d) == 100 + 10 * d
HalfPercent(h) == 5 * h

\* ResearchAdmission
MCMoments == <<0, 4, 6, 16>>
MCGatePublished == <<0>>

\* ResearchGraph
Item(o, g, c, l, n) ==
  [official |-> o, group |-> g, content |-> c, late |-> l, numeric |-> n]
MCEvidence ==
  {Item(TRUE, "sec", "a", FALSE, TRUE), Item(FALSE, "g", "b", FALSE, FALSE),
   Item(FALSE, "h", "b", FALSE, TRUE), Item(FALSE, "g", "c", FALSE, FALSE),
   Item(FALSE, "h", "d", TRUE, FALSE)}
MCContext ==
  LET C(class, event, mapped, financial, business, history, market, timing) ==
        [class |-> class, event |-> event, mapped |-> mapped,
         financial |-> financial, business |-> business,
         history |-> history, market |-> market, timing |-> timing]
  IN  {C("equity", TRUE, 90, 100, 80, <<1, 1, 1>>, 80, 100),
       C("crypto", TRUE, 60, 100, 0, <<-1>>, 70, 75),
       C("fx", TRUE, 90, 100, 80, <<1, 1, 1>>, 80, 100),
       C("equity", FALSE, 90, 100, 80, <<>>, 80, 0)}
MCGraphScores == {-40, 40}

\* TargetTrends
Impact(s, r, p, f) ==
  [score |-> s, rating |-> r, persistence |-> p, realization |-> p, failed |-> f]
MCShortDecay == [a \in {0, 6, 30, 120} |-> CASE a = 0 -> 100 [] a = 6 -> 25 [] OTHER -> 0]
MCLongDecay ==
  [a \in {0, 6, 30, 120} |-> CASE a = 0 -> 100 [] a = 6 -> 87 [] a = 30 -> 50 [] OTHER -> 6]
MCGroup ==
  {<<Impact(90, 80, 80, FALSE)>>, <<Impact(-90, 80, 80, FALSE)>>,
   <<Impact(40, 50, 40, FALSE)>>, <<Impact(40, 30, 40, FALSE)>>,
   <<Impact(0, 50, 80, TRUE)>>,
   <<Impact(-40, 60, 40, FALSE), Impact(-50, 50, 40, FALSE)>>,
   <<Impact(-40, 60, 40, FALSE), Impact(80, 50, 40, FALSE)>>}

\* QueueView
MCAssetOf == <<1, 1, 2>>
MCMaxTime == [research |-> 7, assist |-> 3]

\* EventClusters
Named(i, s) == [issuer |-> i, strength |-> s]
MCPublished == <<0, 1, 3>>
MCTypeOf == [n \in 1 .. 3 |-> "product"]
MCNamedBy == <<{Named(1, 4)}, {Named(1, 4), Named(2, 4)}, {Named(2, 4)}>>
MCEntitiesOf == <<{"x"}, {"x"}, {}>>
MCLikeness == <<<<3, 2, 0>>, <<2, 3, 1>>, <<0, 1, 3>>>>
MCBatch == {<<1, 2, 2>>, <<3, 2>>}

\* MappingSweep
MCFirstSeen == <<2, 2, 0>>

\* EventReport
Source(q, g, c, l, f) == [quality |-> q, group |-> g, content |-> c, late |-> l, fresh |-> f]
Proposal(n, a, s) ==
  [name |-> n, asset |-> a, score |-> s, confidence |-> 60, cites |-> TRUE,
   action |-> TRUE, gaps |-> FALSE]
reprint == Source(65, "b", "x", FALSE, 50)
wire == Source(65, "a", "x", FALSE, 50)
lateItem == Source(82, "b", "y", TRUE, 100)
official == Source(100, "gov", "z", FALSE, 90)
MCTopic ==
  LET T(news, assets, peers, macro, force, replay, unmapped) ==
        [news |-> news, macro |-> macro, force |-> force, replay |-> replay,
         candidates |-> [k \in 1 .. Len(assets) |->
                           [asset |-> assets[k], peer |-> assets[k] \in peers]],
         unmapped |-> unmapped, staged |-> TRUE, original |-> 35,
         clarity |-> 85, filled |-> 75]
  IN  {T({wire, reprint}, <<1, 2>>, {2}, FALSE, FALSE, FALSE, FALSE),
       T({official}, <<1, 2, 3>>, {}, TRUE, FALSE, FALSE, FALSE),
       T({wire, lateItem}, <<1>>, {}, FALSE, TRUE, FALSE, FALSE),
       T({wire, lateItem, official}, <<1>>, {}, FALSE, TRUE, TRUE, FALSE),
       T({wire, official}, <<>>, {}, FALSE, FALSE, FALSE, TRUE)}
MCWeb == {Source(65, "web", "y", FALSE, 100), Source(65, "web2", "w", FALSE, 100)}
MCLlmImpacts ==
  {<<Proposal("a", 1, 80)>>,
   <<Proposal("one", 1, 80), Proposal("a", 1, 40), Proposal("gdp", 0, 0)>>,
   <<Proposal("gdp", 0, -40), Proposal("b", 2, 40), Proposal("oil", 0, 30)>>,
   <<Proposal("volume", 0, 50)>>,
   <<Proposal("a", 1, 40), Proposal("a", 1, 30)>>}
MCRuleImpacts == {<<>>, <<Proposal("gdp", 0, -75), Proposal("a", 1, 75)>>}

\* AssetMapping
Row(names, code, products, issuer, primary, market, industry, tier, cap) ==
  [names |-> names, code |-> code, products |-> products, issuer |-> issuer,
   primary |-> primary, market |-> market, industry |-> industry, active |-> TRUE,
   tier |-> tier, fund |-> FALSE, cap |-> cap]
Words == {"ali", "BABA", "ten", "pepe", "frog", "qwen", "tech", "robot"}
MCListing ==
  <<Row({"ali"}, "9988", {}, "i1", 2, "HK", "tech", "standard", 5),
    Row({"ali"}, "BABA", {"qwen"}, "i1", 0, "US", "tech", "standard", 5),
    Row({"ten"}, "0700", {}, "none", 0, "HK", "tech", "standard", 6),
    Row({"robot"}, "HK3", {}, "none", 0, "HK", "robot", "standard", 1),
    Row({"pepe"}, "PEPE", {}, "none", 0, "CRYPTO", "none", "exact_only", 1),
    Row({"pepe", "frog"}, "FROG", {}, "none", 0, "CRYPTO", "none", "exact_only", 1)>>
MCTexts == {t \in SUBSET Words : Cardinality(t) \in 1 .. 3}
MCTags == {{}, {"9988"}}
MCHints ==
  LET H(id, symbol, name, mention, market, relationship, confidence) ==
        [asset |-> id, symbol |-> symbol, name |-> name, mention |-> mention,
         market |-> market, relationship |-> relationship, confidence |-> confidence]
  IN  {H(0, "none", "ali", "ali", "any", "direct", 90),
       H(0, "9988", "ali", "ali", "any", "direct", 70),
       H(0, "none", "ten", "ali", "any", "direct", 90),
       H(3, "none", "ten", "tech", "any", "entity", 80),
       H(1, "none", "ali", "ali", "HK", "entity", 60),
       H(0, "none", "qwen", "qwen", "any", "product_owner", 60),
       H(0, "none", "pepe", "pepe", "any", "direct", 80),
       H(0, "FROG", "frog", "frog", "any", "direct", 80),
       H(4, "none", "robot", "robot", "any", "direct", 80),
       H(0, "0700", "ten", "ten", "any", "direct", 50)}
MCIndustries == <<"tech", "robot">>

\* EvolutionTasks
Outcome(run, correct, alpha) == [run |-> run, correct |-> correct, alpha |-> alpha]
Ended(st, retryable) == [status |-> st, retryable |-> retryable]
MCHistories ==
  {<<>>, <<Outcome(2, FALSE, "none"), Outcome(2, FALSE, "none")>>,
   <<Outcome(1, TRUE, "positive"), Outcome(2, FALSE, "none"),
     Outcome(3, TRUE, "negative"), Outcome(4, FALSE, "negative")>>}
MCRuns ==
  <<Ended("completed", FALSE), Ended("failed", FALSE),
    Ended("insufficient_evidence", TRUE), Ended("insufficient_evidence", FALSE)>>

-----------------------------------------------------------------------------
\* A part that does not move starts in one of its initial states.
Init ==
  /\ part \in {"evolution", "book", "outcomes", "graph", "trends", "page",
              "clusters", "sweep", "report", "mapping", "tasks", "cache", "gate"}
  /\ Mapper!Init /\ (part # "mapping" => text = {"ali"} /\ tags = {} /\ reply = "failed")
  /\ Tasks!Init /\ (part # "tasks" => recorded = <<>> /\ enabled)
  /\ Evolution!Init /\ (part # "evolution" => autoMerge)
  /\ Book!Init
  /\ Scored!Init
  /\ part # "outcomes" =>
       /\ advice = [asOf |-> 0, unit |-> "calendar_days", horizon |-> 1,
                    score |-> 40, signal |-> "directional"]
       /\ \A d \in DOMAIN asset : asset[d] = 100 /\ benchmark[d] # 0
  /\ Graph!Init /\ (part # "graph" => context.class = "fx")
  /\ Trends!Init
  /\ Page!Init /\ (part # "page" => lane = "assist")
  /\ Clusters!Init
  /\ Sweep!Init /\ (part # "sweep" => poor = {})
  /\ Cache!Init /\ Gate!Init
  /\ Reports!Init /\ (part # "report" => topic.replay)

Next ==
  \/ EventsNext /\ UNCHANGED <<researchVars, serviceVars>>
  \/ ResearchNext /\ UNCHANGED <<eventVars, serviceVars>>
  \/ ServicesNext /\ UNCHANGED <<eventVars, researchVars>>

Spec == Init /\ [][Next]_<<part, eventVars, researchVars, serviceVars>>
=============================================================================
