----------------------------- MODULE TradeGate -----------------------------
(***************************************************************************)
(* What a recommendation must be before it may become a paper order: the   *)
(* refusals at the head of create_from_recommendation                      *)
(* (services/portfolio.py), over the fields they read, and the rating      *)
(* bands they rest on (services/confidence_v3.py).  Confidences and        *)
(* strengths are in per cent.                                              *)
(***************************************************************************)
EXTENDS Integers

Rating(score) ==
  CASE score >= 70 -> "strongly_bullish"
    [] score \in 30 .. 69 -> "bullish"
    [] score \in -69 .. -30 -> "bearish"
    [] score <= -70 -> "strongly_bearish"
    [] OTHER -> "watch"

V3Gate(r) ==
  /\ r.source = "llm" /\ r.supported /\ r.status = "tradeable"
  /\ r.score >= 30
  /\ r.complete

V2Gate(r) ==
  r.supported /\ r.status = "tradeable" /\ (r.strength >= 25 \/ r.strength <= -25)

MayTrade(r) ==
  /\ r.class \in {"equity", "crypto"}
  /\ r.version = "llm-direction-v3" => V3Gate(r)
  /\ r.version = "target-transmission-v2" => V2Gate(r)
  /\ r.rating \in {"bullish", "strongly_bullish"}
  /\ r.confidence >= 55
=============================================================================
