---------------------------- MODULE MCResearchRuns ----------------------------
(***************************************************************************)
(* Instances: two runs of one asset and one run of an event.               *)
(***************************************************************************)
EXTENDS ResearchRuns, TLC

CONSTANTS x1, x2, e1, a1, w1, w2, api

MCAssetOf == [r \in AssetRun |-> a1]

\* The runs of the asset are alike, and so are the workers.
MCSymmetry == Permutations(AssetRun) \cup Permutations(Worker)
===============================================================================
