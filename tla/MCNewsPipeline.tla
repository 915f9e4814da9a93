---------------------------- MODULE MCNewsPipeline ----------------------------
(***************************************************************************)
(* Instance: one item; the ids of its dispatches d1, d2, ... and an id for *)
(* a retry by hand.                                                        *)
(***************************************************************************)
EXTENDS NewsPipeline

CONSTANTS n1, d1, d2, d3, d4, m1, w1, scan, beat, extract

MCNewsOf   == [j \in Job |-> n1]
MCIdOf     == [n \in News |-> <<d1, d2, d3, d4>>]
MCQueueOf  == [j \in Job |-> extract]
MCKeyOf    == MCNewsOf
MCPriority == [j \in Job |-> 5]
MCParents  == [j \in Job |-> {}]
MCQueuesOf == [w \in Worker |-> {extract}]
===============================================================================
