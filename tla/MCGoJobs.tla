------------------------------- MODULE MCGoJobs -------------------------------
(***************************************************************************)
(* Instance: two jobs that do the same work and one child job that depends *)
(* on the first and is served earlier; two workers of one queue.           *)
(***************************************************************************)
EXTENDS GoJobs

CONSTANTS j1, j2, j3, w1, w2, news, extract

MCQueueOf   == [j \in Job |-> extract]
MCKeyOf     == [j \in Job |-> IF j = j3 THEN NoKey ELSE news]
MCPriority  == [j \in Job |-> IF j = j3 THEN 3 ELSE 5]
MCParents   == [j \in Job |-> IF j = j3 THEN {j1} ELSE {}]
MCQueuesOf  == [w \in Worker |-> {extract}]
===============================================================================
