---------------------------- MODULE MCMappingTasks ----------------------------
(***************************************************************************)
(* Instances: one event.                                                   *)
(***************************************************************************)
EXTENDS MappingTasks

CONSTANTS e1, w1, w2
===============================================================================
