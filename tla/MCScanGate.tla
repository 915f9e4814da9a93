------------------------------ MODULE MCScanGate ------------------------------
(***************************************************************************)
(* Instances of ScanGate: scans and slots are model values.                *)
(***************************************************************************)
EXTENDS ScanGate

CONSTANTS t1, t2, t3, t4, s1, s2
===============================================================================
