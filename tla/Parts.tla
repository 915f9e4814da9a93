------------------------------- MODULE Parts -------------------------------
(***************************************************************************)
(* Parts of the system that share no state are composed side by side: in a *)
(* behaviour of the composition one of them moves and the others rest.     *)
(***************************************************************************)
VARIABLE part   \* the part that moves
=============================================================================
