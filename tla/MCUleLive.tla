----------------------------- MODULE MCUleLive ------------------------------
(***************************************************************************)
(* One CPU and three batch threads with priorities of their own, as three  *)
(* nice values give them.  Priorities 4..7 are batch ones.                 *)
(***************************************************************************)
EXTENDS Ule

CONSTANTS c1, a, b, k

NicePris == [t \in Thread |-> CASE t = a -> {4} [] t = b -> {5} [] t = k -> {7}]
=============================================================================
