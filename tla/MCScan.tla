------------------------------- MODULE MCScan -------------------------------
(* The active queue with two pages, idle or in a shortage. *)
EXTENDS ActiveScan

CONSTANTS p1, p2
=============================================================================
