------------------------------- MODULE MCUle1 -------------------------------
(***************************************************************************)
(* One CPU, three threads: the queues and the priorities.                  *)
(* Priorities 0..1 are kernel ones, 2..3 interactive, 4..5 batch: b and k  *)
(* share a list with a while all are interactive, and leave it as they are *)
(* scored anew.                                                            *)
(***************************************************************************)
EXTENDS Ule

CONSTANTS c1, a, b, k

OneUserPris ==
  [t \in Thread |-> CASE t = a -> {2, 5} [] t = b -> {3, 4} [] t = k -> {3}]
=============================================================================
