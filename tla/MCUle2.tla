------------------------------- MODULE MCUle2 -------------------------------
(***************************************************************************)
(* Two CPUs: stealing, balancing, binding, affinity and preemption.        *)
(* Priorities 0..1 are kernel ones, 2..3 interactive, 4..5 batch.          *)
(***************************************************************************)
EXTENDS Ule

CONSTANTS c1, c2, a, b, k

TwoMasks == {{c1}, {c2}, {c1, c2}}

TwoUserPris ==
  [t \in Thread |-> CASE t = a -> {4} [] t = b -> {5} [] t = k -> {1}]
=============================================================================
