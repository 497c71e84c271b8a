------------------------------ MODULE MCQueues ------------------------------
(* The page queues of one page and two threads, up to a failed assertion.  *)
EXTENDS PageQueues, TLC

CONSTANTS p1, t1, t2

Symmetry == Permutations({t1, t2})
=============================================================================
