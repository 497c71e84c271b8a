------------------------------ MODULE MCPages -------------------------------
(***************************************************************************)
(* The page layer with one page, two threads without a laundry or one with *)
(* it; one domain of five pages; an object of five pages; and two domains  *)
(* whose daemons may kill one of two processes, the second the larger.     *)
(***************************************************************************)
EXTENDS PageLayer, TLC

CONSTANTS p1, t1, t2, t3, d1, d2, u1, u2, pp, k1, k2

Symmetry == Permutations({t1, t2})

MCOrder == <<k1, k2>>

MCSize(p) == IF p = k2 THEN 2 ELSE 1
=============================================================================
