----------------------------- MODULE MCProgress -----------------------------
(***************************************************************************)
(* Three threads that contend for a page, one CPU that idles and two that  *)
(* give it threads, the laundry thread, and two pages on the active queue, *)
(* with the fairness each of them may count on.                            *)
(***************************************************************************)
EXTENDS Progress

CONSTANTS t1, t2, t3, c1, c2, p1, p2

MCShortfalls == {-1, 0, 1, 3}

(* The fairness each module assumes, for the one that runs.  What is fair  *)
(* in one part and what is fair in another never meet in a behaviour, so   *)
(* they share a formula, which keeps TLC's search short.                   *)
Weakly(i) ==
  \/ OfBusy(i <= 3 /\ Running(<<t1, t2, t3>>[i]))
  \/ OfIdle(\/ i <= 3 /\ I!Drain(<<Self, c1, c2>>[i])
            \/ i \in 4..5 /\ I!Finish(<<c1, c2>>[i - 3])
            \/ i = 6 /\ I!IdleLoop)
  \/ OfLaundry((i = 1 /\ L!Worker) \/ (i = 2 /\ L!Pass))
  \/ OfScan(i = 1 /\ A!Daemon)

Strongly(i) ==
  \/ OfBusy(Blocking(<<t1, t2, t3>>[i]))
  \/ OfIdle((i = 1 /\ I!Switch) \/ (i = 2 /\ I!Preempt))
  \/ OfLaundry(i = 1 /\ L!LaunderAny(1..7))
  \/ OfScan(i = 1 /\ A!IdleLook)

MCSpec ==
  /\ ProgressSpec
  /\ \A i \in 1..6 : WF_all(Weakly(i))
  /\ \A i \in 1..3 : SF_all(Strongly(i))

(* A thread that sleeps for the page wakes up: see PageBusy.  The threads  *)
(* are alike, so it is enough to follow one.                               *)
SleepersWake == WakesUp(t1)
=============================================================================
