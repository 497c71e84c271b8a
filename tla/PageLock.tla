------------------------------ MODULE PageLock ------------------------------
(***************************************************************************)
(* What the busy lock of a page promises (vm_page.c): a page is shared by  *)
(* any number of threads or owned by one, and an owner may go on as a      *)
(* sharer without giving the page up in between.                           *)
(***************************************************************************)
CONSTANT Thread

VARIABLE holding  \* how each thread holds the page: "no", "shared" or "exclusive"

Init == holding = [t \in Thread |-> "no"]

Holds(t, from, to) == holding[t] = from /\ holding' = [holding EXCEPT ![t] = to]

(* vm_page_trysbusy *)
Share(t) == Holds(t, "no", "shared") /\ \A s \in Thread : holding[s] # "exclusive"

(* vm_page_tryxbusy *)
Own(t) == Holds(t, "no", "exclusive") /\ \A s \in Thread : holding[s] = "no"

(* vm_page_busy_downgrade *)
Downgrade(t) == Holds(t, "exclusive", "shared")

(* vm_page_sunbusy, vm_page_xunbusy *)
GiveBack(t) == Holds(t, "shared", "no") \/ Holds(t, "exclusive", "no")

Next == \E t \in Thread : Share(t) \/ Own(t) \/ Downgrade(t) \/ GiveBack(t)

Spec == Init /\ [][Next]_holding
=============================================================================
