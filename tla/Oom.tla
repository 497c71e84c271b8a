-------------------------------- MODULE Oom --------------------------------
(***************************************************************************)
(* The last resort of the page daemons (vm_pageout.c): each domain's       *)
(* daemon counts the passes that freed nothing and votes; the one whose    *)
(* vote makes them unanimous walks the list of processes, whose lock it    *)
(* drops while it sizes each, and kills the largest.                       *)
(***************************************************************************)
EXTENDS Integers, FiniteSets, Sequences

CONSTANTS
  Domain,     \* the memory domains, vm_ndomains of them
  Bare,       \* those without memory, which have no daemon
  Proc,       \* processes
  Order,      \* allproc, as a sequence of them
  Size(_),    \* what killing a process would free
  OomSeq,     \* vm_pageout_oom_seq
  NoProc

(* What an instance must satisfy. *)
OomAssumption ==
  /\ IsFiniteSet(Domain) /\ Bare \subseteq Domain
  /\ NoProc \notin Proc /\ Order \in Seq(Proc)
  /\ \A p \in Proc : Size(p) \in Nat
  /\ OomSeq \in Nat

VARIABLES
  seq,        \* vmd_oom_seq
  oom,        \* vmd_oom
  vote,       \* vm_pageout_oom_vote
  at,         \* where each daemon is
  cur, big,   \* the process it sizes, and the largest it met
  state,      \* of a process: "normal", "exiting", "gone"
  shielded,   \* processes with P_PROTECTED
  killed,     \* processes with a kill pending
  hold        \* p_lock, the holds of a process

vars == <<seq, oom, vote, at, cur, big, state, shielded, killed, hold>>
votes == <<seq, oom, vote>>
procs == <<state, shielded, killed, hold>>

Daemons == Domain \ Bare

Init ==
  /\ seq = [d \in Domain |-> 0]
  /\ oom = [d \in Domain |-> FALSE]
  /\ vote = 0
  /\ at = [d \in Daemons |-> "scan"]
  /\ cur = [d \in Daemons |-> NoProc] /\ big = [d \in Daemons |-> NoProc]
  /\ state = [p \in Proc |-> "normal"]
  /\ shielded = {} /\ killed = {}
  /\ hold = [p \in Proc |-> 0]

At(d, here, there) == at[d] = here /\ at' = [at EXCEPT ![d] = there]

-----------------------------------------------------------------------------
(* vm_pageout_mightbe_oom *)

\* A pass that freed something, or had nothing to free, starts the count again.
Freed(d) ==
  /\ At(d, "scan", IF oom[d] THEN "recall" ELSE "scan")
  /\ seq' = [seq EXCEPT ![d] = 0]
  /\ oom' = [oom EXCEPT ![d] = FALSE]
  /\ UNCHANGED <<vote, cur, big>> /\ UNCHANGED procs

\* A pass that freed nothing: too few of them recall the vote, the last one casts it.
FreedNothing(d) ==
  /\ IF seq[d] + 1 < OomSeq
     THEN /\ seq' = [seq EXCEPT ![d] = @ + 1]
          /\ oom' = [oom EXCEPT ![d] = FALSE]
          /\ At(d, "scan", IF oom[d] THEN "recall" ELSE "scan")
     ELSE /\ seq' = [seq EXCEPT ![d] = 0]
          /\ oom' = [oom EXCEPT ![d] = TRUE]
          /\ At(d, "scan", IF oom[d] THEN "scan" ELSE "vote")
  /\ UNCHANGED <<vote, cur, big>> /\ UNCHANGED procs

Recall(d) ==
  /\ At(d, "recall", "scan")
  /\ vote' = vote - 1
  /\ UNCHANGED <<seq, oom, cur, big>> /\ UNCHANGED procs

\* The number of domains is that of vm_ndomains, with those that have no daemon.
Quorum == Cardinality(Domain)

Vote(d) ==
  /\ At(d, "vote", IF vote # Quorum - 1 THEN "scan" ELSE "next")
  /\ vote' = vote + 1
  /\ big' = [big EXCEPT ![d] = NoProc]
  /\ cur' = [cur EXCEPT ![d] = NoProc]
  /\ UNCHANGED <<seq, oom>> /\ UNCHANGED procs

-----------------------------------------------------------------------------
(* vm_pageout_oom: the walk over allproc, whose lock is held in "next" *)

Listed(p) == state[p] # "gone"

Eligible(p) == /\ state[p] = "normal"
               /\ p \notin shielded \cup killed

\* The eligible processes behind p on the list.
Behind(p) ==
  LET from == IF p = NoProc THEN 0 ELSE CHOOSE i \in DOMAIN Order : Order[i] = p
  IN  {Order[i] : i \in {j \in DOMAIN Order : j > from /\ Eligible(Order[j])}}


\* An eligible process is held, and the list's lock dropped; those before it are skipped for
\* the states of their threads (breakout) or because they have no vmspace; at the end of the
\* list the largest process is killed, if there is one.
NextProc(d) ==
  /\ \/ /\ At(d, "next", "kill")
        /\ UNCHANGED <<cur, hold>>
     \/ \E p \in Behind(cur[d]) :
          /\ At(d, "next", "size")
          /\ cur' = [cur EXCEPT ![d] = p]
          /\ hold' = [hold EXCEPT ![p] = @ + 1]
  /\ UNCHANGED <<big, state, shielded, killed>> /\ UNCHANGED votes

Larger(p, q) == q = NoProc \/ Size(p) > Size(q)

\* Mutant of SizeProc: a process found to be the largest forgets the one before it, still held.
SizeProcForgets(d) ==
  LET p == cur[d]
      q == big[d] IN
  /\ At(d, "size", "next")
  /\ \/ Larger(p, q) /\ big' = [big EXCEPT ![d] = p] /\ UNCHANGED hold
     \/ hold' = [hold EXCEPT ![p] = @ - 1] /\ UNCHANGED big
  /\ UNCHANGED <<cur, state, shielded, killed>> /\ UNCHANGED votes

\* With the list's lock taken again, the smaller of the two processes is released; a process
\* whose map is locked is passed over.

SizeProc(d) ==
  LET p == cur[d]
      q == big[d]
      loser == IF Larger(p, q) THEN q ELSE p
  IN
  /\ At(d, "size", "next")
  /\ \/ /\ big' = [big EXCEPT ![d] = IF Larger(p, q) THEN p ELSE q]
        /\ hold' = [u \in Proc |-> IF u = loser THEN hold[u] - 1 ELSE hold[u]]
     \/ /\ hold' = [hold EXCEPT ![p] = @ - 1]
        /\ UNCHANGED big
  /\ UNCHANGED <<cur, state, shielded, killed>> /\ UNCHANGED votes

Kill(d) ==
  LET p == big[d] IN
  /\ At(d, "kill", "recall")
  /\ killed' = killed \cup ({p} \ {NoProc})
  /\ hold' = [u \in Proc |-> IF u = p THEN hold[u] - 1 ELSE hold[u]]
  /\ oom' = [oom EXCEPT ![d] = FALSE]
  /\ big' = [big EXCEPT ![d] = NoProc]
  /\ cur' = [cur EXCEPT ![d] = NoProc]
  /\ UNCHANGED <<seq, vote, state, shielded>>

-----------------------------------------------------------------------------
(* Processes (external): they protect themselves and exit; an exit takes a process off   *)
(* the list when nobody holds it and no daemon has the list's lock.                       *)

Protect(p) ==
  /\ state[p] = "normal" /\ p \notin shielded
  /\ shielded' = shielded \cup {p}
  /\ UNCHANGED <<at, cur, big, state, killed, hold>> /\ UNCHANGED votes

Exit(p) ==
  /\ state[p] = "normal"
  /\ state' = [state EXCEPT ![p] = "exiting"]
  /\ UNCHANGED <<at, cur, big, shielded, killed, hold>> /\ UNCHANGED votes

Gone(p) ==
  /\ state[p] = "exiting" /\ hold[p] = 0
  /\ state' = [state EXCEPT ![p] = "gone"]
  /\ UNCHANGED <<at, cur, big, shielded, killed, hold>> /\ UNCHANGED votes

Pass(d) == \/ Freed(d) \/ FreedNothing(d) \/ Recall(d) \/ Vote(d)
             \/ NextProc(d) \/ SizeProc(d) \/ Kill(d)

Next ==
  \/ \E d \in Daemons : Pass(d)
  \/ \E p \in Proc : Protect(p) \/ Exit(p) \/ Gone(p)

Spec == Init /\ [][Next]_vars

-----------------------------------------------------------------------------
TypeOK ==
  /\ seq \in [Domain -> 0..OomSeq]
  /\ oom \in [Domain -> BOOLEAN]
  /\ vote \in 0..Cardinality(Domain)
  /\ at \in [Daemons -> {"scan", "recall", "vote", "next", "size", "kill"}]
  /\ cur \in [Daemons -> Proc \cup {NoProc}] /\ big \in [Daemons -> Proc \cup {NoProc}]
  /\ state \in [Proc -> {"normal", "exiting", "gone"}]
  /\ hold \in [Proc -> 0..2 * Cardinality(Domain)]

Sizing(p) == {d \in Daemons : at[d] = "size" /\ cur[d] = p}

Largest(p) == {d \in Daemons : big[d] = p}

\* The domains whose vote is in the counter.
Voters == {d \in Daemons : IF oom[d] THEN at[d] # "vote" ELSE at[d] = "recall"}

\* The process a daemon stands on, or would kill, is on the list whenever the list's lock
\* is dropped, and held once for each daemon and role: the walk can go on from it.
WalkHolds ==
  /\ \A p \in Proc : hold[p] = Cardinality(Sizing(p)) + Cardinality(Largest(p))
  /\ \A d \in Daemons : at[d] = "size" => Listed(cur[d])
  /\ \A d \in Daemons : big[d] # NoProc => Listed(big[d])

\* The counter holds a vote for each domain whose flag is up, but for the instants between
\* the two; so a walk begins only when no domain has freed anything lately.
VotesCounted == vote = Cardinality(Voters)

=============================================================================
