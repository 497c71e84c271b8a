---------------------------- MODULE FilesProofs ----------------------------
(***************************************************************************)
(* The system calls: what one holds is at every point what its progress    *)
(* says it owes, so that it returns with nothing on every path; what it    *)
(* changes is as its lookup found it; and a suspended file system stays as *)
(* it was flushed: for any directories, files, names, threads and calls.   *)
(* The enciphering layer: every byte keeps its own pad, and the bit tells  *)
(* of them all, for any sizes of a block and of a file.                    *)
(***************************************************************************)
EXTENDS Files, Integers, SequenceTheorems, TLAPS

(***************************************************************************)
(* The inductive invariant                                                 *)
(***************************************************************************)
Same(v, w) == IF v = w THEN 1 ELSE 0

\* The path of the lookup that is under way, or comes next.
Way(c) == IF c.op \in {"link", "rename"} /\ c.from = None THEN c.fro ELSE c.to

\* Calls that keep the directory of the name locked, and those that lock the leaf too.
Naming == Creating \cup Removing \cup {"undelete", "link", "rename"}
Pairing == Removing \cup {"rename"}

(* The references a call owes for its source, and in all.                  *)
SourceOwed(c, v) ==
  IF c.from = None THEN 0
  ELSE Same(v, c.from) + IF c.op = "rename" THEN 2 * Same(v, c.fro.dir) ELSE 0

Owed(c, v) ==
  CASE c.pc \in {"user", "xsleep"} \/ c.op = "sync" -> 0
    [] c.pc \in {"parent", "isdir"} /\ c.op # "sync" -> SourceOwed(c, v)
    [] c.pc = "leaf" /\ c.op # "sync" -> SourceOwed(c, v) + Same(v, Way(c).dir)
    [] c.pc \in {"found", "source", "wait", "lock", "vop"} /\ c.op # "sync" ->
         Same(v, c.leaf)
           + IF c.op \in Naming
             THEN SourceOwed(c, v) + IF c.op = "rename" THEN 2 * Same(v, c.to.dir)
                                     ELSE Same(v, c.to.dir)
             ELSE 0

(* The locks it has: of a name's directory, unless the lookup of "." gave  *)
(* it up, of the leaf and of the source of a link.                         *)
Locked(c) ==
  CASE c.pc = "leaf" -> {Way(c).dir}
    [] c.pc \in {"found", "source", "vop"} /\ c.op \in Naming ->
         (IF c.leaf = c.to.dir /\ c.op \notin Pairing THEN {} ELSE {c.to.dir})
           \cup (IF c.op \in Pairing THEN {c.leaf} \ {None} ELSE {})
           \cup (IF c.pc \in {"source", "vop"} /\ c.op = "link" THEN {c.from} ELSE {})
    [] c.pc \in {"found", "vop"} /\ c.op \in Waiting \cup Looking -> {c.leaf}
    [] OTHER -> {}

(* What else it has in its hand.                                           *)
Kept(c) ==
  CASE c.pc = "user" -> {{}}
    [] c.pc # "user" /\ c.op = "symlink" -> {{"text"}}
    [] c.pc # "user" /\ c.op \in Opening -> {{"file"}, {"file", "range"}}
    [] c.pc # "user" /\ c.op = "access" -> {{}, {"cred"}}
    [] c.pc # "user" /\ c.op \in {"fsync", "fallocate"} -> {{"file"}}
    [] c.pc # "user" /\ c.op = "truncate" -> {{}, {"range"}}
    [] OTHER -> {{}}

Thing == {"text", "file", "range", "cred", "panic"}
HandType ==
  [refs : [Vnode -> Int], locks : SUBSET Vnode, writer : BOOLEAN, other : SUBSET Thing]

Holds(h, c) ==
  /\ h \in HandType
  /\ \A v \in Vnode : h.refs[v] = Owed(c, v)
  /\ h.locks = Locked(c)
  /\ h.writer <=> c.pc \in {"lock", "vop"}
  /\ h.other \in Kept(c)

(* The records of calls, and what a call has found where it stands.        *)
At == {"user", "parent", "leaf", "found", "isdir", "source", "xsleep", "wait", "lock", "vop"}
CallType ==
  [op : Calling \cup {"none"}, pc : At, to : Path, fro : Path,
   leaf : Vnode \cup {None}, from : Vnode \cup {None}]

Stands(c) ==
  /\ c \in CallType
  /\ c.pc # "user" => c.op # "none"
  /\ c.from # None => c.op \in {"link", "rename"} /\ c.pc \notin {"user", "xsleep"}
  /\ c.pc \in {"found", "source", "vop"} /\ c.op \in {"link", "rename"} => c.from # None
  /\ c.pc \in {"isdir", "source"} => c.op = "link" /\ c.from # None
  /\ c.op = "link" /\ c.pc # "isdir" => c.from \notin Dir
  /\ c.pc \in {"parent", "leaf", "xsleep"} => c.op \notin {"fsync", "fallocate", "sync", "fhopen"}
  /\ c.pc = "found" => c.op \notin Waiting
  /\ c.pc = "found" /\ c.op \in Looking \cup Removing => c.leaf # None
  /\ c.pc \in {"wait", "lock"} => c.op \in Waiting \cup Opening /\ c.leaf # None
  /\ c.pc = "source" => c.leaf = None
  /\ c.pc = "vop" =>
       /\ c.op \in Creating \cup {"undelete", "link"} => c.leaf = None
       /\ c.op \in Waiting \cup Looking \cup Removing => c.leaf # None

(* The name that a call is about to change is as it was found, while its   *)
(* directory is locked and what it stands for is, too.                     *)
Current(c, h) ==
  c.pc \in {"found", "source", "vop"} /\ c.op \in Naming /\ c.to.name # Dot
  /\ c.to.dir \in h.locks /\ c.leaf \in h.locks \cup {None}
    => Leaf(c.to.dir, c.to.name) = c.leaf


Exclusive ==
  \A t \in Thread : \A u \in Thread \ {t} : hand[t].locks \cap hand[u].locks = {}

WorldType ==
  /\ entry \in [Dir -> [Name -> Vnode \cup {None, Whiteout}]]
  /\ doomed \subseteq File
  /\ susp \in {"no", "asked", "flushing", "suspended"}
  /\ flushed \subseteq Vnode

(* While the suspension flushes no writer is left.                         *)
Still == susp \in {"flushing", "suspended"} => \A t \in Thread : ~ hand[t].writer

Inv ==
  /\ DOMAIN call = Thread /\ DOMAIN hand = Thread
  /\ \A t \in Thread : Stands(call[t]) /\ Holds(hand[t], call[t]) /\ Current(call[t], hand[t])
  /\ Exclusive /\ WorldType /\ Still /\ SuspendedIsFlushed

(***************************************************************************)
(* What the calls give and take                                            *)
(***************************************************************************)
(* One reference, lock or count at a time.                                 *)
LEMMA HandParts ==
  ASSUME NEW h \in HandType
  PROVE  /\ h.refs \in [Vnode -> Int] /\ h.locks \in SUBSET Vnode
         /\ h.writer \in BOOLEAN /\ h.other \in SUBSET Thing
         /\ \A v \in Vnode : h.refs[v] \in Int
BY DEF HandType

LEMMA Referencing ==
  ASSUME NEW h \in HandType, NEW v \in Vnode
  PROVE  /\ Vref(h, v) \in HandType /\ Vrele(h, v) \in HandType
         /\ Vref(h, v).locks = h.locks /\ Vrele(h, v).locks = h.locks
         /\ Vref(h, v).writer = h.writer /\ Vrele(h, v).writer = h.writer
         /\ Vref(h, v).other = h.other /\ Vrele(h, v).other = h.other
         /\ \A x \in Vnode : Vref(h, v).refs[x] = h.refs[x] + Same(x, v)
         /\ \A x \in Vnode : Vrele(h, v).refs[x] = h.refs[x] - Same(x, v)
<1>1. h.refs \in [Vnode -> Int] /\ h.refs[v] + 1 \in Int /\ h.refs[v] - 1 \in Int
  BY HandParts
<1>2. /\ Vref(h, v) = [h EXCEPT !.refs = [h.refs EXCEPT ![v] = h.refs[v] + 1]]
      /\ Vrele(h, v) = [h EXCEPT !.refs = [h.refs EXCEPT ![v] = h.refs[v] - 1]]
  BY DEF Vref, Vrele, HandType
<1>3. /\ [h.refs EXCEPT ![v] = h.refs[v] + 1] \in [Vnode -> Int]
      /\ [h.refs EXCEPT ![v] = h.refs[v] - 1] \in [Vnode -> Int]
  BY <1>1
<1>4. /\ \A x \in Vnode : [h.refs EXCEPT ![v] = h.refs[v] + 1][x] = h.refs[x] + Same(x, v)
      /\ \A x \in Vnode : [h.refs EXCEPT ![v] = h.refs[v] - 1][x] = h.refs[x] - Same(x, v)
  BY <1>1 DEF Same
<1> QED
  BY <1>2, <1>3, <1>4 DEF HandType

LEMMA Locking ==
  ASSUME NEW h \in HandType, NEW v \in Vnode
  PROVE  /\ Lock(h, v) \in HandType /\ Lock(h, v).refs = h.refs
         /\ Lock(h, v).locks = h.locks \cup {v}
         /\ Lock(h, v).writer = h.writer /\ Lock(h, v).other = h.other
         /\ v \in h.locks => /\ Unlock(h, v) \in HandType /\ Unlock(h, v).refs = h.refs
                             /\ Unlock(h, v).locks = h.locks \ {v}
                             /\ Unlock(h, v).writer = h.writer
                             /\ Unlock(h, v).other = h.other
BY DEF Lock, Unlock, HandType

LEMMA Putting ==
  ASSUME NEW h \in HandType, NEW v \in Vnode, v \in h.locks
  PROVE  /\ Vput(h, v) \in HandType /\ Vput(h, v).locks = h.locks \ {v}
         /\ Vput(h, v).writer = h.writer /\ Vput(h, v).other = h.other
         /\ \A x \in Vnode : Vput(h, v).refs[x] = h.refs[x] - Same(x, v)
<1> DEFINE k == Unlock(h, v)
<1>1. /\ k \in HandType /\ k.refs = h.refs /\ k.locks = h.locks \ {v}
      /\ k.writer = h.writer /\ k.other = h.other
  BY Locking
<1>2. Vput(h, v) = Vrele(k, v)
  BY DEF Vput
<1> HIDE DEF k
<1>3. /\ Vrele(k, v) \in HandType /\ Vrele(k, v).locks = k.locks
      /\ Vrele(k, v).writer = k.writer /\ Vrele(k, v).other = k.other
      /\ \A x \in Vnode : Vrele(k, v).refs[x] = k.refs[x] - Same(x, v)
  BY <1>1, Referencing
<1> QED
  BY <1>1, <1>2, <1>3

LEMMA Finishing ==
  ASSUME NEW h \in HandType
  PROVE  /\ Finish(h) \in HandType /\ Finish(h).refs = h.refs /\ Finish(h).locks = h.locks
         /\ Finish(h).writer = FALSE /\ Finish(h).other = h.other
         /\ [h EXCEPT !.writer = TRUE] \in HandType
         /\ [h EXCEPT !.writer = TRUE].refs = h.refs /\ [h EXCEPT !.writer = TRUE].locks = h.locks
         /\ [h EXCEPT !.writer = TRUE].writer = TRUE
         /\ [h EXCEPT !.writer = TRUE].other = h.other
BY DEF Finish, HandType

LEMMA Keeping ==
  ASSUME NEW h \in HandType, NEW S \in SUBSET Thing
  PROVE  /\ [h EXCEPT !.other = S] \in HandType
         /\ [h EXCEPT !.other = S].refs = h.refs /\ [h EXCEPT !.other = S].locks = h.locks
         /\ [h EXCEPT !.other = S].writer = h.writer /\ [h EXCEPT !.other = S].other = S
BY DEF HandType

(* A hand with nothing in it is the empty one.                             *)
LEMMA EmptyHand ==
  /\ Empty \in HandType /\ Empty.locks = {} /\ Empty.writer = FALSE /\ Empty.other = {}
  /\ \A v \in Vnode : Empty.refs[v] = 0
  /\ \A h \in HandType :
       /\ \A v \in Vnode : h.refs[v] = 0
       /\ h.locks = {} /\ h.writer = FALSE /\ h.other = {}
       => h = Empty
<1>1. /\ Empty \in HandType /\ Empty.locks = {} /\ Empty.writer = FALSE /\ Empty.other = {}
      /\ \A v \in Vnode : Empty.refs[v] = 0
  BY DEF Empty, HandType
<1>2. ASSUME NEW h \in HandType, \A v \in Vnode : h.refs[v] = 0,
             h.locks = {}, h.writer = FALSE, h.other = {}
      PROVE  h = Empty
  <2>1. h.refs = [v \in Vnode |-> 0]
    BY <1>2 DEF HandType
  <2> QED
    BY <1>2, <2>1 DEF HandType, Empty
<1> QED
  BY <1>1, <1>2

(* A directory and its leaf, and what a call that waited gives back.       *)
LEMMA GivingParent ==
  ASSUME NEW h \in HandType, NEW d \in Vnode, NEW leaf, d \in h.locks <=> leaf # d
  PROVE  /\ GiveParent(h, d, leaf) \in HandType
         /\ GiveParent(h, d, leaf).locks = h.locks \ {d}
         /\ GiveParent(h, d, leaf).writer = h.writer /\ GiveParent(h, d, leaf).other = h.other
         /\ \A x \in Vnode : GiveParent(h, d, leaf).refs[x] = h.refs[x] - Same(x, d)
<1>1. CASE leaf = d
  <2>1. h.locks \ {d} = h.locks
    BY <1>1
  <2> QED
    BY <1>1, <2>1, Referencing DEF GiveParent
<1>2. CASE leaf # d
  BY <1>2, Putting DEF GiveParent
<1> QED
  BY <1>1, <1>2

LEMMA GivingBoth ==
  ASSUME NEW h \in HandType, NEW d \in Vnode, NEW leaf \in Vnode,
         d \in h.locks, leaf \in h.locks
  PROVE  /\ GiveBoth(h, d, leaf) \in HandType
         /\ GiveBoth(h, d, leaf).locks = h.locks \ {d, leaf}
         /\ GiveBoth(h, d, leaf).writer = h.writer /\ GiveBoth(h, d, leaf).other = h.other
         /\ \A x \in Vnode :
              GiveBoth(h, d, leaf).refs[x] = h.refs[x] - Same(x, d) - Same(x, leaf)
<1> DEFINE k == Vput(h, d)
<1>1. /\ k \in HandType /\ k.locks = h.locks \ {d} /\ k.writer = h.writer /\ k.other = h.other
      /\ \A x \in Vnode : k.refs[x] = h.refs[x] - Same(x, d)
  BY Putting
<1> HIDE DEF k
<1>2. CASE leaf = d
  <2>1. GiveBoth(h, d, leaf) = Vrele(k, leaf)
    BY <1>2 DEF GiveBoth, k
  <2>2. h.locks \ {d, leaf} = h.locks \ {d}
    BY <1>2
  <2>3. /\ Vrele(k, leaf) \in HandType /\ Vrele(k, leaf).locks = k.locks
        /\ Vrele(k, leaf).writer = k.writer /\ Vrele(k, leaf).other = k.other
        /\ \A x \in Vnode : Vrele(k, leaf).refs[x] = k.refs[x] - Same(x, leaf)
    BY <1>1, Referencing
  <2> QED
    BY <1>1, <2>1, <2>2, <2>3

<1>3. CASE leaf # d
  <2>1. GiveBoth(h, d, leaf) = Vput(k, leaf)
    BY <1>3 DEF GiveBoth, k
  <2>2. leaf \in k.locks /\ h.locks \ {d, leaf} = k.locks \ {leaf}
    BY <1>1, <1>3
  <2> QED
    BY <1>1, <2>1, <2>2, Putting
<1> QED
  BY <1>2, <1>3

(***************************************************************************)
(* What a call holds where it stands                                       *)
(***************************************************************************)
(* The kinds of calls do not overlap.                                      *)
LEMMA Kinds ==
  /\ Naming \cap (Waiting \cup Looking \cup {"sync", "none"}) = {}
  /\ Creating \cap (Removing \cup {"undelete", "link", "rename"}) = {}
  /\ Waiting \cap Looking = {} /\ Opening \subseteq Looking
  /\ "sync" \notin Waiting \cup Looking /\ "none" \notin Calling
  /\ Pairing \subseteq Naming /\ Creating \cap Pairing = {}
  /\ {"undelete", "link"} \cap (Pairing \cup Creating) = {}
BY DEF Naming, Pairing, Creating, Removing, Waiting, Looking, Opening, Calling

LEMMA Nobody ==
  /\ \A v \in Vnode : Same(v, None) = 0 /\ v # None
  /\ \A v, w : Same(v, w) \in {0, 1}
  /\ Dir \subseteq Vnode /\ File \subseteq Vnode
BY FilesAssumption DEF Same, Vnode

\* What the invariant says of one thread.
LEMMA Mine ==
  ASSUME Inv, NEW t \in Thread
  PROVE  /\ Stands(call[t]) /\ Holds(hand[t], call[t]) /\ Current(call[t], hand[t])
         /\ hand[t] \in HandType /\ call[t] \in CallType
         /\ call[t].to \in Path /\ call[t].fro \in Path
         /\ call[t].to.dir \in Dir /\ call[t].to.name \in Name \cup {Dot}
         /\ call[t].fro.dir \in Dir /\ call[t].fro.name \in Name \cup {Dot}
         /\ call[t].leaf \in Vnode \cup {None} /\ call[t].from \in Vnode \cup {None}
BY DEF Inv, Stands, Holds, CallType, Path

LEMMA ParentHeld ==
  ASSUME Inv, NEW t \in Thread, call[t].pc \in {"parent", "isdir", "xsleep", "user"}
  PROVE  /\ \A v \in Vnode : hand[t].refs[v] = SourceOwed(call[t], v)
         /\ hand[t].locks = {} /\ hand[t].writer = FALSE
<1>1. Holds(hand[t], call[t]) /\ Stands(call[t]) /\ hand[t].writer \in BOOLEAN
  BY Mine, HandParts
<1>2. hand[t].writer = FALSE
  BY <1>1 DEF Holds
<1>3. hand[t].locks = {}
  BY <1>1 DEF Holds, Locked
<1>4. call[t].pc \in {"xsleep", "user"} => call[t].from = None
  BY <1>1 DEF Stands
<1>5. call[t].op = "sync" => call[t].from = None
  BY <1>1 DEF Stands
<1>6. \A v \in Vnode : Owed(call[t], v) = SourceOwed(call[t], v)
  BY <1>4, <1>5 DEF Owed, SourceOwed
<1> QED
  BY <1>1, <1>2, <1>3, <1>6 DEF Holds

LEMMA LeafHeld ==
  ASSUME Inv, NEW t \in Thread, call[t].pc = "leaf"
  PROVE  /\ \A v \in Vnode : hand[t].refs[v] =
              SourceOwed(call[t], v) + Same(v, Way(call[t]).dir)
         /\ hand[t].locks = {Way(call[t]).dir} /\ hand[t].writer = FALSE
<1>1. Holds(hand[t], call[t]) /\ Stands(call[t]) /\ hand[t].writer \in BOOLEAN
  BY Mine, HandParts
<1>2. hand[t].writer = FALSE
  BY <1>1 DEF Holds
<1>3. hand[t].locks = {Way(call[t]).dir}
  BY <1>1 DEF Holds, Locked
<1>4. call[t].op # "sync"
  BY <1>1 DEF Stands
<1>5. \A v \in Vnode : Owed(call[t], v) = SourceOwed(call[t], v) + Same(v, Way(call[t]).dir)
  BY <1>4 DEF Owed
<1> QED
  BY <1>1, <1>2, <1>3, <1>5 DEF Holds

LEMMA NameHeld ==
  ASSUME Inv, NEW t \in Thread, call[t].pc \in {"found", "source", "vop"},
         call[t].op \in Naming
  PROVE  /\ \A v \in Vnode : hand[t].refs[v] =
              Same(v, call[t].leaf) + SourceOwed(call[t], v)
                + IF call[t].op = "rename" THEN 2 * Same(v, call[t].to.dir)
                  ELSE Same(v, call[t].to.dir)
         /\ hand[t].locks = Locked(call[t])
         /\ hand[t].writer = (call[t].pc = "vop")
<1>1. Holds(hand[t], call[t]) /\ hand[t].writer \in BOOLEAN
  BY Mine, HandParts
<1>2. hand[t].writer = (call[t].pc = "vop")
  BY <1>1 DEF Holds
<1>3. call[t].op # "sync"
  BY Kinds
<1>4. \A v \in Vnode : Owed(call[t], v) =
        Same(v, call[t].leaf) + (SourceOwed(call[t], v)
          + IF call[t].op = "rename" THEN 2 * Same(v, call[t].to.dir)
            ELSE Same(v, call[t].to.dir))
  BY <1>3 DEF Owed
<1>5. \A v \in Vnode : SourceOwed(call[t], v) \in Int
  BY Nobody DEF SourceOwed
<1> QED
  BY <1>1, <1>2, <1>4, <1>5, Nobody DEF Holds

LEMMA FileHeld ==
  ASSUME Inv, NEW t \in Thread, call[t].pc \in {"found", "wait", "lock", "vop"},
         call[t].op \in Waiting \cup Looking
  PROVE  /\ call[t].leaf \in Vnode
         /\ \A v \in Vnode : hand[t].refs[v] = Same(v, call[t].leaf)
         /\ hand[t].locks = IF call[t].pc \in {"found", "vop"} THEN {call[t].leaf} ELSE {}
         /\ hand[t].writer = (call[t].pc \in {"lock", "vop"})
<1>1. Holds(hand[t], call[t]) /\ Stands(call[t]) /\ hand[t].writer \in BOOLEAN
      /\ call[t].leaf \in Vnode \cup {None}
  BY Mine, HandParts
<1>2. hand[t].writer = (call[t].pc \in {"lock", "vop"})
  BY <1>1 DEF Holds
<1>3. call[t].op # "sync" /\ call[t].op \notin Naming
  BY Kinds
<1>4. \A v \in Vnode : Owed(call[t], v) = Same(v, call[t].leaf)
  BY <1>3, Nobody DEF Owed
<1>5. call[t].leaf # None
  BY <1>1 DEF Stands
<1>6. hand[t].locks = IF call[t].pc \in {"found", "vop"} THEN {call[t].leaf} ELSE {}
  BY <1>1, <1>3 DEF Holds, Locked
<1> QED
  BY <1>1, <1>2, <1>4, <1>5, <1>6 DEF Holds

LEMMA SyncHeld ==
  ASSUME Inv, NEW t \in Thread, call[t].pc \in {"found", "vop"}, call[t].op = "sync"
  PROVE  /\ \A v \in Vnode : hand[t].refs[v] = 0
         /\ hand[t].locks = {} /\ hand[t].writer = (call[t].pc = "vop") /\ hand[t].other = {}
<1>1. Holds(hand[t], call[t]) /\ hand[t].writer \in BOOLEAN
  BY Mine, HandParts
<1>2. hand[t].writer = (call[t].pc = "vop")
  BY <1>1 DEF Holds
<1>3. \A v \in Vnode : Owed(call[t], v) = 0
  BY DEF Owed
<1>4. hand[t].locks = {}
  BY <1>1, Kinds DEF Holds, Locked
<1>5. hand[t].other = {}
  BY <1>1 DEF Holds, Kept, Opening
<1> QED
  BY <1>1, <1>2, <1>3, <1>4, <1>5 DEF Holds

(***************************************************************************)
(* Steps of one thread                                                     *)
(***************************************************************************)
(* What a step must leave so that the invariant holds.                     *)
LEMMA StepInv ==
  ASSUME Inv, NEW t \in Thread, NEW c, NEW h,
         call' = [call EXCEPT ![t] = c], hand' = [hand EXCEPT ![t] = h],
         Stands(c), Holds(h, c), Current(c, h)',
         \A v \in h.locks : v \in hand[t].locks \/ Unlocked(v),
         h.writer => hand[t].writer \/ susp = "no",
         susp' = susp, WorldType',
         \A d \in Dir, n \in Name :
           entry'[d][n] # entry[d][n] => \A u \in Thread \ {t} : d \notin hand[u].locks,
         flushed' = flushed \/ hand[t].writer
  PROVE  Inv'
<1>1. /\ DOMAIN call' = Thread /\ DOMAIN hand' = Thread /\ call'[t] = c /\ hand'[t] = h
      /\ \A u \in Thread \ {t} : call'[u] = call[u] /\ hand'[u] = hand[u]
  BY DEF Inv
<1>2. \A u \in Thread : Stands(call[u])' /\ Holds(hand[u], call[u])'
  <2> SUFFICES ASSUME NEW u \in Thread
               PROVE  Stands(call'[u]) /\ Holds(hand'[u], call'[u])
    BY DEF Stands, Holds
  <2> QED
    BY <1>1 DEF Inv
<1>3. ASSUME NEW u \in Thread
      PROVE  Current(call[u], hand[u])'
  <2>1. CASE u = t
    BY <1>1, <2>1 DEF Current, Leaf
  <2>2. CASE u # t
    <3>1. /\ call'[u] = call[u] /\ hand'[u] = hand[u] /\ Current(call[u], hand[u])
          /\ call[u].to.dir \in Dir /\ call[u].to.name \in Name \cup {Dot}
      BY <1>1, <2>2, Mine
    <3>2. call[u].to.name # Dot /\ call[u].to.dir \in hand[u].locks
            => entry'[call[u].to.dir][call[u].to.name] = entry[call[u].to.dir][call[u].to.name]
      BY <2>2, <3>1
    <3> QED
      BY <3>1, <3>2 DEF Current, Leaf
  <2> QED
    BY <2>1, <2>2
<1>4. Exclusive'
  <2> SUFFICES ASSUME NEW u \in Thread, NEW w \in Thread \ {u}
               PROVE  hand'[u].locks \cap hand'[w].locks = {}
    BY DEF Exclusive
  <2>1. hand[u].locks \cap hand[w].locks = {}
    BY DEF Inv, Exclusive
  <2>2. \A v \in h.locks : \A x \in Thread \ {t} : v \notin hand[x].locks
    BY DEF Inv, Exclusive, Unlocked
  <2> QED
    BY <1>1, <2>1, <2>2
<1>5. Still'
  <2>1. susp \in {"flushing", "suspended"} => ~ h.writer
    BY DEF Inv, Still
  <2> QED
    BY <1>1, <2>1 DEF Inv, Still
<1>6. SuspendedIsFlushed'
  BY DEF Inv, Still, SuspendedIsFlushed
<1> QED
  BY <1>1, <1>2, <1>3, <1>4, <1>5, <1>6 DEF Inv

(* A step that leaves the world as it is.                                  *)
LEMMA QuietInv ==
  ASSUME Inv, NEW t \in Thread, NEW c, NEW h,
         call' = [call EXCEPT ![t] = c], hand' = [hand EXCEPT ![t] = h], UNCHANGED World,
         Stands(c), Holds(h, c), Current(c, h),
         \A v \in h.locks : v \in hand[t].locks \/ Unlocked(v),
         h.writer => hand[t].writer \/ susp = "no"
  PROVE  Inv'
<1>1. UNCHANGED <<entry, doomed, susp, flushed>>
  BY DEF World
<1>2. Current(c, h)'
  BY <1>1 DEF Current, Leaf
<1>3. WorldType'
  BY <1>1 DEF Inv, WorldType
<1> QED
  BY <1>1, <1>2, <1>3, StepInv

(* A call returns.                                                         *)
LEMMA IdleStands == Stands(Idle) /\ Holds(Empty, Idle) /\ \A h : Current(Idle, h)
<1>1. Idle \in CallType /\ Idle.pc = "user" /\ Idle.from = None /\ Idle.op = "none"
  <2>1. [dir |-> Root, name |-> Dot] \in Path
    BY FilesAssumption DEF Path
  <2> QED
    BY <2>1 DEF Idle, CallType, At
<1>2. Stands(Idle)
  BY <1>1, FilesAssumption, Nobody DEF Stands, Waiting, Looking, Removing, Creating, Opening
<1>3. Holds(Empty, Idle)
  BY <1>1, EmptyHand DEF Holds, Owed, Locked, Kept
<1>4. \A h : Current(Idle, h)
  BY <1>1 DEF Current
<1> QED
  BY <1>2, <1>3, <1>4

LEMMA ReturnInv ==
  ASSUME Inv, NEW t \in Thread, NEW h \in HandType, Return(t, h),
         \A v \in Vnode : h.refs[v] = 0, h.locks = {}, h.writer = FALSE, h.other = {},
         susp' = susp, WorldType',
         \A d \in Dir, n \in Name :
           entry'[d][n] # entry[d][n] => \A u \in Thread \ {t} : d \notin hand[u].locks,
         flushed' = flushed \/ hand[t].writer
  PROVE  Inv'
<1>1. h = Empty
  BY EmptyHand
<1>2. call' = [call EXCEPT ![t] = Idle] /\ hand' = [hand EXCEPT ![t] = Empty]
  BY <1>1 DEF Return, Hold
<1>3. Current(Idle, Empty)'
  BY DEF Current, Idle
<1> QED
  BY <1>2, <1>3, IdleStands, EmptyHand, StepInv

LEMMA QuietReturnInv ==
  ASSUME Inv, NEW t \in Thread, NEW h \in HandType, Return(t, h), UNCHANGED World,
         \A v \in Vnode : h.refs[v] = 0, h.locks = {}, h.writer = FALSE, h.other = {}
  PROVE  Inv'
<1>1. UNCHANGED <<entry, doomed, susp, flushed>>
  BY DEF World
<1>2. WorldType'
  BY <1>1 DEF Inv, WorldType
<1> QED
  BY <1>1, <1>2, ReturnInv

(* The record of a call that goes on to another point.                     *)
LEMMA Moving ==
  ASSUME NEW c \in CallType, NEW p \in At
  PROVE  LET k == [c EXCEPT !.pc = p] IN
         /\ k \in CallType /\ k.pc = p /\ k.op = c.op /\ k.to = c.to /\ k.fro = c.fro
         /\ k.leaf = c.leaf /\ k.from = c.from
BY DEF CallType

LEMMA Going ==
  ASSUME Inv, NEW t \in Thread, NEW p, Go(t, p)
  PROVE  call' = [call EXCEPT ![t] = [call[t] EXCEPT !.pc = p]]
BY DEF Inv, Go

(***************************************************************************)
(* Starting a call, and looking names up                                   *)
(***************************************************************************)
\* Before and after a call nothing is held.
LEMMA UserHand ==
  ASSUME Inv, NEW t \in Thread, call[t].pc = "user"
  PROVE  hand[t] = Empty /\ call[t].from = None
<1>1. Holds(hand[t], call[t]) /\ Stands(call[t]) /\ hand[t] \in HandType
  BY Mine
<1>2. call[t].from = None
  BY <1>1 DEF Stands
<1>3. hand[t].other = {}
  BY <1>1 DEF Holds, Kept
<1>4. \A v \in Vnode : hand[t].refs[v] = 0
  BY <1>2, ParentHeld DEF SourceOwed
<1> QED
  BY <1>1, <1>2, <1>3, <1>4, ParentHeld, EmptyHand

\* A call begins with nothing found.
LEMMA Beginning == Idle \in CallType /\ Idle.leaf = None /\ Idle.from = None
<1>1. Stands(Idle)
  BY IdleStands
<1> QED
  BY <1>1 DEF Stands, Idle

LEMMA FirstReference ==
  ASSUME NEW v \in Vnode
  PROVE  /\ Vref(Empty, v) \in HandType
         /\ Vref(Empty, v).locks = {} /\ Vref(Empty, v).writer = FALSE
         /\ \A x \in Vnode : Vref(Empty, v).refs[x] = Same(x, v)
<1>1. /\ Vref(Empty, v) \in HandType /\ Vref(Empty, v).locks = Empty.locks
      /\ Vref(Empty, v).writer = Empty.writer
      /\ \A x \in Vnode : Vref(Empty, v).refs[x] = Empty.refs[x] + Same(x, v)
  BY EmptyHand, Referencing
<1>2. \A x \in Vnode : Empty.refs[x] + Same(x, v) = Same(x, v)
  BY EmptyHand, Nobody
<1> QED
  BY <1>1, <1>2, EmptyHand

\* A call on an open file starts with a reference of it.

LEMMA StartFileInv ==
  ASSUME Inv, NEW t \in Thread, call[t].pc = "user", NEW op \in {"fsync", "fallocate"},
         NEW v \in File, UNCHANGED World,
         Hold(t, [Vref(hand[t], v) EXCEPT !.other = {"file"}]),
         call' = [call EXCEPT ![t] = [Idle EXCEPT !.op = op, !.pc = "wait", !.leaf = v]]
  PROVE  Inv'
<1> DEFINE k == Vref(hand[t], v)
           h == [k EXCEPT !.other = {"file"}]
           c == [Idle EXCEPT !.op = op, !.pc = "wait", !.leaf = v]
<1>1. v \in Vnode /\ op \in Calling /\ op \in Waiting /\ op \notin Naming /\ op # "sync"
  BY DEF Vnode, Calling, Waiting, Naming, Creating, Removing
<1>2. hand[t] = Empty /\ Empty \in HandType
  BY UserHand, EmptyHand
<1>3. /\ k \in HandType /\ k.locks = {} /\ k.writer = FALSE
      /\ \A x \in Vnode : k.refs[x] = Same(x, v)
  BY <1>1, <1>2, FirstReference DEF k
<1>4. hand' = [hand EXCEPT ![t] = h] /\ call' = [call EXCEPT ![t] = c]
  BY DEF Hold
<1>5. /\ c \in CallType /\ c.op = op /\ c.pc = "wait" /\ c.leaf = v /\ c.from = None
  <2>1. "wait" \in At
    BY DEF At
  <2> QED
    BY <1>1, <2>1, Beginning DEF CallType
<1> HIDE DEF k, c
<1>6. /\ h \in HandType /\ h.locks = {} /\ h.writer = FALSE /\ h.other = {"file"}
      /\ \A x \in Vnode : h.refs[x] = Same(x, v)
  <2>1. {"file"} \in SUBSET Thing
    BY DEF Thing
  <2> QED
    BY <1>3, <2>1, Keeping
<1> HIDE DEF h
<1>7. Stands(c)
  BY <1>1, <1>5, Nobody, FilesAssumption DEF Stands
<1>8. Holds(h, c)
  <2>1. h.locks = Locked(c) /\ h.other \in Kept(c)
    BY <1>5, <1>6 DEF Locked, Kept, Opening
  <2>2. \A x \in Vnode : h.refs[x] = Owed(c, x)
    BY <1>1, <1>5, <1>6, Nobody DEF Owed
  <2> QED
    BY <1>5, <1>6, <2>1, <2>2 DEF Holds
<1>9. Current(c, h)
  BY <1>5 DEF Current
<1> QED
  BY <1>4, <1>6, <1>7, <1>8, <1>9, QuietInv

\* sync starts with nothing.
LEMMA StartSyncInv ==
  ASSUME Inv, NEW t \in Thread, call[t].pc = "user", UNCHANGED World,
         Hold(t, hand[t]),
         call' = [call EXCEPT ![t] = [Idle EXCEPT !.op = "sync", !.pc = "found"]]
  PROVE  Inv'
<1> DEFINE c == [Idle EXCEPT !.op = "sync", !.pc = "found"]
<1>1. "sync" \in Calling /\ "sync" \notin Waiting \cup Looking \cup Removing \cup Naming
  BY DEF Calling, Waiting, Looking, Naming, Creating, Removing
<1>2. hand[t] = Empty
  BY UserHand
<1>4. hand' = [hand EXCEPT ![t] = Empty] /\ call' = [call EXCEPT ![t] = c]
  BY <1>2 DEF Hold
<1>5. c \in CallType /\ c.op = "sync" /\ c.pc = "found" /\ c.leaf = None /\ c.from = None
  <2>1. "found" \in At
    BY DEF At
  <2> QED
    BY <1>1, <2>1, Beginning DEF CallType
<1> HIDE DEF c
<1>7. Stands(c)
  BY <1>1, <1>5, FilesAssumption, Nobody DEF Stands
<1>8. Holds(Empty, c)
  <2>1. {} = Locked(c) /\ {} \in Kept(c)
    BY <1>1, <1>5 DEF Locked, Kept, Opening
  <2>2. \A x \in Vnode : Owed(c, x) = 0
    BY <1>5 DEF Owed
  <2> QED
    BY <1>5, EmptyHand, <2>1, <2>2 DEF Holds
<1>9. Current(c, Empty)
  BY <1>1, <1>5 DEF Current
<1> QED
  BY <1>4, <1>7, <1>8, <1>9, EmptyHand, QuietInv

\* fhopen starts with its file locked.
LEMMA StartHandleInv ==
  ASSUME Inv, NEW t \in Thread, call[t].pc = "user", UNCHANGED World,
         NEW v \in File, Unlocked(v),
         Hold(t, [Lock(Vref(hand[t], v), v) EXCEPT !.other = {"file"}]),
         call' = [call EXCEPT ![t] = [Idle EXCEPT !.op = "fhopen", !.pc = "found", !.leaf = v]]
  PROVE  Inv'
<1> DEFINE k == Vref(hand[t], v)
           l == Lock(k, v)
           h == [l EXCEPT !.other = {"file"}]
           c == [Idle EXCEPT !.op = "fhopen", !.pc = "found", !.leaf = v]
<1>1. /\ v \in Vnode /\ "fhopen" \in Calling /\ "fhopen" \in Looking /\ "fhopen" \in Opening
      /\ "fhopen" \notin Waiting \cup Removing \cup Naming
  BY DEF Vnode, Calling, Waiting, Looking, Opening, Naming, Creating, Removing
<1>2. hand[t] = Empty /\ Empty \in HandType
  BY UserHand, EmptyHand
<1>3. /\ k \in HandType /\ k.locks = {} /\ k.writer = FALSE
      /\ \A x \in Vnode : k.refs[x] = Same(x, v)
  BY <1>1, <1>2, FirstReference DEF k
<1>4. hand' = [hand EXCEPT ![t] = h] /\ call' = [call EXCEPT ![t] = c]
  BY DEF Hold
<1>5. /\ c \in CallType /\ c.op = "fhopen" /\ c.pc = "found" /\ c.leaf = v /\ c.from = None
  <2>1. "found" \in At
    BY DEF At
  <2> QED
    BY <1>1, <2>1, Beginning DEF CallType
<1> HIDE DEF k, c
<1>6. l \in HandType /\ l.locks = {v} /\ l.writer = FALSE /\ l.refs = k.refs
  BY <1>1, <1>3, Locking
<1> HIDE DEF l
<1>7. /\ h \in HandType /\ h.locks = {v} /\ h.writer = FALSE /\ h.other = {"file"}
      /\ \A x \in Vnode : h.refs[x] = Same(x, v)
  <2>1. {"file"} \in SUBSET Thing
    BY DEF Thing
  <2> QED
    BY <1>3, <1>6, <2>1, Keeping
<1> HIDE DEF h
<1>8. Stands(c)
  BY <1>1, <1>5, Nobody, FilesAssumption DEF Stands
<1>9. Holds(h, c)
  <2>1. h.locks = Locked(c) /\ h.other \in Kept(c)
    BY <1>1, <1>5, <1>7 DEF Locked, Kept
  <2>2. \A x \in Vnode : h.refs[x] = Owed(c, x)
    BY <1>1, <1>5, <1>7, Nobody DEF Owed
  <2> QED
    BY <1>5, <1>7, <2>1, <2>2 DEF Holds
<1>10. Current(c, h)
  BY <1>1, <1>5 DEF Current
<1> QED
  BY <1>4, <1>7, <1>8, <1>9, <1>10, QuietInv

\* The other calls start with a lookup.
LEMMA StartLookupInv ==
  ASSUME Inv, NEW t \in Thread, call[t].pc = "user", UNCHANGED World,
         NEW op \in Calling, op \notin {"fsync", "fallocate", "sync", "fhopen"},
         NEW to \in Path, NEW fro \in Path, NEW gets \in Prelude(op),
         Hold(t, [hand[t] EXCEPT !.other = gets]),
         call' = [call EXCEPT ![t] = [Idle EXCEPT !.op = op, !.pc = "parent",
                                                  !.to = to, !.fro = fro]]
  PROVE  Inv'
<1> DEFINE h == [Empty EXCEPT !.other = gets]
           c == [Idle EXCEPT !.op = op, !.pc = "parent", !.to = to, !.fro = fro]
<1>1. gets \in SUBSET Thing
  BY DEF Prelude, Thing
<1>2. hand[t] = Empty /\ Empty \in HandType
  BY UserHand, EmptyHand
<1>4. hand' = [hand EXCEPT ![t] = h] /\ call' = [call EXCEPT ![t] = c]
  BY <1>2 DEF Hold
<1>5. c \in CallType /\ c.op = op /\ c.pc = "parent" /\ c.leaf = None /\ c.from = None
  <2>1. "parent" \in At
    BY DEF At
  <2> QED
    BY <2>1, Beginning DEF CallType
<1> HIDE DEF c
<1>6. h \in HandType /\ h.locks = {} /\ h.writer = FALSE /\ h.other = gets /\ h.refs = Empty.refs
  BY <1>1, <1>2, EmptyHand, Keeping
<1> HIDE DEF h
<1>7. Stands(c)
  BY <1>5, Nobody, FilesAssumption, Kinds DEF Stands
<1>8. Holds(h, c)
  <2>1. h.locks = Locked(c)
    BY <1>5, <1>6 DEF Locked
  <2>2. h.other \in Kept(c)
    BY <1>5, <1>6 DEF Kept, Prelude, Opening
  <2>3. \A x \in Vnode : h.refs[x] = Owed(c, x)
    BY <1>5, <1>6, EmptyHand DEF Owed, SourceOwed
  <2> QED
    BY <1>5, <1>6, <2>1, <2>2, <2>3 DEF Holds
<1>9. Current(c, h)
  BY <1>5 DEF Current
<1> QED
  BY <1>4, <1>6, <1>7, <1>8, <1>9, QuietInv

LEMMA StartInv ==
  ASSUME Inv, NEW t \in Thread, Start(t)
  PROVE  Inv'
<1> DEFINE Begun(op, to, fro) ==
      \/ /\ op \in {"fsync", "fallocate"}
         /\ to.name # Dot /\ entry[to.dir][to.name] \in File
         /\ Hold(t, [Vref(hand[t], entry[to.dir][to.name]) EXCEPT !.other = {"file"}])
         /\ call' = [call EXCEPT ![t] = [Idle EXCEPT !.op = op, !.pc = "wait",
                                                    !.leaf = entry[to.dir][to.name]]]
      \/ /\ op = "sync"
         /\ Hold(t, hand[t])
         /\ call' = [call EXCEPT ![t] = [Idle EXCEPT !.op = op, !.pc = "found"]]
      \/ /\ op = "fhopen"
         /\ to.name # Dot /\ entry[to.dir][to.name] \in File
         /\ Unlocked(entry[to.dir][to.name])
         /\ LET v == entry[to.dir][to.name] IN
            /\ Hold(t, [Lock(Vref(hand[t], v), v) EXCEPT !.other = {"file"}])
            /\ call' = [call EXCEPT ![t] = [Idle EXCEPT !.op = op, !.pc = "found",
                                                       !.leaf = v]]
      \/ /\ op \notin {"fsync", "fallocate", "sync", "fhopen"}
         /\ \E gets \in Prelude(op) : Hold(t, [hand[t] EXCEPT !.other = gets])
         /\ call' = [call EXCEPT ![t] = [Idle EXCEPT !.op = op, !.pc = "parent",
                                                    !.to = to, !.fro = fro]]
<1>1. call[t].pc = "user" /\ UNCHANGED World
  BY DEF Start
<1>2. \E op \in Op[t], to \in To :
        \E fro \in IF op \in {"link", "rename"} THEN From ELSE {Idle.fro} :
          /\ \A p \in {to, fro} : Named(p.dir)
          /\ Begun(op, to, fro)
  BY Zenon DEF Start
<1> HIDE DEF Begun
<1>a. PICK op \in Op[t], to \in To :
        \E fro \in IF op \in {"link", "rename"} THEN From ELSE {Idle.fro} :
          Begun(op, to, fro)
  BY <1>2
<1>3. PICK fro \in IF op \in {"link", "rename"} THEN From ELSE {Idle.fro} :
        Begun(op, to, fro)
  BY <1>a

<1> DEFINE v == entry[to.dir][to.name]
<1>4. op \in Calling /\ to \in Path
  BY FilesAssumption
<1>5. fro \in Path
  <2>1. Idle.fro \in Path
    BY FilesAssumption DEF Idle, Path
  <2> QED
    BY <2>1, FilesAssumption
<1>6. CASE /\ op \in {"fsync", "fallocate"} /\ v \in File
           /\ Hold(t, [Vref(hand[t], v) EXCEPT !.other = {"file"}])
           /\ call' = [call EXCEPT ![t] = [Idle EXCEPT !.op = op, !.pc = "wait", !.leaf = v]]
  <2> HIDE DEF v
  <2> QED
    BY <1>1, <1>6, StartFileInv
<1>7. CASE /\ op = "sync" /\ Hold(t, hand[t])
           /\ call' = [call EXCEPT ![t] = [Idle EXCEPT !.op = op, !.pc = "found"]]
  BY <1>1, <1>7, StartSyncInv
<1>8. CASE /\ op = "fhopen" /\ v \in File /\ Unlocked(v)
           /\ Hold(t, [Lock(Vref(hand[t], v), v) EXCEPT !.other = {"file"}])
           /\ call' = [call EXCEPT ![t] = [Idle EXCEPT !.op = op, !.pc = "found", !.leaf = v]]
  <2> HIDE DEF v
  <2> QED
    BY <1>1, <1>8, StartHandleInv
<1>9. CASE /\ op \notin {"fsync", "fallocate", "sync", "fhopen"}
           /\ \E gets \in Prelude(op) : Hold(t, [hand[t] EXCEPT !.other = gets])
           /\ call' = [call EXCEPT ![t] = [Idle EXCEPT !.op = op, !.pc = "parent",
                                                       !.to = to, !.fro = fro]]
  BY <1>1, <1>4, <1>5, <1>9, StartLookupInv
<1> QED
  BY <1>3, <1>6, <1>7, <1>8, <1>9 DEF Begun

LEMMA LookupParentInv ==
  ASSUME Inv, NEW t \in Thread, LookupParent(t)
  PROVE  Inv'
<1> DEFINE d == Way(call[t]).dir
           k == Vref(hand[t], d)
           h == Lock(k, d)
           c == [call[t] EXCEPT !.pc = "leaf"]
<1>1. /\ call[t].pc = "parent" /\ Unlocked(d) /\ UNCHANGED World
      /\ hand' = [hand EXCEPT ![t] = h] /\ Go(t, "leaf")
  BY DEF LookupParent, Target, First, Way, Hold
<1>2. call' = [call EXCEPT ![t] = c]
  BY <1>1, Going
<1>3. Stands(call[t]) /\ Holds(hand[t], call[t]) /\ hand[t] \in HandType
  BY Mine
<1>4. d \in Dir /\ d \in Vnode
  BY Mine, Nobody DEF Way
<1>5. /\ c \in CallType /\ c.pc = "leaf" /\ c.op = call[t].op /\ c.to = call[t].to
      /\ c.fro = call[t].fro /\ c.leaf = call[t].leaf /\ c.from = call[t].from
  BY Mine DEF CallType, At
<1>6. Way(c).dir = d /\ \A x \in Vnode : SourceOwed(c, x) = SourceOwed(call[t], x)
  BY <1>5 DEF Way, SourceOwed
<1> HIDE DEF c, d
<1>7. /\ k \in HandType /\ k.locks = {} /\ k.writer = FALSE /\ k.other = hand[t].other
      /\ \A x \in Vnode : k.refs[x] = SourceOwed(call[t], x) + Same(x, d)
  <2>1. /\ \A x \in Vnode : hand[t].refs[x] = SourceOwed(call[t], x)
        /\ hand[t].locks = {} /\ hand[t].writer = FALSE
    BY <1>1, ParentHeld
  <2>2. /\ k \in HandType /\ k.locks = hand[t].locks /\ k.writer = hand[t].writer
        /\ k.other = hand[t].other
        /\ \A x \in Vnode : k.refs[x] = hand[t].refs[x] + Same(x, d)
    BY <1>3, <1>4, Referencing
  <2> HIDE DEF k
  <2> QED
    BY <2>1, <2>2

<1> HIDE DEF k
<1>8. /\ h \in HandType /\ h.locks = {d} /\ h.writer = FALSE /\ h.other = hand[t].other
      /\ h.refs = k.refs
  BY <1>4, <1>7, Locking
<1> HIDE DEF h
<1>9. Stands(c)
  BY <1>1, <1>3, <1>5 DEF Stands
<1>10. Holds(h, c)
  <2>1. h.locks = Locked(c)
    BY <1>5, <1>6, <1>8 DEF Locked
  <2>2. h.other \in Kept(c)
    BY <1>1, <1>3, <1>5, <1>8 DEF Kept, Holds
  <2>3. c.op # "sync"
    BY <1>5, <1>9 DEF Stands
  <2>4. \A x \in Vnode : h.refs[x] = Owed(c, x)
    BY <1>5, <1>6, <1>7, <1>8, <2>3 DEF Owed
  <2> QED
    BY <1>5, <1>8, <2>1, <2>2, <2>4 DEF Holds
<1>11. Current(c, h)
  BY <1>5 DEF Current
<1> QED
  BY <1>1, <1>2, <1>8, <1>9, <1>10, <1>11, QuietInv

\* A lookup that fails leaves the call with nothing but the directory it was in.
LEMMA AbandonedHand ==
  ASSUME Inv, NEW t \in Thread, call[t].pc = "leaf"
  PROVE  LET d == Way(call[t]).dir
             a == Abandoned(t)
         IN  /\ a \in HandType /\ a.locks = {d} /\ a.writer = FALSE /\ a.other = {}
             /\ \A x \in Vnode : a.refs[x] = Same(x, d)
<1> DEFINE d == Way(call[t]).dir
           e == call[t].fro.dir
           s == call[t].from
           a == Abandoned(t)
<1>1. /\ hand[t] \in HandType /\ Stands(call[t]) /\ Holds(hand[t], call[t])
      /\ hand[t].locks = {d} /\ hand[t].writer = FALSE
      /\ \A x \in Vnode : hand[t].refs[x] = SourceOwed(call[t], x) + Same(x, d)
  BY Mine, LeafHeld
<1>2. e \in Vnode /\ s \in Vnode \cup {None}
  BY Mine, Nobody
<1>3. CASE call[t].op = "rename" /\ s # None
  <2> DEFINE k == Vrele(hand[t], e)
             l == Vrele(k, s)
             m == Vrele(l, e)
  <2>1. a = m
    BY <1>3 DEF Abandoned
  <2>2. hand[t].other = {}
    BY <1>1, <1>3 DEF Holds, Kept, Opening
  <2>3. \A x \in Vnode : SourceOwed(call[t], x) = Same(x, s) + 2 * Same(x, e)
    BY <1>3 DEF SourceOwed
  <2>4. s \in Vnode
    BY <1>2, <1>3
  <2>5. /\ k \in HandType /\ k.locks = {d} /\ k.writer = FALSE /\ k.other = {}
        /\ \A x \in Vnode : k.refs[x] = hand[t].refs[x] - Same(x, e)
    BY <1>1, <1>2, <2>2, Referencing
  <2> HIDE DEF a, k, d, e, s
  <2>6. /\ l \in HandType /\ l.locks = {d} /\ l.writer = FALSE /\ l.other = {}
        /\ \A x \in Vnode : l.refs[x] = k.refs[x] - Same(x, s)
    BY <2>4, <2>5, Referencing
  <2> HIDE DEF l
  <2>7. /\ m \in HandType /\ m.locks = {d} /\ m.writer = FALSE /\ m.other = {}
        /\ \A x \in Vnode : m.refs[x] = l.refs[x] - Same(x, e)
    BY <1>2, <2>6, Referencing
  <2> HIDE DEF m
  <2>8. \A x \in Vnode : m.refs[x] = Same(x, d)
    BY <1>1, <2>3, <2>5, <2>6, <2>7, Nobody
  <2> QED
    BY <2>1, <2>7, <2>8 DEF a, d
<1>4. CASE call[t].op = "link" /\ s # None
  <2> DEFINE k == Vrele(hand[t], s)
  <2>1. a = k
    BY <1>4 DEF Abandoned
  <2>2. hand[t].other = {}
    BY <1>1, <1>4 DEF Holds, Kept, Opening
  <2>3. \A x \in Vnode : SourceOwed(call[t], x) = Same(x, s) + 0
    BY <1>4 DEF SourceOwed
  <2>4. s \in Vnode
    BY <1>2, <1>4
  <2>5. /\ k \in HandType /\ k.locks = {d} /\ k.writer = FALSE /\ k.other = {}
        /\ \A x \in Vnode : k.refs[x] = hand[t].refs[x] - Same(x, s)
    BY <1>1, <2>2, <2>4, Referencing
  <2> HIDE DEF a, k, d, e, s
  <2>6. \A x \in Vnode : k.refs[x] = Same(x, d)
    BY <1>1, <2>3, <2>5, Nobody
  <2> QED
    BY <2>1, <2>5, <2>6 DEF a, d
<1>5. CASE s = None
  <2>1. a = [hand[t] EXCEPT !.other = {}]
    BY <1>5 DEF Abandoned
  <2>2. \A x \in Vnode : SourceOwed(call[t], x) = 0
    BY <1>5 DEF SourceOwed
  <2>3. {} \in SUBSET Thing
    OBVIOUS
  <2>4. \A x \in Vnode : hand[t].refs[x] = Same(x, d)
    BY <1>1, <2>2, Nobody
  <2>5. /\ a \in HandType /\ a.locks = {d} /\ a.writer = FALSE /\ a.other = {}
        /\ a.refs = hand[t].refs
    BY <1>1, <2>1, <2>3, Keeping
  <2> QED
    BY <2>4, <2>5
<1>6. s # None => call[t].op \in {"link", "rename"}
  BY <1>1 DEF Stands
<1> QED
  BY <1>3, <1>4, <1>5, <1>6

LEMMA LookupFailsInv ==
  ASSUME Inv, NEW t \in Thread, call[t].pc = "leaf", UNCHANGED World,
         Return(t, LET d == Way(call[t]).dir
                       a == [Abandoned(t) EXCEPT !.locks = @ \ {d}]
                   IN  Vrele(a, d))
  PROVE  Inv'
<1> DEFINE d == Way(call[t]).dir
           b == Abandoned(t)
           a == [b EXCEPT !.locks = @ \ {d}]
           h == Vrele(a, d)
<1>1. /\ b \in HandType /\ b.locks = {d} /\ b.writer = FALSE /\ b.other = {}
      /\ \A x \in Vnode : b.refs[x] = Same(x, d)
  BY AbandonedHand
<1>2. Return(t, h) /\ d \in Vnode
  BY Mine, Nobody DEF Way
<1> HIDE DEF b, d
<1>3. /\ a \in HandType /\ a.locks = {} /\ a.writer = FALSE /\ a.other = {}
      /\ a.refs = b.refs
  BY <1>1 DEF HandType
<1> HIDE DEF a
<1>4. /\ h \in HandType /\ h.locks = {} /\ h.writer = FALSE /\ h.other = {}
      /\ \A x \in Vnode : h.refs[x] = a.refs[x] - Same(x, d)
  BY <1>2, <1>3, Referencing
<1> HIDE DEF h
<1>5. \A x \in Vnode : h.refs[x] = 0
  BY <1>1, <1>3, <1>4, Nobody
<1> QED
  BY <1>2, <1>4, <1>5, QuietReturnInv

\* The source of a rename: its directory is unlocked, with a reference to keep beside the
\* lookup's own.
LEMMA RenameSourceInv ==
  ASSUME Inv, NEW t \in Thread, call[t].pc = "leaf", UNCHANGED World,
         call[t].op = "rename", call[t].from = None, NEW v \in Vnode,
         Hold(t, Vref(Vref(Unlock(hand[t], Way(call[t]).dir), Way(call[t]).dir), v)),
         call' = [call EXCEPT ![t] = [call[t] EXCEPT !.from = v, !.pc = "parent"]]
  PROVE  Inv'
<1> DEFINE d == Way(call[t]).dir
           k == Unlock(hand[t], d)
           l == Vref(k, d)
           h == Vref(l, v)
           c == [call[t] EXCEPT !.from = v, !.pc = "parent"]
<1>1. /\ hand[t] \in HandType /\ Stands(call[t]) /\ Holds(hand[t], call[t])
      /\ hand[t].locks = {d} /\ hand[t].writer = FALSE
      /\ \A x \in Vnode : hand[t].refs[x] = SourceOwed(call[t], x) + Same(x, d)
  BY Mine, LeafHeld
<1>2. d = call[t].fro.dir /\ d \in Vnode
  BY Mine, Nobody DEF Way
<1>3. \A x \in Vnode : hand[t].refs[x] = Same(x, d)
  BY <1>1, Nobody DEF SourceOwed
<1>4. hand[t].other = {}
  BY <1>1 DEF Holds, Kept, Opening
<1>5. hand' = [hand EXCEPT ![t] = h] /\ call' = [call EXCEPT ![t] = c]
  BY DEF Hold
<1>6. /\ c \in CallType /\ c.pc = "parent" /\ c.op = "rename" /\ c.to = call[t].to
      /\ c.fro = call[t].fro /\ c.leaf = call[t].leaf /\ c.from = v
  BY Mine DEF CallType, At
<1> HIDE DEF c, d
<1>7. /\ k \in HandType /\ k.locks = {} /\ k.writer = FALSE /\ k.other = {}
      /\ k.refs = hand[t].refs
  <2>1. d \in hand[t].locks /\ hand[t].locks \ {d} = {}
    BY <1>1
  <2> QED
    BY <1>1, <1>2, <1>4, <2>1, Locking

<1> HIDE DEF k
<1>8. /\ l \in HandType /\ l.locks = {} /\ l.writer = FALSE /\ l.other = {}
      /\ \A x \in Vnode : l.refs[x] = k.refs[x] + Same(x, d)
  BY <1>2, <1>7, Referencing
<1> HIDE DEF l
<1>9. /\ h \in HandType /\ h.locks = {} /\ h.writer = FALSE /\ h.other = {}
      /\ \A x \in Vnode : h.refs[x] = l.refs[x] + Same(x, v)
  BY <1>8, Referencing
<1> HIDE DEF h
<1>10. Stands(c)
  BY <1>6, Kinds, Nobody DEF Stands
<1>11. Holds(h, c)
  <2>1. h.locks = Locked(c) /\ h.other \in Kept(c)
    BY <1>6, <1>9 DEF Locked, Kept, Opening
  <2>2. \A x \in Vnode : Owed(c, x) = Same(x, v) + 2 * Same(x, d)
    BY <1>2, <1>6, Nobody DEF Owed, SourceOwed
  <2>3. \A x \in Vnode : h.refs[x] = Owed(c, x)
    BY <1>3, <1>7, <1>8, <1>9, <2>2, Nobody
  <2> QED
    BY <1>6, <1>9, <2>1, <2>3 DEF Holds
<1>12. Current(c, h)
  BY <1>6 DEF Current
<1> QED
  BY <1>5, <1>9, <1>10, <1>11, <1>12, QuietInv

\* The file a link is made to: its directory is given back.
LEMMA LinkSourceInv ==
  ASSUME Inv, NEW t \in Thread, call[t].pc = "leaf", UNCHANGED World,
         call[t].op = "link", call[t].from = None, NEW v \in Vnode,
         NEW p, p = IF v \in Dir THEN "isdir" ELSE "parent",
         Hold(t, Vref(Vput(hand[t], Way(call[t]).dir), v)),
         call' = [call EXCEPT ![t] = [call[t] EXCEPT !.from = v, !.pc = p]]
  PROVE  Inv'
<1> DEFINE d == Way(call[t]).dir
           k == Vput(hand[t], d)
           h == Vref(k, v)
           c == [call[t] EXCEPT !.from = v, !.pc = p]
<1>1. /\ hand[t] \in HandType /\ Stands(call[t]) /\ Holds(hand[t], call[t])
      /\ hand[t].locks = {d} /\ hand[t].writer = FALSE
      /\ \A x \in Vnode : hand[t].refs[x] = SourceOwed(call[t], x) + Same(x, d)
  BY Mine, LeafHeld
<1>2. d \in Vnode
  BY Mine, Nobody DEF Way
<1>3. \A x \in Vnode : hand[t].refs[x] = Same(x, d)
  BY <1>1, Nobody DEF SourceOwed
<1>4. hand[t].other = {}
  BY <1>1 DEF Holds, Kept, Opening
<1>5. hand' = [hand EXCEPT ![t] = h] /\ call' = [call EXCEPT ![t] = c]
  BY DEF Hold
<1>6. /\ c \in CallType /\ c.pc = p /\ c.op = "link" /\ c.to = call[t].to
      /\ c.fro = call[t].fro /\ c.leaf = call[t].leaf /\ c.from = v
  BY Mine DEF CallType, At
<1> HIDE DEF c, d
<1>7. /\ k \in HandType /\ k.locks = {} /\ k.writer = FALSE /\ k.other = {}
      /\ \A x \in Vnode : k.refs[x] = hand[t].refs[x] - Same(x, d)
  BY <1>1, <1>2, <1>4, Putting
<1> HIDE DEF k
<1>8. /\ h \in HandType /\ h.locks = {} /\ h.writer = FALSE /\ h.other = {}
      /\ \A x \in Vnode : h.refs[x] = k.refs[x] + Same(x, v)
  BY <1>7, Referencing
<1> HIDE DEF h
<1>9. Stands(c)
  BY <1>6, Kinds, Nobody DEF Stands
<1>10. Holds(h, c)
  <2>1. h.locks = Locked(c) /\ h.other \in Kept(c)
    BY <1>6, <1>8 DEF Locked, Kept, Opening
  <2>2. \A x \in Vnode : Owed(c, x) = Same(x, v)
    BY <1>6, Nobody DEF Owed, SourceOwed
  <2>3. \A x \in Vnode : h.refs[x] = Owed(c, x)
    BY <1>3, <1>7, <1>8, <2>2, Nobody
  <2> QED
    BY <1>6, <1>8, <2>1, <2>3 DEF Holds
<1>11. Current(c, h)
  BY <1>6 DEF Current
<1> QED
  BY <1>5, <1>8, <1>9, <1>10, <1>11, QuietInv

\* The lookup of a call on a file: it waits with a reference, or looks at it locked.
LEMMA LookupFileInv ==
  ASSUME Inv, NEW t \in Thread, call[t].pc = "leaf", UNCHANGED World,
         call[t].op \in Waiting \cup Looking, NEW v \in Vnode,
         v # Way(call[t]).dir => Unlocked(v),
         Hold(t, IF call[t].op \in Looking
                 THEN Lock(Vref(Vput(hand[t], Way(call[t]).dir), v), v)
                 ELSE Vref(Vput(hand[t], Way(call[t]).dir), v)),
         call' = [call EXCEPT ![t] = [call[t] EXCEPT
                    !.leaf = v, !.pc = IF call[t].op \in Waiting THEN "wait" ELSE "found"]]
  PROVE  Inv'
<1> DEFINE d == Way(call[t]).dir
           k == Vput(hand[t], d)
           l == Vref(k, v)
           h == IF call[t].op \in Looking THEN Lock(l, v) ELSE l
           p == IF call[t].op \in Waiting THEN "wait" ELSE "found"
           c == [call[t] EXCEPT !.leaf = v, !.pc = p]
<1>1. /\ hand[t] \in HandType /\ Stands(call[t]) /\ Holds(hand[t], call[t])
      /\ hand[t].locks = {d} /\ hand[t].writer = FALSE
      /\ \A x \in Vnode : hand[t].refs[x] = SourceOwed(call[t], x) + Same(x, d)
  BY Mine, LeafHeld
<1>2. d \in Vnode /\ (v # d => Unlocked(v))
  BY Mine, Nobody DEF Way
<1>3. /\ call[t].op \notin Naming /\ call[t].op # "sync" /\ call[t].from = None
      /\ call[t].op \notin {"link", "rename", "undelete"} \cup Removing \cup Creating
      /\ call[t].op \in Waiting <=> call[t].op \notin Looking
  BY <1>1, Kinds DEF Stands, Naming
<1>4. \A x \in Vnode : hand[t].refs[x] = Same(x, d)
  BY <1>1, <1>3, Nobody DEF SourceOwed
<1>5. hand' = [hand EXCEPT ![t] = h] /\ call' = [call EXCEPT ![t] = c]
  BY DEF Hold
<1>6. /\ c \in CallType /\ c.pc = p /\ c.op = call[t].op /\ c.to = call[t].to
      /\ c.fro = call[t].fro /\ c.leaf = v /\ c.from = None
  BY <1>3, Mine, ZenonT(60) DEF CallType, At
<1> HIDE DEF c, d
<1>7. /\ k \in HandType /\ k.locks = {} /\ k.writer = FALSE /\ k.other = hand[t].other
      /\ \A x \in Vnode : k.refs[x] = hand[t].refs[x] - Same(x, d)
  BY <1>1, <1>2, Putting
<1> HIDE DEF k
<1>8. /\ l \in HandType /\ l.locks = {} /\ l.writer = FALSE /\ l.other = hand[t].other
      /\ \A x \in Vnode : l.refs[x] = k.refs[x] + Same(x, v)
  BY <1>7, Referencing
<1> HIDE DEF l
<1>9. /\ h \in HandType /\ h.writer = FALSE /\ h.other = hand[t].other /\ h.refs = l.refs
      /\ h.locks = IF call[t].op \in Looking THEN {v} ELSE {}
  BY <1>8, Locking
<1> HIDE DEF h
<1>10. Stands(c)
  BY <1>1, <1>3, <1>6, Kinds, Nobody DEF Stands
<1>11. Holds(h, c)
  <2>1. h.locks = Locked(c)
    BY <1>3, <1>6, <1>9 DEF Locked
  <2>2. h.other \in Kept(c)
    BY <1>1, <1>6, <1>9 DEF Holds, Kept
  <2>3. \A x \in Vnode : Owed(c, x) = Same(x, v)
    BY <1>3, <1>6, Nobody DEF Owed
  <2>4. \A x \in Vnode : h.refs[x] = Owed(c, x)
    BY <1>4, <1>7, <1>8, <1>9, <2>3, Nobody
  <2> QED
    BY <1>6, <1>9, <2>1, <2>2, <2>4 DEF Holds
<1>12. Current(c, h)
  BY <1>3, <1>6 DEF Current
<1>13. \A x \in h.locks : x \in hand[t].locks \/ Unlocked(x)
  BY <1>1, <1>2, <1>9
<1> QED
  BY <1>5, <1>9, <1>10, <1>11, <1>12, <1>13, QuietInv

\* The name a call removes, or renames to: its directory and what it stands for are locked.
LEMMA LookupPairInv ==
  ASSUME Inv, NEW t \in Thread, call[t].pc = "leaf", UNCHANGED World,
         call[t].op \in Removing \/ (call[t].op = "rename" /\ call[t].from # None),
         NEW v \in Vnode \cup {None}, v = None => call[t].op = "rename",
         v # None /\ v # call[t].to.dir => Unlocked(v),
         call[t].to.name # Dot => v = Leaf(call[t].to.dir, call[t].to.name),
         NEW k, k = IF call[t].op = "rename" THEN Vref(hand[t], call[t].to.dir) ELSE hand[t],
         Hold(t, IF v = None THEN k ELSE Lock(Vref(k, v), v)),
         call' = [call EXCEPT ![t] = [call[t] EXCEPT !.leaf = v, !.pc = "found"]]
  PROVE  Inv'
<1> DEFINE d == call[t].to.dir
           l == Vref(k, v)
           h == IF v = None THEN k ELSE Lock(l, v)
           c == [call[t] EXCEPT !.leaf = v, !.pc = "found"]
           n == IF call[t].op = "rename" THEN 2 ELSE 1
<1>1. /\ call[t].op \in Naming /\ call[t].op \in Pairing /\ call[t].op # "sync"
      /\ call[t].op \notin Waiting \cup Looking /\ call[t].op # "link"
      /\ call[t].op \notin Creating \cup {"undelete", "link"}
  BY Kinds DEF Naming, Pairing
<1>2. Way(call[t]).dir = d /\ d \in Vnode /\ (v # None /\ v # d => Unlocked(v))
  <2>1. call[t].op # "link"
    BY DEF Removing
  <2> QED
    BY <2>1, Mine, Nobody DEF Way, Removing
<1>3. /\ hand[t] \in HandType /\ Stands(call[t]) /\ Holds(hand[t], call[t])
      /\ hand[t].locks = {d} /\ hand[t].writer = FALSE
      /\ \A x \in Vnode : hand[t].refs[x] = SourceOwed(call[t], x) + Same(x, d)
  BY <1>2, Mine, LeafHeld
<1>4. \A x \in Vnode : SourceOwed(call[t], x) \in Int
  BY Nobody DEF SourceOwed
<1>5. hand' = [hand EXCEPT ![t] = h] /\ call' = [call EXCEPT ![t] = c]
  BY DEF Hold
<1>6. /\ c \in CallType /\ c.pc = "found" /\ c.op = call[t].op /\ c.to = call[t].to
      /\ c.fro = call[t].fro /\ c.leaf = v /\ c.from = call[t].from
  BY Mine DEF CallType, At
<1> HIDE DEF c
<1>7. /\ k \in HandType /\ k.locks = {d} /\ k.writer = FALSE /\ k.other = hand[t].other
      /\ \A x \in Vnode : k.refs[x] = hand[t].refs[x] + (n - 1) * Same(x, d)
  <2>1. CASE call[t].op = "rename"
    <3>1. k = Vref(hand[t], d)
      BY <2>1
    <3>2. /\ k \in HandType /\ k.locks = hand[t].locks /\ k.writer = hand[t].writer
          /\ k.other = hand[t].other
          /\ \A x \in Vnode : k.refs[x] = hand[t].refs[x] + Same(x, d)
      <4> HIDE DEF d
      <4>1. d \in Vnode /\ hand[t] \in HandType
        BY <1>2, <1>3
      <4>2. LET m == Vref(hand[t], d) IN
            /\ m \in HandType /\ m.locks = hand[t].locks /\ m.writer = hand[t].writer
            /\ m.other = hand[t].other
            /\ \A x \in Vnode : m.refs[x] = hand[t].refs[x] + Same(x, d)
        BY <4>1, Referencing
      <4> QED
        BY <3>1, <4>2
    <3>3. n - 1 = 1
      BY <2>1
    <3>4. \A x \in Vnode : (n - 1) * Same(x, d) = Same(x, d)
      BY <3>3, Nobody
    <3> QED
      BY <1>3, <3>2, <3>4
  <2>2. CASE call[t].op # "rename"
    <3>1. \A x \in Vnode : hand[t].refs[x] = hand[t].refs[x] + (n - 1) * Same(x, d)
      BY <1>3, <1>4, <2>2, Nobody
    <3> QED
      BY <1>3, <2>2, <3>1
  <2> QED
    BY <2>1, <2>2
<1>8. \A x \in Vnode : k.refs[x] = SourceOwed(call[t], x) + n * Same(x, d)
  BY <1>3, <1>4, <1>7, Nobody
<1>9. /\ h \in HandType /\ h.locks = {d} \cup ({v} \ {None})
      /\ h.writer = FALSE /\ h.other = hand[t].other
      /\ \A x \in Vnode : h.refs[x] = Same(x, v) + SourceOwed(call[t], x) + n * Same(x, d)
  <2>1. CASE v = None
    <3>1. \A x \in Vnode : k.refs[x] = Same(x, v) + SourceOwed(call[t], x) + n * Same(x, d)
      BY <1>4, <1>8, <2>1, Nobody
    <3> QED
      BY <1>7, <2>1, <3>1
  <2>2. CASE v # None
    <3>1. v \in Vnode
      BY <2>2
    <3>2. /\ l \in HandType /\ l.locks = {d} /\ l.writer = FALSE /\ l.other = hand[t].other
          /\ \A x \in Vnode : l.refs[x] = k.refs[x] + Same(x, v)
      BY <1>7, <3>1, Referencing
    <3>3. h = Lock(l, v)
      BY <2>2
    <3> HIDE DEF l, h, d, n
    <3>4. /\ h \in HandType /\ h.locks = {d} \cup {v} /\ h.writer = FALSE
          /\ h.other = hand[t].other /\ h.refs = l.refs
      BY <3>1, <3>2, <3>3, Locking
    <3>5. n \in {1, 2}
      BY DEF n
    <3>6. \A x \in Vnode : h.refs[x] = Same(x, v) + SourceOwed(call[t], x) + n * Same(x, d)
      BY <1>4, <1>8, <3>2, <3>4, <3>5, Nobody
    <3> QED
      BY <2>2, <3>4, <3>6
  <2> QED
    BY <2>1, <2>2
<1> HIDE DEF h
<1>10. Stands(c)
  <2>1. /\ call[t].op = "rename" => call[t].from # None
        /\ v = None => call[t].op \notin Removing
    BY DEF Removing
  <2>2. call[t].op # "none" /\ (call[t].from # None => call[t].op \in {"link", "rename"})
    BY <1>3 DEF Stands
  <2> QED
    BY <1>1, <1>6, <2>1, <2>2 DEF Stands
<1>11. Holds(h, c)
  <2>1. h.locks = Locked(c)
    BY <1>1, <1>6, <1>9 DEF Locked
  <2>2. h.other \in Kept(c)
    BY <1>3, <1>6, <1>9 DEF Holds, Kept
  <2>3. \A x \in Vnode : SourceOwed(c, x) = SourceOwed(call[t], x)
    BY <1>6 DEF SourceOwed
  <2>4. \A x \in Vnode : Owed(c, x) = Same(x, v) + (SourceOwed(call[t], x) + n * Same(x, d))
    BY <1>1, <1>6, <2>3, Nobody DEF Owed
  <2>5. \A x \in Vnode : h.refs[x] = Owed(c, x)
    BY <1>4, <1>9, <2>4, Nobody
  <2> QED
    BY <1>6, <1>9, <2>1, <2>2, <2>5 DEF Holds
<1>12. Current(c, h)
  BY <1>6 DEF Current
<1>13. \A x \in h.locks : x \in hand[t].locks \/ Unlocked(x)
  BY <1>2, <1>3, <1>9
<1> QED
  BY <1>5, <1>9, <1>10, <1>11, <1>12, <1>13, QuietInv

\* The name a call makes: its directory stays locked, unless the call looked up ".".
LEMMA LookupMakeInv ==
  ASSUME Inv, NEW t \in Thread, call[t].pc = "leaf", UNCHANGED World,
         \/ call[t].op \in Creating \cup {"undelete"}
         \/ call[t].op = "link" /\ call[t].from # None,
         NEW v \in Vnode \cup {None},
         call[t].to.name # Dot => v = Leaf(call[t].to.dir, call[t].to.name),
         NEW k, k = IF v # call[t].to.dir THEN hand[t] ELSE Unlock(hand[t], call[t].to.dir),
         Hold(t, IF v = None THEN k ELSE Vref(k, v)),
         call' = [call EXCEPT ![t] = [call[t] EXCEPT !.leaf = v, !.pc = "found"]]
  PROVE  Inv'
<1> DEFINE d == call[t].to.dir
           h == IF v = None THEN k ELSE Vref(k, v)
           c == [call[t] EXCEPT !.leaf = v, !.pc = "found"]
<1>1. /\ call[t].op \in Naming /\ call[t].op \notin Pairing /\ call[t].op # "sync"
      /\ call[t].op \notin Waiting \cup Looking \cup Removing /\ call[t].op # "rename"
  BY Kinds DEF Naming, Pairing
<1>2. Way(call[t]).dir = d /\ d \in Vnode
  <2>1. call[t].op \notin {"link", "rename"} \/ call[t].from # None
    BY <1>1, Kinds
  <2> QED
    BY <2>1, Mine, Nobody DEF Way
<1>3. /\ hand[t] \in HandType /\ Stands(call[t]) /\ Holds(hand[t], call[t])
      /\ hand[t].locks = {d} /\ hand[t].writer = FALSE
      /\ \A x \in Vnode : hand[t].refs[x] = SourceOwed(call[t], x) + Same(x, d)
  BY <1>2, Mine, LeafHeld
<1>4. \A x \in Vnode : SourceOwed(call[t], x) \in Int
  BY Nobody DEF SourceOwed
<1>5. hand' = [hand EXCEPT ![t] = h] /\ call' = [call EXCEPT ![t] = c]
  BY DEF Hold
<1>6. /\ c \in CallType /\ c.pc = "found" /\ c.op = call[t].op /\ c.to = call[t].to
      /\ c.fro = call[t].fro /\ c.leaf = v /\ c.from = call[t].from
  BY Mine DEF CallType, At
<1> HIDE DEF c
<1>7. /\ k \in HandType /\ k.locks = (IF v = d THEN {} ELSE {d}) /\ k.writer = FALSE
      /\ k.other = hand[t].other /\ k.refs = hand[t].refs
  <2>1. CASE v = d
    <3>1. d \in hand[t].locks /\ hand[t].locks \ {d} = {}
      BY <1>3
    <3> QED
      BY <1>2, <1>3, <2>1, <3>1, Locking
  <2>2. CASE v # d
    BY <1>3, <2>2
  <2> QED
    BY <2>1, <2>2
<1>8. /\ h \in HandType /\ h.locks = k.locks /\ h.writer = FALSE /\ h.other = hand[t].other
      /\ \A x \in Vnode : h.refs[x] = Same(x, v) + SourceOwed(call[t], x) + Same(x, d)
  <2>1. CASE v = None
    <3>1. \A x \in Vnode : k.refs[x] = Same(x, v) + SourceOwed(call[t], x) + Same(x, d)
      BY <1>3, <1>4, <1>7, <2>1, Nobody
    <3> QED
      BY <1>7, <2>1, <3>1
  <2>2. CASE v # None
    <3>1. h = Vref(k, v) /\ v \in Vnode
      BY <2>2
    <3> HIDE DEF h, d
    <3>2. /\ h \in HandType /\ h.locks = k.locks /\ h.writer = FALSE /\ h.other = hand[t].other
          /\ \A x \in Vnode : h.refs[x] = k.refs[x] + Same(x, v)
      BY <1>7, <3>1, Referencing
    <3>3. \A x \in Vnode : h.refs[x] = Same(x, v) + SourceOwed(call[t], x) + Same(x, d)
      BY <1>3, <1>4, <1>7, <3>2, Nobody, SMTT(60)
    <3> QED
      BY <3>2, <3>3
  <2> QED
    BY <2>1, <2>2
<1> HIDE DEF h
<1>10. Stands(c)
  <2>1. call[t].op \in {"link", "rename"} => call[t].from # None
    BY <1>1, Kinds
  <2> QED
    BY <1>1, <1>3, <1>6, <2>1 DEF Stands
<1>11. Holds(h, c)
  <2>1. h.locks = Locked(c)
    BY <1>1, <1>6, <1>7, <1>8 DEF Locked
  <2>2. h.other \in Kept(c)
    BY <1>3, <1>6, <1>8 DEF Holds, Kept
  <2>3. \A x \in Vnode : SourceOwed(c, x) = SourceOwed(call[t], x)
    BY <1>6 DEF SourceOwed
  <2>4. \A x \in Vnode : Owed(c, x) = Same(x, v) + (SourceOwed(call[t], x) + Same(x, d))
    BY <1>1, <1>6, <2>3, Nobody DEF Owed
  <2>5. \A x \in Vnode : h.refs[x] = Owed(c, x)
    BY <1>4, <1>8, <2>4, Nobody
  <2> QED
    BY <1>6, <1>8, <2>1, <2>2, <2>5 DEF Holds
<1>12. Current(c, h)
  BY <1>6 DEF Current
<1>13. \A x \in h.locks : x \in hand[t].locks \/ Unlocked(x)
  BY <1>3, <1>7, <1>8
<1> QED
  BY <1>5, <1>8, <1>10, <1>11, <1>12, <1>13, QuietInv

LEMMA LookupLeafInv ==
  ASSUME Inv, NEW t \in Thread, LookupLeaf(t)
  PROVE  Inv'
<1> DEFINE p == Way(call[t])
           d == p.dir
           op == call[t].op
           v == IF p.name = Dot THEN d ELSE Leaf(d, p.name)
           hidden == op = "undelete" /\ p.name # Dot /\ entry[d][p.name] = Whiteout
           creates == ~First(t) /\ (hidden \/ op \in Creating \cup {"link", "rename"})
           bare == IF WantParent(t)
                   THEN IF LockParent(t) /\ (v # d \/ LockLeaf(t)) THEN hand[t]
                        ELSE Unlock(hand[t], d)
                   ELSE Vput(hand[t], d)
           saved == IF SaveStart(t) THEN Vref(bare, d) ELSE bare
           leaved == IF v = None THEN saved
                     ELSE IF LockLeaf(t) THEN Lock(Vref(saved, v), v) ELSE Vref(saved, v)
<1>1. Target(t) = p /\ call[t].pc = "leaf" /\ UNCHANGED World
  BY DEF LookupLeaf, Target, First, Way
<1>2. \/ Return(t, LET a == [Abandoned(t) EXCEPT !.locks = @ \ {d}] IN Vrele(a, d))
      \/ /\ v = None => creates
         /\ v # None /\ v # d => Unlocked(v)
         /\ Hold(t, leaved)
         /\ call' = [call EXCEPT ![t] =
              IF First(t) THEN [call[t] EXCEPT !.from = v,
                                               !.pc = IF op = "link" /\ v \in Dir THEN "isdir"
                                                      ELSE "parent"]
              ELSE [call[t] EXCEPT !.leaf = v,
                                   !.pc = IF op \in Waiting THEN "wait" ELSE "found"]]
  BY <1>1 DEF LookupLeaf
<1>3. /\ d \in Dir /\ d \in Vnode /\ p.name \in Name \cup {Dot} /\ v \in Vnode \cup {None}
      /\ call[t].pc = "leaf"
  <2>1. d \in Dir /\ d \in Vnode /\ p.name \in Name \cup {Dot}
    BY Mine, Nobody DEF Way
  <2>2. p.name # Dot => entry[d][p.name] \in Vnode \cup {None, Whiteout}
    BY <2>1 DEF Inv, WorldType
  <2> QED
    BY <1>1, <2>1, <2>2 DEF Leaf
<1>4. CASE Return(t, LET a == [Abandoned(t) EXCEPT !.locks = @ \ {d}] IN Vrele(a, d))
  BY <1>1, <1>4, LookupFailsInv
<1>5. ASSUME v = None => creates, v # None /\ v # d => Unlocked(v), Hold(t, leaved),
             call' = [call EXCEPT ![t] =
              IF First(t) THEN [call[t] EXCEPT !.from = v,
                                               !.pc = IF op = "link" /\ v \in Dir THEN "isdir"
                                                      ELSE "parent"]
              ELSE [call[t] EXCEPT !.leaf = v,
                                   !.pc = IF op \in Waiting THEN "wait" ELSE "found"]]
      PROVE  Inv'
  <2>1. CASE First(t) /\ op = "rename"
    <3>1. call[t].from = None /\ WantParent(t) /\ ~ LockParent(t) /\ ~ LockLeaf(t) /\ SaveStart(t)
      BY <2>1 DEF First, WantParent, LockParent, LockLeaf, SaveStart
    <3>2. v # None
      BY <1>5, <2>1
    <3>3. leaved = Vref(Vref(Unlock(hand[t], d), d), v)
      BY <3>1, <3>2
    <3>4. call' = [call EXCEPT ![t] = [call[t] EXCEPT !.from = v, !.pc = "parent"]]
      BY <1>5, <2>1
    <3>5. v \in Vnode /\ Hold(t, Vref(Vref(Unlock(hand[t], d), d), v))
      BY <1>3, <1>5, <3>2, <3>3
    <3> HIDE DEF v
    <3> QED
      BY <1>1, <2>1, <3>1, <3>4, <3>5, RenameSourceInv
  <2>2. CASE First(t) /\ op = "link"
    <3>1. call[t].from = None /\ ~ WantParent(t) /\ ~ LockLeaf(t) /\ ~ SaveStart(t)
      BY <2>2 DEF First, WantParent, LockParent, LockLeaf, SaveStart
    <3>2. v # None
      BY <1>5, <2>2
    <3>3. leaved = Vref(Vput(hand[t], d), v)
      BY <3>1, <3>2
    <3>4. call' = [call EXCEPT ![t] = [call[t] EXCEPT !.from = v,
                                         !.pc = IF v \in Dir THEN "isdir" ELSE "parent"]]
      BY <1>5, <2>2
    <3>5. v \in Vnode /\ Hold(t, Vref(Vput(hand[t], d), v))
      BY <1>3, <1>5, <3>2, <3>3
    <3> HIDE DEF v
    <3> QED
      BY <1>1, <2>2, <3>1, <3>4, <3>5, LinkSourceInv
  <2>3. CASE ~ First(t) /\ op \in Waiting \cup Looking
    <3>1. /\ ~ WantParent(t) /\ (LockLeaf(t) <=> op \in Looking) /\ ~ SaveStart(t)
          /\ op \notin Creating \cup {"link", "rename", "undelete"}
      BY <2>3 DEF WantParent, LockParent, LockLeaf, SaveStart, Waiting, Looking, Removing,
                  Opening, Creating
    <3>2. v # None
      BY <1>5, <3>1
    <3>3. leaved = IF op \in Looking THEN Lock(Vref(Vput(hand[t], d), v), v)
                   ELSE Vref(Vput(hand[t], d), v)
      BY <3>1, <3>2
    <3>4. call' = [call EXCEPT ![t] = [call[t] EXCEPT
                     !.leaf = v, !.pc = IF op \in Waiting THEN "wait" ELSE "found"]]
      BY <1>5, <2>3
    <3>5. /\ v \in Vnode /\ (v # d => Unlocked(v))
          /\ Hold(t, IF op \in Looking THEN Lock(Vref(Vput(hand[t], d), v), v)
                     ELSE Vref(Vput(hand[t], d), v))
      BY <1>3, <1>5, <3>2, <3>3
    <3> HIDE DEF v
    <3> QED
      BY <1>1, <2>3, <3>4, <3>5, LookupFileInv
  <2>4. CASE ~ First(t) /\ op \in Removing \cup {"rename"}
    <3>1. /\ WantParent(t) /\ LockLeaf(t) /\ LockParent(t) /\ (SaveStart(t) <=> op = "rename")
          /\ op \notin Waiting /\ (op # "rename" => op \notin Creating \cup {"undelete", "link"})
          /\ (op = "rename" => call[t].from # None)
          /\ p = call[t].to
      BY <2>4 DEF First, WantParent, LockParent, LockLeaf, SaveStart, Waiting, Looking, Removing,
                  Opening, Creating, Way
    <3>2. v = None => op = "rename"
      BY <1>5, <3>1
    <3> DEFINE k == IF op = "rename" THEN Vref(hand[t], d) ELSE hand[t]
    <3>3. leaved = IF v = None THEN k ELSE Lock(Vref(k, v), v)
      BY <3>1
    <3>4. call' = [call EXCEPT ![t] = [call[t] EXCEPT !.leaf = v, !.pc = "found"]]
      BY <1>5, <2>4, <3>1
    <3>5. /\ v \in Vnode \cup {None} /\ (v # None /\ v # call[t].to.dir => Unlocked(v))
          /\ call[t].to.name # Dot => v = Leaf(call[t].to.dir, call[t].to.name)
          /\ Hold(t, IF v = None THEN k ELSE Lock(Vref(k, v), v))
      BY <1>3, <1>5, <3>1, <3>3
    <3>6. k = IF op = "rename" THEN Vref(hand[t], call[t].to.dir) ELSE hand[t]
      BY <3>1
    <3>7. op \in Removing \/ (op = "rename" /\ call[t].from # None)
      BY <2>4, <3>1
    <3> HIDE DEF v, k
    <3> QED
      BY <1>1, <3>2, <3>4, <3>5, <3>6, <3>7, LookupPairInv
  <2>5. CASE ~ First(t) /\ op \in Creating \cup {"undelete", "link"}
    <3>1. /\ WantParent(t) /\ ~ LockLeaf(t) /\ LockParent(t) /\ ~ SaveStart(t)
          /\ op \notin Waiting
          /\ (op = "link" => call[t].from # None)
          /\ p = call[t].to
      BY <2>5 DEF First, WantParent, LockParent, LockLeaf, SaveStart, Waiting, Looking, Removing,
                  Opening, Creating, Way
    <3> DEFINE k == IF v # d THEN hand[t] ELSE Unlock(hand[t], d)
    <3>3. leaved = IF v = None THEN k ELSE Vref(k, v)
      BY <3>1
    <3>4. call' = [call EXCEPT ![t] = [call[t] EXCEPT !.leaf = v, !.pc = "found"]]
      BY <1>5, <2>5, <3>1
    <3>5. /\ v \in Vnode \cup {None}
          /\ call[t].to.name # Dot => v = Leaf(call[t].to.dir, call[t].to.name)
          /\ Hold(t, IF v = None THEN k ELSE Vref(k, v))
      BY <1>3, <1>5, <3>1, <3>3
    <3>6. k = IF v # call[t].to.dir THEN hand[t] ELSE Unlock(hand[t], call[t].to.dir)
      BY <3>1
    <3>7. op \in Creating \cup {"undelete"} \/ (op = "link" /\ call[t].from # None)
      BY <2>5, <3>1
    <3> HIDE DEF v, k
    <3> QED
      BY <1>1, <3>4, <3>5, <3>6, <3>7, LookupMakeInv
  <2>6. /\ op \in Calling \cup {"none"} /\ op # "none" /\ op # "sync"
        /\ First(t) => op \in {"link", "rename"}
    BY <1>3, Mine DEF Stands, CallType, First
  <2>7. Calling = Creating \cup Removing \cup Waiting \cup Looking
                    \cup {"undelete", "link", "rename", "sync"}
    BY DEF Calling
  <2> QED
    BY <2>1, <2>2, <2>3, <2>4, <2>5, <2>6, <2>7
<1> QED
  BY <1>2, <1>4, <1>5

(***************************************************************************)
(* Refusals, counts and sleeps                                             *)
(***************************************************************************)
LEMMA RefusedInv ==
  ASSUME Inv, NEW t \in Thread, NEW h \in HandType, Refused(t, h), call[t].pc # "user",
         call[t].op \in Naming,
         \A x \in Vnode : h.refs[x] = 0, h.locks = {}, h.writer = FALSE,
         h.other = hand[t].other
  PROVE  Inv'
<1> DEFINE c == [call[t] EXCEPT !.pc = "xsleep", !.leaf = None, !.from = None]
<1>1. /\ hand' = [hand EXCEPT ![t] = h] /\ call' = [call EXCEPT ![t] = c] /\ UNCHANGED World
  BY DEF Refused, Hold, Inv
<1>2. Stands(call[t]) /\ Holds(hand[t], call[t]) /\ call[t] \in CallType
  BY Mine
<1>3. /\ c \in CallType /\ c.pc = "xsleep" /\ c.op = call[t].op /\ c.from = None
  BY <1>2 DEF CallType, At
<1> HIDE DEF c
<1>4. Stands(c)
  <2>1. call[t].op \notin {"fsync", "fallocate", "sync", "fhopen"}
    BY DEF Naming, Creating, Removing
  <2> QED
    BY <1>2, <1>3, <2>1, Nobody DEF Stands
<1>5. Holds(h, c)
  <2>1. h.locks = Locked(c) /\ \A x \in Vnode : Owed(c, x) = 0

    BY <1>3 DEF Locked, Owed
  <2>2. h.other \in Kept(c)
    BY <1>2, <1>3 DEF Holds, Kept
  <2> QED
    BY <1>3, <2>1, <2>2 DEF Holds
<1>6. Current(c, h)
  BY <1>3 DEF Current
<1> QED
  BY <1>1, <1>4, <1>5, <1>6, QuietInv

LEMMA CountedInv ==
  ASSUME Inv, NEW t \in Thread, CanWrite, Counted(t),
         call[t].pc \in {"found", "source"}, call[t].op \in Naming,
         call[t].pc = "source" <=> call[t].op = "link",
         call[t].op \in Creating \cup {"undelete", "link"} => call[t].leaf = None
  PROVE  Inv'
<1> DEFINE c == [call[t] EXCEPT !.pc = "vop"]
           h == [hand[t] EXCEPT !.writer = TRUE]
<1>1. hand' = [hand EXCEPT ![t] = h] /\ Go(t, "vop") /\ UNCHANGED World
  BY DEF Counted, Hold
<1>2. call' = [call EXCEPT ![t] = c]
  BY <1>1, Going
<1>3. /\ Stands(call[t]) /\ Holds(hand[t], call[t]) /\ Current(call[t], hand[t])
      /\ call[t] \in CallType /\ hand[t] \in HandType
  BY Mine
<1>4. /\ c \in CallType /\ c.pc = "vop" /\ c.op = call[t].op /\ c.from = call[t].from
      /\ c.to = call[t].to /\ c.fro = call[t].fro /\ c.leaf = call[t].leaf
  BY <1>3 DEF CallType, At
<1>5. /\ h \in HandType /\ h.refs = hand[t].refs /\ h.locks = hand[t].locks
      /\ h.writer = TRUE /\ h.other = hand[t].other
  BY <1>3, Finishing
<1> HIDE DEF c, h
<1>6. call[t].op \notin Waiting \cup Looking \cup {"sync", "none"}
  BY Kinds
<1>7. Stands(c)
  <2>1. call[t].op \in Removing => call[t].leaf # None
    <3>1. call[t].op \in Removing => call[t].op # "link"
      BY DEF Removing
    <3> QED
      BY <1>3, <3>1 DEF Stands
  <2> QED
    BY <1>3, <1>4, <1>6, <2>1 DEF Stands
<1>8. Holds(h, c)
  <2>1. Locked(c) = Locked(call[t])
    BY <1>4, <1>6 DEF Locked
  <2>2. h.other \in Kept(c)
    BY <1>3, <1>4, <1>5 DEF Holds, Kept
  <2>3. \A x \in Vnode : SourceOwed(c, x) = SourceOwed(call[t], x)
    BY <1>4 DEF SourceOwed
  <2>4. \A x \in Vnode : Owed(c, x) = Owed(call[t], x)
    BY <1>4, <1>6, <2>3 DEF Owed
  <2> QED
    BY <1>3, <1>4, <1>5, <2>1, <2>2, <2>4 DEF Holds
<1>9. Current(c, h)
  BY <1>3, <1>4, <1>5 DEF Current
<1>10. susp = "no"
  BY DEF CanWrite
<1> QED
  BY <1>1, <1>2, <1>5, <1>7, <1>8, <1>9, <1>10, QuietInv

LEMMA XSleepInv ==
  ASSUME Inv, NEW t \in Thread, XSleep(t)
  PROVE  Inv'
<1>1. call[t].pc = "xsleep" /\ UNCHANGED World
  BY DEF XSleep
<1>2. /\ Stands(call[t]) /\ Holds(hand[t], call[t]) /\ call[t] \in CallType
      /\ hand[t] \in HandType
  BY Mine
<1>3. /\ \A v \in Vnode : hand[t].refs[v] = 0
      /\ hand[t].locks = {} /\ hand[t].writer = FALSE /\ call[t].from = None
  <2>1. call[t].from = None
    BY <1>1, <1>2 DEF Stands
  <2> QED
    BY <1>1, <2>1, ParentHeld DEF SourceOwed
<1>4. CASE Return(t, [hand[t] EXCEPT !.other = {}])
  <2> DEFINE h == [hand[t] EXCEPT !.other = {}]
  <2>1. {} \in SUBSET Thing
    OBVIOUS
  <2>2. /\ h \in HandType /\ h.refs = hand[t].refs /\ h.locks = {} /\ h.writer = FALSE
        /\ h.other = {}
    BY <1>2, <1>3, <2>1, Keeping
  <2> HIDE DEF h
  <2>3. Return(t, h)
    BY <1>4 DEF h
  <2> QED
    BY <1>1, <1>3, <2>2, <2>3, QuietReturnInv
<1>5. CASE CanWrite /\ Hold(t, hand[t]) /\ Go(t, "parent")
  <2> DEFINE c == [call[t] EXCEPT !.pc = "parent"]
  <2>1. hand' = [hand EXCEPT ![t] = hand[t]] /\ call' = [call EXCEPT ![t] = c]
    BY <1>5, Going DEF Hold
  <2>2. /\ c \in CallType /\ c.pc = "parent" /\ c.op = call[t].op /\ c.from = None
        /\ c.to = call[t].to /\ c.fro = call[t].fro /\ c.leaf = call[t].leaf
    BY <1>2, <1>3 DEF CallType, At
  <2> HIDE DEF c
  <2>3. call[t].op \notin {"fsync", "fallocate", "sync", "fhopen"}
    BY <1>1, <1>2 DEF Stands
  <2>4. Stands(c)
    BY <1>1, <1>2, <2>2, <2>3, Nobody DEF Stands
  <2>5. Holds(hand[t], c)
    <3>1. hand[t].locks = Locked(c) /\ hand[t].other \in Kept(c)
      BY <1>1, <1>2, <1>3, <2>2 DEF Locked, Kept, Holds
    <3>2. \A x \in Vnode : Owed(c, x) = 0
      BY <2>2 DEF Owed, SourceOwed
    <3> QED
      BY <1>2, <1>3, <2>2, <3>1, <3>2 DEF Holds
  <2>6. Current(c, hand[t])
    BY <2>2 DEF Current
  <2> QED
    BY <1>1, <1>3, <2>1, <2>4, <2>5, <2>6, QuietInv
<1> QED
  BY <1>4, <1>5 DEF XSleep

(***************************************************************************)
(* Making and removing a name                                              *)
(***************************************************************************)
\* What a call that is counted does to a directory it has locked, others do not see half done.
LEMMA EntryChanges ==
  ASSUME Inv, NEW t \in Thread, NEW d \in Dir, d \in hand[t].locks, NEW n \in Name \cup {Dot},
         NEW v \in Vnode \cup {None, Whiteout}, entry' = [entry EXCEPT ![d][n] = v]
  PROVE  /\ entry' \in [Dir -> [Name -> Vnode \cup {None, Whiteout}]]
         /\ \A e \in Dir, m \in Name :
              entry'[e][m] # entry[e][m] => \A u \in Thread \ {t} : e \notin hand[u].locks
<1>1. entry \in [Dir -> [Name -> Vnode \cup {None, Whiteout}]]
  BY DEF Inv, WorldType
<1>2. \A u \in Thread \ {t} : d \notin hand[u].locks
  BY DEF Inv, Exclusive
<1> DEFINE f == [entry[d] EXCEPT ![n] = v]
<1>3. f \in [Name -> Vnode \cup {None, Whiteout}] /\ entry' = [entry EXCEPT ![d] = f]
  BY <1>1
<1> HIDE DEF f
<1> QED
  BY <1>1, <1>2, <1>3

\* A world that no step of this thread changes but in its directories and flushed vnodes.
LEMMA WorldChanges ==
  ASSUME Inv, entry' \in [Dir -> [Name -> Vnode \cup {None, Whiteout}]],
         susp' = susp, doomed' \subseteq File, flushed' \subseteq Vnode
  PROVE  WorldType'
BY DEF Inv, WorldType

\* The hand of a call that makes a name, and what is left when it has given all back.
LEMMA MakeHand ==
  ASSUME Inv, NEW t \in Thread, call[t].pc \in {"found", "vop"},
         call[t].op \in Creating \cup {"undelete"}
  PROVE  LET d == call[t].to.dir
             leaf == call[t].leaf
             h == hand[t]
         IN  /\ d \in Dir /\ d \in Vnode /\ leaf \in Vnode \cup {None} /\ h \in HandType
             /\ \A x \in Vnode : h.refs[x] = Same(x, leaf) + Same(x, d)
             /\ h.locks = (IF leaf = d THEN {} ELSE {d}) /\ h.writer = (call[t].pc = "vop")
             /\ call[t].op # "symlink" => h.other = {}
             /\ call[t].pc = "vop" => leaf = None
             /\ call[t].op \in Naming /\ call[t].op # "link"
<1> DEFINE op == call[t].op
<1>1. /\ op \in Naming /\ op \notin Pairing
      /\ op \notin Waiting \cup Looking \cup {"sync", "link", "rename"}
      /\ op \notin Opening
  BY Kinds DEF Naming
<1>2. Stands(call[t]) /\ Holds(hand[t], call[t]) /\ hand[t] \in HandType
      /\ call[t].to.dir \in Dir /\ call[t].leaf \in Vnode \cup {None}
  BY Mine
<1>3. call[t].from = None
  BY <1>1, <1>2 DEF Stands
<1>4. \A x \in Vnode : hand[t].refs[x] = Same(x, call[t].leaf) + Same(x, call[t].to.dir)
  BY <1>1, <1>3, NameHeld, Nobody DEF SourceOwed
<1>5. /\ hand[t].locks = (IF call[t].leaf = call[t].to.dir THEN {} ELSE {call[t].to.dir})
      /\ hand[t].writer = (call[t].pc = "vop")
  BY <1>1, NameHeld DEF Locked
<1>6. op # "symlink" => hand[t].other = {}
  <2>1. op \notin {"access", "fsync", "fallocate", "truncate"}
    BY DEF Creating
  <2> QED
    BY <1>1, <1>2, <2>1 DEF Holds, Kept
<1>7. call[t].pc = "vop" => call[t].leaf = None
  BY <1>2 DEF Stands
<1> QED
  BY <1>1, <1>2, <1>4, <1>5, <1>6, <1>7, Nobody

LEMMA MakeGivesBack ==
  ASSUME Inv, NEW t \in Thread, call[t].pc \in {"found", "vop"},
         call[t].op \in Creating \cup {"undelete"}
  PROVE  LET d == call[t].to.dir
             leaf == call[t].leaf
             h == hand[t]
             g == Vrele(GiveParent(h, d, leaf), leaf)
             p == Vput(h, d)
         IN  /\ leaf # None => /\ g \in HandType /\ g.locks = {} /\ g.writer = h.writer
                               /\ g.other = h.other /\ \A x \in Vnode : g.refs[x] = 0
             /\ leaf = None => /\ p \in HandType /\ p.locks = {} /\ p.writer = h.writer
                               /\ p.other = h.other /\ \A x \in Vnode : p.refs[x] = 0
<1> DEFINE d == call[t].to.dir
           leaf == call[t].leaf
           h == hand[t]
<1>1. /\ d \in Vnode /\ leaf \in Vnode \cup {None} /\ h \in HandType
      /\ \A x \in Vnode : h.refs[x] = Same(x, leaf) + Same(x, d)
      /\ h.locks = (IF leaf = d THEN {} ELSE {d})
  BY MakeHand
<1> HIDE DEF d, leaf, h
<1>2. ASSUME leaf # None
      PROVE  LET g == Vrele(GiveParent(h, d, leaf), leaf) IN
             /\ g \in HandType /\ g.locks = {} /\ g.writer = h.writer
             /\ g.other = h.other /\ \A x \in Vnode : g.refs[x] = 0
  <2> DEFINE k == GiveParent(h, d, leaf)
             g == Vrele(k, leaf)
  <2>1. (d \in h.locks <=> leaf # d) /\ h.locks \ {d} = {} /\ leaf \in Vnode
    BY <1>1, <1>2
  <2>2. /\ k \in HandType /\ k.locks = {} /\ k.writer = h.writer /\ k.other = h.other
        /\ \A x \in Vnode : k.refs[x] = h.refs[x] - Same(x, d)
    BY <1>1, <2>1, GivingParent
  <2> HIDE DEF k
  <2>3. /\ g \in HandType /\ g.locks = {} /\ g.writer = h.writer /\ g.other = h.other
        /\ \A x \in Vnode : g.refs[x] = k.refs[x] - Same(x, leaf)
    BY <2>1, <2>2, Referencing
  <2> HIDE DEF g
  <2>4. \A x \in Vnode : g.refs[x] = 0
    BY <1>1, <2>2, <2>3, Nobody
  <2> QED
    BY <2>3, <2>4 DEF g, k
<1>3. ASSUME leaf = None
      PROVE  LET p == Vput(h, d) IN
             /\ p \in HandType /\ p.locks = {} /\ p.writer = h.writer
             /\ p.other = h.other /\ \A x \in Vnode : p.refs[x] = 0
  <2> DEFINE p == Vput(h, d)
  <2>1. d \in h.locks /\ h.locks \ {d} = {}
    BY <1>1, <1>3, Nobody
  <2>2. /\ p \in HandType /\ p.locks = {} /\ p.writer = h.writer /\ p.other = h.other
        /\ \A x \in Vnode : p.refs[x] = h.refs[x] - Same(x, d)
    BY <1>1, <2>1, Putting
  <2> HIDE DEF p
  <2>3. \A x \in Vnode : p.refs[x] = 0
    BY <1>1, <1>3, <2>2, Nobody
  <2> QED
    BY <2>2, <2>3 DEF p
<1> QED
  BY <1>2, <1>3 DEF d, leaf, h

\* Emptied and no longer counted.
LEMMA Emptied ==
  ASSUME NEW h \in HandType, h.locks = {}, \A x \in Vnode : h.refs[x] = 0
  PROVE  /\ LET k == [h EXCEPT !.other = {}] IN
            /\ k \in HandType /\ k.locks = {} /\ k.writer = h.writer /\ k.other = {}
            /\ \A x \in Vnode : k.refs[x] = 0
         /\ LET k == Finish(h) IN
            /\ k \in HandType /\ k.locks = {} /\ k.writer = FALSE /\ k.other = h.other
            /\ \A x \in Vnode : k.refs[x] = 0
         /\ LET k == [Finish(h) EXCEPT !.other = {}] IN
            /\ k \in HandType /\ k.locks = {} /\ k.writer = FALSE /\ k.other = {}
            /\ \A x \in Vnode : k.refs[x] = 0
<1>1. {} \in SUBSET Thing
  OBVIOUS
<1>2. LET k == Finish(h) IN
      /\ k \in HandType /\ k.locks = {} /\ k.writer = FALSE /\ k.other = h.other
      /\ \A x \in Vnode : k.refs[x] = 0
  BY Finishing
<1> QED
  BY <1>1, <1>2, Keeping

LEMMA CreateInv ==
  ASSUME Inv, NEW t \in Thread, NEW op \in Creating, NEW kind \in SUBSET Vnode,
         Create(t, op, kind)
  PROVE  Inv'
<1> DEFINE d == call[t].to.dir
           n == call[t].to.name
           leaf == call[t].leaf
           h == hand[t]
           g == Vrele(GiveParent(h, d, leaf), leaf)
           p == Vput(h, d)
<1>1. /\ call[t].op = op /\ call[t].pc \in {"found", "vop"}
      /\ \/ /\ call[t].pc = "found" /\ leaf # None
            /\ Return(t, [g EXCEPT !.other = {}])
            /\ UNCHANGED World
         \/ /\ call[t].pc = "found" /\ leaf = None
            /\ IF CanWrite THEN Counted(t) ELSE Refused(t, p)
         \/ /\ call[t].pc = "vop"
            /\ \/ \E v \in kind : /\ entry' = [entry EXCEPT ![d][n] = v]
                                  /\ doomed' = doomed \ {v}
                                  /\ flushed' = flushed \ {d, v}
               \/ UNCHANGED <<entry, doomed, flushed>>
            /\ Return(t, [Finish(p) EXCEPT !.other = {}])
            /\ UNCHANGED susp
  BY DEF Create, Found, Vop, Touch
<1>2. /\ d \in Dir /\ d \in Vnode /\ n \in Name \cup {Dot} /\ h \in HandType
      /\ call[t].op \in Naming /\ call[t].op # "link"
      /\ h.locks = (IF leaf = d THEN {} ELSE {d}) /\ h.writer = (call[t].pc = "vop")
      /\ call[t].pc = "vop" => leaf = None
  BY <1>1, MakeHand, Mine
<1>3. /\ leaf # None => /\ g \in HandType /\ g.locks = {} /\ g.writer = h.writer
                        /\ g.other = h.other /\ \A x \in Vnode : g.refs[x] = 0
      /\ leaf = None => /\ p \in HandType /\ p.locks = {} /\ p.writer = h.writer
                        /\ p.other = h.other /\ \A x \in Vnode : p.refs[x] = 0
  BY <1>1, MakeGivesBack
<1> HIDE DEF g, p
<1>4. CASE /\ call[t].pc = "found" /\ leaf # None
           /\ Return(t, [g EXCEPT !.other = {}]) /\ UNCHANGED World
  <2> DEFINE k == [g EXCEPT !.other = {}]
  <2>1. g.writer = FALSE
    BY <1>2, <1>3, <1>4
  <2>2. /\ k \in HandType /\ k.locks = {} /\ k.writer = FALSE /\ k.other = {}
        /\ \A x \in Vnode : k.refs[x] = 0
    BY <1>3, <1>4, <2>1, Emptied
  <2>3. Return(t, k) /\ UNCHANGED World
    BY <1>4
  <2> HIDE DEF k
  <2> QED
    BY <2>2, <2>3, QuietReturnInv
<1>5. CASE call[t].pc = "found" /\ leaf = None /\ CanWrite /\ Counted(t)
  BY <1>1, <1>2, <1>5, CountedInv
<1>6. CASE call[t].pc = "found" /\ leaf = None /\ Refused(t, p)
  <2>1. p.writer = FALSE
    BY <1>2, <1>3, <1>6
  <2> QED
    BY <1>2, <1>3, <1>6, <2>1, RefusedInv
<1>7. CASE /\ call[t].pc = "vop"
           /\ \/ \E v \in kind : /\ entry' = [entry EXCEPT ![d][n] = v]
                                 /\ doomed' = doomed \ {v}
                                 /\ flushed' = flushed \ {d, v}
              \/ UNCHANGED <<entry, doomed, flushed>>
           /\ Return(t, [Finish(p) EXCEPT !.other = {}])
           /\ UNCHANGED susp
  <2> DEFINE k == [Finish(p) EXCEPT !.other = {}]
  <2>1. leaf = None /\ h.writer /\ d \in h.locks
    BY <1>2, <1>7, Nobody
  <2>2. /\ k \in HandType /\ k.locks = {} /\ k.writer = FALSE /\ k.other = {}
        /\ \A x \in Vnode : k.refs[x] = 0
    BY <1>3, <2>1, Emptied
  <2>3. Return(t, k) /\ susp' = susp
    BY <1>7
  <2> HIDE DEF k
  <2>4. /\ entry' \in [Dir -> [Name -> Vnode \cup {None, Whiteout}]]
        /\ \A e \in Dir, m \in Name :
             entry'[e][m] # entry[e][m] => \A u \in Thread \ {t} : e \notin hand[u].locks
        /\ doomed' \subseteq File /\ flushed' \subseteq Vnode
    <3>1. entry \in [Dir -> [Name -> Vnode \cup {None, Whiteout}]]
          /\ doomed \subseteq File /\ flushed \subseteq Vnode
      BY DEF Inv, WorldType
    <3>2. CASE UNCHANGED <<entry, doomed, flushed>>
      BY <3>1, <3>2
    <3>3. ASSUME NEW v \in kind, entry' = [entry EXCEPT ![d][n] = v],
                 doomed' = doomed \ {v}, flushed' = flushed \ {d, v}
          PROVE  <2>4!1 /\ <2>4!2 /\ <2>4!3

      BY <1>2, <2>1, <3>1, <3>3, EntryChanges
    <3> QED
      BY <1>7, <3>2, <3>3
  <2>5. WorldType'
    BY <2>3, <2>4, WorldChanges
  <2> QED
    BY <2>1, <2>2, <2>3, <2>4, <2>5, ReturnInv
<1> QED
  BY <1>1, <1>4, <1>5, <1>6, <1>7

\* A whiteout is made, or taken away.
LEMMA WhiteoutInv ==
  ASSUME Inv, NEW t \in Thread, call[t].pc = "vop", call[t].op \in {"mknod", "undelete"},
         NEW v \in {None, Whiteout},
         entry' = [entry EXCEPT ![call[t].to.dir][call[t].to.name] = v],
         flushed' = flushed \ {call[t].to.dir}, UNCHANGED <<doomed, susp>>,
         Return(t, Finish(Vput(hand[t], call[t].to.dir)))
  PROVE  Inv'
<1> DEFINE d == call[t].to.dir
           p == Vput(hand[t], d)
           k == Finish(p)
<1>1. call[t].op \in Creating \cup {"undelete"} /\ call[t].op # "symlink"
  BY DEF Creating
<1>2. /\ d \in Dir /\ call[t].to.name \in Name \cup {Dot} /\ hand[t].other = {}
      /\ hand[t].locks = (IF call[t].leaf = d THEN {} ELSE {d}) /\ hand[t].writer
      /\ call[t].leaf = None /\ d \in Vnode
  BY <1>1, MakeHand, Mine
<1>3. p \in HandType /\ p.locks = {} /\ p.other = {} /\ \A x \in Vnode : p.refs[x] = 0
  BY <1>1, <1>2, MakeGivesBack
<1>4. Return(t, k)
  OBVIOUS
<1> HIDE DEF p
<1>5. /\ k \in HandType /\ k.locks = {} /\ k.writer = FALSE /\ k.other = {}
      /\ \A x \in Vnode : k.refs[x] = 0
  BY <1>3, Emptied
<1> HIDE DEF k
<1>6. d \in hand[t].locks
  BY <1>2, Nobody
<1>7. /\ entry' \in [Dir -> [Name -> Vnode \cup {None, Whiteout}]]
      /\ \A e \in Dir, m \in Name :
           entry'[e][m] # entry[e][m] => \A u \in Thread \ {t} : e \notin hand[u].locks
  BY <1>2, <1>6, EntryChanges
<1>8. doomed \subseteq File /\ flushed \subseteq Vnode
  BY DEF Inv, WorldType
<1>9. WorldType'
  BY <1>7, <1>8, WorldChanges
<1> QED
  BY <1>2, <1>4, <1>5, <1>7, <1>9, ReturnInv

LEMMA MkfifoInv ==
  ASSUME Inv, NEW t \in Thread, Mkfifo(t) \/ Mkdir(t) \/ Symlink(t)
  PROVE  Inv'
<1>1. File \in SUBSET Vnode /\ Dir \ {Root} \in SUBSET Vnode
  BY Nobody
<1>2. {"mkfifo", "mkdir", "symlink"} \subseteq Creating
  BY DEF Creating
<1> QED
  BY <1>1, <1>2, CreateInv DEF Mkfifo, Mkdir, Symlink

LEMMA MknodInv ==
  ASSUME Inv, NEW t \in Thread, Mknod(t)
  PROVE  Inv'
<1>1. CASE Create(t, "mknod", File)
  BY <1>1, Nobody, CreateInv DEF Creating
<1>2. CASE /\ Vop(t, "mknod")
           /\ entry' = [entry EXCEPT ![call[t].to.dir][call[t].to.name] = Whiteout]
           /\ Touch({call[t].to.dir})
           /\ Return(t, Finish(Vput(hand[t], call[t].to.dir)))
           /\ UNCHANGED <<doomed, susp>>
  BY <1>2, WhiteoutInv DEF Vop, Creating, Touch
<1> QED
  BY <1>1, <1>2 DEF Mknod

LEMMA UndeleteInv ==
  ASSUME Inv, NEW t \in Thread, Undelete(t)
  PROVE  Inv'
<1> DEFINE d == call[t].to.dir
           leaf == call[t].leaf
           h == hand[t]
           g == Vrele(GiveParent(h, d, leaf), leaf)
           p == Vput(h, d)
<1>1. /\ call[t].op = "undelete" /\ call[t].pc \in {"found", "vop"}
      /\ \/ call[t].pc = "found" /\ leaf # None /\ Return(t, g) /\ UNCHANGED World
         \/ /\ call[t].pc = "found" /\ leaf = None
            /\ IF CanWrite THEN Counted(t) ELSE Refused(t, p)
         \/ /\ Vop(t, "undelete")
            /\ entry' = [entry EXCEPT ![d][call[t].to.name] = None]
            /\ Touch({d})
            /\ Return(t, Finish(p))
            /\ UNCHANGED <<doomed, susp>>
  BY DEF Undelete, Found, Vop
<1>2. /\ call[t].op \in Naming /\ call[t].op # "link" /\ h.other = {}
      /\ h.writer = (call[t].pc = "vop")
  BY <1>1, MakeHand
<1>3. /\ leaf # None => /\ g \in HandType /\ g.locks = {} /\ g.writer = h.writer
                        /\ g.other = h.other /\ \A x \in Vnode : g.refs[x] = 0
      /\ leaf = None => /\ p \in HandType /\ p.locks = {} /\ p.writer = h.writer
                        /\ p.other = h.other /\ \A x \in Vnode : p.refs[x] = 0
  BY <1>1, MakeGivesBack
<1>4. CASE Vop(t, "undelete")
  <2>1. /\ Vop(t, "undelete")
        /\ entry' = [entry EXCEPT ![d][call[t].to.name] = None]
        /\ Touch({d})
        /\ Return(t, Finish(p))
        /\ UNCHANGED <<doomed, susp>>
    BY <1>1, <1>4 DEF Vop
  <2> QED
    BY <2>1, WhiteoutInv DEF Vop, Touch
<1> HIDE DEF g, p
<1>5. CASE call[t].pc = "found" /\ leaf # None /\ Return(t, g) /\ UNCHANGED World
  <2>1. g.writer = FALSE
    BY <1>2, <1>3, <1>5
  <2> QED
    BY <1>2, <1>3, <1>5, <2>1, QuietReturnInv
<1>6. CASE call[t].pc = "found" /\ leaf = None /\ CanWrite /\ Counted(t)
  BY <1>1, <1>2, <1>6, CountedInv
<1>7. CASE call[t].pc = "found" /\ leaf = None /\ Refused(t, p)
  <2>1. p.writer = FALSE
    BY <1>2, <1>3, <1>7
  <2> QED
    BY <1>2, <1>3, <1>7, <2>1, RefusedInv
<1> QED
  BY <1>1, <1>4, <1>5, <1>6, <1>7

\* The hand of a call that removes a name, and what is left when it has given both back.
LEMMA RemoveHand ==
  ASSUME Inv, NEW t \in Thread, call[t].pc \in {"found", "vop"}, call[t].op \in Removing
  PROVE  LET d == call[t].to.dir
             leaf == call[t].leaf
             h == hand[t]
             g == GiveBoth(h, d, leaf)
         IN  /\ d \in Dir /\ leaf \in Vnode /\ h \in HandType /\ d \in h.locks
             /\ h.writer = (call[t].pc = "vop")
             /\ g \in HandType /\ g.locks = {} /\ g.writer = h.writer /\ g.other = {}
             /\ h.other = {} /\ \A x \in Vnode : g.refs[x] = 0
             /\ call[t].op \in Naming
             /\ call[t].op \notin Creating \cup {"undelete", "link"}
<1> DEFINE d == call[t].to.dir
           leaf == call[t].leaf
           h == hand[t]
           g == GiveBoth(h, d, leaf)
<1>1. /\ call[t].op \in Naming /\ call[t].op \in Pairing
      /\ call[t].op \notin Creating \cup {"undelete", "link"}
      /\ call[t].op \notin Waiting \cup Looking \cup {"sync"} /\ call[t].op # "rename"
      /\ call[t].op \notin Opening \cup {"symlink", "access", "fsync", "fallocate", "truncate"}
  <2>1. call[t].op \in Naming /\ call[t].op \in Pairing /\ call[t].op \in {"unlink", "rmdir"}
    BY DEF Naming, Pairing, Removing
  <2> QED
    BY <2>1 DEF Waiting, Looking, Opening, Creating
<1>2. /\ Stands(call[t]) /\ Holds(hand[t], call[t]) /\ hand[t] \in HandType
      /\ d \in Dir /\ leaf \in Vnode \cup {None}
  BY Mine
<1>3. call[t].from = None /\ leaf # None
  BY <1>1, <1>2 DEF Stands
<1>4. \A x \in Vnode : h.refs[x] = Same(x, leaf) + Same(x, d)
  BY <1>1, <1>3, NameHeld, Nobody DEF SourceOwed
<1>5. h.locks = {d, leaf} /\ h.writer = (call[t].pc = "vop")
  <2>1. Locked(call[t]) = {d} \cup ({leaf} \ {None}) \cup {}
    BY <1>1 DEF Locked
  <2>2. h.locks = Locked(call[t]) /\ h.writer = (call[t].pc = "vop")
    BY <1>1, NameHeld
  <2> QED
    BY <1>3, <2>1, <2>2

<1>6. h.other = {}
  BY <1>1, <1>2 DEF Holds, Kept
<1>7. d \in Vnode /\ leaf \in Vnode /\ h \in HandType
  BY <1>2, <1>3, Nobody
<1> HIDE DEF d, leaf, h
<1>8. /\ g \in HandType /\ g.locks = h.locks \ {d, leaf} /\ g.writer = h.writer
      /\ g.other = h.other
      /\ \A x \in Vnode : g.refs[x] = h.refs[x] - Same(x, d) - Same(x, leaf)
  BY <1>5, <1>7, GivingBoth
<1> HIDE DEF g
<1>9. g.locks = {} /\ \A x \in Vnode : g.refs[x] = 0
  BY <1>4, <1>5, <1>8, Nobody
<1> QED
  BY <1>1, <1>2, <1>5, <1>6, <1>7, <1>8, <1>9 DEF d, leaf, h, g

LEMMA RemoveInv ==
  ASSUME Inv, NEW t \in Thread, call[t].pc \in {"found", "vop"}, call[t].op \in Removing,
         NEW g, g = GiveBoth(hand[t], call[t].to.dir, call[t].leaf),
         \/ call[t].pc = "found" /\ Return(t, g) /\ UNCHANGED World
         \/ call[t].pc = "found" /\ CanWrite /\ Counted(t)
         \/ call[t].pc = "found" /\ Refused(t, g)
         \/ /\ call[t].pc = "vop"
            /\ \/ /\ entry' = [entry EXCEPT ![call[t].to.dir][call[t].to.name] = None]
                  /\ flushed' = flushed \ {call[t].to.dir, call[t].leaf}
               \/ UNCHANGED <<entry, flushed>>
            /\ Return(t, Finish(g))
            /\ UNCHANGED <<doomed, susp>>
  PROVE  Inv'
<1> DEFINE d == call[t].to.dir
           h == hand[t]
<1>1. /\ d \in Dir /\ d \in h.locks /\ h.writer = (call[t].pc = "vop")
      /\ g \in HandType /\ g.locks = {} /\ g.writer = h.writer /\ g.other = {}
      /\ h.other = {} /\ \A x \in Vnode : g.refs[x] = 0
      /\ call[t].op \in Naming /\ call[t].op \notin Creating \cup {"undelete", "link"}
      /\ call[t].to.name \in Name \cup {Dot}
  BY RemoveHand, Mine
<1>2. CASE call[t].pc = "found" /\ Return(t, g) /\ UNCHANGED World
  <2>1. g.writer = FALSE
    BY <1>1, <1>2
  <2> QED
    BY <1>1, <1>2, <2>1, QuietReturnInv
<1>3. CASE call[t].pc = "found" /\ CanWrite /\ Counted(t)
  BY <1>1, <1>3, CountedInv
<1>4. CASE call[t].pc = "found" /\ Refused(t, g)
  <2>1. g.writer = FALSE
    BY <1>1, <1>4
  <2> QED
    BY <1>1, <1>4, <2>1, RefusedInv
<1>5. CASE /\ call[t].pc = "vop"
           /\ \/ /\ entry' = [entry EXCEPT ![d][call[t].to.name] = None]
                 /\ flushed' = flushed \ {d, call[t].leaf}
              \/ UNCHANGED <<entry, flushed>>
           /\ Return(t, Finish(g))
           /\ UNCHANGED <<doomed, susp>>
  <2> DEFINE k == Finish(g)
  <2>1. /\ k \in HandType /\ k.locks = {} /\ k.writer = FALSE /\ k.other = {}
        /\ \A x \in Vnode : k.refs[x] = 0
    BY <1>1, Emptied
  <2>2. Return(t, k) /\ susp' = susp /\ h.writer
    BY <1>1, <1>5
  <2> HIDE DEF k
  <2>3. /\ entry \in [Dir -> [Name -> Vnode \cup {None, Whiteout}]]
        /\ doomed \subseteq File /\ flushed \subseteq Vnode
    BY DEF Inv, WorldType
  <2>4. /\ entry' \in [Dir -> [Name -> Vnode \cup {None, Whiteout}]]
        /\ \A e \in Dir, m \in Name :
             entry'[e][m] # entry[e][m] => \A u \in Thread \ {t} : e \notin hand[u].locks
    <3>1. CASE entry' = entry
      BY <2>3, <3>1
    <3>2. CASE entry' = [entry EXCEPT ![d][call[t].to.name] = None]
      BY <1>1, <3>2, EntryChanges
    <3> QED
      BY <1>5, <3>1, <3>2
  <2>5. doomed' \subseteq File /\ flushed' \subseteq Vnode
    BY <1>5, <2>3
  <2>6. WorldType'
    BY <2>2, <2>4, <2>5, WorldChanges
  <2> QED
    BY <2>1, <2>2, <2>4, <2>6, ReturnInv
<1> QED
  BY <1>2, <1>3, <1>4, <1>5

LEMMA UnlinkInv ==
  ASSUME Inv, NEW t \in Thread, Unlink(t)
  PROVE  Inv'
<1> DEFINE g == GiveBoth(hand[t], call[t].to.dir, call[t].leaf)
<1>1. call[t].pc \in {"found", "vop"} /\ call[t].op \in Removing
  BY DEF Unlink, Found, Vop, Removing
<1>2. \/ call[t].pc = "found" /\ Return(t, g) /\ UNCHANGED World
      \/ call[t].pc = "found" /\ CanWrite /\ Counted(t)
      \/ call[t].pc = "found" /\ Refused(t, g)
      \/ /\ call[t].pc = "vop"
         /\ \/ /\ entry' = [entry EXCEPT ![call[t].to.dir][call[t].to.name] = None]
               /\ flushed' = flushed \ {call[t].to.dir, call[t].leaf}
            \/ UNCHANGED <<entry, flushed>>
         /\ Return(t, Finish(g))
         /\ UNCHANGED <<doomed, susp>>
  BY DEF Unlink, Found, Vop, Touch
<1> HIDE DEF g
<1> QED
  BY <1>1, <1>2, RemoveInv DEF g

LEMMA RmdirInv ==
  ASSUME Inv, NEW t \in Thread, Rmdir(t)
  PROVE  Inv'
<1> DEFINE g == GiveBoth(hand[t], call[t].to.dir, call[t].leaf)
<1>1. call[t].pc \in {"found", "vop"} /\ call[t].op \in Removing
  BY DEF Rmdir, Found, Vop, Removing
<1>2. \/ call[t].pc = "found" /\ Return(t, g) /\ UNCHANGED World
      \/ call[t].pc = "found" /\ CanWrite /\ Counted(t)
      \/ call[t].pc = "found" /\ Refused(t, g)
      \/ /\ call[t].pc = "vop"
         /\ \/ /\ entry' = [entry EXCEPT ![call[t].to.dir][call[t].to.name] = None]
               /\ flushed' = flushed \ {call[t].to.dir, call[t].leaf}
            \/ UNCHANGED <<entry, flushed>>
         /\ Return(t, Finish(g))
         /\ UNCHANGED <<doomed, susp>>
  BY DEF Rmdir, Found, Vop, Touch
<1> HIDE DEF g
<1> QED
  BY <1>1, <1>2, RemoveInv DEF g

(***************************************************************************)
(* Two names                                                               *)
(***************************************************************************)
\* The hand of a link that has looked both of its names up; the file it is made to is no
\* directory, and so not the directory of the name.
LEMMA LinkHand ==
  ASSUME Inv, NEW t \in Thread, call[t].pc \in {"found", "source", "vop"}, call[t].op = "link"
  PROVE  LET d == call[t].to.dir
             leaf == call[t].leaf
             from == call[t].from
             h == hand[t]
         IN  /\ d \in Dir /\ d \in Vnode /\ leaf \in Vnode \cup {None} /\ from \in Vnode
             /\ from # d /\ h \in HandType /\ h.other = {} /\ h.writer = (call[t].pc = "vop")
             /\ \A x \in Vnode : h.refs[x] = Same(x, leaf) + Same(x, from) + Same(x, d)
             /\ h.locks = (IF leaf = d THEN {} ELSE {d})
                            \cup (IF call[t].pc = "found" THEN {} ELSE {from})
             /\ call[t].pc # "found" => leaf = None
             /\ call[t].op \in Naming
<1> DEFINE d == call[t].to.dir
           leaf == call[t].leaf
           from == call[t].from
           h == hand[t]
<1>1. /\ call[t].op \in Naming /\ call[t].op \notin Pairing
      /\ call[t].op \notin Waiting \cup Looking \cup Opening \cup {"sync"}
  BY Kinds DEF Naming
<1>2. /\ Stands(call[t]) /\ Holds(hand[t], call[t]) /\ h \in HandType /\ d \in Dir
      /\ leaf \in Vnode \cup {None} /\ from \in Vnode \cup {None}
  BY Mine
<1>3. from # None /\ from \notin Dir
  BY <1>2 DEF Stands
<1>4. \A x \in Vnode : h.refs[x] = Same(x, leaf) + Same(x, from) + Same(x, d)
  <2>1. \A x \in Vnode : SourceOwed(call[t], x) = Same(x, from) + 0
    BY <1>3 DEF SourceOwed
  <2>2. \A x \in Vnode : h.refs[x] = Same(x, leaf) + SourceOwed(call[t], x) + Same(x, d)
    BY <1>1, NameHeld
  <2> QED
    BY <2>1, <2>2, Nobody
<1>5. /\ h.locks = (IF leaf = d THEN {} ELSE {d})
                     \cup (IF call[t].pc = "found" THEN {} ELSE {from})
      /\ h.writer = (call[t].pc = "vop")
  <2>1. Locked(call[t]) = (IF leaf = d THEN {} ELSE {d}) \cup {}
                            \cup (IF call[t].pc = "found" THEN {} ELSE {from})
    BY <1>1 DEF Locked
  <2>2. h.locks = Locked(call[t]) /\ h.writer = (call[t].pc = "vop")
    BY <1>1, NameHeld
  <2> QED
    BY <2>1, <2>2
<1>6. h.other = {}
  BY <1>1, <1>2 DEF Holds, Kept
<1>7. call[t].pc # "found" => leaf = None
  BY <1>2 DEF Stands
<1> QED
  BY <1>1, <1>2, <1>3, <1>4, <1>5, <1>6, <1>7, Nobody

\* A directory is not linked to.
LEMMA LinkDirInv ==
  ASSUME Inv, NEW t \in Thread, call[t].pc = "isdir", Return(t, Vrele(hand[t], call[t].from)),
         UNCHANGED World
  PROVE  Inv'
<1> DEFINE h == hand[t]
           from == call[t].from
           k == Vrele(h, from)
<1>1. /\ Stands(call[t]) /\ Holds(h, call[t]) /\ h \in HandType /\ from \in Vnode \cup {None}
      /\ \A x \in Vnode : h.refs[x] = SourceOwed(call[t], x)
      /\ h.locks = {} /\ h.writer = FALSE
  BY Mine, ParentHeld
<1>2. call[t].op = "link" /\ from # None /\ from \in Vnode
  BY <1>1 DEF Stands
<1>3. \A x \in Vnode : SourceOwed(call[t], x) = Same(x, from) + 0
  BY <1>2 DEF SourceOwed
<1>4. h.other = {}
  BY <1>1, <1>2 DEF Holds, Kept, Opening
<1>5. Return(t, k)
  OBVIOUS
<1> HIDE DEF h, from
<1>6. /\ k \in HandType /\ k.locks = {} /\ k.writer = FALSE /\ k.other = {}
      /\ \A x \in Vnode : k.refs[x] = h.refs[x] - Same(x, from)
  BY <1>1, <1>2, <1>4, Referencing
<1> HIDE DEF k
<1>7. \A x \in Vnode : k.refs[x] = 0
  BY <1>1, <1>3, <1>6, Nobody
<1> QED
  BY <1>5, <1>6, <1>7, QuietReturnInv

\* The new name exists already.
LEMMA LinkExistsInv ==
  ASSUME Inv, NEW t \in Thread, Found(t, "link"), call[t].leaf # None, UNCHANGED World,
         Return(t, Vrele(Vrele(GiveParent(hand[t], call[t].to.dir, call[t].leaf), call[t].leaf),
                         call[t].from))
  PROVE  Inv'
<1> DEFINE d == call[t].to.dir
           leaf == call[t].leaf
           from == call[t].from
           h == hand[t]
           k == GiveParent(h, d, leaf)
           l == Vrele(k, leaf)
           m == Vrele(l, from)
<1>1. /\ d \in Vnode /\ leaf \in Vnode \cup {None} /\ from \in Vnode
      /\ h \in HandType /\ h.other = {} /\ h.writer = (call[t].pc = "vop")
      /\ \A x \in Vnode : h.refs[x] = Same(x, leaf) + Same(x, from) + Same(x, d)
      /\ h.locks = (IF leaf = d THEN {} ELSE {d})
                     \cup (IF call[t].pc = "found" THEN {} ELSE {from})
  BY LinkHand DEF Found
<1>2. Return(t, m) /\ call[t].pc = "found" /\ leaf # None
  BY DEF Found
<1> HIDE DEF d, leaf, from, h
<1>3. /\ h.locks = (IF leaf = d THEN {} ELSE {d}) /\ h.writer = FALSE /\ leaf \in Vnode
      /\ (d \in h.locks <=> leaf # d) /\ h.locks \ {d} = {}
  BY <1>1, <1>2
<1>4. /\ k \in HandType /\ k.locks = {} /\ k.writer = FALSE /\ k.other = {}
      /\ \A x \in Vnode : k.refs[x] = h.refs[x] - Same(x, d)
  BY <1>1, <1>3, GivingParent
<1> HIDE DEF k
<1>5. /\ l \in HandType /\ l.locks = {} /\ l.writer = FALSE /\ l.other = {}
      /\ \A x \in Vnode : l.refs[x] = k.refs[x] - Same(x, leaf)
  BY <1>3, <1>4, Referencing
<1> HIDE DEF l
<1>6. /\ m \in HandType /\ m.locks = {} /\ m.writer = FALSE /\ m.other = {}
      /\ \A x \in Vnode : m.refs[x] = l.refs[x] - Same(x, from)
  BY <1>1, <1>5, Referencing
<1> HIDE DEF m
<1>7. \A x \in Vnode : m.refs[x] = 0
  BY <1>1, <1>4, <1>5, <1>6, Nobody
<1> QED
  BY <1>2, <1>6, <1>7, QuietReturnInv

\* The file was revoked: the link starts again.
LEMMA LinkAgainInv ==
  ASSUME Inv, NEW t \in Thread, Found(t, "link"), call[t].leaf = None, UNCHANGED World,
         Hold(t, Vrele(Vput(hand[t], call[t].to.dir), call[t].from)),
         call' = [call EXCEPT ![t].pc = "parent", ![t].from = None]
  PROVE  Inv'
<1> DEFINE d == call[t].to.dir
           from == call[t].from
           h == hand[t]
           k == Vput(h, d)
           l == Vrele(k, from)
           c == [call[t] EXCEPT !.pc = "parent", !.from = None]
<1>1. /\ d \in Vnode /\ from \in Vnode
      /\ h \in HandType /\ h.other = {} /\ h.writer = (call[t].pc = "vop")
      /\ \A x \in Vnode : h.refs[x] = Same(x, call[t].leaf) + Same(x, from) + Same(x, d)
      /\ h.locks = (IF call[t].leaf = d THEN {} ELSE {d})
                     \cup (IF call[t].pc = "found" THEN {} ELSE {from})
  BY LinkHand DEF Found
<1>2. call[t].pc = "found" /\ call[t].op = "link" /\ call[t] \in CallType
  BY Mine DEF Found
<1>3. hand' = [hand EXCEPT ![t] = l] /\ call' = [call EXCEPT ![t] = c]
  BY DEF Hold, Inv
<1>4. /\ c \in CallType /\ c.pc = "parent" /\ c.op = "link" /\ c.from = None
  BY <1>2 DEF CallType, At
<1> HIDE DEF d, from, h, c
<1>5. h.locks = {d} /\ h.writer = FALSE /\ d \in h.locks /\ h.locks \ {d} = {}
  BY <1>1, <1>2, Nobody
<1>6. /\ k \in HandType /\ k.locks = {} /\ k.writer = FALSE /\ k.other = {}
      /\ \A x \in Vnode : k.refs[x] = h.refs[x] - Same(x, d)
  BY <1>1, <1>5, Putting
<1> HIDE DEF k
<1>7. /\ l \in HandType /\ l.locks = {} /\ l.writer = FALSE /\ l.other = {}
      /\ \A x \in Vnode : l.refs[x] = k.refs[x] - Same(x, from)
  BY <1>1, <1>6, Referencing
<1> HIDE DEF l
<1>8. \A x \in Vnode : l.refs[x] = 0
  BY <1>1, <1>6, <1>7, Nobody
<1>9. Stands(c)
  BY <1>4, Kinds, Nobody DEF Stands
<1>10. Holds(l, c)
  <2>1. l.locks = Locked(c) /\ l.other \in Kept(c)
    BY <1>4, <1>7 DEF Locked, Kept, Opening
  <2>2. \A x \in Vnode : Owed(c, x) = 0
    BY <1>4 DEF Owed, SourceOwed
  <2> QED
    BY <1>4, <1>7, <1>8, <2>1, <2>2 DEF Holds
<1>11. Current(c, l)
  BY <1>4 DEF Current
<1> QED
  BY <1>3, <1>7, <1>9, <1>10, <1>11, QuietInv

\* The file is locked.
LEMMA LinkLockInv ==
  ASSUME Inv, NEW t \in Thread, Found(t, "link"), call[t].leaf = None, UNCHANGED World,
         Unlocked(call[t].from), Hold(t, Lock(hand[t], call[t].from)), Go(t, "source")
  PROVE  Inv'
<1> DEFINE d == call[t].to.dir
           from == call[t].from
           k == Lock(hand[t], from)
           c == [call[t] EXCEPT !.pc = "source"]
<1>1. /\ d \in Vnode /\ from \in Vnode
      /\ hand[t] \in HandType /\ hand[t].other = {} /\ hand[t].writer = (call[t].pc = "vop")
      /\ hand[t].locks = (IF call[t].leaf = d THEN {} ELSE {d})
                           \cup (IF call[t].pc = "found" THEN {} ELSE {from})
  BY LinkHand DEF Found
<1>2. /\ call[t].pc = "found" /\ call[t].op = "link" /\ call[t] \in CallType
      /\ Stands(call[t]) /\ Holds(hand[t], call[t]) /\ Current(call[t], hand[t])
  BY Mine DEF Found
<1>3. hand' = [hand EXCEPT ![t] = k] /\ call' = [call EXCEPT ![t] = c]
  BY Going DEF Hold
<1>4. /\ c \in CallType /\ c.pc = "source" /\ c.op = "link" /\ c.from = from
      /\ c.to = call[t].to /\ c.fro = call[t].fro /\ c.leaf = None
  BY <1>2 DEF CallType, At
<1> HIDE DEF c
<1>5. hand[t].locks = {d} /\ hand[t].writer = FALSE
  BY <1>1, <1>2, Nobody
<1>6. /\ k \in HandType /\ k.locks = {d} \cup {from} /\ k.writer = FALSE /\ k.other = {}
      /\ k.refs = hand[t].refs
  BY <1>1, <1>5, Locking, SMTT(30)
<1> HIDE DEF k
<1>7. Stands(c)
  BY <1>2, <1>4, Kinds, Nobody DEF Stands
<1>8. Holds(k, c)
  <2>1. Locked(c) = {d} \cup {} \cup {from}
    BY <1>1, <1>4, Nobody, Kinds DEF Locked, Naming
  <2>2. k.other \in Kept(c)
    BY <1>4, <1>6 DEF Kept, Opening
  <2>3. \A x \in Vnode : SourceOwed(c, x) = SourceOwed(call[t], x)
    BY <1>2, <1>4 DEF SourceOwed
  <2>4. \A x \in Vnode : Owed(c, x) = Owed(call[t], x)
    BY <1>2, <1>4, <2>3 DEF Owed
  <2>5. \A x \in Vnode : k.refs[x] = Owed(c, x)
    BY <1>2, <1>6, <2>4 DEF Holds
  <2> QED
    BY <1>4, <1>6, <2>1, <2>2, <2>5 DEF Holds
<1>9. Current(c, k)
  BY <1>2, <1>4, <1>5, <1>6 DEF Current
<1>10. \A x \in k.locks : x \in hand[t].locks \/ Unlocked(x)
  BY <1>5, <1>6
<1> QED
  BY <1>3, <1>6, <1>7, <1>8, <1>9, <1>10, QuietInv

\* Once the file is locked, the link is refused, counted, or made.
LEMMA LinkSourceLockedInv ==
  ASSUME Inv, NEW t \in Thread, call[t].op = "link", call[t].pc = "source",
         LET both == Vput(Vput(hand[t], call[t].from), call[t].to.dir) IN
         \/ Return(t, both) /\ UNCHANGED World
         \/ CanWrite /\ Counted(t)
         \/ Refused(t, both)
  PROVE  Inv'

<1> DEFINE d == call[t].to.dir
           from == call[t].from
           h == hand[t]
           k == Vput(h, from)
           m == Vput(k, d)
<1>1. /\ call[t].pc = "source"
      /\ \/ Return(t, m) /\ UNCHANGED World
         \/ CanWrite /\ Counted(t)
         \/ Refused(t, m)
  OBVIOUS
<1>2. /\ d \in Vnode /\ from \in Vnode /\ from # d /\ call[t].leaf = None
      /\ h \in HandType /\ h.other = {} /\ h.writer = (call[t].pc = "vop")
      /\ \A x \in Vnode : h.refs[x] = Same(x, call[t].leaf) + Same(x, from) + Same(x, d)
      /\ h.locks = (IF call[t].leaf = d THEN {} ELSE {d})
                     \cup (IF call[t].pc = "found" THEN {} ELSE {from})
      /\ call[t].op \in Naming
  BY <1>1, LinkHand
<1> HIDE DEF d, from, h
<1>3. h.locks = {d} \cup {from} /\ h.writer = FALSE /\ from \in h.locks /\ h.locks \ {from} = {d}
  BY <1>1, <1>2, Nobody
<1>4. /\ k \in HandType /\ k.locks = {d} /\ k.writer = FALSE /\ k.other = {}
      /\ \A x \in Vnode : k.refs[x] = h.refs[x] - Same(x, from)
  BY <1>2, <1>3, Putting
<1>5. d \in k.locks /\ k.locks \ {d} = {}
  BY <1>4
<1> HIDE DEF k
<1>6. /\ m \in HandType /\ m.locks = {} /\ m.writer = FALSE /\ m.other = {}
      /\ \A x \in Vnode : m.refs[x] = k.refs[x] - Same(x, d)
  BY <1>2, <1>4, <1>5, Putting
<1> HIDE DEF m
<1>7. \A x \in Vnode : m.refs[x] = 0
  BY <1>2, <1>4, <1>6, Nobody
<1>8. CASE Return(t, m) /\ UNCHANGED World
  BY <1>6, <1>7, <1>8, QuietReturnInv
<1>9. CASE CanWrite /\ Counted(t)
  BY <1>1, <1>2, <1>9, CountedInv
<1>10. CASE Refused(t, m)
  <2>1. m.other = hand[t].other
    BY <1>2, <1>6 DEF h
  <2> QED
    BY <1>1, <1>2, <1>6, <1>7, <1>10, <2>1, RefusedInv
<1> QED
  BY <1>1, <1>8, <1>9, <1>10

LEMMA LinkMadeInv ==
  ASSUME Inv, NEW t \in Thread, call[t].op = "link", call[t].pc = "vop",
         \/ /\ entry' = [entry EXCEPT ![call[t].to.dir][call[t].to.name] = call[t].from]
            /\ flushed' = flushed \ {call[t].to.dir, call[t].from}
         \/ UNCHANGED <<entry, flushed>>,
         Return(t, Vrele(Finish(Vput(Unlock(hand[t], call[t].from), call[t].to.dir)),
                         call[t].from)),
         UNCHANGED <<doomed, susp>>
  PROVE  Inv'
<1> DEFINE d == call[t].to.dir
           from == call[t].from
           h == hand[t]
           k == Unlock(h, from)
           l == Vput(k, d)
           m == Finish(l)
           o == Vrele(m, from)
<1>1. /\ d \in Dir /\ d \in Vnode /\ from \in Vnode /\ from # d /\ call[t].leaf = None
      /\ h \in HandType /\ h.other = {} /\ h.writer = (call[t].pc = "vop")
      /\ \A x \in Vnode : h.refs[x] = Same(x, call[t].leaf) + Same(x, from) + Same(x, d)
      /\ h.locks = (IF call[t].leaf = d THEN {} ELSE {d})
                     \cup (IF call[t].pc = "found" THEN {} ELSE {from})
      /\ call[t].to.name \in Name \cup {Dot}
  BY LinkHand, Mine
<1>2. Return(t, o)
  OBVIOUS
<1>3. /\ d \in hand[t].locks /\ h.locks = {d} \cup {from} /\ h.writer
      /\ from \in h.locks /\ h.locks \ {from} = {d} /\ h = hand[t]
  BY <1>1, Nobody, ZenonT(60)
<1>4. /\ entry \in [Dir -> [Name -> Vnode \cup {None, Whiteout}]]
      /\ doomed \subseteq File /\ flushed \subseteq Vnode
  BY DEF Inv, WorldType
<1>5. /\ entry' \in [Dir -> [Name -> Vnode \cup {None, Whiteout}]]
      /\ \A e \in Dir, n \in Name :
           entry'[e][n] # entry[e][n] => \A u \in Thread \ {t} : e \notin hand[u].locks
  <2>1. CASE entry' = entry
    BY <1>4, <2>1
  <2>2. CASE entry' = [entry EXCEPT ![d][call[t].to.name] = from]
    BY <1>1, <1>3, <2>2, EntryChanges
  <2> QED
    BY <2>1, <2>2
<1>6. doomed' \subseteq File /\ flushed' \subseteq Vnode /\ susp' = susp
  BY <1>4
<1>7. WorldType'
  BY <1>5, <1>6, WorldChanges
<1> HIDE DEF d, from, h
<1>8. /\ k \in HandType /\ k.locks = {d} /\ k.other = {} /\ k.refs = h.refs
  BY <1>1, <1>3, Locking, ZenonT(60)
<1>9. d \in k.locks /\ k.locks \ {d} = {}
  BY <1>8
<1> HIDE DEF k
<1>10. /\ l \in HandType /\ l.locks = {} /\ l.other = {}
       /\ \A x \in Vnode : l.refs[x] = k.refs[x] - Same(x, d)
  BY <1>1, <1>8, <1>9, Putting
<1> HIDE DEF l
<1>11. /\ m \in HandType /\ m.locks = {} /\ m.writer = FALSE /\ m.other = {} /\ m.refs = l.refs
  BY <1>10, Finishing
<1> HIDE DEF m
<1>12. /\ o \in HandType /\ o.locks = {} /\ o.writer = FALSE /\ o.other = {}
       /\ \A x \in Vnode : o.refs[x] = m.refs[x] - Same(x, from)
  BY <1>1, <1>11, Referencing
<1> HIDE DEF o
<1>13. \A x \in Vnode : o.refs[x] = 0
  BY <1>1, <1>8, <1>10, <1>11, <1>12, Nobody
<1>14. hand[t].writer
  BY <1>3
<1> QED
  BY <1>2, <1>5, <1>6, <1>7, <1>12, <1>13, <1>14, ReturnInv

LEMMA LinkInv ==
  ASSUME Inv, NEW t \in Thread, Link(t)
  PROVE  Inv'
<1> DEFINE d == call[t].to.dir
           leaf == call[t].leaf
           from == call[t].from
           h == hand[t]
           both == Vput(Vput(h, from), d)
<1>1. CASE call[t].pc = "isdir" /\ Return(t, Vrele(h, from)) /\ UNCHANGED World
  BY <1>1, LinkDirInv
<1>2. CASE /\ Found(t, "link") /\ leaf # None
           /\ Return(t, Vrele(Vrele(GiveParent(h, d, leaf), leaf), from))
           /\ UNCHANGED World
  BY <1>2, LinkExistsInv
<1>3. CASE /\ Found(t, "link") /\ leaf = None
           /\ Hold(t, Vrele(Vput(h, d), from))
           /\ call' = [call EXCEPT ![t].pc = "parent", ![t].from = None]
           /\ UNCHANGED World
  BY <1>3, LinkAgainInv
<1>4. CASE /\ Found(t, "link") /\ leaf = None
           /\ Unlocked(from) /\ Hold(t, Lock(h, from)) /\ Go(t, "source") /\ UNCHANGED World
  BY <1>4, LinkLockInv
<1>5. CASE /\ call[t].pc = "source"
           /\ \/ Return(t, both) /\ UNCHANGED World
              \/ IF CanWrite THEN Counted(t) ELSE Refused(t, both)
  <2>1. call[t].op = "link"
    BY <1>5, Mine DEF Stands
  <2>2. \/ Return(t, both) /\ UNCHANGED World
        \/ CanWrite /\ Counted(t)
        \/ Refused(t, both)
    BY <1>5
  <2> QED
    BY <1>5, <2>1, <2>2, LinkSourceLockedInv
<1>6. CASE /\ Vop(t, "link")
           /\ \/ /\ entry' = [entry EXCEPT ![d][call[t].to.name] = from]
                 /\ Touch({d, from})
              \/ UNCHANGED <<entry, flushed>>
           /\ Return(t, Vrele(Finish(Vput(Unlock(h, from), d)), from))
           /\ UNCHANGED <<doomed, susp>>
  BY <1>6, LinkMadeInv DEF Vop, Touch
<1> QED
  BY <1>1, <1>2, <1>3, <1>4, <1>5, <1>6 DEF Link

\* The hand of a rename that has looked both of its names up, and that it gives all back.
LEMMA RenameHand ==
  ASSUME Inv, NEW t \in Thread, call[t].pc \in {"found", "vop"}, call[t].op = "rename"
  PROVE  LET d == call[t].to.dir
             leaf == call[t].leaf
             e == call[t].fro.dir
             from == call[t].from
             h == hand[t]
             g == GiveRename(t)
         IN  /\ d \in Dir /\ e \in Dir /\ from \in Vnode /\ leaf \in Vnode \cup {None}
             /\ d \in h.locks /\ h.other = {} /\ h.writer = (call[t].pc = "vop")
             /\ g \in HandType /\ g.locks = {} /\ g.writer = h.writer /\ g.other = {}
             /\ \A x \in Vnode : g.refs[x] = 0
             /\ call[t].op \in Naming
             /\ call[t].op \notin Creating \cup {"undelete", "link"}
<1> DEFINE d == call[t].to.dir
           leaf == call[t].leaf
           e == call[t].fro.dir
           from == call[t].from
           h == hand[t]
           target == IF leaf = None THEN Vput(h, d) ELSE GiveBoth(h, d, leaf)
           k == Vrele(target, e)
           l == Vrele(k, from)
           m == Vrele(l, d)
           g == Vrele(m, e)
<1>1. /\ call[t].op \in Naming /\ call[t].op \in Pairing
      /\ call[t].op \notin Creating \cup {"undelete", "link"}
      /\ call[t].op \notin Waiting \cup Looking \cup Opening \cup {"sync"}
  BY Kinds DEF Naming, Pairing
<1>2. /\ Stands(call[t]) /\ Holds(hand[t], call[t]) /\ h \in HandType
      /\ d \in Dir /\ e \in Dir /\ leaf \in Vnode \cup {None} /\ from \in Vnode \cup {None}
  BY Mine
<1>3. from # None /\ from \in Vnode
  BY <1>2 DEF Stands
<1>4. \A x \in Vnode :
        h.refs[x] = Same(x, leaf) + (Same(x, from) + 2 * Same(x, e)) + 2 * Same(x, d)
  <2>1. \A x \in Vnode : SourceOwed(call[t], x) = Same(x, from) + 2 * Same(x, e)
    BY <1>3 DEF SourceOwed
  <2>2. \A x \in Vnode : h.refs[x] = Same(x, leaf) + SourceOwed(call[t], x) + 2 * Same(x, d)
    BY <1>1, NameHeld
  <2> QED
    BY <2>1, <2>2, Nobody
<1>5. h.locks = {d} \cup ({leaf} \ {None}) /\ h.writer = (call[t].pc = "vop")
  <2>1. Locked(call[t]) = {d} \cup ({leaf} \ {None}) \cup {}
    BY <1>1 DEF Locked
  <2>2. h.locks = Locked(call[t]) /\ h.writer = (call[t].pc = "vop")
    BY <1>1, NameHeld
  <2> QED
    BY <2>1, <2>2
<1>6. h.other = {}
  BY <1>1, <1>2 DEF Holds, Kept
<1>7. d \in Vnode /\ e \in Vnode
  BY <1>2, Nobody
<1>8. GiveRename(t) = g
  BY DEF GiveRename
<1> HIDE DEF d, leaf, e, from, h
<1>9. /\ target \in HandType /\ target.locks = {} /\ target.writer = h.writer
      /\ target.other = {}
      /\ \A x \in Vnode : target.refs[x] = Same(x, from) + 2 * Same(x, e) + Same(x, d)
  <2>1. CASE leaf = None
    <3> DEFINE p == Vput(h, d)
    <3>1. d \in h.locks /\ h.locks \ {d} = {} /\ target = p
      BY <1>5, <2>1
    <3>2. /\ p \in HandType /\ p.locks = {} /\ p.writer = h.writer /\ p.other = {}
          /\ \A x \in Vnode : p.refs[x] = h.refs[x] - Same(x, d)
      BY <1>2, <1>6, <1>7, <3>1, Putting
    <3> HIDE DEF p, target
    <3>3. \A x \in Vnode : p.refs[x] = Same(x, from) + 2 * Same(x, e) + Same(x, d)
      BY <1>4, <2>1, <3>2, Nobody
    <3> QED
      BY <3>1, <3>2, <3>3
  <2>2. CASE leaf # None
    <3> DEFINE p == GiveBoth(h, d, leaf)
    <3>1. /\ d \in h.locks /\ leaf \in h.locks /\ leaf \in Vnode /\ target = p
          /\ h.locks \ {d, leaf} = {}
      BY <1>2, <1>5, <2>2
    <3>2. /\ p \in HandType /\ p.locks = {} /\ p.writer = h.writer /\ p.other = {}
          /\ \A x \in Vnode : p.refs[x] = h.refs[x] - Same(x, d) - Same(x, leaf)
      BY <1>2, <1>6, <1>7, <3>1, GivingBoth
    <3> HIDE DEF p, target
    <3>3. \A x \in Vnode : p.refs[x] = Same(x, from) + 2 * Same(x, e) + Same(x, d)
      BY <1>4, <3>2, Nobody
    <3> QED
      BY <3>1, <3>2, <3>3
  <2> QED
    BY <2>1, <2>2
<1> HIDE DEF target
<1>10. /\ k \in HandType /\ k.locks = {} /\ k.writer = h.writer /\ k.other = {}
       /\ \A x \in Vnode : k.refs[x] = target.refs[x] - Same(x, e)
  BY <1>7, <1>9, Referencing
<1> HIDE DEF k
<1>11. /\ l \in HandType /\ l.locks = {} /\ l.writer = h.writer /\ l.other = {}
       /\ \A x \in Vnode : l.refs[x] = k.refs[x] - Same(x, from)
  BY <1>3, <1>10, Referencing
<1> HIDE DEF l
<1>12. /\ m \in HandType /\ m.locks = {} /\ m.writer = h.writer /\ m.other = {}
       /\ \A x \in Vnode : m.refs[x] = l.refs[x] - Same(x, d)
  BY <1>7, <1>11, Referencing
<1> HIDE DEF m
<1>13. /\ g \in HandType /\ g.locks = {} /\ g.writer = h.writer /\ g.other = {}
       /\ \A x \in Vnode : g.refs[x] = m.refs[x] - Same(x, e)
  BY <1>7, <1>12, Referencing
<1> HIDE DEF g
<1>14. \A x \in Vnode : g.refs[x] = 0
  BY <1>9, <1>10, <1>11, <1>12, <1>13, Nobody
<1>15. d \in h.locks
  BY <1>5
<1> QED
  BY <1>1, <1>2, <1>3, <1>5, <1>6, <1>8, <1>13, <1>14, <1>15 DEF d, leaf, e, from, h

LEMMA RenameInv ==
  ASSUME Inv, NEW t \in Thread, Rename(t)
  PROVE  Inv'
<1> DEFINE d == call[t].to.dir
           leaf == call[t].leaf
           e == call[t].fro.dir
           from == call[t].from
           h == hand[t]
           g == GiveRename(t)
           free(v) == \A u \in Thread \ {t} : v \notin hand[u].locks
           n == call[t].to.name
           o == call[t].fro.name
<1>1. /\ call[t].pc \in {"found", "vop"} /\ call[t].op = "rename"
      /\ \/ call[t].pc = "found" /\ Refused(t, g)
         \/ call[t].pc = "found" /\ Return(t, g) /\ UNCHANGED World
         \/ call[t].pc = "found" /\ CanWrite /\ Counted(t)
         \/ /\ call[t].pc = "vop"
            /\ \/ /\ free(e)
                  /\ entry' = [entry EXCEPT ![d][n] = from, ![e][o] = None]
                  /\ flushed' = flushed \ ({d, e, from} \cup ({leaf} \ {None}))
               \/ UNCHANGED <<entry, flushed>>
            /\ Return(t, Finish(g))
            /\ UNCHANGED <<doomed, susp>>
  BY DEF Rename, Found, Vop, Touch
<1>2. /\ d \in Dir /\ e \in Dir /\ from \in Vnode /\ leaf \in Vnode \cup {None}
      /\ d \in hand[t].locks /\ h.other = {} /\ h.writer = (call[t].pc = "vop")
      /\ g \in HandType /\ g.locks = {} /\ g.writer = h.writer /\ g.other = {}
      /\ \A x \in Vnode : g.refs[x] = 0
      /\ call[t].op \in Naming /\ call[t].op \notin Creating \cup {"undelete", "link"}
      /\ n \in Name \cup {Dot} /\ o \in Name \cup {Dot}
  BY <1>1, RenameHand, Mine
<1> HIDE DEF g
<1>3. CASE call[t].pc = "found" /\ Refused(t, g)
  <2>1. g.writer = FALSE
    BY <1>2, <1>3
  <2> QED
    BY <1>1, <1>2, <1>3, <2>1, RefusedInv
<1>4. CASE call[t].pc = "found" /\ Return(t, g) /\ UNCHANGED World
  <2>1. g.writer = FALSE
    BY <1>2, <1>4
  <2> QED
    BY <1>2, <1>4, <2>1, QuietReturnInv
<1>5. CASE call[t].pc = "found" /\ CanWrite /\ Counted(t)
  BY <1>1, <1>2, <1>5, CountedInv
<1>6. CASE /\ call[t].pc = "vop"
           /\ \/ /\ free(e)
                 /\ entry' = [entry EXCEPT ![d][n] = from, ![e][o] = None]
                 /\ flushed' = flushed \ ({d, e, from} \cup ({leaf} \ {None}))
              \/ UNCHANGED <<entry, flushed>>
           /\ Return(t, Finish(g))
           /\ UNCHANGED <<doomed, susp>>
  <2> DEFINE k == Finish(g)
  <2>1. /\ k \in HandType /\ k.locks = {} /\ k.writer = FALSE /\ k.other = {}
        /\ \A x \in Vnode : k.refs[x] = 0
    BY <1>2, Emptied
  <2>2. Return(t, k) /\ susp' = susp /\ h.writer
    BY <1>2, <1>6
  <2> HIDE DEF k
  <2>3. /\ entry \in [Dir -> [Name -> Vnode \cup {None, Whiteout}]]
        /\ doomed \subseteq File /\ flushed \subseteq Vnode
    BY DEF Inv, WorldType
  <2>4. /\ entry' \in [Dir -> [Name -> Vnode \cup {None, Whiteout}]]
        /\ \A x \in Dir, m \in Name :
             entry'[x][m] # entry[x][m] => \A u \in Thread \ {t} : x \notin hand[u].locks
    <3>1. CASE entry' = entry
      BY <2>3, <3>1
    <3>2. CASE free(e) /\ entry' = [entry EXCEPT ![d][n] = from, ![e][o] = None]
      <4> DEFINE f == [entry EXCEPT ![d] = [entry[d] EXCEPT ![n] = from]]
                 q == [f EXCEPT ![e] = [f[e] EXCEPT ![o] = None]]
      <4>1. entry' = q
        BY <3>2
      <4>2. f \in [Dir -> [Name -> Vnode \cup {None, Whiteout}]]
        BY <1>2, <2>3
      <4>3. \A x \in Dir \ {d} : f[x] = entry[x]
        BY <1>2, <2>3
      <4> HIDE DEF f
      <4>4. q \in [Dir -> [Name -> Vnode \cup {None, Whiteout}]]
        BY <1>2, <4>2
      <4>5. \A x \in Dir \ {d, e} : q[x] = entry[x]
        BY <1>2, <4>2, <4>3
      <4> HIDE DEF q
      <4>6. \A u \in Thread \ {t} : d \notin hand[u].locks
        BY <1>2 DEF Inv, Exclusive
      <4> QED
        BY <3>2, <4>1, <4>4, <4>5, <4>6
    <3> QED
      BY <1>6, <3>1, <3>2
  <2>5. doomed' \subseteq File /\ flushed' \subseteq Vnode
    BY <1>6, <2>3
  <2>6. WorldType'
    BY <2>2, <2>4, <2>5, WorldChanges
  <2> QED
    BY <2>1, <2>2, <2>4, <2>6, ReturnInv
<1> QED
  BY <1>1, <1>3, <1>4, <1>5, <1>6

(***************************************************************************)
(* Calls on a file                                                         *)
(***************************************************************************)
\* A call on a file goes from one of its points to another with the reference it has.
LEMMA FileStepInv ==
  ASSUME Inv, NEW t \in Thread, call[t].pc \in {"found", "wait", "lock", "vop"},
         call[t].op \in Waiting \cup Looking, NEW p \in {"wait", "lock", "vop"},
         p \in {"wait", "lock"} => call[t].op \in Waiting \cup Opening,
         NEW h \in HandType, Hold(t, h), Go(t, p), h.refs = hand[t].refs,
         h.locks = (IF p = "vop" THEN {call[t].leaf} ELSE {}),
         h.writer <=> p \in {"lock", "vop"}, h.other \in Kept(call[t]),
         \A v \in h.locks : v \in hand[t].locks \/ Unlocked(v),
         h.writer => hand[t].writer \/ susp = "no",
         UNCHANGED <<entry, doomed, susp>>, flushed' \subseteq Vnode,
         flushed' = flushed \/ hand[t].writer
  PROVE  Inv'
<1> PICK c : c = [call[t] EXCEPT !.pc = p]
  OBVIOUS
<1>1. call' = [call EXCEPT ![t] = c] /\ hand' = [hand EXCEPT ![t] = h]
  BY Going DEF Hold
<1>2. /\ Stands(call[t]) /\ call[t] \in CallType /\ call[t].leaf \in Vnode
      /\ \A v \in Vnode : hand[t].refs[v] = Same(v, call[t].leaf)
  BY Mine, FileHeld
<1>3. /\ c \in CallType /\ c.pc = p /\ c.op = call[t].op /\ c.from = call[t].from
      /\ c.to = call[t].to /\ c.fro = call[t].fro /\ c.leaf = call[t].leaf
  BY <1>2 DEF CallType, At
<1>4. /\ call[t].op \notin Naming /\ call[t].op \notin {"sync", "none", "link", "rename"}
      /\ call[t].op \notin Creating \cup Removing \cup {"undelete"}
  BY DEF Waiting, Looking, Opening, Naming, Creating, Removing
<1>5. Stands(c)
  BY <1>2, <1>3, <1>4, Nobody DEF Stands
<1>6. Holds(h, c)
  <2>1. h.locks = Locked(c)
    BY <1>3, <1>4 DEF Locked
  <2>2. Kept(c) = Kept(call[t])
    BY <1>3 DEF Kept
  <2>3. \A v \in Vnode : h.refs[v] = Owed(c, v)
    BY <1>2, <1>3, <1>4, Nobody DEF Owed
  <2> QED
    BY <1>3, <2>1, <2>2, <2>3 DEF Holds
<1>7. Current(c, h)'
  BY <1>3, <1>4 DEF Current
<1>8. WorldType'
  BY DEF Inv, WorldType
<1> QED
  BY <1>1, <1>5, <1>6, <1>7, <1>8, StepInv

\* It returns with nothing once its locks and its count are given back.
LEMMA FileReturnInv ==
  ASSUME Inv, NEW t \in Thread, call[t].pc \in {"found", "wait", "lock", "vop"},
         call[t].op \in Waiting \cup Looking,
         NEW k \in HandType, k.refs = hand[t].refs, k.locks = {}, k.writer = FALSE,
         Return(t, GiveWaiting(t, k)),
         UNCHANGED <<entry, doomed, susp>>, flushed' \subseteq Vnode,
         flushed' = flushed \/ hand[t].writer
  PROVE  Inv'
<1> DEFINE v == call[t].leaf
           l == Vrele(k, v)
           m == [l EXCEPT !.other = {}]
<1>1. v \in Vnode /\ \A x \in Vnode : hand[t].refs[x] = Same(x, v)
  BY FileHeld
<1>2. Return(t, m)
  BY DEF GiveWaiting
<1> HIDE DEF v
<1>3. /\ l \in HandType /\ l.locks = {} /\ l.writer = FALSE
      /\ \A x \in Vnode : l.refs[x] = k.refs[x] - Same(x, v)
  BY <1>1, Referencing
<1> HIDE DEF l
<1>4. \A x \in Vnode : l.refs[x] = 0
  BY <1>1, <1>3, Nobody
<1>5. /\ m \in HandType /\ m.locks = {} /\ m.writer = FALSE /\ m.other = {}
      /\ \A x \in Vnode : m.refs[x] = 0
  BY <1>3, <1>4, Emptied
<1> HIDE DEF m
<1>6. WorldType'
  BY DEF Inv, WorldType
<1>7. \A d \in Dir, n \in Name :
        entry'[d][n] # entry[d][n] => \A u \in Thread \ {t} : d \notin hand[u].locks
  OBVIOUS
<1> QED
  BY <1>2, <1>5, <1>6, <1>7, ReturnInv

\* A call that waits is one that may.
LEMMA WaitHand ==
  ASSUME Inv, NEW t \in Thread, call[t].pc \in {"wait", "lock"}
  PROVE  /\ call[t].op \in Waiting \cup Looking /\ call[t].op \in Waiting \cup Opening
         /\ hand[t] \in HandType /\ hand[t].other \in Kept(call[t]) /\ hand[t].locks = {}
         /\ hand[t].writer = (call[t].pc = "lock") /\ call[t].leaf \in Vnode
<1>1. Stands(call[t]) /\ Holds(hand[t], call[t]) /\ hand[t] \in HandType
  BY Mine
<1>2. call[t].op \in Waiting \cup Looking /\ call[t].op \in Waiting \cup Opening
  BY <1>1, Kinds DEF Stands
<1>3. hand[t].writer \in BOOLEAN /\ (hand[t].writer <=> call[t].pc = "lock")
      /\ hand[t].other \in Kept(call[t])
  BY <1>1, HandParts DEF Holds
<1>4. hand[t].locks = {} /\ call[t].leaf \in Vnode
  BY <1>2, FileHeld
<1> QED
  BY <1>1, <1>2, <1>3, <1>4

LEMMA RangeLockInv ==
  ASSUME Inv, NEW t \in Thread, RangeLock(t)
  PROVE  Inv'
<1> DEFINE h == [hand[t] EXCEPT !.other = hand[t].other \cup {"range"}]
<1>1. /\ call[t].pc = "wait" /\ call[t].op \in Truncating /\ "range" \notin hand[t].other
      /\ Go(t, "wait") /\ UNCHANGED <<entry, doomed, susp, flushed>>
  BY DEF RangeLock, World
<1>2. /\ call[t].op \in Waiting \cup Looking /\ call[t].op \in Waiting \cup Opening
      /\ hand[t] \in HandType /\ hand[t].other \in Kept(call[t]) /\ hand[t].locks = {}
      /\ hand[t].writer = (call[t].pc = "lock")
  BY <1>1, WaitHand
<1>3. Hold(t, h)
  BY <1>2 DEF RangeLock, HandType
<1>4. hand[t].other \cup {"range"} \in SUBSET Thing
  BY <1>2 DEF HandType, Thing
<1>5. /\ h \in HandType /\ h.refs = hand[t].refs /\ h.locks = {} /\ h.writer = FALSE
      /\ h.other = hand[t].other \cup {"range"}
  BY <1>1, <1>2, <1>4, Keeping
<1> HIDE DEF h
<1>6. h.other \in Kept(call[t])
  <2>1. CASE call[t].op \in Opening
    <3>1. Kept(call[t]) = {{"file"}, {"file", "range"}}
      BY <1>1, <2>1 DEF Kept, Opening
    <3>2. hand[t].other = {"file"}
      BY <1>1, <1>2, <3>1
    <3> QED
      BY <1>5, <3>1, <3>2
  <2>2. CASE call[t].op = "truncate"
    <3>1. Kept(call[t]) = {{}, {"range"}}
      BY <1>1, <2>2 DEF Kept, Opening
    <3>2. hand[t].other = {}
      BY <1>1, <1>2, <3>1
    <3> QED
      BY <1>5, <3>1, <3>2
  <2> QED
    BY <1>1, <2>1, <2>2 DEF Truncating
<1>7. flushed' \subseteq Vnode
  BY <1>1 DEF Inv, WorldType
<1> QED
  BY <1>1, <1>2, <1>3, <1>5, <1>6, <1>7, FileStepInv

LEMMA WaitInv ==
  ASSUME Inv, NEW t \in Thread, Wait(t)
  PROVE  Inv'
<1>1. call[t].pc = "wait" /\ UNCHANGED <<entry, doomed, susp, flushed>>
  BY DEF Wait, World
<1>2. /\ call[t].op \in Waiting \cup Looking /\ call[t].op \in Waiting \cup Opening
      /\ hand[t] \in HandType /\ hand[t].other \in Kept(call[t]) /\ hand[t].locks = {}
      /\ hand[t].writer = FALSE
  BY <1>1, WaitHand
<1>3. flushed' \subseteq Vnode
  BY <1>1 DEF Inv, WorldType
<1>4. CASE Return(t, GiveWaiting(t, hand[t]))
  BY <1>1, <1>2, <1>3, <1>4, FileReturnInv
<1>5. CASE CanWrite /\ Hold(t, [hand[t] EXCEPT !.writer = TRUE]) /\ Go(t, "lock")
  <2> DEFINE h == [hand[t] EXCEPT !.writer = TRUE]
  <2>1. /\ h \in HandType /\ h.refs = hand[t].refs /\ h.locks = {} /\ h.writer = TRUE
        /\ h.other = hand[t].other
    BY <1>2, Finishing
  <2>2. Hold(t, h) /\ susp = "no" /\ Go(t, "lock")
    BY <1>5 DEF CanWrite
  <2> HIDE DEF h
  <2> QED
    BY <1>1, <1>2, <1>3, <2>1, <2>2, FileStepInv
<1> QED
  BY <1>4, <1>5 DEF Wait

LEMMA LockVnodeInv ==
  ASSUME Inv, NEW t \in Thread, LockVnode(t)
  PROVE  Inv'
<1> DEFINE h == Lock(hand[t], call[t].leaf)
<1>1. /\ call[t].pc = "lock" /\ UNCHANGED <<entry, doomed, susp, flushed>>
      /\ Unlocked(call[t].leaf) /\ Hold(t, h) /\ Go(t, "vop")
  BY DEF LockVnode, World
<1>2. /\ call[t].op \in Waiting \cup Looking /\ call[t].leaf \in Vnode
      /\ hand[t] \in HandType /\ hand[t].other \in Kept(call[t]) /\ hand[t].locks = {}
      /\ hand[t].writer
  BY <1>1, WaitHand
<1>3. flushed' \subseteq Vnode
  BY <1>1 DEF Inv, WorldType
<1>4. /\ h \in HandType /\ h.refs = hand[t].refs /\ h.locks = {call[t].leaf}
      /\ h.writer = hand[t].writer /\ h.other = hand[t].other
  BY <1>2, Locking, ZenonT(60)
<1>5. h.writer = TRUE
  BY <1>2, <1>4, HandParts
<1> HIDE DEF h
<1>6. \A v \in h.locks : v \in hand[t].locks \/ Unlocked(v)
  BY <1>1, <1>4
<1> QED
  BY <1>1, <1>2, <1>3, <1>4, <1>5, <1>6, FileStepInv

\* What a call has once the vnode is unlocked and it is no longer counted.
LEMMA VopHand ==
  ASSUME Inv, NEW t \in Thread, call[t].pc \in {"found", "vop"},
         call[t].op \in Waiting \cup Looking
  PROVE  LET v == call[t].leaf
             k == Unlock(hand[t], v)
         IN  /\ v \in Vnode /\ hand[t] \in HandType /\ hand[t].locks = {v}
             /\ hand[t].writer = (call[t].pc = "vop") /\ hand[t].other \in Kept(call[t])
             /\ k \in HandType /\ k.refs = hand[t].refs /\ k.locks = {}
             /\ k.writer = hand[t].writer /\ k.other = hand[t].other
             /\ Finish(k) \in HandType /\ Finish(k).refs = hand[t].refs
             /\ Finish(k).locks = {} /\ Finish(k).writer = FALSE
             /\ Finish(k).other = hand[t].other
<1> DEFINE v == call[t].leaf
           k == Unlock(hand[t], v)
<1>1. /\ v \in Vnode /\ hand[t] \in HandType /\ hand[t].locks = {v}
      /\ hand[t].writer = (call[t].pc = "vop") /\ hand[t].other \in Kept(call[t])
  <2>1. v \in Vnode /\ hand[t].locks = {v}
    BY FileHeld
  <2>2. Holds(hand[t], call[t]) /\ hand[t] \in HandType /\ hand[t].writer \in BOOLEAN
    BY Mine, HandParts
  <2>3. (hand[t].writer <=> call[t].pc = "vop") /\ hand[t].other \in Kept(call[t])
    BY <2>2 DEF Holds
  <2> QED
    BY <2>1, <2>2, <2>3
<1>2. v \in hand[t].locks /\ hand[t].locks \ {v} = {}

  BY <1>1
<1> HIDE DEF v
<1>3. /\ k \in HandType /\ k.refs = hand[t].refs /\ k.locks = {}
      /\ k.writer = hand[t].writer /\ k.other = hand[t].other
  BY <1>1, <1>2, Locking
<1> HIDE DEF k
<1>4. /\ Finish(k) \in HandType /\ Finish(k).refs = k.refs
      /\ Finish(k).locks = k.locks /\ Finish(k).writer = FALSE
      /\ Finish(k).other = k.other
  BY <1>3, Finishing
<1> QED
  BY <1>1, <1>3, <1>4 DEF v, k

LEMMA ChangeInv ==
  ASSUME Inv, NEW t \in Thread, NEW op \in Waiting \cup Opening, Change(t, op)
  PROVE  Inv'
<1> DEFINE v == call[t].leaf
           k == Finish(Unlock(hand[t], v))
<1>1. /\ call[t].pc = "vop" /\ call[t].op = op
      /\ flushed' = flushed \ {v} \/ flushed' = flushed
      /\ Return(t, GiveWaiting(t, k)) /\ UNCHANGED <<entry, doomed, susp>>
  BY DEF Change, Vop, Touch
<1>2. op \in Waiting \cup Looking
  BY Kinds
<1>3. /\ k \in HandType /\ k.refs = hand[t].refs /\ k.locks = {} /\ k.writer = FALSE
      /\ hand[t].writer
  BY <1>1, <1>2, VopHand
<1>4. flushed' \subseteq Vnode
  BY <1>1 DEF Inv, WorldType
<1> HIDE DEF k
<1> QED
  BY <1>1, <1>2, <1>3, <1>4, FileReturnInv

LEMMA LookInv ==
  ASSUME Inv, NEW t \in Thread, NEW op \in Looking, Look(t, op)
  PROVE  Inv'
<1> DEFINE v == call[t].leaf
           k == Vput(hand[t], v)
           m == [k EXCEPT !.other = {}]
<1>1. call[t].pc = "found" /\ call[t].op = op /\ Return(t, m) /\ UNCHANGED World
  BY DEF Look, Found
<1>2. /\ v \in Vnode /\ hand[t] \in HandType /\ hand[t].locks = {v} /\ hand[t].writer = FALSE
      /\ \A x \in Vnode : hand[t].refs[x] = Same(x, v)
  BY <1>1, VopHand, FileHeld
<1>3. v \in hand[t].locks /\ hand[t].locks \ {v} = {}
  BY <1>2
<1> HIDE DEF v
<1>4. /\ k \in HandType /\ k.locks = {} /\ k.writer = FALSE
      /\ \A x \in Vnode : k.refs[x] = hand[t].refs[x] - Same(x, v)
  BY <1>2, <1>3, Putting
<1> HIDE DEF k
<1>5. \A x \in Vnode : k.refs[x] = 0
  BY <1>2, <1>4, Nobody
<1>6. /\ m \in HandType /\ m.locks = {} /\ m.writer = FALSE /\ m.other = {}
      /\ \A x \in Vnode : m.refs[x] = 0
  BY <1>4, <1>5, Emptied
<1> HIDE DEF m
<1> QED
  BY <1>1, <1>6, QuietReturnInv

LEMMA OpenFileInv ==
  ASSUME Inv, NEW t \in Thread, NEW op \in Opening, OpenFile(t, op)
  PROVE  Inv'
<1>1. op \in Looking /\ op \in Waiting \cup Opening
  BY Kinds
<1>2. CASE Look(t, op)
  BY <1>1, <1>2, LookInv
<1>3. CASE Change(t, op)
  BY <1>1, <1>3, ChangeInv
<1>4. CASE /\ Found(t, op) /\ Hold(t, Unlock(hand[t], call[t].leaf)) /\ Go(t, "wait")
           /\ UNCHANGED World
  <2> DEFINE k == Unlock(hand[t], call[t].leaf)
  <2>1. call[t].pc = "found" /\ call[t].op = op /\ UNCHANGED <<entry, doomed, susp, flushed>>
    BY <1>4 DEF Found, World
  <2>2. /\ k \in HandType /\ k.refs = hand[t].refs /\ k.locks = {} /\ k.writer = FALSE
        /\ k.other \in Kept(call[t])
    BY <1>1, <2>1, VopHand
  <2>3. flushed' \subseteq Vnode
    BY <2>1 DEF Inv, WorldType
  <2>4. Hold(t, k)
    BY <1>4
  <2> HIDE DEF k
  <2> QED
    BY <1>1, <1>4, <2>1, <2>2, <2>3, <2>4, FileStepInv
<1> QED
  BY <1>2, <1>3, <1>4 DEF OpenFile

(***************************************************************************)
(* Allocation in rounds, and sync                                          *)
(***************************************************************************)
LEMMA FallocateInv ==
  ASSUME Inv, NEW t \in Thread, Fallocate(t)
  PROVE  Inv'
<1> DEFINE v == call[t].leaf
           k == Finish(Unlock(hand[t], v))
<1>1. /\ call[t].pc = "vop" /\ call[t].op = "fallocate" /\ UNCHANGED <<entry, doomed, susp>>
      /\ flushed' = flushed \ {v} \/ flushed' = flushed
      /\ \/ Return(t, GiveWaiting(t, k))
         \/ Hold(t, k) /\ Go(t, "wait")
  BY DEF Fallocate, Vop, Touch
<1>2. "fallocate" \in Waiting
  BY DEF Waiting
<1>3. /\ k \in HandType /\ k.refs = hand[t].refs /\ k.locks = {} /\ k.writer = FALSE
      /\ hand[t].writer /\ k.other \in Kept(call[t])
  BY <1>1, <1>2, VopHand
<1>4. flushed' \subseteq Vnode
  BY <1>1 DEF Inv, WorldType
<1> HIDE DEF k
<1>5. CASE Return(t, GiveWaiting(t, k))
  BY <1>1, <1>2, <1>3, <1>4, <1>5, FileReturnInv
<1>6. CASE Hold(t, k) /\ Go(t, "wait")
  BY <1>1, <1>2, <1>3, <1>4, <1>6, FileStepInv
<1> QED
  BY <1>1, <1>5, <1>6

LEMMA SyncInv ==
  ASSUME Inv, NEW t \in Thread, Sync(t)
  PROVE  Inv'
<1>1. call[t].pc \in {"found", "vop"} /\ call[t].op = "sync" /\ UNCHANGED World
  BY DEF Sync, Found, Vop, Counted
<1>2. /\ \A v \in Vnode : hand[t].refs[v] = 0
      /\ hand[t].locks = {} /\ hand[t].writer = (call[t].pc = "vop") /\ hand[t].other = {}
      /\ hand[t] \in HandType /\ call[t] \in CallType /\ Stands(call[t])
  BY <1>1, SyncHeld, Mine
<1>3. CASE call[t].pc = "found" /\ Return(t, hand[t])
  BY <1>1, <1>2, <1>3, QuietReturnInv
<1>4. CASE call[t].pc = "vop" /\ Return(t, Finish(hand[t]))
  <2> DEFINE k == Finish(hand[t])
  <2>1. /\ k \in HandType /\ k.locks = {} /\ k.writer = FALSE /\ k.other = {}
        /\ \A x \in Vnode : k.refs[x] = 0
    BY <1>2, Emptied
  <2>2. Return(t, k)
    BY <1>4
  <2> HIDE DEF k
  <2> QED
    BY <1>1, <2>1, <2>2, QuietReturnInv
<1>5. CASE call[t].pc = "found" /\ CanWrite /\ Counted(t)
  <2> DEFINE c == [call[t] EXCEPT !.pc = "vop"]
             h == [hand[t] EXCEPT !.writer = TRUE]
  <2>1. hand' = [hand EXCEPT ![t] = h] /\ call' = [call EXCEPT ![t] = c]
    BY <1>5, Going DEF Counted, Hold
  <2>2. /\ c \in CallType /\ c.pc = "vop" /\ c.op = "sync" /\ c.from = call[t].from
    BY <1>1, <1>2 DEF CallType, At
  <2>3. /\ h \in HandType /\ h.refs = hand[t].refs /\ h.locks = {} /\ h.writer = TRUE
        /\ h.other = {}
    BY <1>2, Finishing
  <2> HIDE DEF c, h
  <2>4. "sync" \notin Waiting \cup Looking \cup Removing \cup Creating \cup Naming
    BY DEF Waiting, Looking, Removing, Creating, Naming
  <2>5. Stands(c)
    BY <1>1, <1>2, <2>2, <2>4, Kinds DEF Stands
  <2>6. Holds(h, c)
    <3>1. h.locks = Locked(c) /\ h.other \in Kept(c)
      BY <2>2, <2>3, <2>4 DEF Locked, Kept, Opening
    <3>2. \A x \in Vnode : Owed(c, x) = 0
      BY <2>2 DEF Owed
    <3> QED
      BY <1>2, <2>2, <2>3, <3>1, <3>2 DEF Holds
  <2>7. Current(c, h)
    BY <2>2, <2>4 DEF Current
  <2> QED
    BY <1>1, <1>5, <2>1, <2>3, <2>5, <2>6, <2>7, QuietInv DEF CanWrite
<1> QED
  BY <1>3, <1>4, <1>5 DEF Sync, Found, Vop

(***************************************************************************)
(* The suspension, revocations, and all steps                              *)
(***************************************************************************)
\* What the suspension does leaves the calls alone.
LEMMA AsideInv ==
  ASSUME Inv, UNCHANGED <<call, hand, entry, doomed>>, WorldType', Still', SuspendedIsFlushed'
  PROVE  Inv'
<1>1. \A t \in Thread : Stands(call[t])' /\ Holds(hand[t], call[t])'
  <2> SUFFICES ASSUME NEW t \in Thread
               PROVE  Stands(call'[t]) /\ Holds(hand'[t], call'[t])
    BY DEF Stands, Holds
  <2> QED
    BY DEF Inv
<1>2. \A t \in Thread : Current(call[t], hand[t])'
  BY DEF Inv, Current, Leaf
<1>3. Exclusive'
  BY DEF Inv, Exclusive
<1> QED
  BY <1>1, <1>2, <1>3 DEF Inv

LEMMA SuspensionInv ==
  ASSUME Inv, Suspend \/ Drained \/ Resume \/ \E v \in Vnode : Flush(v)
  PROVE  Inv'
<1>1. UNCHANGED <<call, hand, entry, doomed>>
  BY DEF Suspend, Drained, Resume, Flush
<1>2. /\ entry \in [Dir -> [Name -> Vnode \cup {None, Whiteout}]] /\ doomed \subseteq File
      /\ susp \in {"no", "asked", "flushing", "suspended"} /\ flushed \subseteq Vnode
      /\ (susp \in {"flushing", "suspended"} => \A t \in Thread : ~ hand[t].writer)
      /\ (susp = "suspended" => flushed = Vnode)
  BY DEF Inv, WorldType, Still, SuspendedIsFlushed
<1>3. /\ susp' \in {"no", "asked", "flushing", "suspended"} /\ flushed' \subseteq Vnode
      /\ (susp' \in {"flushing", "suspended"} => \A t \in Thread : ~ hand[t].writer)
      /\ (susp' = "suspended" => flushed' = Vnode)
  BY <1>2 DEF Suspend, Drained, Resume, Flush
<1> QED
  BY <1>1, <1>2, <1>3, AsideInv DEF WorldType, Still, SuspendedIsFlushed

\* A revoked vnode is not locked, and so is not what a call has found and keeps locked.
LEMMA RevokeInv ==
  ASSUME Inv, NEW v \in File, Revoke(v)
  PROVE  Inv'
<1>1. /\ Unlocked(v) /\ doomed' = doomed \cup {v} /\ UNCHANGED <<call, hand, susp, flushed>>
      /\ entry' = [d \in Dir |-> [n \in Name |-> IF entry[d][n] = v THEN None ELSE entry[d][n]]]
  BY DEF Revoke
<1>2. \A t \in Thread : Stands(call[t])' /\ Holds(hand[t], call[t])'
  <2> SUFFICES ASSUME NEW t \in Thread
               PROVE  Stands(call'[t]) /\ Holds(hand'[t], call'[t])
    BY DEF Stands, Holds
  <2> QED
    BY <1>1 DEF Inv
<1>3. ASSUME NEW t \in Thread
      PROVE  Current(call[t], hand[t])'
  <2> DEFINE c == call[t]
             d == c.to.dir
             n == c.to.name
  <2>1. /\ Current(c, hand[t]) /\ d \in Dir /\ n \in Name \cup {Dot}
        /\ v \notin hand[t].locks /\ v # None /\ v # Whiteout
    BY <1>1, Mine, FilesAssumption DEF Unlocked, Vnode
  <2>2. SUFFICES ASSUME c.pc \in {"found", "source", "vop"}, c.op \in Naming, n # Dot,
                        d \in hand[t].locks, c.leaf \in hand[t].locks \cup {None}
                 PROVE  Leaf(d, n)' = c.leaf
    BY <1>1 DEF Current
  <2>3. Leaf(d, n) = c.leaf
    BY <2>1, <2>2 DEF Current
  <2>4. entry[d][n] # v
    BY <2>1, <2>2, <2>3 DEF Leaf
  <2>5. entry'[d][n] = entry[d][n]
    BY <1>1, <2>1, <2>2, <2>4
  <2> QED
    BY <1>1, <2>3, <2>5 DEF Leaf
<1>4. Exclusive' /\ Still' /\ SuspendedIsFlushed'
  BY <1>1 DEF Inv, Exclusive, Still, SuspendedIsFlushed
<1>5. WorldType'
  BY <1>1 DEF Inv, WorldType
<1> QED
  BY <1>1, <1>2, <1>3, <1>4, <1>5 DEF Inv

LEMMA InitInv == Init => Inv
<1> SUFFICES ASSUME Init
             PROVE  Inv
  OBVIOUS
<1>1. /\ \A t \in Thread : call[t] = Idle /\ hand[t] = Empty
      /\ DOMAIN call = Thread /\ DOMAIN hand = Thread
  BY DEF Init
<1>2. \A t \in Thread : Stands(call[t]) /\ Holds(hand[t], call[t]) /\ Current(call[t], hand[t])
  BY <1>1, IdleStands
<1>3. Exclusive
  BY <1>1, EmptyHand DEF Exclusive
<1>4. WorldType /\ Still /\ SuspendedIsFlushed
  BY DEF Init, WorldType, Still, SuspendedIsFlushed
<1> QED
  BY <1>1, <1>2, <1>3, <1>4 DEF Inv

LEMMA StepsInv ==
  ASSUME Inv, NEW t \in Thread, Step(t)
  PROVE  Inv'
<1>1. CASE LookupParent(t) \/ LookupLeaf(t) \/ XSleep(t)
  BY <1>1, LookupParentInv, LookupLeafInv, XSleepInv
<1>2. CASE Mknod(t) \/ Mkfifo(t) \/ Symlink(t) \/ Mkdir(t) \/ Undelete(t)
  BY <1>2, MknodInv, MkfifoInv, UndeleteInv
<1>3. CASE Unlink(t) \/ Rmdir(t) \/ Link(t) \/ Rename(t)
  BY <1>3, UnlinkInv, RmdirInv, LinkInv, RenameInv
<1>4. CASE RangeLock(t) \/ Wait(t) \/ LockVnode(t)
  BY <1>4, RangeLockInv, WaitInv, LockVnodeInv
<1>5. CASE Access(t) \/ Stat(t) \/ Readlink(t)
  BY <1>5, LookInv DEF Access, Stat, Readlink, Looking
<1>6. CASE Open(t) \/ Fhopen(t)
  BY <1>6, OpenFileInv DEF Open, Fhopen, Opening
<1>7. CASE Setattr(t) \/ Truncate(t) \/ Fsync(t)
  BY <1>7, ChangeInv DEF Setattr, Truncate, Fsync, Waiting
<1>8. CASE Fallocate(t) \/ Sync(t)
  BY <1>8, FallocateInv, SyncInv
<1> QED
  BY <1>1, <1>2, <1>3, <1>4, <1>5, <1>6, <1>7, <1>8 DEF Step

LEMMA NextInv == Inv /\ [Next]_vars => Inv'
<1> SUFFICES ASSUME Inv, [Next]_vars
             PROVE  Inv'
  OBVIOUS
<1>1. CASE \E t \in Thread : Start(t) \/ Step(t)
  BY <1>1, StartInv, StepsInv
<1>2. CASE Suspend \/ Drained \/ Resume \/ \E v \in Vnode : Flush(v)
  BY <1>2, SuspensionInv
<1>3. CASE \E v \in File : Revoke(v)
  BY <1>3, RevokeInv
<1>4. CASE UNCHANGED vars
  <2>1. UNCHANGED <<call, hand, entry, doomed, susp, flushed>>
    BY <1>4 DEF vars
  <2>2. WorldType' /\ Still' /\ SuspendedIsFlushed'
    BY <2>1 DEF Inv, WorldType, Still, SuspendedIsFlushed
  <2> QED
    BY <2>1, <2>2, AsideInv
<1> QED
  BY <1>1, <1>2, <1>3, <1>4 DEF Next

LEMMA Invariant == Spec => []Inv
BY InitInv, NextInv, PTL DEF Spec

(***************************************************************************)
(* The theorems                                                            *)
(***************************************************************************)
(* On every path out of a call - done, refused, interrupted, started again *)
(* or failed at any of its steps - the thread has no reference, lock,      *)
(* count, buffer or file left.                                             *)
THEOREM ReturnsClean == Spec => []CallsReturnClean
<1>1. Inv => CallsReturnClean
  BY UserHand DEF CallsReturnClean
<1> QED
  BY <1>1, Invariant, PTL

(* When an operation changes a directory, the directory is locked and the  *)
(* name is as the lookup found it.                                         *)
THEOREM FoundNamesAreCurrent == Spec => []NamesCurrent
<1>1. ASSUME Inv, NEW t \in Thread, call[t].pc = "vop",
             call[t].op \notin Waiting \cup Looking \cup {"sync"}
      PROVE  /\ call[t].to.dir \in hand[t].locks
             /\ call[t].to.name # Dot => Leaf(call[t].to.dir, call[t].to.name) = call[t].leaf
  <2> DEFINE c == call[t]
  <2>1. Stands(c) /\ Current(c, hand[t]) /\ c \in CallType
    BY <1>1, Mine
  <2>2. c.op \in Calling
    BY <1>1, <2>1 DEF Stands, CallType
  <2>3. c.op \in Creating \cup Removing \cup {"undelete", "link", "rename"} /\ c.op \in Naming
    BY <1>1, <2>2 DEF Calling, Naming
  <2>4. c.to.dir \in hand[t].locks /\ c.leaf \in hand[t].locks \cup {None}
    <3>1. CASE c.op \in Creating \cup {"undelete"}
      BY <1>1, <3>1, MakeHand, Nobody
    <3>2. CASE c.op \in Removing
      <4>1. c.op \in Pairing /\ c.op # "link"
        BY <3>2 DEF Pairing, Removing
      <4>2. Locked(c) = {c.to.dir} \cup ({c.leaf} \ {None}) \cup {}
        BY <1>1, <2>3, <4>1 DEF Locked
      <4> QED
        BY <1>1, <2>3, <4>2, NameHeld
    <3>3. CASE c.op = "link"
      BY <1>1, <3>3, LinkHand, Nobody
    <3>4. CASE c.op = "rename"
      <4>1. c.op \in Pairing /\ c.op # "link"
        BY <3>4 DEF Pairing
      <4>2. Locked(c) = {c.to.dir} \cup ({c.leaf} \ {None}) \cup {}
        BY <1>1, <2>3, <4>1 DEF Locked
      <4> QED
        BY <1>1, <2>3, <4>2, NameHeld
    <3> QED
      BY <2>3, <3>1, <3>2, <3>3, <3>4
  <2> QED
    BY <1>1, <2>1, <2>3, <2>4 DEF Current
<1>2. Inv => NamesCurrent
  BY <1>1 DEF NamesCurrent
<1> QED
  BY <1>2, Invariant, PTL

(* While a file system is suspended every vnode is as it was flushed: no   *)
(* call that was counted before, or slipped in later, has changed one.     *)
THEOREM SuspendedStaysFlushed == Spec => []SuspendedIsFlushed
<1>1. Inv => SuspendedIsFlushed
  BY DEF Inv
<1> QED
  BY <1>1, Invariant, PTL

(* No two calls have a vnode locked at the same time, and nobody changes   *)
(* the file system while the suspension flushes it.                        *)
THEOREM LocksAndFlushesExclude ==
  Spec => [](/\ Exclusive
             /\ susp \in {"flushing", "suspended"} => \A t \in Thread : ~ hand[t].writer)
<1>1. Inv => /\ Exclusive
             /\ susp \in {"flushing", "suspended"} => \A t \in Thread : ~ hand[t].writer
  BY DEF Inv, Still
<1> QED
  BY <1>1, Invariant, PTL

(***************************************************************************)
(* The enciphering layer and the protection tool                           *)
(***************************************************************************)
Byte == SUBSET Int

LayerTyped ==
  /\ file \in Seq(Byte)
  /\ sticky \in BOOLEAN /\ clean \in BOOLEAN /\ steady \in BOOLEAN /\ slips \in Nat
  /\ request \in [at : {"idle", "read", "write", "returned"}, offset : Nat, buf : Seq(Byte)]
  /\ tool \in [at : {"off", "open", "read", "first", "second"}, option : {"e", "d"},
               total : Int, chunk : Seq(Byte), pos : Nat]
  /\ tool.at = "second" => C!Half < Len(tool.chunk)

Writing == tool.at \in {"first", "second"}

(* Where the chunk in hand begins. *)
ChunkAt == tool.total - Len(tool.chunk)

(* How far the file is transformed, and where the next call of the tool    *)
(* reads or writes.                                                        *)
Edge ==
  IF tool.at = "first" THEN ChunkAt
  ELSE IF tool.at = "second" THEN ChunkAt + C!Half ELSE tool.total

(* The tool goes by whole blocks until it is past the file's end. *)
Chunked ==
  /\ tool.at = "open" => tool.total = 0
  /\ tool.at = "read" => tool.total % Block = 0 \/ Len(file) <= tool.total
  /\ Writing => /\ ChunkAt \in Nat /\ ChunkAt % Block = 0
                /\ Len(tool.chunk) = Block \/ Len(file) <= tool.total
  /\ tool.at # "off" => tool.pos = Edge /\ tool.total \in Nat

(* What a request writes has the pads of its place. *)
Requested ==
  request.at = "write" =>
    \A j \in 1..Len(request.buf) : request.buf[j] \subseteq {request.offset + j - 1}

(* No byte, on disk or in the tool's hand, has another's pad. *)
Pads ==
  /\ \A i \in 1..Len(file) : file[i] \subseteq {i - 1}
  /\ Writing => \A j \in 1..Len(tool.chunk) : tool.chunk[j] \subseteq {ChunkAt + j - 1}

Should(on, i) == IF on THEN {i - 1} ELSE {}

(* Every byte is as the bit says, or, during a run, as the tool has got.   *)
Whole ==
  /\ tool.at = "off" \/ request.at = "idle"
  /\ tool.at = "off" => \A i \in 1..Len(file) : file[i] = Should(sticky, i)
  /\ request.at \in {"read", "write"} =>
       \A j \in 1..Len(request.buf) : request.buf[j] = Should(sticky, request.offset + j)
  /\ request.at = "returned" /\ request.offset % Block = 0 =>
       \A j \in 1..Len(request.buf) : request.buf[j] = {}
  /\ tool.at # "off" =>
       /\ ~ sticky /\ tool.total <= Len(file)
       /\ \A i \in 1..Len(file) : file[i] = Should((tool.option = "e") <=> (i <= Edge), i)
  /\ Writing => \A j \in 1..Len(tool.chunk) :
                  tool.chunk[j] = Should(tool.option = "e", ChunkAt + j)

(* The inductive invariant. *)
LayerInv ==
  /\ LayerTyped
  /\ steady => Chunked /\ Requested /\ Pads
  /\ clean /\ steady => Whole

(* What the constants are. *)
LEMMA Sizes ==
  /\ Block \in Nat \ {0} /\ Size \in Nat /\ Slips \in Nat
  /\ C!Half \in Nat /\ C!Half <= Block /\ Block = 2 * C!Half
<1>1. Block \in Nat \ {0} /\ Block % 2 = 0 /\ Size \in Nat /\ Slips \in Nat
  BY LayerAssumption DEF C!SizesAssumption
<1>2. Block \div 2 \in Nat /\ Block \div 2 <= Block /\ Block = 2 * (Block \div 2)
  BY <1>1, SMT
<1> QED
  BY <1>1, <1>2 DEF C!Half

(* The block of an offset that is aligned begins there, and the next one   *)
(* a block further.                                                        *)
LEMMA BlockOf ==
  ASSUME NEW o \in Nat, o % Block = 0
  PROVE  (o \div Block) * Block = o /\ (o + Block) % Block = 0
<1>1. Block \in Nat \ {0}
  BY Sizes
<1>2. (o \div Block) * Block = o
  BY <1>1, SMT
<1>3. (o + Block) % Block = 0
  <2> DEFINE k == o \div Block
  <2>1. k \in Nat /\ o + Block = (k + 1) * Block
    <3>1. k \in Nat
      BY <1>1, SMT
    <3>2. (k + 1) * Block = k * Block + Block
      BY <1>1, <3>1, SMT
    <3> QED
      BY <1>2, <3>1, <3>2
  <2> HIDE DEF k
  <2>2. ((k + 1) * Block) % Block = 0
    BY <1>1, <2>1, SMT
  <2> QED
    BY <2>1, <2>2
<1> QED
  BY <1>2, <1>3

(* A pad is added where it is absent, and removed where it is there. *)
LEMMA Toggled ==
  ASSUME NEW p
  PROVE  /\ C!Toggle({}, p) = {p} /\ C!Toggle({p}, p) = {}
         /\ \A b : b \subseteq {p} => C!Toggle(b, p) \subseteq {p}
         /\ p \in Int => \A b \in Byte : C!Toggle(b, p) \in Byte
BY DEF C!Toggle, C!SymDiff, Byte

(* The transformation of a buffer, byte by byte. *)
LEMMA Transformed ==
  ASSUME NEW buf \in Seq(Byte), NEW o \in Int
  PROVE  /\ C!Transform(buf, o) \in Seq(Byte) /\ Len(C!Transform(buf, o)) = Len(buf)
         /\ \A j \in 1..Len(buf) :
              C!Transform(buf, o)[j] = C!Toggle(buf[j], (o \div Block) * Block + j - 1)
<1>1. /\ Len(buf) \in Nat /\ DOMAIN buf = 1..Len(buf) /\ \A j \in 1..Len(buf) : buf[j] \in Byte
      /\ Block \in Nat \ {0}
  BY Sizes
<1>2. (o \div Block) * Block \in Int
  <2>1. o \div Block \in Int
    BY <1>1
  <2> QED
    BY <1>1, <2>1
<1> DEFINE e(j) == C!Toggle(buf[j], (o \div Block) * Block + j - 1)
<1>3. ASSUME NEW j \in 1..Len(buf)
      PROVE  e(j) \in Byte
  <2> DEFINE m == (o \div Block) * Block
  <2>1. m + j - 1 \in Int
    <3> HIDE DEF m
    <3>1. m \in Int
      BY <1>2 DEF m
    <3> QED
      BY <1>1, <3>1
  <2>2. buf[j] \in Byte
    BY <1>1
  <2> QED
    BY <2>1, <2>2, Toggled
<1>4. C!Transform(buf, o) = [j \in 1..Len(buf) |-> e(j)]
  BY <1>1 DEF C!Transform
<1> HIDE DEF e
<1>5. [j \in 1..Len(buf) |-> e(j)] \in Seq(Byte)
  BY <1>1, <1>3, IsASeq
<1>6. Len([j \in 1..Len(buf) |-> e(j)]) = Len(buf)
  BY <1>1
<1> QED
  BY <1>4, <1>5, <1>6 DEF e

Longer(m, n) == IF m > n THEN m ELSE n

(* Bytes put over a file. *)
LEMMA PutOver ==
  ASSUME NEW s \in Seq(Byte), NEW buf \in Seq(Byte), NEW o \in Nat
  PROVE  /\ C!Over(s, buf, o) \in Seq(Byte)
         /\ Len(C!Over(s, buf, o)) = Longer(o + Len(buf), Len(s))
         /\ \A i \in 1..Longer(o + Len(buf), Len(s)) :
              C!Over(s, buf, o)[i] = IF i > o /\ i <= o + Len(buf) THEN buf[i - o]
                                     ELSE IF i <= Len(s) THEN s[i] ELSE {}
<1> DEFINE n == Longer(o + Len(buf), Len(s))
           e(i) == IF i > o /\ i <= o + Len(buf) THEN buf[i - o]
                   ELSE IF i <= Len(s) THEN s[i] ELSE C!Plain
<1>1. n \in Nat
  BY DEF Longer
<1>2. ASSUME NEW i \in 1..n
      PROVE  e(i) \in Byte
  <2>1. CASE i > o /\ i <= o + Len(buf)
    <3>1. i - o \in 1..Len(buf)
      BY <1>1, <2>1
    <3> QED
      BY <2>1, <3>1
  <2>2. CASE ~ (i > o /\ i <= o + Len(buf)) /\ i <= Len(s)
    BY <1>1, <2>2
  <2>3. CASE ~ (i > o /\ i <= o + Len(buf)) /\ ~ (i <= Len(s))
    BY <2>3 DEF C!Plain, Byte
  <2> QED
    BY <2>1, <2>2, <2>3
<1>3. C!Over(s, buf, o) = [i \in 1..n |-> e(i)]
  BY DEF C!Over, Longer
<1> HIDE DEF n, e
<1>4. [i \in 1..n |-> e(i)] \in Seq(Byte)
  BY <1>1, <1>2, IsASeq
<1>5. Len([i \in 1..n |-> e(i)]) = n
  BY <1>1
<1>6. \A i \in 1..n : [i2 \in 1..n |-> e(i2)][i] = e(i)
  OBVIOUS
<1> QED
  BY <1>3, <1>4, <1>5, <1>6 DEF n, e, C!Plain

(* A part of a file or of a buffer. *)
LEMMA Part ==
  ASSUME NEW s \in Seq(Byte), NEW m \in Nat, NEW n \in Nat, m <= n, n <= Len(s)
  PROVE  /\ SubSeq(s, m + 1, n) \in Seq(Byte) /\ Len(SubSeq(s, m + 1, n)) = n - m
         /\ \A i \in 1..(n - m) : SubSeq(s, m + 1, n)[i] = s[m + i]
<1>1. \A i \in (m + 1)..n : s[i] \in Byte
  OBVIOUS
<1>2. /\ SubSeq(s, m + 1, n) \in Seq(Byte)
      /\ Len(SubSeq(s, m + 1, n)) = IF m + 1 <= n THEN n - (m + 1) + 1 ELSE 0
      /\ \A i \in 1..(n - (m + 1) + 1) : SubSeq(s, m + 1, n)[i] = s[(m + 1) + i - 1]
  BY <1>1, SubSeqProperties
<1> QED
  BY <1>2

(* The parts of a state that is well typed. *)
LEMMA Fields ==
  ASSUME LayerInv
  PROVE  /\ file \in Seq(Byte) /\ Len(file) \in Nat /\ Size \in Nat
         /\ sticky \in BOOLEAN /\ clean \in BOOLEAN /\ steady \in BOOLEAN /\ slips \in Nat
         /\ request.at \in {"idle", "read", "write", "returned"}
         /\ request.offset \in Nat
         /\ request.buf \in Seq(Byte) /\ Len(request.buf) \in Nat
         /\ tool.at \in {"off", "open", "read", "first", "second"} /\ tool.option \in {"e", "d"}
         /\ tool.total \in Int /\ tool.pos \in Nat
         /\ tool.chunk \in Seq(Byte) /\ Len(tool.chunk) \in Nat
         /\ ChunkAt \in Int
BY Sizes DEF LayerInv, LayerTyped, ChunkAt

(* At first the file is plain. *)
LEMMA LayerInitInv ==
  ASSUME C!Init
  PROVE  LayerInv
<1>1. file = [i \in 1..Size |-> {}] /\ Size \in Nat
  BY Sizes DEF C!Init, C!Plain
<1>2. \A i \in 1..Size : {} \in Byte
  BY DEF Byte
<1>3. file \in Seq(Byte) /\ \A i \in 1..Len(file) : file[i] = {}
  <2>1. [i \in 1..Size |-> {}] \in Seq(Byte)
    BY <1>1, <1>2
  <2> QED
    BY <1>1, <2>1
<1>4. <<>> \in Seq(Byte) /\ 0 \in Nat /\ 0 \in Int
  BY EmptySeq
<1>5. /\ sticky = FALSE /\ clean = TRUE /\ steady = TRUE /\ slips = 0
      /\ request = [at |-> "idle", offset |-> 0, buf |-> <<>>]
      /\ tool = [at |-> "off", option |-> "e", total |-> 0, chunk |-> <<>>, pos |-> 0]
  BY DEF C!Init, C!NoCall, C!NoRun
<1>6. LayerTyped
  BY <1>3, <1>4, <1>5 DEF LayerTyped
<1>7. Chunked /\ Requested /\ Pads /\ Whole
  BY <1>3, <1>5 DEF Chunked, Requested, Pads, Whole, Writing, Should
<1> QED
  BY <1>6, <1>7 DEF LayerInv

(* A call reads: while it keeps apart from the tool it has the bytes that  *)
(* the bit tells of.                                                       *)
LEMMA PreadInv ==
  ASSUME LayerInv, C!Pread
  PROVE  LayerInv'
<1>1. PICK o \in 0..Size, n \in 1..Size :
        /\ o + n <= Len(file)
        /\ request' = [at |-> "read", offset |-> o, buf |-> SubSeq(file, o + 1, o + n)]
  BY DEF C!Pread, C!Offsets
<1>2. /\ UNCHANGED <<file, sticky, tool, steady, slips>> /\ request.at = "idle"
      /\ clean' = (clean /\ tool.at = "off")
  BY DEF C!Pread, C!Calm
<1> DEFINE b == SubSeq(file, o + 1, o + n)
<1>3. b \in Seq(Byte) /\ Len(b) = n /\ (\A j \in 1..n : b[j] = file[o + j]) /\ o \in Nat
  <2>1. o \in Nat /\ n \in Nat /\ o + n \in Nat /\ o <= o + n /\ (o + n) - o = n
    BY Sizes
  <2>2. file \in Seq(Byte) /\ o + n <= Len(file)
    BY <1>1, Fields
  <2>3. /\ SubSeq(file, o + 1, o + n) \in Seq(Byte)
        /\ Len(SubSeq(file, o + 1, o + n)) = (o + n) - o
        /\ \A j \in 1..((o + n) - o) : SubSeq(file, o + 1, o + n)[j] = file[o + j]
    BY <2>1, <2>2, Part
  <2> QED
    BY <2>1, <2>3
<1> HIDE DEF b
<1>4. request'.at = "read" /\ request'.offset = o /\ request'.buf = b
  BY <1>1 DEF b
<1>5. LayerTyped'
  <2>1. request' \in [at : {"idle", "read", "write", "returned"}, offset : Nat, buf : Seq(Byte)]
    BY <1>1, <1>3 DEF b
  <2>2. clean' \in BOOLEAN
    BY <1>2
  <2> QED
    BY <1>2, <2>1, <2>2 DEF LayerInv, LayerTyped
<1>6. steady' => Chunked' /\ Requested' /\ Pads'
  BY <1>2, <1>4 DEF LayerInv, Chunked, Requested, Pads, Writing, ChunkAt, Edge
<1>7. ASSUME clean', steady'
      PROVE  Whole'
  <2>1. clean /\ tool.at = "off" /\ steady /\ Whole
    BY <1>2, <1>7 DEF LayerInv
  <2>2. \A j \in 1..n : o + j \in 1..Len(file)
    BY <1>1, Fields
  <2>3. \A j \in 1..n : b[j] = Should(sticky, o + j)
    BY <1>3, <2>1, <2>2 DEF Whole
  <2> QED
    BY <1>2, <1>3, <1>4, <2>1, <2>3 DEF Whole, Writing
<1> QED
  BY <1>5, <1>6, <1>7 DEF LayerInv

(* The bytes it read are deciphered if the bit is set. *)
LEMMA DecipherInv ==
  ASSUME LayerInv, C!Decipher
  PROVE  LayerInv'
<1> DEFINE b == request.buf
           o == request.offset
           d == IF sticky THEN C!Transform(b, o) ELSE b
<1>1. /\ UNCHANGED <<file, sticky, tool, clean, steady, slips>> /\ request.at = "read"
      /\ request' = [request EXCEPT !.at = "returned", !.buf = d]
  BY DEF C!Decipher
<1>2. b \in Seq(Byte) /\ o \in Nat /\ o \in Int /\ Len(b) \in Nat
  BY Fields
<1>3. /\ C!Transform(b, o) \in Seq(Byte) /\ Len(C!Transform(b, o)) = Len(b)
      /\ \A j \in 1..Len(b) :
           C!Transform(b, o)[j] = C!Toggle(b[j], (o \div Block) * Block + j - 1)
  BY <1>2, Transformed
<1>4. d \in Seq(Byte) /\ Len(d) = Len(b)
  BY <1>2, <1>3
<1>5. request'.at = "returned" /\ request'.offset = o /\ request'.buf = d
  BY <1>1 DEF LayerInv, LayerTyped
<1>6. LayerTyped'
  <2>1. request' \in [at : {"idle", "read", "write", "returned"}, offset : Nat, buf : Seq(Byte)]
    BY <1>1, <1>4 DEF LayerInv, LayerTyped
  <2> HIDE DEF d, b, o
  <2> QED
    BY <1>1, <2>1 DEF LayerInv, LayerTyped
<1>7. steady' => Chunked' /\ Requested' /\ Pads'
  <2> HIDE DEF d, b, o
  <2> QED
    BY <1>1, <1>5 DEF LayerInv, Chunked, Requested, Pads, Writing, ChunkAt, Edge
<1>8. ASSUME clean', steady'
      PROVE  Whole'
  <2>1. clean /\ steady /\ Whole /\ tool.at = "off"
    BY <1>1, <1>8 DEF LayerInv, Whole
  <2>2. ASSUME NEW j \in 1..Len(b), o % Block = 0
        PROVE  d[j] = {}
    <3>1. b[j] = Should(sticky, o + j)
      BY <1>1, <2>1 DEF Whole
    <3>2. CASE sticky
      <4>1. (o \div Block) * Block = o
        BY <1>2, <2>2, BlockOf
      <4>2. d[j] = C!Toggle(b[j], o + j - 1)
        BY <1>3, <3>2, <4>1
      <4> HIDE DEF d, b, o
      <4>3. b[j] = {o + j - 1}
        BY <1>2, <3>1, <3>2 DEF Should
      <4> QED
        BY <4>2, <4>3, Toggled
    <3>3. CASE ~ sticky
      BY <3>1, <3>3 DEF Should
    <3> QED
      BY <3>2, <3>3
  <2> HIDE DEF d, b, o
  <2> QED
    BY <1>1, <1>4, <1>5, <2>1, <2>2 DEF Whole, Writing
<1> QED
  BY <1>6, <1>7, <1>8 DEF LayerInv

(* The bytes to be written get the pads of their places if the bit is set  *)
(* and they begin at a block.                                              *)
LEMMA EncipherInv ==
  ASSUME LayerInv, C!Encipher
  PROVE  LayerInv'
<1>1. PICK o \in 0..Size, n \in 1..Size :
        /\ LET buf == [j \in 1..n |-> {}]
           IN  request' = [at |-> "write", offset |-> o,
                           buf |-> IF sticky THEN C!Transform(buf, o) ELSE buf]
        /\ steady' = (steady /\ (sticky => o % Block = 0))
  BY DEF C!Encipher, C!Offsets, C!Plain
<1>2. /\ UNCHANGED <<file, sticky, tool, slips>> /\ request.at = "idle"
      /\ clean' = (clean /\ tool.at = "off")
  BY DEF C!Encipher, C!Calm
<1> DEFINE b == [j \in 1..n |-> {}]
           d == IF sticky THEN C!Transform(b, o) ELSE b
<1>3. /\ b \in Seq(Byte) /\ Len(b) = n /\ (\A j \in 1..n : b[j] = {})
      /\ n \in Nat /\ o \in Nat /\ o \in Int
  <2>1. n \in Nat /\ o \in Nat /\ o \in Int /\ {} \in Byte
    BY Sizes DEF Byte
  <2>2. b \in Seq(Byte) /\ Len(b) = n
    BY <2>1
  <2> QED
    BY <2>1, <2>2
<1> HIDE DEF b
<1>4. /\ C!Transform(b, o) \in Seq(Byte) /\ Len(C!Transform(b, o)) = n
      /\ \A j \in 1..n : C!Transform(b, o)[j] = C!Toggle({}, (o \div Block) * Block + j - 1)
  <2>1. /\ C!Transform(b, o) \in Seq(Byte) /\ Len(C!Transform(b, o)) = Len(b)
        /\ \A j \in 1..Len(b) :
             C!Transform(b, o)[j] = C!Toggle(b[j], (o \div Block) * Block + j - 1)
    BY <1>3, Transformed
  <2> QED
    BY <1>3, <2>1
<1>5. d \in Seq(Byte) /\ Len(d) = n
  BY <1>3, <1>4
<1>6. ASSUME steady'
      PROVE  \A j \in 1..n : d[j] = Should(sticky, o + j)
  <2>1. CASE sticky
    <3>1. (o \div Block) * Block = o
      BY <1>1, <1>3, <1>6, <2>1, BlockOf
    <3>2. \A j \in 1..n : d[j] = C!Toggle({}, o + j - 1)
      BY <1>4, <2>1, <3>1
    <3> HIDE DEF d
    <3>3. \A j \in 1..n : d[j] = {o + j - 1}
      BY <3>2, Toggled
    <3> QED
      BY <1>3, <2>1, <3>3 DEF Should
  <2>2. CASE ~ sticky
    BY <1>3, <2>2 DEF Should
  <2> QED
    BY <2>1, <2>2
<1>7. request' = [at |-> "write", offset |-> o, buf |-> d]
  BY <1>1 DEF b
<1> HIDE DEF d
<1>8. request'.at = "write" /\ request'.offset = o /\ request'.buf = d
  BY <1>7
<1>9. LayerTyped'
  <2>1. request' \in [at : {"idle", "read", "write", "returned"}, offset : Nat, buf : Seq(Byte)]
    BY <1>3, <1>5, <1>7
  <2>2. clean' \in BOOLEAN /\ steady' \in BOOLEAN
    BY <1>1, <1>2
  <2> QED
    BY <1>2, <2>1, <2>2 DEF LayerInv, LayerTyped
<1>10. ASSUME steady'
       PROVE  Chunked' /\ Requested' /\ Pads'
  <2>1. steady /\ Chunked /\ Pads
    BY <1>1, <1>10 DEF LayerInv
  <2>2. \A j \in 1..n : d[j] \subseteq {o + j - 1}
    <3>1. \A j \in 1..n : Should(sticky, o + j) \subseteq {o + j - 1}
      BY DEF Should
    <3> QED
      BY <1>6, <1>10, <3>1
  <2>3. Requested'
    BY <1>5, <1>8, <2>2 DEF Requested
  <2> QED
    BY <1>2, <2>1, <2>3 DEF Chunked, Pads, Writing, ChunkAt, Edge
<1>11. ASSUME clean', steady'
       PROVE  Whole'
  <2>1. clean /\ tool.at = "off" /\ steady /\ Whole
    BY <1>1, <1>2, <1>11 DEF LayerInv
  <2> QED
    BY <1>2, <1>5, <1>6, <1>8, <1>11, <2>1 DEF Whole, Writing
<1> QED
  BY <1>9, <1>10, <1>11 DEF LayerInv

(* What a call writes over the file: the bytes in the window are its own.  *)
LEMMA PwriteInv ==
  ASSUME LayerInv, C!Pwrite
  PROVE  LayerInv'
<1> DEFINE b == request.buf
           o == request.offset
<1>1. /\ b \in Seq(Byte) /\ o \in Nat /\ Len(b) \in Nat
      /\ file \in Seq(Byte) /\ Len(file) \in Nat
  BY Fields
<1>2. PICK n \in 0..Len(b) :
        file' = IF n = 0 THEN file ELSE C!Over(file, SubSeq(b, 1, n), o)
  BY DEF C!Pwrite
<1>3. /\ UNCHANGED <<sticky, tool, slips>> /\ request.at = "write"
      /\ clean' = (clean /\ o <= Len(file))
      /\ steady' = (steady /\ (tool.at = "off" \/ Len(file') <= Len(file)))
      /\ request' = [at |-> "idle", offset |-> 0, buf |-> <<>>]
  BY DEF C!Pwrite, C!Steady, C!NoCall
<1>4. /\ steady => /\ Chunked /\ Pads
                   /\ \A j \in 1..Len(b) : b[j] \subseteq {o + j - 1}
      /\ clean /\ steady => Whole
  BY <1>3 DEF LayerInv, Requested
<1>5. b \in Seq(Byte) /\ n \in Nat /\ n <= Len(b)
  BY <1>1
<1> HIDE DEF b, o
<1>6. /\ file' \in Seq(Byte) /\ Len(file') \in Nat
      /\ \A i \in 1..Len(file') : i <= o + n \/ i <= Len(file)
      /\ \A i \in 1..Len(file') :
           file'[i] = IF i > o /\ i <= o + n THEN b[i - o]
                      ELSE IF i <= Len(file) THEN file[i] ELSE {}
  <2>1. CASE n = 0
    BY <1>1, <1>2, <2>1
  <2>2. CASE n # 0
    <3> DEFINE p == SubSeq(b, 1, n)
    <3>1. p \in Seq(Byte) /\ Len(p) = n /\ \A j \in 1..n : p[j] = b[j]
      <4>1. /\ SubSeq(b, 0 + 1, n) \in Seq(Byte) /\ Len(SubSeq(b, 0 + 1, n)) = n - 0
            /\ \A j \in 1..(n - 0) : SubSeq(b, 0 + 1, n)[j] = b[0 + j]
        BY <1>5, Part
      <4> QED
        BY <1>5, <4>1
    <3>2. file' = C!Over(file, p, o)
      BY <1>2, <2>2
    <3> HIDE DEF p
    <3>3. /\ file' \in Seq(Byte) /\ Len(file') = Longer(o + n, Len(file))
          /\ \A i \in 1..Longer(o + n, Len(file)) :
               file'[i] = IF i > o /\ i <= o + n THEN p[i - o]
                          ELSE IF i <= Len(file) THEN file[i] ELSE {}
      BY <1>1, <3>1, <3>2, PutOver
    <3>4. /\ Len(file') \in Nat
          /\ \A i \in 1..Len(file') : i <= o + n \/ i <= Len(file)
      BY <1>1, <1>5, <3>3 DEF Longer
    <3>5. ASSUME NEW i \in 1..Len(file'), i > o, i <= o + n
          PROVE  p[i - o] = b[i - o]
      <4>1. i - o \in 1..n
        BY <1>1, <1>5, <3>4, <3>5
      <4> QED
        BY <3>1, <4>1
    <3> QED
      BY <3>3, <3>4, <3>5
  <2> QED
    BY <2>1, <2>2
<1>7. <<>> \in Seq(Byte) /\ 0 \in Nat
  BY EmptySeq
<1>8. request'.at = "idle" /\ request'.offset = 0 /\ request'.buf = <<>>
  BY <1>3
<1>9. LayerTyped' /\ Requested'
  <2>1. request' \in [at : {"idle", "read", "write", "returned"}, offset : Nat, buf : Seq(Byte)]
    BY <1>3, <1>7
  <2>2. clean' \in BOOLEAN /\ steady' \in BOOLEAN
    BY <1>3
  <2> QED
    BY <1>3, <1>6, <1>8, <2>1, <2>2 DEF LayerInv, LayerTyped, Requested
<1>10. ASSUME NEW i \in 1..Len(file'), i > o, i <= o + n
       PROVE  i - o \in 1..Len(b) /\ o + (i - o) = i
  BY <1>1, <1>5, <1>6, <1>10
<1>11. ASSUME steady'
       PROVE  Chunked' /\ Pads'
  <2>1. steady /\ Chunked /\ Pads /\ (tool.at = "off" \/ Len(file') <= Len(file))
    BY <1>3, <1>4, <1>11
  <2>2. Chunked'
    <3>1. tool.total \in Int
      BY Fields
    <3> QED
      BY <1>1, <1>3, <1>6, <2>1, <3>1 DEF Chunked, Writing, ChunkAt, Edge
  <2>3. ASSUME NEW i \in 1..Len(file')
        PROVE  file'[i] \subseteq {i - 1}
    <3>1. CASE i > o /\ i <= o + n
      <4>1. i - o \in 1..Len(b) /\ o + (i - o) = i
        BY <1>10, <3>1
      <4>2. b[i - o] \subseteq {o + (i - o) - 1}
        BY <1>4, <2>1, <4>1
      <4>3. o + (i - o) - 1 = i - 1
        BY <1>1, <1>6
      <4>4. b[i - o] \subseteq {i - 1}
        BY <4>2, <4>3
      <4> QED
        BY <1>6, <3>1, <4>4
    <3>2. CASE ~ (i > o /\ i <= o + n) /\ i <= Len(file)
      <4>1. i \in 1..Len(file)
        BY <1>1, <1>6, <3>2
      <4> QED
        BY <1>6, <2>1, <3>2, <4>1 DEF Pads
    <3>3. CASE ~ (i > o /\ i <= o + n) /\ ~ (i <= Len(file))
      BY <1>6, <3>3
    <3> QED
      BY <3>1, <3>2, <3>3
  <2> QED
    BY <1>3, <2>1, <2>2, <2>3 DEF Pads, Writing, ChunkAt
<1>12. ASSUME clean', steady'
       PROVE  Whole'
  <2>1. clean /\ o <= Len(file) /\ steady /\ Whole /\ tool.at = "off"
    BY <1>3, <1>4, <1>12 DEF Whole
  <2>2. ASSUME NEW i \in 1..Len(file')
        PROVE  file'[i] = Should(sticky, i)
    <3>1. CASE i > o /\ i <= o + n
      <4>1. i - o \in 1..Len(b) /\ o + (i - o) = i
        BY <1>10, <3>1
      <4>2. b[i - o] = Should(sticky, o + (i - o))
        BY <1>3, <2>1, <4>1 DEF Whole, b, o
      <4> QED
        BY <1>6, <3>1, <4>1, <4>2
    <3>2. CASE ~ (i > o /\ i <= o + n)
      <4>1. i \in 1..Len(file)
        BY <1>1, <1>5, <1>6, <2>1, <3>2
      <4> QED
        BY <1>6, <2>1, <3>2, <4>1 DEF Whole
    <3> QED
      BY <3>1, <3>2
  <2> QED
    BY <1>3, <1>8, <2>1, <2>2 DEF Whole, Writing
<1> QED
  BY <1>9, <1>11, <1>12 DEF LayerInv

(* A call returns. *)
LEMMA ReturnedInv ==
  ASSUME LayerInv, C!Return
  PROVE  LayerInv'
<1>1. /\ UNCHANGED <<file, sticky, tool, clean, steady, slips>>
      /\ request' = [at |-> "idle", offset |-> 0, buf |-> <<>>]
  BY DEF C!Return, C!NoCall
<1>2. request'.at = "idle" /\ request'.offset = 0 /\ request'.buf = <<>>
  BY <1>1
<1>3. LayerTyped' /\ Requested'
  <2>1. <<>> \in Seq(Byte) /\ 0 \in Nat
    BY EmptySeq
  <2>2. request' \in [at : {"idle", "read", "write", "returned"}, offset : Nat, buf : Seq(Byte)]
    BY <1>1, <2>1
  <2> QED
    BY <1>1, <1>2, <2>2 DEF LayerInv, LayerTyped, Requested
<1>4. /\ steady' => Chunked' /\ Pads'
      /\ clean' /\ steady' => Whole'
  BY <1>1, <1>2 DEF LayerInv, Chunked, Pads, Whole, Writing, ChunkAt, Edge
<1> QED
  BY <1>3, <1>4 DEF LayerInv

(* A file is cut, or made longer by a hole. *)
LEMMA TruncateInv ==
  ASSUME LayerInv, C!Truncate
  PROVE  LayerInv'
<1>1. PICK n \in 0..Size : file' = [i \in 1..n |-> IF i <= Len(file) THEN file[i] ELSE {}]
  BY DEF C!Truncate, C!Plain
<1>2. /\ UNCHANGED <<sticky, request, tool, slips>> /\ request.at = "idle"
      /\ clean' = (clean /\ tool.at = "off" /\ Len(file') <= Len(file))
      /\ steady' = (steady /\ (tool.at = "off" \/ Len(file') <= Len(file)))
  BY DEF C!Truncate, C!Calm, C!Steady
<1>3. n \in Nat /\ file \in Seq(Byte) /\ Len(file) \in Nat
  BY Fields
<1>4. /\ file' \in Seq(Byte) /\ Len(file') = n
      /\ \A i \in 1..n : file'[i] = IF i <= Len(file) THEN file[i] ELSE {}
  <2> DEFINE e(i) == IF i <= Len(file) THEN file[i] ELSE {}
  <2>1. \A i \in 1..n : e(i) \in Byte
    <3>1. ASSUME NEW i \in 1..n
          PROVE  e(i) \in Byte
      <4>1. CASE i <= Len(file)
        BY <1>3, <4>1
      <4>2. CASE ~ (i <= Len(file))
        BY <4>2 DEF Byte
      <4> QED
        BY <4>1, <4>2
    <3> QED
      BY <3>1
  <2> HIDE DEF e
  <2>2. [i \in 1..n |-> e(i)] \in Seq(Byte)
    BY <1>3, <2>1, IsASeq
  <2>3. file' = [i \in 1..n |-> e(i)]
    BY <1>1 DEF e
  <2>4. Len(file') = n /\ \A i \in 1..n : file'[i] = e(i)
    BY <1>3, <2>3
  <2> QED
    BY <2>2, <2>3, <2>4 DEF e
<1>5. LayerTyped'
  <2>1. clean' \in BOOLEAN /\ steady' \in BOOLEAN
    BY <1>2
  <2> QED
    BY <1>2, <1>4, <2>1 DEF LayerInv, LayerTyped
<1>6. ASSUME steady'
      PROVE  Chunked' /\ Requested' /\ Pads'
  <2>1. steady /\ Chunked /\ Pads /\ (tool.at = "off" \/ Len(file') <= Len(file))
    BY <1>2, <1>6 DEF LayerInv
  <2>2. tool.total \in Int /\ Requested'
    BY <1>2, <1>6, Fields DEF LayerInv, Requested
  <2>3. Chunked'
    BY <1>2, <1>3, <1>4, <2>1, <2>2 DEF Chunked, Writing, ChunkAt, Edge
  <2>4. \A i \in 1..n : i <= Len(file) => i \in 1..Len(file)
    BY <1>3
  <2> QED
    BY <1>2, <1>4, <2>1, <2>2, <2>3, <2>4 DEF Pads, Writing, ChunkAt
<1>7. ASSUME clean', steady'
      PROVE  Whole'
  <2>1. clean /\ steady /\ Whole /\ tool.at = "off" /\ n <= Len(file)
    BY <1>2, <1>4, <1>7 DEF LayerInv
  <2>2. \A i \in 1..n : i \in 1..Len(file) /\ i <= Len(file)
    BY <1>3, <2>1
  <2> QED
    BY <1>2, <1>4, <2>1, <2>2 DEF Whole, Writing
<1> QED
  BY <1>5, <1>6, <1>7 DEF LayerInv

(* The tool starts, when the file is not already as it is asked to be. *)
LEMMA RunInv ==
  ASSUME LayerInv, NEW option \in {"e", "d"}, C!Run(option)
  PROVE  LayerInv'
<1>1. /\ UNCHANGED <<file, request, steady, slips>> /\ tool.at = "off" /\ sticky' = FALSE
      /\ sticky <=> option = "d"
      /\ tool' = [at |-> "open", option |-> option, total |-> 0, chunk |-> <<>>, pos |-> 0]
      /\ clean' = (clean /\ request.at = "idle")
  BY DEF C!Run, C!Calm, C!NoRun, LayerInv, LayerTyped
<1>2. /\ tool'.at = "open" /\ tool'.option = option /\ tool'.total = 0 /\ tool'.chunk = <<>>
      /\ tool'.pos = 0 /\ Edge' = 0
  BY <1>1 DEF Edge
<1>3. LayerTyped'
  <2>1. <<>> \in Seq(Byte) /\ 0 \in Int /\ 0 \in Nat
    BY EmptySeq
  <2>2. tool' \in [at : {"off", "open", "read", "first", "second"}, option : {"e", "d"},
                   total : Int, chunk : Seq(Byte), pos : Nat]
    BY <1>1, <2>1
  <2>3. sticky' \in BOOLEAN /\ clean' \in BOOLEAN
    BY <1>1
  <2> QED
    BY <1>1, <1>2, <2>2, <2>3 DEF LayerInv, LayerTyped
<1>4. steady' => Chunked' /\ Requested' /\ Pads'
  BY <1>1, <1>2 DEF LayerInv, Chunked, Requested, Pads, Writing
<1>5. ASSUME clean', steady'
      PROVE  Whole'
  <2>1. clean /\ request.at = "idle" /\ steady /\ Whole
    BY <1>1, <1>5 DEF LayerInv
  <2>2. ASSUME NEW i \in 1..Len(file)
        PROVE  file[i] = Should((option = "e") <=> (i <= 0), i)
    <3>1. file[i] = Should(sticky, i) /\ ~ (i <= 0)
      BY <1>1, <2>1, Fields DEF Whole
    <3>2. sticky <=> ((option = "e") <=> (i <= 0))
      BY <1>1, <3>1
    <3> QED
      BY <3>1, <3>2 DEF Should
  <2>3. 0 <= Len(file)
    BY Fields
  <2> QED
    BY <1>1, <1>2, <2>1, <2>2, <2>3 DEF Whole, Writing
<1> QED
  BY <1>3, <1>4, <1>5 DEF LayerInv

(* The tool opens the file. *)
LEMMA OpenInv ==
  ASSUME LayerInv, C!Open
  PROVE  LayerInv'
<1>1. /\ UNCHANGED <<file, sticky, request, clean, steady, slips>> /\ tool.at = "open"
      /\ tool' = [tool EXCEPT !.at = "read"]
  BY DEF C!Open
<1>2. /\ tool'.at = "read" /\ tool'.option = tool.option /\ tool'.total = tool.total
      /\ tool'.chunk = tool.chunk /\ tool'.pos = tool.pos /\ Edge' = Edge
  BY <1>1 DEF LayerInv, LayerTyped, Edge
<1>3. LayerTyped'
  <2>1. tool' \in [at : {"off", "open", "read", "first", "second"}, option : {"e", "d"},
                   total : Int, chunk : Seq(Byte), pos : Nat]
    BY <1>1 DEF LayerInv, LayerTyped
  <2> QED
    BY <1>1, <1>2, <2>1 DEF LayerInv, LayerTyped
<1>4. ASSUME steady'
      PROVE  Chunked' /\ Requested' /\ Pads'
  <2>1. Chunked /\ Requested /\ Pads /\ tool.total = 0
    BY <1>1, <1>4 DEF LayerInv, Chunked
  <2>2. 0 % Block = 0
    BY Sizes
  <2> QED
    BY <1>1, <1>2, <2>1, <2>2 DEF Chunked, Requested, Pads, Writing
<1>5. clean' /\ steady' => Whole'
  BY <1>1, <1>2 DEF LayerInv, Whole, Writing
<1> QED
  BY <1>3, <1>4, <1>5 DEF LayerInv

(* A call that does all of its work keeps the run steady. *)
LEMMA Slipped ==
  ASSUME LayerInv, NEW whole \in BOOLEAN, C!Slip(whole)
  PROVE  slips' \in Nat /\ steady' \in BOOLEAN /\ steady' = (steady /\ whole)
<1>1. slips \in Nat /\ steady \in BOOLEAN
  BY Fields
<1> QED
  BY <1>1 DEF C!Slip

(* The tool reads a block and transforms it. *)
LEMMA ReadChunkInv ==
  ASSUME LayerInv, C!ReadChunk
  PROVE  LayerInv'
<1> DEFINE g == tool.total
           p == tool.pos
<1>1. PICK k \in 1..C!Half, l \in -1..C!Half :
        /\ k <= C!Rest /\ k + l <= C!Rest /\ (k < C!Half => l = 0)
        /\ tool' = [tool EXCEPT !.at = "first", !.total = @ + k + l,
                                !.chunk = C!Transform(SubSeq(file, p + 1, p + k + l), g),
                                !.pos = IF l < 0 THEN @ + 1 ELSE @]
        /\ C!Slip(k + l = C!Least(Block, C!Rest))
  BY DEF C!ReadChunk
<1> DEFINE n == k + l
           r == SubSeq(file, p + 1, p + n)
           d == C!Transform(r, g)
<1>2. UNCHANGED <<file, sticky, request, clean>> /\ tool.at = "read" /\ C!Rest > 0
  BY DEF C!ReadChunk
<1>3. /\ file \in Seq(Byte) /\ Len(file) \in Nat /\ g \in Int /\ p \in Nat
      /\ C!Half \in Nat /\ Block \in Nat \ {0} /\ Block = 2 * C!Half
      /\ C!Rest = Len(file) - p /\ k \in Nat /\ l \in Int /\ k >= 1 /\ l >= -1
  BY Fields, Sizes DEF C!Rest
<1>4. /\ n \in Nat /\ p + n <= Len(file) /\ p + k + l = p + n /\ g + k + l = g + n
      /\ k <= C!Half /\ l <= C!Half /\ (k < C!Half => l = 0) /\ k <= Len(file) - p
  <2>1. /\ k <= Len(file) - p /\ k + l <= Len(file) - p /\ (k < C!Half => l = 0)
        /\ k <= C!Half /\ l <= C!Half
    BY <1>1, <1>3
  <2> QED
    BY <1>3, <2>1
<1>5. /\ tool'.at = "first" /\ tool'.option = tool.option /\ tool'.total = g + n
      /\ tool'.chunk = d /\ tool'.pos = IF l < 0 THEN p + 1 ELSE p
      /\ tool' \in [at : {"off", "open", "read", "first", "second"}, option : {"e", "d"},
                    total : {g + n}, chunk : {d}, pos : {p, p + 1}]
  BY <1>1, <1>4 DEF LayerInv, LayerTyped
<1>6. slips' \in Nat /\ steady' \in BOOLEAN /\ steady' = (steady /\ n = C!Least(Block, C!Rest))
  <2>1. (n = C!Least(Block, C!Rest)) \in BOOLEAN
    OBVIOUS
  <2> QED
    BY <1>1, <2>1, Slipped
<1>7. ASSUME steady'
      PROVE  /\ steady /\ n >= 1 /\ n <= Block /\ (n = Block \/ p + n = Len(file))
             /\ tool'.pos = p
  <2>1. steady /\ n = C!Least(Block, C!Rest)
    BY <1>6, <1>7, Zenon
  <2>2. n = IF Block < Len(file) - p THEN Block ELSE Len(file) - p
    BY <1>3, <2>1 DEF C!Least
  <2>3. Len(file) - p > 0
    BY <1>2, <1>3
  <2>4. l >= 0 /\ n >= 1 /\ n <= Block /\ (n = Block \/ p + n = Len(file))
    BY <1>3, <1>4, <2>2, <2>3
  <2>5. tool'.pos = p
    BY <1>3, <1>5, <2>4
  <2> QED
    BY <2>1, <2>4, <2>5
<1> HIDE DEF n
<1>8. r \in Seq(Byte) /\ Len(r) = n /\ \A j \in 1..n : r[j] = file[p + j]
  <2>1. p + n \in Nat /\ p <= p + n /\ (p + n) - p = n
    BY <1>3, <1>4
  <2>2. /\ SubSeq(file, p + 1, p + n) \in Seq(Byte)
        /\ Len(SubSeq(file, p + 1, p + n)) = (p + n) - p
        /\ \A j \in 1..((p + n) - p) : SubSeq(file, p + 1, p + n)[j] = file[p + j]
    BY <1>3, <1>4, <2>1, Part
  <2> QED
    BY <2>1, <2>2
<1> HIDE DEF r
<1>9. /\ d \in Seq(Byte) /\ Len(d) = n
      /\ \A j \in 1..n : d[j] = C!Toggle(file[p + j], (g \div Block) * Block + j - 1)
  <2>1. /\ d \in Seq(Byte) /\ Len(d) = Len(r)
        /\ \A j \in 1..Len(r) : d[j] = C!Toggle(r[j], (g \div Block) * Block + j - 1)
    BY <1>3, <1>8, Transformed
  <2> QED
    BY <1>8, <2>1
<1> HIDE DEF d
<1>10. LayerTyped'
  <2>1. g + n \in Int /\ p \in Nat /\ p + 1 \in Nat
    BY <1>3, <1>4
  <2>2. tool' \in [at : {"off", "open", "read", "first", "second"}, option : {"e", "d"},
                   total : Int, chunk : Seq(Byte), pos : Nat]
    BY <1>5, <1>9, <2>1
  <2> QED
    BY <1>2, <1>5, <1>6, <2>2 DEF LayerInv, LayerTyped
<1>11. ChunkAt' = g /\ Edge' = g /\ Writing' /\ \A j \in 1..n : p + j \in 1..Len(file)
  <2>1. ChunkAt' = g
    BY <1>3, <1>4, <1>5, <1>9 DEF ChunkAt
  <2>2. Edge' = g /\ Writing'
    BY <1>5, <2>1 DEF Edge, Writing
  <2>3. \A j \in 1..n : p + j \in 1..Len(file)
    BY <1>3, <1>4
  <2> QED
    BY <2>1, <2>2, <2>3
<1>12. ASSUME steady'
       PROVE  /\ g = p /\ \A j \in 1..n : d[j] = C!Toggle(file[g + j], g + j - 1)
              /\ Chunked' /\ Requested' /\ Pads'
  <2>1. Chunked /\ Requested /\ Pads
    BY <1>7, <1>12 DEF LayerInv
  <2>2. g = p /\ g \in Nat
    BY <1>2, <2>1 DEF Chunked, Edge
  <2>3. g % Block = 0
    BY <1>2, <1>3, <2>1, <2>2 DEF Chunked
  <2>4. Chunked'
    <3>1. n \in Nat /\ (n = Block \/ p + n = Len(file)) /\ tool'.pos = p
      BY <1>4, <1>7, <1>12
    <3>2. g + n \in Nat /\ (n = Block \/ Len(file) <= g + n)
      BY <1>3, <2>2, <3>1
    <3>3. Len(tool'.chunk) = n /\ tool'.total = g + n /\ tool'.at = "first" /\ file' = file
      BY <1>2, <1>5, <1>9
    <3> QED
      BY <1>11, <2>2, <2>3, <3>1, <3>2, <3>3 DEF Chunked
  <2>5. (g \div Block) * Block = g
    BY <2>2, <2>3, BlockOf
  <2>6. \A j \in 1..n : d[j] = C!Toggle(file[g + j], g + j - 1)
    BY <1>9, <2>2, <2>5
  <2>7. ASSUME NEW j \in 1..n
        PROVE  d[j] \subseteq {g + j - 1}
    <3> DEFINE q == g + j - 1
               i == g + j
    <3>1. i \in 1..Len(file) /\ i - 1 = q
      BY <1>3, <1>11, <2>2
    <3>2. d[j] = C!Toggle(file[i], q)
      BY <2>6
    <3> HIDE DEF q, i
    <3>3. file[i] \subseteq {q}
      BY <2>1, <3>1 DEF Pads
    <3>4. d[j] \subseteq {q}
      BY <3>2, <3>3 DEF C!Toggle, C!SymDiff
    <3> QED
      BY <3>4 DEF q
  <2>8. Pads' /\ Requested'
    BY <1>2, <1>5, <1>9, <1>11, <2>1, <2>7 DEF Pads, Requested
  <2> QED
    BY <2>2, <2>4, <2>6, <2>8
<1>13. ASSUME clean', steady'
       PROVE  Whole'
  <2>1. clean /\ steady /\ Whole /\ g = p
    BY <1>2, <1>7, <1>12, <1>13 DEF LayerInv
  <2>2. Edge = g
    BY <1>2 DEF Edge
  <2>3. ASSUME NEW j \in 1..n
        PROVE  d[j] = Should(tool.option = "e", g + j)
    <3>1. ~ (g + j <= g) /\ file[g + j] = Should((tool.option = "e") <=> (g + j <= g), g + j)
      BY <1>2, <1>3, <1>11, <2>1, <2>2 DEF Whole
    <3>2. d[j] = C!Toggle(file[g + j], g + j - 1)
      BY <1>12, <1>13
    <3>3. CASE tool.option = "e"
      <4>1. file[g + j] = {}
        BY <3>1, <3>3 DEF Should
      <4>2. d[j] = {g + j - 1}
        BY <3>2, <4>1, Toggled
      <4> QED
        BY <1>3, <3>3, <4>2 DEF Should
    <3>4. CASE tool.option # "e"
      <4>1. file[g + j] = {g + j - 1}
        BY <1>3, <3>1, <3>4 DEF Should
      <4> QED
        BY <3>2, <3>4, <4>1, Toggled DEF Should
    <3> QED
      BY <3>3, <3>4
  <2>4. g + n <= Len(file)
    BY <1>4, <2>1
  <2> QED
    BY <1>2, <1>5, <1>9, <1>11, <2>1, <2>2, <2>3, <2>4 DEF Whole
<1> QED
  BY <1>10, <1>12, <1>13 DEF LayerInv

(* After a read that fails nothing is promised. *)
LEMMA ReadFailsInv ==
  ASSUME LayerInv, C!ReadFails
  PROVE  LayerInv'
<1> DEFINE b == [j \in 1..C!Half |->
                   IF j \in DOMAIN tool.chunk THEN tool.chunk[j] ELSE C!Plain]
<1>1. /\ UNCHANGED <<file, sticky, request, clean>>
      /\ tool' = [tool EXCEPT !.at = "first", !.total = @ - 1,
                              !.chunk = C!Transform(b, tool.total), !.pos = @ + 1]
      /\ C!Slip(FALSE)
  BY DEF C!ReadFails
<1>2. b \in Seq(Byte)
  <2> DEFINE e(j) == IF j \in DOMAIN tool.chunk THEN tool.chunk[j] ELSE C!Plain
  <2>1. /\ tool.chunk \in Seq(Byte) /\ C!Half \in Nat
    BY Fields, Sizes
  <2>2. \A j \in 1..C!Half : e(j) \in Byte
    BY <2>1 DEF C!Plain, Byte
  <2>3. b = [j \in 1..C!Half |-> e(j)]
    OBVIOUS
  <2> HIDE DEF e, b
  <2> QED
    BY <2>1, <2>2, <2>3, IsASeq
<1> HIDE DEF b
<1>3. C!Transform(b, tool.total) \in Seq(Byte) /\ tool.total - 1 \in Int /\ tool.pos + 1 \in Nat
  <2>1. tool.total \in Int /\ tool.pos \in Nat
    BY Fields
  <2>2. C!Transform(b, tool.total) \in Seq(Byte)
    BY <1>2, <2>1, Transformed
  <2>3. tool.total - 1 \in Int /\ tool.pos + 1 \in Nat
    BY <2>1
  <2> QED
    BY <2>2, <2>3
<1>4. slips' \in Nat /\ steady' = FALSE
  BY <1>1, Slipped
<1>5. tool' \in [at : {"off", "open", "read", "first", "second"}, option : {"e", "d"},
                 total : Int, chunk : Seq(Byte), pos : Nat] /\ tool'.at = "first"
  BY <1>1, <1>3 DEF LayerInv, LayerTyped
<1>6. LayerTyped'
  BY <1>1, <1>4, <1>5 DEF LayerInv, LayerTyped
<1> QED
  BY <1>4, <1>6 DEF LayerInv

(* The tool writes a part of the chunk it has in hand, where it is.        *)
LEMMA ChunkPut ==
  ASSUME LayerInv, NEW a \in Nat, NEW z \in Nat, a <= z, z <= Len(tool.chunk),
         file' = IF z = a THEN file ELSE C!Over(file, SubSeq(tool.chunk, a + 1, z), tool.pos)
  PROVE  /\ file' \in Seq(Byte)
         /\ Len(file') = IF z = a THEN Len(file) ELSE Longer(tool.pos + (z - a), Len(file))
         /\ \A i \in 1..Len(file') :
              file'[i] = IF i > tool.pos /\ i <= tool.pos + (z - a)
                         THEN tool.chunk[i - tool.pos + a]
                         ELSE IF i <= Len(file) THEN file[i] ELSE {}
<1> DEFINE b == tool.chunk
           q == tool.pos
<1>1. /\ file \in Seq(Byte) /\ Len(file) \in Nat /\ b \in Seq(Byte) /\ Len(b) \in Nat /\ q \in Nat
  BY Fields
<1>2. z <= Len(b) /\ file' = IF z = a THEN file ELSE C!Over(file, SubSeq(b, a + 1, z), q)
  OBVIOUS
<1> HIDE DEF b, q
<1>3. CASE z = a
  <2>1. file' = file
    BY <1>2, <1>3
  <2>2. \A i \in 1..Len(file) : ~ (i > q /\ i <= q + (z - a)) /\ i <= Len(file)
    BY <1>1, <1>3
  <2> QED
    BY <1>1, <1>3, <2>1, <2>2 DEF b, q
<1>4. CASE z # a
  <2> DEFINE w == SubSeq(b, a + 1, z)
  <2>1. w \in Seq(Byte) /\ Len(w) = z - a /\ \A j \in 1..(z - a) : w[j] = b[a + j]
    BY <1>1, <1>2, Part
  <2>2. file' = C!Over(file, w, q)
    BY <1>2, <1>4
  <2> HIDE DEF w
  <2>3. /\ file' \in Seq(Byte) /\ Len(file') = Longer(q + (z - a), Len(file))
        /\ \A i \in 1..Longer(q + (z - a), Len(file)) :
             file'[i] = IF i > q /\ i <= q + (z - a) THEN w[i - q]
                        ELSE IF i <= Len(file) THEN file[i] ELSE {}
    <3>1. /\ C!Over(file, w, q) \in Seq(Byte)
          /\ Len(C!Over(file, w, q)) = Longer(q + Len(w), Len(file))
          /\ \A i \in 1..Longer(q + Len(w), Len(file)) :
               C!Over(file, w, q)[i] = IF i > q /\ i <= q + Len(w) THEN w[i - q]
                                       ELSE IF i <= Len(file) THEN file[i] ELSE {}
      BY <1>1, <2>1, PutOver
    <3> QED
      BY <2>1, <2>2, <3>1
  <2>4. ASSUME NEW i \in Int, i > q, i <= q + (z - a)
        PROVE  w[i - q] = b[i - q + a]
    <3>1. i - q \in 1..(z - a) /\ a + (i - q) = i - q + a
      BY <1>1, <2>4, SMTT(30)
    <3> QED
      BY <2>1, <3>1
  <2>5. \A i \in 1..Longer(q + (z - a), Len(file)) : i \in Int
    OBVIOUS
  <2> QED
    BY <1>4, <2>3, <2>4, <2>5 DEF b, q
<1> QED
  BY <1>3, <1>4

(* What it writes is typed well, however much of it was written. *)
LEMMA ChunkTyped ==
  ASSUME LayerInv, NEW there \in {"second", "read"},
         NEW a \in Nat, NEW z \in Nat, a <= z, z <= Len(tool.chunk),
         file' = IF z = a THEN file ELSE C!Over(file, SubSeq(tool.chunk, a + 1, z), tool.pos),
         tool' = [tool EXCEPT !.at = there, !.pos = @ + (z - a)],
         UNCHANGED <<sticky, request, clean>>, slips' \in Nat, steady' \in BOOLEAN,
         there = "second" => C!Half < Len(tool.chunk)
  PROVE  /\ LayerTyped'
         /\ tool'.at = there /\ tool'.option = tool.option /\ tool'.total = tool.total
         /\ tool'.chunk = tool.chunk /\ tool'.pos = tool.pos + (z - a)
<1>1. /\ tool'.at = there /\ tool'.option = tool.option /\ tool'.total = tool.total
      /\ tool'.chunk = tool.chunk /\ tool'.pos = tool.pos + (z - a)
  BY DEF LayerInv, LayerTyped
<1>2. tool.pos + (z - a) \in Nat
  BY Fields
<1>3. tool' \in [at : {"off", "open", "read", "first", "second"}, option : {"e", "d"},
                 total : Int, chunk : Seq(Byte), pos : Nat]
  BY <1>2 DEF LayerInv, LayerTyped
<1>4. file' \in Seq(Byte)
  BY ChunkPut
<1>5. LayerTyped'
  BY <1>1, <1>3, <1>4 DEF LayerInv, LayerTyped
<1> QED
  BY <1>1, <1>5

(* And when all of it was, it is back where it was. *)
LEMMA ChunkWritten ==
  ASSUME LayerInv, steady, Writing, NEW there \in {"second", "read"},
         NEW a \in Nat, NEW z \in Nat, a <= z, z <= Len(tool.chunk),
         file' = IF z = a THEN file ELSE C!Over(file, SubSeq(tool.chunk, a + 1, z), tool.pos),
         tool' = [tool EXCEPT !.at = there, !.pos = @ + (z - a)],
         UNCHANGED <<sticky, request, clean>>, slips' \in Nat, steady' \in BOOLEAN,
         there = "second" => z = C!Half /\ C!Half < Len(tool.chunk),
         there = "read" => z = Len(tool.chunk),
         Edge = ChunkAt + a
  PROVE  LayerInv'
<1> DEFINE b == tool.chunk
           s == ChunkAt
<1>1. /\ Chunked /\ Requested /\ Pads
      /\ file \in Seq(Byte) /\ Len(file) \in Nat
      /\ b \in Seq(Byte) /\ Len(b) \in Nat /\ s \in Nat /\ tool.total \in Nat
      /\ s + Len(b) = tool.total /\ s + a \in Nat /\ z <= Len(b) /\ tool.pos = s + a
  <2>1. /\ file \in Seq(Byte) /\ Len(file) \in Nat /\ b \in Seq(Byte) /\ Len(b) \in Nat
    BY Fields
  <2>2. Chunked /\ Requested /\ Pads
    BY DEF LayerInv
  <2>3. s \in Nat /\ tool.total \in Nat /\ tool.pos = s + a
    BY <2>2 DEF Chunked, Writing
  <2>4. s = tool.total - Len(b)
    BY DEF ChunkAt
  <2> QED
    BY <2>1, <2>2, <2>3, <2>4
<1>2. /\ LayerTyped' /\ tool'.at = there /\ tool'.option = tool.option
      /\ tool'.total = tool.total /\ tool'.chunk = b /\ tool'.pos = tool.pos + (z - a)
  BY ChunkTyped
<1>3. ChunkAt' = s /\ Edge' = s + z /\ tool'.pos = s + z
  <2>1. ChunkAt' = s
    BY <1>2 DEF ChunkAt
  <2>2. tool'.pos = s + z
    BY <1>1, <1>2
  <2>3. CASE there = "second"
    <3>1. z = C!Half /\ tool'.at = "second"
      BY <1>2, <2>3
    <3> QED
      BY <2>1, <2>2, <3>1 DEF Edge
  <2>4. CASE there = "read"
    BY <1>1, <1>2, <2>1, <2>2, <2>4 DEF Edge
  <2> QED
    BY <2>1, <2>2, <2>3, <2>4
<1>4. Edge = s + a
  OBVIOUS
<1>5. /\ Len(file') = IF z = a THEN Len(file) ELSE Longer(s + z, Len(file))
      /\ \A i \in 1..Len(file') :
           file'[i] = IF i > s + a /\ i <= s + z THEN b[i - s]
                      ELSE IF i <= Len(file) THEN file[i] ELSE {}
  <2> DEFINE q == tool.pos
  <2>1. q + (z - a) = s + z /\ q = s + a
    BY <1>1
  <2>2. /\ Len(file') = IF z = a THEN Len(file) ELSE Longer(q + (z - a), Len(file))
        /\ \A i \in 1..Len(file') :
             file'[i] = IF i > q /\ i <= q + (z - a) THEN b[i - q + a]
                        ELSE IF i <= Len(file) THEN file[i] ELSE {}
    BY ChunkPut
  <2> HIDE DEF q, b, s
  <2>3. \A i \in Int : i - q + a = i - s
    BY <1>1, <2>1
  <2>4. \A i \in 1..Len(file') : i \in Int
    OBVIOUS
  <2> QED
    BY <2>1, <2>2, <2>3, <2>4
<1> HIDE DEF b, s
<1>6. /\ Len(file') \in Nat
      /\ Len(file) <= tool.total => Len(file') <= tool.total
      /\ tool.total <= Len(file) => Len(file') = Len(file)
  <2>1. s + z \in Nat /\ s + z <= tool.total
    BY <1>1
  <2> QED
    BY <1>1, <1>5, <2>1 DEF Longer
<1>7. ASSUME NEW i \in Int, i > s + a, i <= s + z
      PROVE  i - s \in 1..Len(b) /\ s + (i - s) = i
  BY <1>1, <1>7
<1>8. Chunked' /\ Requested' /\ Pads'
  <2>1. s % Block = 0 /\ (Len(b) = Block \/ Len(file) <= tool.total)
    BY <1>1 DEF Chunked, b, s
  <2>2. tool.total % Block = 0 \/ Len(file') <= tool.total
    <3>1. CASE Len(b) = Block
      <4>1. (s + Block) % Block = 0
        BY <1>1, <2>1, BlockOf
      <4> QED
        BY <1>1, <3>1, <4>1
    <3>2. CASE Len(file) <= tool.total
      BY <1>6, <3>2
    <3> QED
      BY <2>1, <3>1, <3>2
  <2>3. Chunked'
    BY <1>1, <1>2, <1>3, <1>6, <2>1, <2>2 DEF Chunked, Writing
  <2>4. ASSUME NEW i \in 1..Len(file')
        PROVE  file'[i] \subseteq {i - 1}
    <3>1. CASE i > s + a /\ i <= s + z
      <4>1. i \in Int /\ i - s \in 1..Len(b) /\ s + (i - s) = i
        BY <1>6, <1>7, <3>1
      <4>2. b[i - s] \subseteq {s + (i - s) - 1}
        BY <1>1, <4>1 DEF Pads, b, s
      <4>3. s + (i - s) - 1 = i - 1
        BY <1>1, <4>1
      <4>4. b[i - s] \subseteq {i - 1}
        BY <4>2, <4>3
      <4> QED
        BY <1>5, <3>1, <4>4
    <3>2. CASE ~ (i > s + a /\ i <= s + z) /\ i <= Len(file)
      <4>1. i \in 1..Len(file)
        BY <1>1, <1>6, <3>2
      <4> QED
        BY <1>1, <1>5, <3>2, <4>1 DEF Pads
    <3>3. CASE ~ (i > s + a /\ i <= s + z) /\ ~ (i <= Len(file))
      BY <1>5, <3>3
    <3> QED
      BY <3>1, <3>2, <3>3
  <2>5. Pads'
    BY <1>1, <1>2, <1>3, <2>4 DEF Pads, Writing, b, s
  <2> QED
    BY <1>1, <2>3, <2>5 DEF Requested
<1>9. ASSUME clean
      PROVE  Whole'
  <2>1. Whole /\ tool.at # "off" /\ tool.total <= Len(file) /\ ~ sticky /\ request.at = "idle"
    BY <1>9 DEF LayerInv, Whole, Writing
  <2>2. Len(file') = Len(file)
    BY <1>6, <2>1
  <2>3. ASSUME NEW i \in 1..Len(file)
        PROVE  file'[i] = Should((tool.option = "e") <=> (i <= s + z), i)
    <3>1. CASE i > s + a /\ i <= s + z
      <4>1. i \in Int /\ i - s \in 1..Len(b) /\ s + (i - s) = i
        BY <1>6, <1>7, <3>1
      <4>2. b[i - s] = Should(tool.option = "e", s + (i - s))
        BY <2>1, <4>1 DEF Whole, b, s
      <4>3. b[i - s] = Should(tool.option = "e", i)
        BY <4>1, <4>2
      <4>4. (tool.option = "e") <=> ((tool.option = "e") <=> (i <= s + z))
        BY <3>1
      <4> QED
        BY <1>5, <2>2, <3>1, <4>3, <4>4 DEF Should
    <3>2. CASE ~ (i > s + a /\ i <= s + z)
      <4>1. file'[i] = file[i]
        BY <1>1, <1>5, <2>2, <3>2
      <4>2. file[i] = Should((tool.option = "e") <=> (i <= s + a), i)
        BY <1>4, <2>1 DEF Whole
      <4>3. (i <= s + a) <=> (i <= s + z)
        BY <1>1, <3>2
      <4> QED
        BY <4>1, <4>2, <4>3 DEF Should
    <3> QED
      BY <3>1, <3>2
  <2>4. Writing' => \A j \in 1..Len(b) : b[j] = Should(tool.option = "e", s + j)
    BY <2>1 DEF Whole, b, s
  <2> QED
    BY <1>2, <1>3, <2>1, <2>2, <2>3, <2>4 DEF Whole
<1> QED
  BY <1>2, <1>8, <1>9 DEF LayerInv

(* The two halves of a chunk. *)
LEMMA WriteInv ==
  ASSUME LayerInv, C!WriteFirst \/ C!WriteSecond
  PROVE  LayerInv'
<1> DEFINE n == Len(tool.chunk)
<1>1. n \in Nat /\ C!Half \in Nat /\ tool.pos \in Nat /\ ChunkAt + 0 = ChunkAt
  BY Fields, Sizes
<1>2. CASE C!WriteFirst
  <2> DEFINE there == IF n > C!Half THEN "second" ELSE "read"
  <2>1. PICK k \in 0..C!Least(n, C!Half) :
          /\ file' = IF k = 0 THEN file ELSE C!Over(file, SubSeq(tool.chunk, 1, k), tool.pos)
          /\ tool' = [tool EXCEPT !.at = there, !.pos = @ + k]
          /\ C!Slip(k = C!Least(n, C!Half))
    BY <1>2 DEF C!WriteFirst
  <2>2. tool.at = "first" /\ UNCHANGED <<sticky, request, clean>>
    BY <1>2 DEF C!WriteFirst
  <2>3. k \in Nat /\ k <= n /\ 0 <= k /\ k - 0 = k /\ 0 \in Nat /\ 0 + 1 = 1
    BY <1>1 DEF C!Least
  <2>4. slips' \in Nat /\ steady' \in BOOLEAN /\ steady' = (steady /\ k = C!Least(n, C!Half))
    <3>1. (k = C!Least(n, C!Half)) \in BOOLEAN
      OBVIOUS
    <3> QED
      BY <2>1, <3>1, Slipped
  <2>5. there \in {"second", "read"} /\ (there = "second" => C!Half < n)
    BY <1>1
  <2>6. ASSUME steady'
        PROVE  /\ steady /\ (there = "second" => k = C!Half) /\ (there = "read" => k = n)
    <3>1. steady /\ k = C!Least(n, C!Half)
      BY <2>4, <2>6, Zenon
    <3>2. k = IF n < C!Half THEN n ELSE C!Half
      BY <3>1 DEF C!Least
    <3> QED
      BY <1>1, <3>1, <3>2
  <2>7. Edge = ChunkAt + 0 /\ Writing
    BY <1>1, <2>2 DEF Edge, Writing
  <2> HIDE DEF there
  <2>8. /\ file' = IF k = 0 THEN file
                   ELSE C!Over(file, SubSeq(tool.chunk, 0 + 1, k), tool.pos)
        /\ tool' = [tool EXCEPT !.at = there, !.pos = @ + (k - 0)]
    BY <2>1, <2>3
  <2>9. CASE steady'
    BY <2>2, <2>3, <2>4, <2>5, <2>6, <2>7, <2>8, <2>9, ChunkWritten
  <2>10. CASE ~ steady'
    <3>1. LayerTyped'
      BY <2>2, <2>3, <2>4, <2>5, <2>8, ChunkTyped
    <3> QED
      BY <2>10, <3>1 DEF LayerInv
  <2> QED
    BY <2>9, <2>10
<1>3. CASE C!WriteSecond
  <2> DEFINE h == C!Half
  <2>1. PICK k \in 0..(n - h) :
          /\ file' = IF k = 0 THEN file
                     ELSE C!Over(file, SubSeq(tool.chunk, h + 1, h + k), tool.pos)
          /\ tool' = [tool EXCEPT !.at = "read", !.pos = @ + k]
          /\ C!Slip(k = n - h)
    BY <1>3 DEF C!WriteSecond
  <2>2. tool.at = "second" /\ UNCHANGED <<sticky, request, clean>>
    BY <1>3 DEF C!WriteSecond
  <2>3. /\ k \in Nat /\ h + k \in Nat /\ h <= h + k /\ h + k <= n /\ (h + k) - h = k
        /\ (h + k = h <=> k = 0)
    BY <1>1
  <2>4. slips' \in Nat /\ steady' \in BOOLEAN /\ steady' = (steady /\ k = n - h)
    <3>1. (k = n - h) \in BOOLEAN
      OBVIOUS
    <3> QED
      BY <2>1, <3>1, Slipped
  <2>5. steady' => steady /\ h + k = n
    <3>1. steady' => steady /\ k = n - h
      BY <2>4, Zenon
    <3>2. k = n - h => h + k = n
      BY <1>1
    <3> QED
      BY <3>1, <3>2
  <2>6. Edge = ChunkAt + h /\ Writing
    BY <2>2 DEF Edge, Writing
  <2>7. /\ file' = IF h + k = h THEN file
                   ELSE C!Over(file, SubSeq(tool.chunk, h + 1, h + k), tool.pos)
        /\ tool' = [tool EXCEPT !.at = "read", !.pos = @ + ((h + k) - h)]
    BY <2>1, <2>3
  <2> DEFINE z == h + k
  <2>8. z \in Nat /\ h <= z /\ z <= n /\ (steady' => z = n)
        /\ file' = (IF z = h THEN file
                    ELSE C!Over(file, SubSeq(tool.chunk, h + 1, z), tool.pos))
        /\ tool' = [tool EXCEPT !.at = "read", !.pos = @ + (z - h)]
    BY <2>3, <2>5, <2>7
  <2> HIDE DEF z
  <2>9. CASE steady'
    BY <1>1, <2>2, <2>4, <2>6, <2>8, <2>9, ChunkWritten
  <2>10. CASE ~ steady'
    <3>1. LayerTyped'
      BY <1>1, <2>2, <2>4, <2>8, ChunkTyped
    <3> QED
      BY <2>10, <3>1 DEF LayerInv
  <2> QED
    BY <2>9, <2>10
<1> QED
  BY <1>2, <1>3

(* At the file's end the bit is set, if that was asked for. *)
LEMMA ToolDone ==
  ASSUME LayerInv, C!Complete
  PROVE  LayerInv'
<1>1. /\ UNCHANGED <<file, request, clean, steady, slips>> /\ tool.at = "read"
      /\ C!Rest <= 0
      /\ sticky' = (tool.option = "e")
      /\ tool' = [at |-> "off", option |-> "e", total |-> 0, chunk |-> <<>>, pos |-> 0]
  BY DEF C!Complete, C!NoRun
<1>2. tool'.at = "off" /\ tool'.total = 0 /\ tool'.chunk = <<>>
  BY <1>1
<1>3. LayerTyped'
  <2>1. <<>> \in Seq(Byte) /\ 0 \in Int /\ 0 \in Nat
    BY EmptySeq
  <2>2. tool' \in [at : {"off", "open", "read", "first", "second"}, option : {"e", "d"},
                   total : Int, chunk : Seq(Byte), pos : Nat]
    BY <1>1, <2>1
  <2>3. sticky' \in BOOLEAN
    BY <1>1
  <2> QED
    BY <1>1, <1>2, <2>2, <2>3 DEF LayerInv, LayerTyped
<1>4. steady' => Chunked' /\ Requested' /\ Pads'
  BY <1>1, <1>2 DEF LayerInv, Chunked, Requested, Pads, Writing
<1>5. ASSUME clean', steady'
      PROVE  Whole'
  <2>1. clean /\ request.at = "idle" /\ steady /\ Whole /\ Chunked
    BY <1>1, <1>5 DEF LayerInv, Whole
  <2>2. tool.pos = tool.total /\ Edge = tool.total
    BY <1>1, <2>1 DEF Chunked, Edge
  <2>3. ASSUME NEW i \in 1..Len(file)
        PROVE  file[i] = Should(tool.option = "e", i)
    <3>1. i <= tool.total
      BY <1>1, <2>2, Fields DEF C!Rest
    <3>2. file[i] = Should((tool.option = "e") <=> (i <= Edge), i)
      BY <1>1, <2>1 DEF Whole
    <3> QED
      BY <2>2, <3>1, <3>2 DEF Should
  <2> QED
    BY <1>1, <1>2, <2>1, <2>3 DEF Whole, Writing
<1> QED
  BY <1>3, <1>4, <1>5 DEF LayerInv

(* The tool stops anywhere. *)
LEMMA StopInv ==
  ASSUME LayerInv, C!Stop
  PROVE  LayerInv'
<1>1. /\ UNCHANGED <<file, sticky, request, steady, slips>> /\ clean' = FALSE
      /\ tool' = [at |-> "off", option |-> "e", total |-> 0, chunk |-> <<>>, pos |-> 0]
  BY DEF C!Stop, C!NoRun
<1>2. tool'.at = "off" /\ tool'.total = 0 /\ tool'.chunk = <<>>
  BY <1>1
<1>3. LayerTyped'
  <2>1. <<>> \in Seq(Byte) /\ 0 \in Int /\ 0 \in Nat
    BY EmptySeq
  <2>2. tool' \in [at : {"off", "open", "read", "first", "second"}, option : {"e", "d"},
                   total : Int, chunk : Seq(Byte), pos : Nat]
    BY <1>1, <2>1
  <2> QED
    BY <1>1, <1>2, <2>2 DEF LayerInv, LayerTyped
<1>4. steady' => Chunked' /\ Requested' /\ Pads'
  BY <1>1, <1>2 DEF LayerInv, Requested, Chunked, Pads, Writing
<1> QED
  BY <1>1, <1>3, <1>4 DEF LayerInv

(* No step disturbs the invariant. *)
LEMMA LayerKept ==
  ASSUME LayerInv, [FilesNext]_all
  PROVE  LayerInv'
<1>1. CASE Layer
  <2>1. \/ C!Pread \/ C!Decipher \/ C!Encipher \/ C!Pwrite \/ C!Return \/ C!Truncate
        \/ \E option \in {"e", "d"} : C!Run(option)
        \/ C!Open \/ C!ReadChunk \/ C!ReadFails \/ C!WriteFirst \/ C!WriteSecond \/ C!Complete
        \/ C!Stop
    BY <1>1 DEF Layer, C!Next, C!Tool
  <2>2. CASE C!Pread
    BY <2>2, PreadInv
  <2>3. CASE C!Decipher
    BY <2>3, DecipherInv
  <2>4. CASE C!Encipher
    BY <2>4, EncipherInv
  <2>5. CASE C!Pwrite
    BY <2>5, PwriteInv
  <2>6. CASE C!Return
    BY <2>6, ReturnedInv
  <2>7. CASE C!Truncate
    BY <2>7, TruncateInv
  <2>8. CASE \E option \in {"e", "d"} : C!Run(option)
    BY <2>8, RunInv
  <2>9. CASE C!Open
    BY <2>9, OpenInv
  <2>10. CASE C!ReadChunk
    BY <2>10, ReadChunkInv
  <2>11. CASE C!WriteFirst \/ C!WriteSecond
    BY <2>11, WriteInv
  <2>12. CASE C!Complete
    BY <2>12, ToolDone
  <2>13. CASE C!Stop
    BY <2>13, StopInv
  <2>14. CASE C!ReadFails
    BY <2>14, ReadFailsInv
  <2> QED
    BY <2>1, <2>2, <2>3, <2>4, <2>5, <2>6, <2>7, <2>8, <2>9, <2>10, <2>11, <2>12, <2>13, <2>14
<1>2. CASE UNCHANGED layer
  BY <1>2 DEF layer, LayerInv, LayerTyped, Requested, Chunked, Pads, Whole, Writing, ChunkAt, Edge
<1>3. Layer \/ UNCHANGED layer
  BY DEF FilesNext, Calls, Names, Coder, Ended, all
<1> QED
  BY <1>1, <1>2, <1>3

(* The invariant holds in every state. *)
LEMMA LayerHolds == FilesSpec => []LayerInv
<1>1. FilesInit => LayerInv
  BY LayerInitInv DEF FilesInit
<1>2. LayerInv /\ [FilesNext]_all => LayerInv'
  BY LayerKept
<1> QED
  BY <1>1, <1>2, PTL DEF FilesSpec

(* Whatever calls and runs of the tool do to each other, and wherever a    *)
(* run stops, no byte of a file carries the pad of another position, until *)
(* a call makes the file longer during a run, a request that enciphers     *)
(* begins inside a block, or a read or a write of the tool fails or comes  *)
(* short (cryptoFS.c, protectfile.c).                                      *)
THEOREM PadsStay == FilesSpec => []PadsOwn
<1>1. LayerInv => PadsOwn
  <2> SUFFICES ASSUME LayerInv PROVE PadsOwn
    OBVIOUS
  <2>1. DOMAIN file = 1..Len(file)
    BY Fields
  <2> QED
    BY <2>1 DEF LayerInv, Pads, PadsOwn, C!PadsOwn
<1> QED
  BY <1>1, LayerHolds, PTL

(* As long as calls and runs of the tool keep apart, no run stops early    *)
(* and no read or write of it fails or comes short, the sticky bit says    *)
(* whether the file on disk is enciphered, all of it, and a read that      *)
(* begins at a block returns plain bytes (xmp_read, xmp_write,             *)
(* protectfile.c).                                                         *)
THEOREM BitIsRight == FilesSpec => []BitTells
<1>1. LayerInv => BitTells
  <2> SUFFICES ASSUME LayerInv PROVE BitTells
    OBVIOUS
  <2>1. DOMAIN file = 1..Len(file) /\ DOMAIN request.buf = 1..Len(request.buf)
    BY Fields
  <2>2. C!TypeOK
    BY Fields DEF C!TypeOK, Byte
  <2>3. C!BitTells
    BY <2>1 DEF LayerInv, Whole, Should, C!BitTells, C!Calm
  <2> QED
    BY <2>2, <2>3 DEF BitTells
<1> QED
  BY <1>1, LayerHolds, PTL
=============================================================================
