------------------------------ MODULE VfsWrite ------------------------------
(***************************************************************************)
(* The system calls of vfs_syscalls.c that change a file system, while the *)
(* file system may be suspended: what they lock, reference and count, in   *)
(* which order, and what they give back on every path.                     *)
(*                                                                         *)
(* A suspension (external, vfs_write_suspend) first refuses new writers,   *)
(* waits for those it counted, flushes every vnode under its lock, and     *)
(* holds the file system still until it is resumed.  A call that would     *)
(* wait for the end of a suspension with a vnode locked would stop the     *)
(* flush, so calls that have looked a name up ask with V_NOWAIT, give      *)
(* everything back when refused, sleep with nothing, and start again.      *)
(*                                                                         *)
(* A thread's `hand` is what it holds: references and locks of vnodes, a   *)
(* count as a writer, and buffers, files or range locks under `other`.     *)
(***************************************************************************)
EXTENDS Naturals, FiniteSets

CONSTANTS Thread, Dir, File, Root, Name,
          None,          \* no vnode
          Whiteout,      \* an entry that hides a name of the file system below
          Op,            \* Op[t]: the calls thread t makes
          To, From       \* the paths they use, and those link and rename start from

Vnode == Dir \cup File
Dot == "."

\* Calls that look a name up with its directory locked and ask with V_NOWAIT.
Creating == {"mknod", "mkfifo", "symlink", "mkdir"}
Removing == {"unlink", "rmdir"}
\* Calls that look up no directory, or give it back, and wait with V_WAIT.
Waiting == {"setattr", "truncate", "fsync", "fallocate"}
\* Calls that keep the file they find locked while they look at it or open it.
Looking == {"access", "stat", "readlink", "open", "fhopen"}
Opening == {"open", "fhopen"}
\* Calls that may truncate a file.
Truncating == Opening \cup {"truncate"}

\* Every call that is modelled.
Calling == Creating \cup Removing \cup Waiting \cup Looking
             \cup {"undelete", "link", "rename", "sync"}
Path == [dir : Dir, name : Name \cup {Dot}]

(* What an instance must satisfy. *)
ASSUME FilesAssumption ==
  /\ Dir \cap File = {} /\ Root \in Dir
  /\ None \notin Vnode /\ Whiteout \notin Vnode \cup {None}
  /\ Dot \notin Name
  /\ Op \in [Thread -> SUBSET Calling]
  /\ To \subseteq Path /\ From \subseteq Path

VARIABLES call,       \* per thread: op, pc, to, fro, leaf, from

          hand,       \* per thread: refs, locks, writer, other
          entry,      \* [Dir -> [Name -> Vnode, None or Whiteout]]
          doomed,     \* vnodes revoked while referenced
          susp,       \* "no", "asked", "flushing", "suspended"
          flushed     \* vnodes the suspension has flushed

vars == <<call, hand, entry, doomed, susp, flushed>>

Idle == [op |-> "none", pc |-> "user",
         to |-> [dir |-> Root, name |-> Dot], fro |-> [dir |-> Root, name |-> Dot],
         leaf |-> None, from |-> None]
Empty == [refs |-> [v \in Vnode |-> 0], locks |-> {}, writer |-> FALSE, other |-> {}]

Init ==
  /\ call = [t \in Thread |-> Idle]
  /\ hand = [t \in Thread |-> Empty]
  /\ entry \in [Dir -> [Name -> Vnode \cup {None}]]
  /\ \A v \in Dir : Cardinality({l \in Dir \X Name : entry[l[1]][l[2]] = v}) <= 1
  /\ \A d \in Dir, n \in Name : entry[d][n] \notin {d, Root}
  /\ doomed = {} /\ susp = "no" /\ flushed = {}

-----------------------------------------------------------------------------
(* Giving and taking *)

Named(v) == (v = Root) \/ \E d \in Dir, n \in Name : entry[d][n] = v
Referenced(v) == \E t \in Thread : hand[t].refs[v] > 0
Leaf(d, n) == IF entry[d][n] = Whiteout THEN None ELSE entry[d][n]
Unlocked(v) == \A t \in Thread : v \notin hand[t].locks

Vref(h, v) == [h EXCEPT !.refs[v] = @ + 1]
Vrele(h, v) == [h EXCEPT !.refs[v] = @ - 1]
Lock(h, v) == [h EXCEPT !.locks = @ \cup {v}]
\* lockmgr panics when the lock is not held.
Unlock(h, v) == [h EXCEPT !.locks = @ \ {v},
                          !.other = IF v \in h.locks THEN @ ELSE @ \cup {"panic"}]
Vput(h, v) == Vrele(Unlock(h, v), v)
Finish(h) == [h EXCEPT !.writer = FALSE]

\* The directory, unlocked already when it was looked up as "." without LOCKLEAF.
GiveParent(h, d, leaf) == IF leaf = d THEN Vrele(h, d) ELSE Vput(h, d)

Hold(t, h) == hand' = [hand EXCEPT ![t] = h]
Go(t, pc) == call' = [call EXCEPT ![t].pc = pc]
Return(t, h) == Hold(t, h) /\ call' = [call EXCEPT ![t] = Idle]
World == <<entry, doomed, susp, flushed>>

-----------------------------------------------------------------------------
(* Starting a call, and looking names up (namei, external) *)

\* The path the next lookup follows, whether it keeps the directory and the leaf locked.
First(t) == (call[t].op \in {"link", "rename"}) /\ (call[t].from = None)
Target(t) == IF First(t) THEN call[t].fro ELSE call[t].to
LockParent(t) == ~First(t) /\ call[t].op \notin Waiting \cup Looking
LockLeaf(t) == ~First(t) /\ call[t].op \in Removing \cup Looking \cup {"rename"}
WantParent(t) == LockParent(t) \/ (First(t) /\ call[t].op = "rename")
SaveStart(t) == call[t].op = "rename"

\* What a call takes before it looks a name up: symlink copies its text into a buffer, open
\* allocates a file, access may put on the credentials of the real user.
Prelude(op) ==
  CASE op = "symlink" -> {{"text"}}
    [] op \in Opening -> {{"file"}}
    [] op = "access" -> {{}, {"cred"}}
    [] OTHER -> {{}}

\* A call begins; fsync and fallocate use a file that is open, sync the mount, and fhopen
\* locks the vnode of a handle.
Start(t) ==
  /\ call[t].pc = "user"
  /\ \E op \in Op[t], to \in To :
       \E fro \in IF op \in {"link", "rename"} THEN From ELSE {Idle.fro} :
         /\ \A p \in {to, fro} : Named(p.dir)
         /\ \/ /\ op \in {"fsync", "fallocate"}
               /\ to.name # Dot /\ entry[to.dir][to.name] \in File
               /\ Hold(t, [Vref(hand[t], entry[to.dir][to.name]) EXCEPT !.other = {"file"}])
               /\ call' = [call EXCEPT ![t] = [Idle EXCEPT !.op = op, !.pc = "wait",
                                                          !.leaf = entry[to.dir][to.name]]]
            \/ /\ op = "sync"
               /\ Hold(t, hand[t])
               /\ call' = [call EXCEPT ![t] = [Idle EXCEPT !.op = op, !.pc = "found"]]
            \/ /\ op = "fhopen"
               /\ to.name # Dot /\ entry[to.dir][to.name] \in File
               /\ Unlocked(entry[to.dir][to.name])
               /\ LET v == entry[to.dir][to.name] IN
                  /\ Hold(t, [Lock(Vref(hand[t], v), v) EXCEPT !.other = {"file"}])
                  /\ call' = [call EXCEPT ![t] = [Idle EXCEPT !.op = op, !.pc = "found",
                                                             !.leaf = v]]
            \/ /\ op \notin {"fsync", "fallocate", "sync", "fhopen"}
               /\ \E taken \in Prelude(op) : Hold(t, [hand[t] EXCEPT !.other = taken])
               /\ call' = [call EXCEPT ![t] = [Idle EXCEPT !.op = op, !.pc = "parent",
                                                          !.to = to, !.fro = fro]]
  /\ UNCHANGED World

\* namei locks the directory,
LookupParent(t) ==
  LET d == Target(t).dir IN
  /\ call[t].pc = "parent"
  /\ Unlocked(d)
  /\ Hold(t, Lock(Vref(hand[t], d), d))
  /\ Go(t, "leaf")
  /\ UNCHANGED World

\* Mutant of Abandoned: rename keeps the directories of its source.
AbandonedShort(t) ==
  IF call[t].op \in {"link", "rename"} /\ call[t].from # None
  THEN Vrele(hand[t], call[t].from)
  ELSE [hand[t] EXCEPT !.other = {}]

\* What a call gives back when its lookup fails: rename has its source already, link its
\* file, symlink its text, open its file, access the credentials.
Abandoned(t) ==
  LET h == hand[t]
      src == call[t].from
  IN  IF call[t].op = "rename" /\ src # None
      THEN Vrele(Vrele(Vrele(h, call[t].fro.dir), src), call[t].fro.dir)
      ELSE IF call[t].op = "link" /\ src # None
      THEN Vrele(h, src)
      ELSE [h EXCEPT !.other = {}]

\* then the leaf, and keeps of both what the flags ask for; SAVESTART keeps one more
\* reference of the directory.
LookupLeaf(t) ==
  LET p == Target(t)
      d == p.dir
      v == IF p.name = Dot THEN d ELSE Leaf(d, p.name)
      h == hand[t]
      hidden == call[t].op = "undelete" /\ p.name # Dot /\ entry[d][p.name] = Whiteout
      creates == ~First(t) /\ (hidden \/ call[t].op \in Creating \cup {"link", "rename"})
      bare(k) == IF WantParent(t)
                 THEN IF LockParent(t) /\ (v # d \/ LockLeaf(t)) THEN k ELSE Unlock(k, d)
                 ELSE Vput(k, d)
      saved(k) == IF SaveStart(t) THEN Vref(k, d) ELSE k
      leaved(k) == IF v = None THEN k
                   ELSE IF LockLeaf(t) THEN Lock(Vref(k, v), v) ELSE Vref(k, v)
  IN
  /\ call[t].pc = "leaf"
  /\ UNCHANGED World
  /\ \/ \* no such name, or none may be made here, or another error
        /\ \/ (v = None /\ ~creates) \/ ~Named(d)
        /\ Return(t, LET a == [Abandoned(t) EXCEPT !.locks = @ \ {d}]
                     IN  Vrele(a, d))
     \/ /\ Named(d)
        /\ v = None => creates
        /\ v # None /\ v # d => Unlocked(v)
        /\ Hold(t, leaved(saved(bare(h))))
        /\ call' = [call EXCEPT ![t] =
             IF First(t) THEN [@ EXCEPT !.from = v,
                                        !.pc = IF call[t].op = "link" /\ v \in Dir THEN "isdir"
                                               ELSE "parent"]
             ELSE [@ EXCEPT !.leaf = v,
                            !.pc = IF call[t].op \in Waiting THEN "wait" ELSE "found"]]

-----------------------------------------------------------------------------
(* Writers and the suspension (vn_start_write, external) *)

CanWrite == susp = "no"

Touch(S) == flushed' = flushed \ S

\* Counted as a writer, a call may change the file system.
Counted(t) ==
  /\ Hold(t, [hand[t] EXCEPT !.writer = TRUE])
  /\ Go(t, "vop")
  /\ UNCHANGED World

\* Mutant of Refused: the caller sleeps with what it holds.
RefusedHolding(t, h) ==
  /\ Hold(t, hand[t])
  /\ call' = [call EXCEPT ![t].pc = "xsleep", ![t].leaf = None, ![t].from = None]
  /\ UNCHANGED World

\* Refused with V_NOWAIT, it sleeps with what is left in its hand,
Refused(t, h) ==
  /\ Hold(t, h)
  /\ call' = [call EXCEPT ![t].pc = "xsleep", ![t].leaf = None, ![t].from = None]
  /\ UNCHANGED World

\* Mutant of XSleep: the lookup is not made again.
XSleepLate(t) ==
  /\ call[t].pc = "xsleep"
  /\ \/ CanWrite /\ Hold(t, hand[t]) /\ Go(t, "found")
     \/ Return(t, [hand[t] EXCEPT !.other = {}])
  /\ UNCHANGED World

\* until the suspension is over, and starts again, or until a signal ends the call.
XSleep(t) ==
  /\ call[t].pc = "xsleep"
  /\ \/ CanWrite /\ Hold(t, hand[t]) /\ Go(t, "parent")
     \/ Return(t, [hand[t] EXCEPT !.other = {}])
  /\ UNCHANGED World

Found(t, op) == call[t].pc = "found" /\ call[t].op = op
Vop(t, op) == call[t].pc = "vop" /\ call[t].op = op

-----------------------------------------------------------------------------
(* Making a name *)

\* kern_mkfifoat and the others: an existing name is an error; otherwise the directory
\* stays locked from the lookup to the operation.
Create(t, op, kind) ==
  LET d == call[t].to.dir
      n == call[t].to.name
      leaf == call[t].leaf
      h == hand[t]
      done(k) == [k EXCEPT !.other = {}]
  IN
  \/ /\ Found(t, op) /\ leaf # None
     /\ Return(t, done(Vrele(GiveParent(h, d, leaf), leaf)))
     /\ UNCHANGED World
  \/ /\ Found(t, op) /\ leaf = None
     /\ IF CanWrite THEN Counted(t) ELSE Refused(t, Vput(h, d))
  \/ /\ Vop(t, op)
     /\ \/ \E v \in kind :
             /\ ~Named(v) /\ ~Referenced(v)
             /\ v \in Dir => \A m \in Name : entry[v][m] = None
             /\ entry' = [entry EXCEPT ![d][n] = v]
             /\ doomed' = doomed \ {v}
             /\ Touch({d, v})
        \/ UNCHANGED <<entry, doomed, flushed>>
     /\ Return(t, done(Finish(Vput(h, d))))
     /\ UNCHANGED susp

Mkfifo(t) == Create(t, "mkfifo", File)
Mkdir(t) == Create(t, "mkdir", Dir \ {Root})
Symlink(t) == Create(t, "symlink", File)

\* A device, or a whiteout.
Mknod(t) ==
  \/ Create(t, "mknod", File)
  \/ /\ Vop(t, "mknod")
     /\ entry' = [entry EXCEPT ![call[t].to.dir][call[t].to.name] = Whiteout]
     /\ Touch({call[t].to.dir})
     /\ Return(t, Finish(Vput(hand[t], call[t].to.dir)))
     /\ UNCHANGED <<doomed, susp>>

Undelete(t) ==
  LET d == call[t].to.dir
      leaf == call[t].leaf
      h == hand[t]
      given == GiveParent(h, d, leaf)
  IN
  \/ /\ Found(t, "undelete") /\ leaf # None
     /\ Return(t, Vrele(given, leaf))
     /\ UNCHANGED World
  \/ /\ Found(t, "undelete") /\ leaf = None
     /\ IF CanWrite THEN Counted(t) ELSE Refused(t, Vput(h, d))
  \/ /\ Vop(t, "undelete")
     /\ entry' = [entry EXCEPT ![d][call[t].to.name] = None]
     /\ Touch({d})
     /\ Return(t, Finish(Vput(h, d)))
     /\ UNCHANGED <<doomed, susp>>

-----------------------------------------------------------------------------
(* Removing a name *)

\* Directory and leaf, locked both, or one vnode with two references.
GiveBoth(h, d, leaf) ==
  IF leaf = d THEN Vrele(Vput(h, d), leaf) ELSE Vput(Vput(h, d), leaf)

Unlink(t) ==
  LET d == call[t].to.dir
      leaf == call[t].leaf
      given == GiveBoth(hand[t], d, leaf)
  IN
  \/ /\ Found(t, "unlink") /\ leaf \in Dir
     /\ Return(t, given)
     /\ UNCHANGED World
  \/ /\ Found(t, "unlink") /\ leaf \notin Dir
     /\ IF CanWrite THEN Counted(t) ELSE Refused(t, given)
  \/ /\ Vop(t, "unlink")
     /\ \/ entry' = [entry EXCEPT ![d][call[t].to.name] = None] /\ Touch({d, leaf})
        \/ UNCHANGED <<entry, flushed>>
     /\ Return(t, Finish(given))
     /\ UNCHANGED <<doomed, susp>>

Rmdir(t) ==
  LET d == call[t].to.dir
      leaf == call[t].leaf
      given == GiveBoth(hand[t], d, leaf)
      bad == leaf \notin Dir \/ leaf = d \/ leaf = Root
  IN
  \/ /\ Found(t, "rmdir") /\ bad
     /\ Return(t, given)
     /\ UNCHANGED World
  \/ /\ Found(t, "rmdir") /\ ~bad
     /\ IF CanWrite THEN Counted(t) ELSE Refused(t, given)
  \/ /\ Vop(t, "rmdir")
     /\ \/ /\ \A m \in Name : entry[leaf][m] = None
           /\ entry' = [entry EXCEPT ![d][call[t].to.name] = None]
           /\ Touch({d, leaf})
        \/ UNCHANGED <<entry, flushed>>
     /\ Return(t, Finish(given))
     /\ UNCHANGED <<doomed, susp>>

-----------------------------------------------------------------------------
(* Two names *)

\* The file is referenced, the directory of its new name locked; then the file is locked.
Link(t) ==
  LET d == call[t].to.dir
      leaf == call[t].leaf
      from == call[t].from
      h == hand[t]
      both == Vput(Vput(h, from), d)
  IN
  \/ /\ call[t].pc = "isdir"
     /\ Return(t, Vrele(h, from))
     /\ UNCHANGED World
  \/ /\ Found(t, "link") /\ leaf # None
     /\ Return(t, Vrele(Vrele(GiveParent(h, d, leaf), leaf), from))
     /\ UNCHANGED World
  \/ /\ Found(t, "link") /\ leaf = None /\ from \in doomed
     /\ Hold(t, Vrele(Vput(h, d), from))
     /\ call' = [call EXCEPT ![t].pc = "parent", ![t].from = None]
     /\ UNCHANGED World
  \/ /\ Found(t, "link") /\ leaf = None /\ from \notin doomed
     /\ Unlocked(from)
     /\ Hold(t, Lock(h, from))
     /\ Go(t, "source")
     /\ UNCHANGED World
  \/ /\ call[t].pc = "source"
     /\ \/ Return(t, both) /\ UNCHANGED World                  \* can_hardlink refuses
        \/ IF CanWrite THEN Counted(t) ELSE Refused(t, both)
  \/ /\ Vop(t, "link")
     /\ \/ /\ Named(from)
           /\ entry' = [entry EXCEPT ![d][call[t].to.name] = from]
           /\ Touch({d, from})
        \/ UNCHANGED <<entry, flushed>>
     /\ Return(t, Vrele(Finish(Vput(Unlock(h, from), d)), from))
     /\ UNCHANGED <<doomed, susp>>

\* What rename gives back when it was refused or finds an error: the target locked, the
\* source and its directory, and the directories the lookups started from.
GiveRename(t) ==
  LET tdvp == call[t].to.dir
      tvp == call[t].leaf
      fdvp == call[t].fro.dir
      target == IF tvp = None THEN Vput(hand[t], tdvp)
                ELSE GiveBoth(hand[t], tdvp, tvp)
  IN  Vrele(Vrele(Vrele(Vrele(target, fdvp), call[t].from), tdvp), fdvp)

\* VOP_RENAME (external) moves the name if the source, which is not locked, is still there
\* and can be locked, and gives back source and target either way.
Rename(t) ==
  LET tdvp == call[t].to.dir
      tvp == call[t].leaf
      fdvp == call[t].fro.dir
      fvp == call[t].from
      bad == \/ tvp # None /\ ((fvp \in Dir) # (tvp \in Dir))
             \/ fvp = tdvp \/ fvp = tvp
      free(v) == \A u \in Thread \ {t} : v \notin hand[u].locks
      \* a directory is not moved into itself
      moves == /\ call[t].to.name # Dot /\ call[t].fro.name # Dot
               /\ entry[fdvp][call[t].fro.name] = fvp
               /\ free(fdvp) /\ free(fvp)
               /\ tvp \in Dir => \A m \in Name : entry[tvp][m] = None
               /\ fvp \in Dir => \A m \in Name : entry[fvp][m] # tdvp
  IN
  \/ /\ Found(t, "rename") /\ ~CanWrite
     /\ Refused(t, GiveRename(t))
  \/ /\ Found(t, "rename") /\ CanWrite /\ bad
     /\ Return(t, GiveRename(t))
     /\ UNCHANGED World
  \/ /\ Found(t, "rename") /\ ~bad /\ CanWrite
     /\ Counted(t)
  \/ /\ Vop(t, "rename")
     /\ \/ /\ moves
           /\ entry' = [entry EXCEPT ![tdvp][call[t].to.name] = fvp,
                                     ![fdvp][call[t].fro.name] = None]
           /\ Touch({tdvp, fdvp, fvp} \cup ({tvp} \ {None}))
        \/ UNCHANGED <<entry, flushed>>
     /\ Return(t, Finish(GiveRename(t)))
     /\ UNCHANGED <<doomed, susp>>

-----------------------------------------------------------------------------
(* Calls that wait for the end of a suspension before they lock *)

\* What such a call holds beside the vnode's lock: the reference of its lookup, or the
\* file it was given, and the range lock of truncate.
GiveWaiting(t, h) ==
  [Vrele(h, call[t].leaf) EXCEPT !.other = {}]

RangeFree(v) == \A u \in Thread : "range" \in hand[u].other => call[u].leaf # v

\* truncate, and the truncation of an opened file (vn_truncate, external), lock the range
\* of the file first.
RangeLock(t) ==
  /\ call[t].pc = "wait" /\ call[t].op \in Truncating /\ "range" \notin hand[t].other
  /\ RangeFree(call[t].leaf)
  /\ Hold(t, [hand[t] EXCEPT !.other = @ \cup {"range"}])
  /\ Go(t, "wait")
  /\ UNCHANGED World

\* vn_start_write with V_WAIT | PCATCH.
Wait(t) ==
  /\ call[t].pc = "wait"
  /\ call[t].op \in Truncating => "range" \in hand[t].other
  /\ \/ CanWrite /\ Hold(t, [hand[t] EXCEPT !.writer = TRUE]) /\ Go(t, "lock")
     \/ Return(t, GiveWaiting(t, hand[t]))
  /\ UNCHANGED World

LockVnode(t) ==
  /\ call[t].pc = "lock"
  /\ Unlocked(call[t].leaf)
  /\ Hold(t, Lock(hand[t], call[t].leaf))
  /\ Go(t, "vop")
  /\ UNCHANGED World

\* The attributes of a vnode (setfflags, setfmode, setfown, setutimes) or its size change,
\* unless the call is refused or the vnode is doomed; fsync writes it.
Change(t, op) ==
  LET v == call[t].leaf
      given == GiveWaiting(t, Finish(Unlock(hand[t], v)))
  IN
  /\ Vop(t, op)
  /\ \/ v \notin doomed /\ Touch({v})
     \/ UNCHANGED flushed
  /\ Return(t, given)
  /\ UNCHANGED <<entry, doomed, susp>>

Setattr(t) == Change(t, "setattr")
Truncate(t) == Change(t, "truncate")
Fsync(t) == Change(t, "fsync")

-----------------------------------------------------------------------------
(* Calls that look at a file, and the opening of one *)

\* The file is looked at, and given back with what the call took at its beginning.
Look(t, op) ==
  /\ Found(t, op)
  /\ Return(t, [Vput(hand[t], call[t].leaf) EXCEPT !.other = {}])
  /\ UNCHANGED World

Access(t) == Look(t, "access")
Stat(t) == Look(t, "stat")
Readlink(t) == Look(t, "readlink")

\* An open that fails gives its file and the vnode back; one that succeeds gives them to the
\* table of the process.  With O_TRUNC the file is truncated in between, unlocked at first.
OpenFile(t, op) ==
  LET v == call[t].leaf IN
  \/ Look(t, op)
  \/ /\ Found(t, op) /\ v \in File
     /\ Hold(t, Unlock(hand[t], v))
     /\ Go(t, "wait")
     /\ UNCHANGED World
  \/ Change(t, op)

Open(t) == OpenFile(t, "open")
Fhopen(t) == OpenFile(t, "fhopen")

-----------------------------------------------------------------------------
(* Allocation in rounds, and sync *)

\* Mutant of Fallocate: only the first round is counted.
FallocateUncounted(t) ==
  LET v == call[t].leaf
      h == Finish(Unlock(hand[t], v))
  IN
  /\ Vop(t, "fallocate")
  /\ UNCHANGED <<entry, doomed, susp>>
  /\ \/ /\ v \notin doomed
        /\ Touch({v})
        /\ \/ Return(t, GiveWaiting(t, h))
           \/ Hold(t, h) /\ Go(t, "lock")
     \/ Return(t, GiveWaiting(t, h)) /\ UNCHANGED flushed

\* posix_fallocate allocates in rounds, each counted as a writer of its own; a doomed
\* vnode ends it.
Fallocate(t) ==
  LET v == call[t].leaf
      h == Finish(Unlock(hand[t], v))
  IN
  /\ Vop(t, "fallocate")
  /\ UNCHANGED <<entry, doomed, susp>>
  /\ \/ /\ v \notin doomed
        /\ Touch({v})
        /\ \/ Return(t, GiveWaiting(t, h))
           \/ Hold(t, h) /\ Go(t, "wait")
     \/ Return(t, GiveWaiting(t, h)) /\ UNCHANGED flushed

\* sync skips a file system that is suspended.
Sync(t) ==
  \/ /\ Found(t, "sync")
     /\ IF CanWrite THEN Counted(t) ELSE Return(t, hand[t]) /\ UNCHANGED World
  \/ /\ Vop(t, "sync")
     /\ Return(t, Finish(hand[t]))
     /\ UNCHANGED World

-----------------------------------------------------------------------------
(* The suspension and revocations (external) *)

Suspend ==
  /\ susp = "no"
  /\ susp' = "asked"
  /\ UNCHANGED <<call, hand, entry, doomed, flushed>>

Drained ==
  /\ susp = "asked"
  /\ \A t \in Thread : ~hand[t].writer
  /\ susp' = "flushing"
  /\ UNCHANGED <<call, hand, entry, doomed, flushed>>

\* The flush locks each vnode in turn.
Flush(v) ==
  /\ susp = "flushing"
  /\ v \notin flushed
  /\ Unlocked(v)
  /\ flushed' = flushed \cup {v}
  /\ susp' = IF flushed' = Vnode THEN "suspended" ELSE susp
  /\ UNCHANGED <<call, hand, entry, doomed>>

Resume ==
  /\ susp = "suspended"
  /\ susp' = "no" /\ flushed' = {}
  /\ UNCHANGED <<call, hand, entry, doomed>>

\* A file is revoked: its names go, references to it stay.
Revoke(v) ==
  /\ susp = "no" /\ Named(v) /\ Unlocked(v)
  /\ doomed' = doomed \cup {v}
  /\ entry' = [d \in Dir |-> [n \in Name |-> IF entry[d][n] = v THEN None ELSE entry[d][n]]]
  /\ UNCHANGED <<call, hand, susp, flushed>>

Step(t) ==
  \/ LookupParent(t) \/ LookupLeaf(t) \/ XSleep(t)
  \/ Mknod(t) \/ Mkfifo(t) \/ Symlink(t) \/ Mkdir(t) \/ Undelete(t)
  \/ Unlink(t) \/ Rmdir(t) \/ Link(t) \/ Rename(t)
  \/ RangeLock(t) \/ Wait(t) \/ LockVnode(t)
  \/ Access(t) \/ Stat(t) \/ Readlink(t) \/ Open(t) \/ Fhopen(t)
  \/ Setattr(t) \/ Truncate(t) \/ Fsync(t) \/ Fallocate(t) \/ Sync(t)

Next ==
  \/ \E t \in Thread : Start(t) \/ Step(t)
  \/ Suspend \/ Drained \/ Resume
  \/ \E v \in Vnode : Flush(v)
  \/ \E v \in File : Revoke(v)

Spec == Init /\ [][Next]_vars

-----------------------------------------------------------------------------
TypeOK ==
  /\ \A t \in Thread :
       /\ hand[t].refs \in [Vnode -> 0..6]
       /\ hand[t].locks \subseteq Vnode
       /\ hand[t].writer \in BOOLEAN
       /\ hand[t].other \subseteq {"text", "file", "range", "cred"}
       /\ \A v \in hand[t].locks : hand[t].refs[v] > 0
       /\ \A u \in Thread \ {t} : hand[t].locks \cap hand[u].locks = {}
  /\ entry \in [Dir -> [Name -> Vnode \cup {None, Whiteout}]]
  /\ doomed \subseteq File
  /\ susp \in {"no", "asked", "flushing", "suspended"}
  /\ flushed \subseteq Vnode

\* A call returns with nothing in its hand, on every path: refused, interrupted by a
\* signal, started again or failed at any of its steps.
CallsReturnClean == \A t \in Thread : call[t].pc = "user" => hand[t] = Empty

\* When an operation changes a directory, the name is as the lookup found it: nobody took
\* it, made it or removed it since, across the sleeps and fresh starts in between.
NamesCurrent ==
  \A t \in Thread :
    LET c == call[t] IN
    c.pc = "vop" /\ c.op \notin Waiting \cup Looking \cup {"sync"}
      => /\ c.to.dir \in hand[t].locks
         /\ c.to.name # Dot => Leaf(c.to.dir, c.to.name) = c.leaf

\* A suspended file system is as it was flushed: no call that was counted before, or
\* slipped in later, changed a vnode after it was flushed.
SuspendedIsFlushed == susp = "suspended" => flushed = Vnode

\* Who waits for whom: threads for locks, and for the suspension; the suspension for the
\* writers it counted, and for locks.
Suspender == "suspender"
Waits(a, b) ==
  \/ /\ a \in Thread /\ b \in Thread
     /\ LET c == call[a] IN
        \/ c.pc = "parent" /\ Target(a).dir \in hand[b].locks
        \/ /\ c.pc = "leaf" /\ Target(a).name # Dot /\ a # b
           /\ Leaf(Target(a).dir, Target(a).name) \in hand[b].locks
        \/ Found(a, "link") /\ c.leaf = None /\ c.from \in hand[b].locks
        \/ c.pc = "lock" /\ c.leaf \in hand[b].locks
        \/ /\ c.pc = "wait" /\ c.op \in Truncating /\ "range" \notin hand[a].other
           /\ "range" \in hand[b].other /\ call[b].leaf = c.leaf
  \/ a \in Thread /\ b = Suspender /\ susp # "no" /\ call[a].pc \in {"xsleep", "wait"}
  \/ a = Suspender /\ b \in Thread
     /\ \/ susp = "asked" /\ hand[b].writer
        \/ susp = "flushing" /\ hand[b].locks \ flushed # {}

\* No group of threads, with or without the suspension, waits within itself: nobody waits
\* for the end of a suspension with a vnode locked or counted as a writer, and vnodes are
\* locked from directories to their entries.
NoDeadlock ==
  ~ \E S \in (SUBSET (Thread \cup {Suspender})) \ {{}} :
      \A a \in S : \E b \in S : Waits(a, b)
=============================================================================
