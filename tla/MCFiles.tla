------------------------------ MODULE MCFiles ------------------------------
(***************************************************************************)
(* The programs about files with two threads, two directories and a file:  *)
(* all calls with one name in a directory, or those that move names with a *)
(* second one; a file of five bytes in blocks of four; and inputs of up to *)
(* eleven of two symbols, whose codes have widths of two, three and four.  *)
(***************************************************************************)
EXTENDS Files, TLC

CONSTANTS t1, t2, root, sub, f

Entry(d, n) == [dir |-> d, name |-> n]

MCTo == {Entry(root, "a"), Entry(sub, "a"), Entry(root, Dot)}

MCOp == t1 :> {"mknod", "symlink", "mkdir", "undelete", "unlink", "rmdir", "link", "rename",
               "truncate", "fsync", "fallocate", "sync", "access", "stat", "readlink",
               "open", "fhopen"}
     @@ t2 :> {"mkfifo", "rename", "setattr"}

MCMovingOp == t1 :> {"link", "rename", "rmdir"} @@ t2 :> {"rename"}

MCMovingFrom == {Entry(root, "b"), Entry(sub, "a")}

MCInit ==
  /\ FilesInit
  /\ \A d \in Dir, n \in Name :
       entry[d][n] = None \/ <<what, d, n>> = <<"names", root, "b">>
                          \/ (what \in {"calls", "names"} /\ n = "a")

\* What the layer promises ends where it is no longer steady, and so do its behaviours.
Followed == what = "layer" => steady

MCSpec == MCInit /\ [][FilesNext]_all
=============================================================================
