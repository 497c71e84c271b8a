------------------------------- MODULE Files -------------------------------
(***************************************************************************)
(* The programs about files: the system calls that change a file system    *)
(* that may be suspended (`what` is "calls"), or those that move names     *)
(* ("names"); the layer that enciphers files and the tool that protects    *)
(* them ("layer"); and the LZW coder ("coder").  They share no state, so a *)
(* behaviour is one of one of them, and the others stay as they begin.     *)
(***************************************************************************)
EXTENDS VfsWrite

CONSTANTS
  MovingOp, MovingFrom,       \* VfsWrite with names that move
  Block, Size, Slips,         \* CryptoFS
  Symbols, Length, ByteBits   \* Lzw

VARIABLES
  what,
  file, sticky, request, tool, clean, steady, slips,
  input, at, taken, trie, node, next, bits, codes, table, next2, prev, pos, got,
  output, strange

layer == <<file, sticky, request, tool, clean, steady, slips>>
coder == <<input, at, taken, trie, node, next, bits, codes, table, next2, prev, pos, got,
           output, strange>>
all == <<what, vars, layer, coder>>

N == INSTANCE VfsWrite WITH Op <- MovingOp, From <- MovingFrom

C == INSTANCE CryptoFS WITH call <- request

L == INSTANCE Lzw

ASSUME LayerAssumption == C!SizesAssumption

FilesInit ==
  /\ what \in {"calls", "names", "layer", "coder"}
  /\ Init /\ C!Init /\ L!Init
  /\ what # "coder" => input = <<0>>

Calls == what = "calls" /\ Next /\ UNCHANGED <<what, layer, coder>>
Names == what = "names" /\ N!Next /\ UNCHANGED <<what, layer, coder>>
Layer == what = "layer" /\ C!Next /\ UNCHANGED <<what, vars, coder>>
Coder == what = "coder" /\ L!Next /\ UNCHANGED <<what, vars, layer>>

\* The coder has ended.
Ended ==
  /\ what = "coder" /\ at \in {"crashed", "incomplete", "overrun"}
  /\ UNCHANGED all

FilesNext == Calls \/ Names \/ Layer \/ Coder \/ Ended

FilesSpec == FilesInit /\ [][FilesNext]_all

(* Nobody waits in a circle, with or without the suspension: see VfsWrite. *)
NobodyStuck == TypeOK /\ NoDeadlock

(* Pads stay at their positions: see CryptoFS. *)
PadsOwn == C!PadsOwn

(* The bit tells whether the file is enciphered: see CryptoFS. *)
BitTells == C!TypeOK /\ C!BitTells

(* What was compressed comes back: see Lzw. *)
WordsReturn == L!TypeOK /\ L!WidthsAgree /\ L!WordsReturn
=============================================================================
