------------------------------ MODULE CryptoFS ------------------------------
(***************************************************************************)
(* Protected files: the file system layer that deciphers what it reads and *)
(* enciphers what it writes when a file's sticky bit is set (cryptoFS.c),  *)
(* and the tool that transforms a file in place and sets the bit           *)
(* (protectfile.c).  Neither locks the file, and the tool can stop at any  *)
(* point.  A read or a write of the tool that fails or comes short does    *)
(* not stop it: it goes on from wherever the file descriptor is.           *)
(*                                                                         *)
(* The cipher is a key stream: byte i of a file has a pad of its own, that *)
(* of byte i % 16 of block i / 16, and the transformation adds it if it is *)
(* absent and removes it if it is there.  Of a byte the model keeps the    *)
(* positions of the pads it carries; the inode and the key are constant.   *)
(***************************************************************************)
EXTENDS Integers, FiniteSets, SequencesExt

CONSTANTS
  Block,   \* 16; the tool reads and writes it by halves of 8
  Size,    \* the file's first length, and the largest request
  Slips    \* how many reads and writes of the tool may fail or come short

(* A block has two halves. *)
SizesAssumption == Block \in Nat \ {0} /\ Block % 2 = 0 /\ Size \in Nat /\ Slips \in Nat

VARIABLES
  file,    \* the bytes on disk
  sticky,  \* S_ISTXT
  call,    \* the layer's call: at, offset, its buffer, the bit it saw
  tool,    \* the run of the tool: at, option, total, its data, the file position
  clean,   \* no call and run overlapped, no run stopped early, no hole was made
  steady,  \* no call made the file longer during a run or enciphered from within a
           \* block, and no read or write of the tool failed or came short
  slips

vars == <<file, sticky, call, tool, clean, steady, slips>>

Half == Block \div 2
Least(m, n) == IF m < n THEN m ELSE n
Plain == {}
Toggle(b, i) == SymDiff(b, {i})

NoCall == [at |-> "idle", offset |-> 0, buf |-> <<>>]
NoRun == [at |-> "off", option |-> "e", total |-> 0, chunk |-> <<>>, pos |-> 0]

Init ==
  /\ file = [i \in 1..Size |-> Plain]
  /\ sticky = FALSE
  /\ call = NoCall /\ tool = NoRun /\ clean = TRUE /\ steady = TRUE
  /\ slips = 0

Calm == tool.at = "off" /\ call.at = "idle"

-----------------------------------------------------------------------------
(* The layer *)

\* Mutant of Transform: the counter does not advance within a request.
TransformSame(buf, offset) ==
  [j \in DOMAIN buf |-> Toggle(buf[j], (offset \div Block) * Block + ((j - 1) % Block))]

\* The loop of xmp_read and xmp_write: the counter starts with the block of the offset and
\* the first byte of the buffer gets the first pad of it, wherever in the block it belongs.
Transform(buf, offset) ==
  [j \in DOMAIN buf |-> Toggle(buf[j], (offset \div Block) * Block + j - 1)]

(* A request may begin anywhere. *)
Offsets == 0..Size

\* xmp_read: the bytes are read before the bit is looked at.
Pread ==
  /\ call.at = "idle"
  /\ \E o \in Offsets, n \in 1..Size :
       /\ o + n <= Len(file)
       /\ call' = [at |-> "read", offset |-> o, buf |-> SubSeq(file, o + 1, o + n)]
  /\ clean' = (clean /\ Calm)
  /\ UNCHANGED <<file, sticky, tool, steady, slips>>

Decipher ==
  /\ call.at = "read"
  /\ call' = [call EXCEPT !.at = "returned",
                          !.buf = IF sticky THEN Transform(@, call.offset) ELSE @]
  /\ UNCHANGED <<file, sticky, tool, clean, steady, slips>>

\* xmp_write: the bit is looked at, and the buffer transformed, before the file is opened.
Encipher ==
  /\ call.at = "idle"
  /\ \E o \in Offsets, n \in 1..Size :
       /\ o + n <= Size /\ o <= Len(file)
       /\ LET buf == [j \in 1..n |-> Plain]
          IN  call' = [at |-> "write", offset |-> o,
                       buf |-> IF sticky THEN Transform(buf, o) ELSE buf]
       /\ steady' = (steady /\ (sticky => o % Block = 0))
  /\ clean' = (clean /\ Calm)
  /\ UNCHANGED <<file, sticky, tool, slips>>

\* Bytes put over the file at an offset; in front of them a hole reads as zeros.
Over(s, buf, offset) ==
  [i \in 1..(IF offset + Len(buf) > Len(s) THEN offset + Len(buf) ELSE Len(s)) |->
     IF i > offset /\ i <= offset + Len(buf) THEN buf[i - offset]
     ELSE IF i <= Len(s) THEN s[i] ELSE Plain]

Steady == steady /\ (tool.at = "off" \/ Len(file') <= Len(file))

\* The file system may take fewer bytes than it is given, or fail.
Pwrite ==
  /\ call.at = "write"
  /\ \E n \in 0..Len(call.buf) :
       file' = IF n = 0 THEN file ELSE Over(file, SubSeq(call.buf, 1, n), call.offset)
  /\ clean' = (clean /\ call.offset <= Len(file))
  /\ steady' = Steady
  /\ call' = NoCall
  /\ UNCHANGED <<sticky, tool, slips>>

Return ==
  /\ call.at = "returned"
  /\ call' = NoCall
  /\ UNCHANGED <<file, sticky, tool, clean, steady, slips>>

\* xmp_truncate: what it adds is a hole.
Truncate ==
  /\ call.at = "idle"
  /\ \E n \in 0..Size :
       file' = [i \in 1..n |-> IF i <= Len(file) THEN file[i] ELSE Plain]
  /\ clean' = (clean /\ Calm /\ Len(file') <= Len(file))
  /\ steady' = Steady
  /\ UNCHANGED <<sticky, call, tool, slips>>

-----------------------------------------------------------------------------
(* The tool *)

\* It does nothing for a file that has the bit already, or has not; else it first clears
\* the bit (when it cannot, it exits and nothing has changed), and only then opens the
\* file, which can fail.
Run(option) ==
  /\ tool.at = "off" /\ sticky = (option = "d")
  /\ sticky' = FALSE
  /\ tool' = [NoRun EXCEPT !.at = "open", !.option = option]
  /\ clean' = (clean /\ Calm)
  /\ UNCHANGED <<file, call, steady, slips>>

Open ==
  /\ tool.at = "open"
  /\ tool' = [tool EXCEPT !.at = "read"]
  /\ UNCHANGED <<file, sticky, call, clean, steady, slips>>

\* A read or a write that does not do all of its work is not steady, and bounded.
Slip(whole) ==
  /\ whole \/ slips < Slips
  /\ slips' = IF whole THEN slips ELSE slips + 1
  /\ steady' = (steady /\ whole)

Rest == Len(file) - tool.pos

\* Mutant of ReadChunk: every block gets the pads of the first.
ReadUnpadded ==
  /\ tool.at = "read" /\ Rest > 0
  /\ \E k \in 1..Half, l \in -1..Half :
       /\ k <= Rest /\ k + l <= Rest /\ (k < Half => l = 0)
       /\ tool' = [tool EXCEPT !.at = "first", !.total = @ + k + l,
                               !.chunk = Transform(SubSeq(file, tool.pos + 1, tool.pos + k + l), 0),
                               !.pos = IF l < 0 THEN @ + 1 ELSE @]
       /\ Slip(k + l = Least(Block, Rest))
  /\ UNCHANGED <<file, sticky, call, clean>>

\* The two halves of a block are read by two calls, the second one only after a whole half;
\* when it fails, count loses one.  What was read gets the pads of the block of the total
\* so far, and the position goes back by count.
ReadChunk ==
  /\ tool.at = "read" /\ Rest > 0
  /\ \E k \in 1..Half, l \in -1..Half :
       /\ k <= Rest /\ k + l <= Rest /\ (k < Half => l = 0)
       /\ tool' = [tool EXCEPT
                     !.at = "first", !.total = @ + k + l,
                     !.chunk = Transform(SubSeq(file, tool.pos + 1, tool.pos + k + l), tool.total),
                     !.pos = IF l < 0 THEN @ + 1 ELSE @]
       /\ Slip(k + l = Least(Block, Rest))
  /\ UNCHANGED <<file, sticky, call, clean>>

\* The first call fails: count is -1, which the loop takes for a length.  The position goes
\* forward by one, and data[0] is transformed as the last block left it, or as malloc did
\* (of which the model knows no pads); its second half is too long to be written.
ReadFails ==
  /\ tool.at = "read"
  /\ LET data == [j \in 1..Half |-> IF j \in DOMAIN tool.chunk THEN tool.chunk[j] ELSE Plain]
     IN  tool' = [tool EXCEPT !.at = "first", !.total = @ - 1,
                              !.chunk = Transform(data, tool.total), !.pos = @ + 1]
  /\ Slip(FALSE)
  /\ UNCHANGED <<file, sticky, call, clean>>

\* The two halves are written by two calls, each at the position the one before has left;
\* a call may fail, or take a part.
WriteFirst ==
  /\ tool.at = "first"
  /\ LET n == Len(tool.chunk)
     IN  \E k \in 0..Least(n, Half) :
           /\ file' = IF k = 0 THEN file ELSE Over(file, SubSeq(tool.chunk, 1, k), tool.pos)
           /\ tool' = [tool EXCEPT !.at = IF n > Half THEN "second" ELSE "read", !.pos = @ + k]
           /\ Slip(k = Least(n, Half))
  /\ UNCHANGED <<sticky, call, clean>>

WriteSecond ==
  /\ tool.at = "second"
  /\ LET n == Len(tool.chunk)
     IN  \E k \in 0..(n - Half) :
           /\ file' = IF k = 0 THEN file
                      ELSE Over(file, SubSeq(tool.chunk, Half + 1, Half + k), tool.pos)
           /\ tool' = [tool EXCEPT !.at = "read", !.pos = @ + k]
           /\ Slip(k = n - Half)
  /\ UNCHANGED <<sticky, call, clean>>

\* At the end of the file; a deciphered file is left without the bit.
Complete ==
  /\ tool.at = "read" /\ Rest <= 0
  /\ sticky' = (tool.option = "e")
  /\ tool' = NoRun
  /\ UNCHANGED <<file, call, clean, steady, slips>>

\* The tool is killed, the machine stops, the file cannot be opened, or its bit not be set.
Stop ==
  /\ tool.at # "off"
  /\ tool' = NoRun /\ clean' = FALSE
  /\ UNCHANGED <<file, sticky, call, steady, slips>>

Tool ==
  \/ \E option \in {"e", "d"} : Run(option)
  \/ Open \/ ReadChunk \/ ReadFails \/ WriteFirst \/ WriteSecond \/ Complete \/ Stop

Next ==
  \/ Pread \/ Decipher \/ Encipher \/ Pwrite \/ Return \/ Truncate
  \/ Tool

Spec == Init /\ [][Next]_vars

-----------------------------------------------------------------------------
TypeOK ==
  /\ file \in Seq(SUBSET Int) /\ call.buf \in Seq(SUBSET Int)
  /\ sticky \in BOOLEAN /\ clean \in BOOLEAN /\ steady \in BOOLEAN /\ slips \in Nat
  /\ call.at \in {"idle", "read", "write", "returned"}
  /\ tool.at \in {"off", "open", "read", "first", "second"}

\* A byte never carries the pad of another position: whatever calls and runs of the tool do
\* to each other, and wherever a run stops, the file can still be made whole byte by byte.
\* Not so when it became longer after a run had passed its end (the total then counts an
\* incomplete block, and what follows gets the pads of the wrong place), when a request
\* that enciphers began inside a block, or after a read or a write of the tool that failed
\* or came short.
PadsOwn == steady => \A i \in DOMAIN file : file[i] \subseteq {i - 1}

\* As long as calls and runs of the tool keep apart, no run stops early and every read and
\* write of it is whole, the bit says whether the file on disk is enciphered, all of it,
\* and a call that begins at a block returns plain bytes.
BitTells ==
  clean /\ steady =>
    /\ Calm => \A i \in DOMAIN file : file[i] = IF sticky THEN {i - 1} ELSE {}
    /\ call.at = "returned" /\ call.offset % Block = 0 =>
         \A j \in DOMAIN call.buf : call.buf[j] = {}
=============================================================================
