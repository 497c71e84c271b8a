-------------------------------- MODULE Lzw --------------------------------
(***************************************************************************)
(* The LZW coder (src/LZW): the compressor writes codes of a growing width *)
(* into a stream of bits, the decompressor reads them back.  A word of the *)
(* trie is the path from the root to its node; the table of the            *)
(* decompressor maps codes to words.  The children of a fresh trie node    *)
(* and the chains of a fresh table are not cleared: whoever follows one    *)
(* either finds NULL, as the code expects, or crashes.                     *)
(***************************************************************************)
EXTENDS Integers, FiniteSets, SequencesExt, Functions

CONSTANTS
  Symbols,  \* 256: symbols are 0..Symbols - 1, and first codes
  Length,   \* the longest input
  ByteBits  \* 8

VARIABLES
  input,    \* the file to compress
  at,       \* "compress", "decompress", or how it ended
  taken,    \* encoded_chars
  trie,     \* the words of the trie, with their codes
  node,     \* curr_node, as its word
  next,     \* code_num of the compressor
  bits,     \* what was written
  codes,    \* the codes as they were buffered, with their widths
  table,    \* the hash table: from codes to words
  next2,    \* code_num of the decompressor
  prev,     \* prev_code_num
  pos,      \* in_index
  got,      \* how many codes it has read
  output,   \* what it buffered
  strange   \* whether a code was not in the table

encoder == <<taken, trie, node, next, bits, codes>>
decoder == <<table, next2, prev, pos, got, output, strange>>
vars == <<input, at, encoder, decoder>>

Symbol == 0..Symbols - 1

(* log2(n) + 1 *)
Width(n) == CHOOSE w \in 1..n : 2^(w - 1) <= n /\ n < 2^w

(* code_num_to_bv, and bv_to_code_num of the bits in the order they are written. *)
Bits(code, w) == [i \in 1..w |-> (code \div 2^(w - i)) % 2]
Code(s) == FoldLeft(LAMBDA c, b : 2 * c + b, 0, s)

Init ==
  /\ input \in UNION {[1..n -> Symbol] : n \in 1..Length}
  /\ at = "compress"
  /\ taken = 0
  /\ trie = [w \in {<<s>> : s \in Symbol} |-> w[1]]
  /\ node = <<>> /\ next = Symbols /\ bits = <<>> /\ codes = <<>>
  /\ table = [c \in Symbol |-> <<c>>]
  /\ next2 = Symbols /\ prev = 0 /\ pos = 0 /\ got = 0 /\ output = <<>> /\ strange = FALSE

-----------------------------------------------------------------------------

\* One symbol: the node steps down, or its code is written, with the width of the next
\* code, and a child is added.
Compress ==
  /\ at = "compress" /\ taken < Len(input)
  /\ LET s == input[taken + 1]
         word == Append(node, s)
         w == Width(next)
     IN  IF word \in DOMAIN trie
         THEN node' = word /\ UNCHANGED <<trie, next, bits, codes>>
         ELSE /\ bits' = bits \o Bits(trie[node], w)
              /\ codes' = Append(codes, [code |-> trie[node], width |-> w])
              /\ trie' = [v \in DOMAIN trie \cup {word} |->
                            IF v = word THEN next ELSE trie[v]]
              /\ node' = <<s>>
              /\ next' = next + 1
  /\ taken' = taken + 1
  /\ UNCHANGED <<input, at>> /\ UNCHANGED decoder

\* The table is made for half as many chains as the file has bytes, and every code is
\* taken modulo their number.
Chains == Len(input) \div 2

\* flush_code writes the whole bytes, and for the rest the byte behind the one that holds
\* it: whatever the buffer has there.  The code of the current node is not written.
Flush ==
  /\ at = "compress" /\ taken = Len(input)
  /\ LET whole == (Len(bits) \div ByteBits) * ByteBits
     IN  IF whole = Len(bits) THEN UNCHANGED bits
         ELSE \E stale \in [1..ByteBits -> {0, 1}] :
                bits' = SubSeq(bits, 1, whole) \o stale
  /\ at' = IF Chains = 0 THEN "crashed" ELSE "decompress"
  /\ UNCHANGED <<input, taken, trie, node, next, codes>> /\ UNCHANGED decoder

-----------------------------------------------------------------------------
Entry(c, w) == [d \in DOMAIN table \cup {c} |-> IF d = c THEN w ELSE table[d]]

\* Mutant of ReadWidth: the table's own next code is taken.
ReadWidthLate == Width(next2)

\* The width is that of the code after the next: the table is one code behind the trie.
ReadWidth == Width(next2 + 1)
Readable == pos + ReadWidth <= Len(bits)
Read == Code(SubSeq(bits, pos + 1, pos + ReadWidth))

Took == pos' = pos + ReadWidth /\ got' = got + 1

Reads ==
  /\ at = "decompress" /\ Len(output) # Len(input)
  /\ Readable /\ Took
  /\ UNCHANGED <<input, at>> /\ UNCHANGED encoder

\* The first code is that of a symbol.
DecodeFirst ==
  /\ output = <<>> /\ Reads /\ Read \in DOMAIN table
  /\ output' = table[Read] /\ prev' = Read
  /\ UNCHANGED <<table, next2, strange>>

\* Mutant of Decode: the new entry joins the words the other way round.
DecodeSwapped ==
  /\ output # <<>> /\ Reads /\ Read \in DOMAIN table
  /\ table' = Entry(next2, Append(table[Read], table[prev][1]))
  /\ next2' = next2 + 1
  /\ output' = output \o table[Read]
  /\ prev' = Read
  /\ UNCHANGED strange

\* The new entry is made in place, one byte longer than the word's memory: see Overrun.
Decode ==
  /\ output # <<>> /\ Reads /\ Read \in DOMAIN table
  /\ table' = Entry(next2, Append(table[prev], table[Read][1]))
  /\ next2' = next2 + 1
  /\ output' = output \o table[Read]
  /\ prev' = Read
  /\ UNCHANGED strange

\* A code that is not in the table is taken for the next one; prev_code_num stays.
DecodeStrange ==
  /\ output # <<>> /\ Reads /\ Read \notin DOMAIN table
  /\ LET word == Append(table[prev], table[prev][1])
     IN  table' = Entry(next2, word) /\ output' = output \o word
  /\ next2' = next2 + 1
  /\ strange' = TRUE
  /\ UNCHANGED prev

\* The bits end; or the first code is none, whose entry the program does not look for.
\* The output never has the input's length, with which nothing would follow: the pending
\* word is not written (a deadlock would show otherwise).
Stop ==
  /\ at = "decompress" /\ Len(output) # Len(input)
  /\ Readable => (output = <<>> /\ Read \notin DOMAIN table)
  /\ at' = IF Readable THEN "crashed" ELSE "incomplete"
  /\ UNCHANGED input /\ UNCHANGED encoder /\ UNCHANGED decoder

\* A pointer that was never set is followed.
Stray ==
  /\ at \in {"compress", "decompress"}
  /\ at' = "crashed"
  /\ UNCHANGED input /\ UNCHANGED encoder /\ UNCHANGED decoder

\* The byte that Decode and DecodeStrange write behind a word of the table was not spare:
\* another word, a node or the allocator's data is changed, and what the program does from
\* then on is not followed.
Overrun ==
  /\ at = "decompress" /\ next2 > Symbols
  /\ at' = "overrun"
  /\ UNCHANGED input /\ UNCHANGED encoder /\ UNCHANGED decoder

Next ==
  \/ Compress \/ Flush
  \/ DecodeFirst \/ Decode \/ DecodeStrange \/ Stop \/ Stray \/ Overrun

Spec == Init /\ [][Next]_vars

-----------------------------------------------------------------------------
Word(c) == CHOOSE w \in DOMAIN trie : trie[w] = c
Expanded(n) == FlattenSeq([i \in 1..n |-> Word(codes[i].code)])

TypeOK ==
  /\ IsInjective(trie) /\ \A w \in DOMAIN trie : trie[w] < next
  /\ pos <= Len(bits) /\ taken <= Len(input)
  /\ \A i \in DOMAIN codes : codes[i].code < 2^codes[i].width

\* The decompressor, whose table lags by one code, reads each code with the width it was
\* written with, whatever the words: it never loses its place in the stream.
WidthsAgree ==
  at = "decompress" /\ got < Len(codes) => ReadWidth = codes[got + 1].width

\* The codes written, with the word that is pending, are the symbols taken: what is missing
\* at the end is the pending word.  Until a code is not in the table, the words read are
\* those written and the table agrees with the trie; but for the last code, of which the
\* flush may have lost a part.
WordsReturn ==
  /\ Expanded(Len(codes)) \o node = SubSeq(input, 1, taken)
  /\ ~strange /\ got < Len(codes) =>
       /\ output = Expanded(got)
       /\ \A c \in DOMAIN table : table[c] \in DOMAIN trie /\ trie[table[c]] = c
=============================================================================
