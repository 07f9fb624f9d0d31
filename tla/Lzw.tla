-------------------------------- MODULE Lzw --------------------------------
(***************************************************************************)
(* LZW (Server/lzw.cpp) on one chunk, and Decompress                       *)
(* (Decoder/Decoder.cpp) on the codes it emits.  Each side builds its      *)
(* table as it goes, and nothing of the encoder's is transmitted.          *)
(*                                                                         *)
(* Here codes are numbers in a list.  How they are laid out in bytes is    *)
(* BitPack's subject; Codec puts the two together.                         *)
(***************************************************************************)
EXTENDS Integers, Sequences

CONSTANTS
  Chars,  \* number of values of a char: 256 in the code
  CODES,  \* number of codes that the mask lets through: 2^13 in the code
  Chunks  \* the chunks that are tried

Char == 0 .. Chars - 1

ASSUME LzwAssumption ==
  /\ Chars \in Nat \ {0}
  /\ CODES \in Nat
  /\ CODES >= Chars
  /\ Chunks \subseteq Seq(Char) \ {<< >>}

VARIABLES
  chunk,       \* s1[chunk_start .. chunk_end]
  i,           \* position in the chunk
  p,           \* the string matched so far
  table,       \* the encoder's dictionary: string -> code
  code,        \* the next code to give out
  codes,       \* the codes emitted
  finished,    \* LZW has returned
  taken,       \* codes the decoder has read
  Code_table,  \* the decoder's dictionary; code n is element n + 1
  Old,         \* the code read last
  Symbol,      \* the first char of the string written last
  Output       \* what the decoder has written

encoderVars == << i, p, table, code, codes, finished >>
decoderVars == << taken, Code_table, Old, Symbol, Output >>
lzwVars == << chunk, encoderVars, decoderVars >>

LzwInit ==
  /\ chunk \in Chunks
  /\ i = 1
  /\ p = << chunk[1] >>
  /\ table = [ s \in { << x >> : x \in Char } |-> s[1] ]
  /\ code = Chars
  /\ codes = << >>
  /\ finished = FALSE
  /\ taken = 0
  /\ Code_table = [ n \in 1 .. Chars |-> << n - 1 >> ]
  /\ Old = 0
  /\ Symbol = << >>
  /\ Output = << >>

\* The char after position i, if there is one.
c == IF i < Len(chunk) THEN << chunk[i + 1] >> ELSE << >>

\* The masks keep the low bits of the code only.
Emitted(s) == table[s] % CODES

\* "table.find(p + c) != table.end()"
Extend ==
  /\ i <= Len(chunk)
  /\ p \o c \in DOMAIN table
  /\ p' = p \o c
  /\ i' = i + 1
  /\ UNCHANGED << chunk, table, code, codes, finished, decoderVars >>

Insert(s, value) ==
  table' = [ t \in DOMAIN table \cup {s} |-> IF t = s THEN value ELSE table[t] ]

\* The matched string is emitted, and with c behind it entered as value.
EmitAndInsert(value) ==
  /\ i <= Len(chunk)
  /\ p \o c \notin DOMAIN table
  /\ codes' = Append(codes, Emitted(p))
  /\ Insert(p \o c, value)
  /\ code' = code + 1
  /\ p' = c
  /\ i' = i + 1
  /\ UNCHANGED << chunk, finished, decoderVars >>

\* A wrong form: the code counted up before it is given out.
Emit_CountFirst == EmitAndInsert(code + 1)

Emit == EmitAndInsert(code)

\* A wrong form: the last string emitted inside the loop.
EmitLast_EachTurn ==
  /\ i >= Len(chunk)
  /\ ~finished
  /\ codes' = Append(codes, Emitted(p))
  /\ finished' = (i > Len(chunk))
  /\ i' = i + 1
  /\ UNCHANGED << chunk, p, table, code, decoderVars >>

EmitLast ==
  /\ i > Len(chunk)
  /\ ~finished
  /\ codes' = Append(codes, Emitted(p))
  /\ finished' = TRUE
  /\ UNCHANGED << chunk, i, p, table, code, decoderVars >>

\* Before the loop of Decompress: the first code is taken for a char.
TakeFirst(New) ==
  /\ taken' = 1
  /\ Old' = New
  /\ Symbol' = << New % Chars >>
  /\ Output' = << New % Chars >>
  /\ UNCHANGED << chunk, encoderVars, Code_table >>

DecodeFirst ==
  /\ finished
  /\ taken = 0
  /\ TakeFirst(codes[1])

\* A code the table does not have yet is the one about to be entered.
Symbols(New) ==
  IF New >= Len(Code_table) THEN Code_table[Old + 1] \o Symbol
                            ELSE Code_table[New + 1]

\* A turn of the loop; symbol is the first char of the string of the code.
TakeWith(New, symbol) ==
  /\ Output' = Output \o Symbols(New)
  /\ Symbol' = symbol
  /\ Code_table' = Append(Code_table, Code_table[Old + 1] \o symbol)
  /\ Old' = New
  /\ taken' = taken + 1
  /\ UNCHANGED << chunk, encoderVars >>

\* A wrong form: Symbol left as it was before the loop.
TakeNext_SameSymbol(New) == TakeWith(New, Symbol)

TakeNext(New) == TakeWith(New, << Symbols(New)[1] >>)

DecodeNext ==
  /\ finished
  /\ taken \in 1 .. Len(codes) - 1
  /\ TakeNext(codes[taken + 1])

LzwNext == Extend \/ Emit \/ EmitLast \/ DecodeFirst \/ DecodeNext

LzwSpec == LzwInit /\ [][LzwNext]_lzwVars

-----------------------------------------------------------------------------

\* The longest chunk whose codes are sure to fit into CODE_LENGTH bits.
LongestSafe == CODES - Chars + 2

\* A chunk that is not longer than that is restored: what the decoder has
\* written is always a prefix of it, and in the end all of it.
RestoresChunk ==
  Len(chunk) <= LongestSafe =>
    /\ Len(Output) <= Len(chunk)
    /\ \A k \in 1 .. Len(Output) : Output[k] = chunk[k]
    /\ finished /\ taken = Len(codes) => Len(Output) = Len(chunk)

\* The decoder's dictionary agrees with the encoder's, one entry behind the
\* codes it has read.
TablesAgree ==
  Len(chunk) <= LongestSafe =>
    /\ \A n \in 1 .. Len(Code_table) :
         /\ Code_table[n] \in DOMAIN table
         /\ table[Code_table[n]] = n - 1
    /\ taken > 0 => Len(Code_table) = Chars + taken - 1

\* No chunk gives more codes than it has bytes, which is what BitPack and the
\* buffer of 2 * length bytes rely on, and the codes emitted cover the chunk.
CodesWithinLength ==
  /\ Len(codes) <= Len(chunk)
  /\ ~finished => Len(codes) < Len(chunk)
=============================================================================
