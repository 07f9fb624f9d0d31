------------------------------- MODULE BitPack -------------------------------
(***************************************************************************)
(* The 13-bit code stream between LZW (Server/lzw.cpp) and Read_code and   *)
(* Decompress (Decoder/Decoder.cpp).                                       *)
(*                                                                         *)
(* The writer has one branch per value of appeartimes, each of which ORs   *)
(* the bits of a code into two or three bytes of a zeroed buffer; the      *)
(* reader has no such table and takes one bit after the other.  It is not  *)
(* told how many codes there are, only how many bytes.                     *)
(*                                                                         *)
(* A code is the set of its one bits, 0 the most significant; a byte       *)
(* likewise.  |= is then union.  Which codes LZW emits is Lzw's subject.   *)
(***************************************************************************)
EXTENDS Integers, Sequences

CONSTANTS
  Code,          \* the codes that are tried
  MAX_CHUNK_LEN  \* the longest chunk that is tried

CODE_LENGTH == 13

ASSUME BitPackAssumption ==
  /\ Code \subseteq SUBSET (0 .. CODE_LENGTH - 1)
  /\ MAX_CHUNK_LEN \in Nat \ {0}

VARIABLES
  chunk_len,       \* length of the chunk that is compressed
  output_code,     \* the buffer, and the memory behind it
  outlen,          \* offset of the byte being filled; in the end, the length
  appeartimes,     \* codes written, modulo 8
  codes,           \* every code emitted
  furthest,        \* the largest offset written to
  finished,        \* LZW has returned
  Input_position,  \* bits read
  read             \* the codes that Read_code returned

writeVars == << output_code, outlen, appeartimes, codes, furthest, finished >>
readVars  == << Input_position, read >>
packVars  == << chunk_len, writeVars, readVars >>

\* Long enough for any write of the modelled code.
Memory == 0 .. 2 * MAX_CHUNK_LEN + 2

PackInit ==
  /\ chunk_len \in 1 .. MAX_CHUNK_LEN
  /\ output_code = [ b \in Memory |-> {} ]
  /\ outlen = 0
  /\ appeartimes = 0
  /\ codes = << >>
  /\ furthest = 0
  /\ finished = FALSE
  /\ Input_position = 0
  /\ read = << >>

\* A wrong form: one bit of the eighth code in the wrong byte.
Split_Eighth ==
  << << 8, 5 >>, << 3, 8, 2 >>, << 6, 7 >>, << 1, 8, 4 >>,
     << 4, 8, 1 >>, << 7, 6 >>, << 2, 8, 3 >>, << 6, 7 >> >>

\* What the masks and shifts of the eight branches amount to: the number of
\* bits of the code, from the top, that go into each of the next bytes.  In
\* the first byte they are its low bits, in the others its high bits.
Split ==
  << << 8, 5 >>, << 3, 8, 2 >>, << 6, 7 >>, << 1, 8, 4 >>,
     << 4, 8, 1 >>, << 7, 6 >>, << 2, 8, 3 >>, << 5, 8 >> >>

Widths == Split[appeartimes + 1]

\* The bits of a code that the k-th byte of the branch receives.
Bits(code, k) ==
  LET width == Widths[k]
      start == IF k = 1 THEN 0 ELSE IF k = 2 THEN Widths[1] ELSE Widths[1] + 8
      shift == IF k = 1 THEN 8 - width ELSE 0
  IN  { shift + bit : bit \in { i \in 0 .. width - 1 : start + i \in code } }

\* output_code[(*outlen)++] |= ..., for each byte of the branch.
Or(code) ==
  [ b \in Memory |->
      IF b - outlen \in 0 .. Len(Widths) - 1
        THEN output_code[b] \cup Bits(code, b - outlen + 1)
        ELSE output_code[b] ]

\* A wrong form: the byte that is not filled is left behind.
Advance_AlwaysFull == outlen + Len(Widths)

\* In the loop every branch leaves outlen at the byte it has not filled.
Advance == outlen + Len(Widths) - 1 + (IF appeartimes = 7 THEN 1 ELSE 0)

\* One of the eight branches in the loop.
Put(code) ==
  /\ output_code' = Or(code)
  /\ outlen' = Advance
  /\ furthest' = outlen + Len(Widths) - 1
  /\ appeartimes' = (appeartimes + 1) % 8

\* A code emitted in the loop; one more is still to come.
EmitCode ==
  /\ ~finished
  /\ Len(codes) + 1 < chunk_len
  /\ \E code \in Code : Put(code) /\ codes' = Append(codes, code)
  /\ UNCHANGED << chunk_len, finished, readVars >>

\* "if((*outlen)%13!=0) output_code[++(*outlen)]=0"
Pad(last) == IF last % 13 # 0 THEN last + 1 ELSE last

\* One of the eight branches after the loop, which leave outlen at the last byte
\* they wrote to, and the padding.
PutLast(code) ==
  LET last == outlen + Len(Widths) - 1
  IN  /\ output_code' = IF Pad(last) # last
                          THEN [ Or(code) EXCEPT ![Pad(last)] = {} ]
                          ELSE Or(code)
      /\ outlen' = Pad(last)
      /\ furthest' = Pad(last)
      /\ UNCHANGED appeartimes

\* The code after the loop.
EmitLastCode ==
  /\ ~finished
  /\ \E code \in Code : PutLast(code) /\ codes' = Append(codes, code)
  /\ finished' = TRUE
  /\ UNCHANGED << chunk_len, readVars >>

\* A wrong form: the loop of Decompress one byte longer.
MoreToRead_LastByteToo == Input_position = 0 \/ Input_position \div 8 < outlen

\* Decompress reads one code, and then more while Input_position / 8 < Size - 1.
MoreToRead == Input_position = 0 \/ Input_position \div 8 < outlen - 1

\* What Read_code returns.
NextCode ==
  { i \in 0 .. CODE_LENGTH - 1 :
      LET position == Input_position + i
      IN  (position % 8) \in output_code[position \div 8] }

ReadCode ==
  /\ finished
  /\ MoreToRead
  /\ read' = Append(read, NextCode)
  /\ Input_position' = Input_position + CODE_LENGTH
  /\ UNCHANGED << chunk_len, writeVars >>

PackNext == EmitCode \/ EmitLastCode \/ ReadCode

PackSpec == PackInit /\ [][PackNext]_packVars

-----------------------------------------------------------------------------

\* The reader gets back the codes that were written, all of them and no more,
\* though the writer's eight branches and the reader's bit loop share no
\* definition and the number of codes is nowhere stored.
ReadsWhatWasWritten ==
  /\ Len(read) <= Len(codes)
  /\ \A k \in 1 .. Len(read) : read[k] = codes[k]
  /\ finished /\ ~MoreToRead => Len(read) = Len(codes)

\* When Decompress returns it has taken exactly Size bytes from the file, so the
\* next four bytes are the header of the next record.
Fetched == (Input_position + 7) \div 8
StopsAtNextHeader ==
  finished /\ ~MoreToRead => Fetched = outlen

\* LZW stays inside the 2 * chunk_len bytes that encode() allocates for it.
\* Chunks of one and two bytes are left out: there the padding is written to
\* the byte behind the buffer.
StaysInBuffer ==
  chunk_len >= 3 => furthest < 2 * chunk_len
=============================================================================
