------------------------------- MODULE Codec -------------------------------
(***************************************************************************)
(* Lzw and BitPack composed, the way LZW, Read_code and Decompress do it:  *)
(* every code that the dictionary gives out goes through one of the        *)
(* branches into the buffer, and the decoder has nothing but the bytes in  *)
(* that buffer and their number.  The list codes is what was emitted; no   *)
(* step of the decoder reads it.                                           *)
(***************************************************************************)
EXTENDS Lzw

CONSTANT MAX_CHUNK_LEN  \* the longest chunk

VARIABLES output_code, outlen, appeartimes, furthest,  \* see BitPack
          Input_position, read

CODE_LENGTH == 13

ASSUME CodecAssumption ==
  /\ MAX_CHUNK_LEN \in Nat \ {0}
  /\ \A s \in Chunks : Len(s) <= MAX_CHUNK_LEN
  /\ CODES <= 8192

\* What the bits of a code count, the most significant first.
Weight == << 4096, 2048, 1024, 512, 256, 128, 64, 32, 16, 8, 4, 2, 1 >>

\* The bits that the masks and shifts find in a code.
BitsOf(n) == { b \in 0 .. CODE_LENGTH - 1 : (n \div Weight[b + 1]) % 2 = 1 }

\* What one bit of a code counts, and the code: "Code = (Code << 1) | ..." for
\* each of the bits.
Counts(bits, b) == IF b \in bits THEN Weight[b + 1] ELSE 0
Number(bits) ==
  Counts(bits, 0) + Counts(bits, 1) + Counts(bits, 2) + Counts(bits, 3)
    + Counts(bits, 4) + Counts(bits, 5) + Counts(bits, 6) + Counts(bits, 7)
    + Counts(bits, 8) + Counts(bits, 9) + Counts(bits, 10) + Counts(bits, 11)
    + Counts(bits, 12)

packed == [ k \in 1 .. Len(codes) |-> BitsOf(codes[k]) ]

Pack == INSTANCE BitPack WITH
  chunk_len <- Len(chunk),
  codes     <- packed,
  Code      <- { BitsOf(n) : n \in 0 .. CODES - 1 }

bufferVars == << output_code, outlen, appeartimes, furthest >>
inputVars  == << Input_position, read >>
codecVars  == << lzwVars, bufferVars, inputVars >>

CodecInit == LzwInit /\ Pack!PackInit

Match ==
  /\ Extend
  /\ UNCHANGED << bufferVars, inputVars >>

Write ==
  /\ Emit
  /\ Pack!Put(BitsOf(Emitted(p)))
  /\ UNCHANGED inputVars

WriteLast ==
  /\ EmitLast
  /\ Pack!PutLast(BitsOf(Emitted(p)))
  /\ UNCHANGED inputVars

\* Read_code: the bits of the next code and the number they make.
Fetch ==
  /\ finished
  /\ Pack!MoreToRead
  /\ read' = Append(read, Pack!NextCode)
  /\ Input_position' = Input_position + CODE_LENGTH
  /\ UNCHANGED bufferVars

FetchFirst ==
  /\ Input_position = 0
  /\ Fetch
  /\ TakeFirst(Number(Pack!NextCode))

FetchNext ==
  /\ Input_position > 0
  /\ Fetch
  /\ TakeNext(Number(Pack!NextCode))

CodecNext == Match \/ Write \/ WriteLast \/ FetchFirst \/ FetchNext

CodecSpec == CodecInit /\ [][CodecNext]_codecVars

-----------------------------------------------------------------------------

\* Seen from the dictionaries, the bytes in between do not exist: the decoder
\* takes exactly the codes that were emitted, in their order, and stops after the
\* last, though Read_code counts bytes and is not told how many codes there are.
ImplementsLzw == LzwSpec

\* Seen from the buffer, LZW is a writer that BitPack allows: at most one code for
\* each byte of the chunk, and every code of 13 bits at most.  The bounds that
\* BitPack shows of the buffer are then those of LZW.
ImplementsPack == Pack!PackSpec
=============================================================================
