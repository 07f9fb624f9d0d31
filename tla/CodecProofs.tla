----------------------------- MODULE CodecProofs -----------------------------
(***************************************************************************)
(* Proofs about Codec, for chunks of every length: through the bytes, the  *)
(* decoder gets the codes that the encoder's dictionary gave out.  Codec   *)
(* therefore implements Lzw and BitPack, and what is proved of these two   *)
(* holds of the two together.                                              *)
(***************************************************************************)
EXTENDS Codec, LzwProofs, SequenceTheorems

B == INSTANCE BitPackProofs WITH
  chunk_len <- Len(chunk),
  codes     <- packed,
  Code      <- { BitsOf(n) : n \in 0 .. CODES - 1 }

\* What holds of each half, and that they are at the same code.
CodecInv ==
  /\ LzwInv
  /\ B!PackInv
  /\ Len(read) = taken
  /\ \A k \in 1 .. Len(codes) : codes[k] \in 0 .. CODES - 1

-----------------------------------------------------------------------------
(* Codes and their bits.                                                   *)

Digit(n, w) == IF (n \div w) % 2 = 1 THEN w ELSE 0

LEMMA BitCounts ==
  ASSUME NEW n \in Nat, NEW b \in 0 .. 12
  PROVE  Counts(BitsOf(n), b) = Digit(n, Weight[b + 1])
<1>1. b \in 0 .. CODE_LENGTH - 1
  BY DEF CODE_LENGTH
<1>2. b \in BitsOf(n) <=> (n \div Weight[b + 1]) % 2 = 1
  BY <1>1, Zenon DEF BitsOf
<1> QED
  BY <1>2, Zenon DEF Counts, Digit

\* The bits that the writer masks out of a code make up the code again.
LEMMA NumberOfBits ==
  ASSUME NEW n \in 0 .. CODES - 1
  PROVE  Number(BitsOf(n)) = n
<1>0. n \in Nat /\ n < 8192
  BY LzwAssumption, CodecAssumption DEF LzwAssumption, CodecAssumption
<1>1. Counts(BitsOf(n), 0) = Digit(n, 4096)
  <2>1. 0 \in 0 .. 12 /\ Weight[0 + 1] = 4096
    BY DEF Weight
  <2> QED
    BY <1>0, <2>1, BitCounts
<1>2. Counts(BitsOf(n), 1) = Digit(n, 2048)
  <2>1. 1 \in 0 .. 12 /\ Weight[1 + 1] = 2048
    BY DEF Weight
  <2> QED
    BY <1>0, <2>1, BitCounts
<1>3. Counts(BitsOf(n), 2) = Digit(n, 1024)
  <2>1. 2 \in 0 .. 12 /\ Weight[2 + 1] = 1024
    BY DEF Weight
  <2> QED
    BY <1>0, <2>1, BitCounts
<1>4. Counts(BitsOf(n), 3) = Digit(n, 512)
  <2>1. 3 \in 0 .. 12 /\ Weight[3 + 1] = 512
    BY DEF Weight
  <2> QED
    BY <1>0, <2>1, BitCounts
<1>5. Counts(BitsOf(n), 4) = Digit(n, 256)
  <2>1. 4 \in 0 .. 12 /\ Weight[4 + 1] = 256
    BY DEF Weight
  <2> QED
    BY <1>0, <2>1, BitCounts
<1>6. Counts(BitsOf(n), 5) = Digit(n, 128)
  <2>1. 5 \in 0 .. 12 /\ Weight[5 + 1] = 128
    BY DEF Weight
  <2> QED
    BY <1>0, <2>1, BitCounts
<1>7. Counts(BitsOf(n), 6) = Digit(n, 64)
  <2>1. 6 \in 0 .. 12 /\ Weight[6 + 1] = 64
    BY DEF Weight
  <2> QED
    BY <1>0, <2>1, BitCounts
<1>8. Counts(BitsOf(n), 7) = Digit(n, 32)
  <2>1. 7 \in 0 .. 12 /\ Weight[7 + 1] = 32
    BY DEF Weight
  <2> QED
    BY <1>0, <2>1, BitCounts
<1>9. Counts(BitsOf(n), 8) = Digit(n, 16)
  <2>1. 8 \in 0 .. 12 /\ Weight[8 + 1] = 16
    BY DEF Weight
  <2> QED
    BY <1>0, <2>1, BitCounts
<1>10. Counts(BitsOf(n), 9) = Digit(n, 8)
  <2>1. 9 \in 0 .. 12 /\ Weight[9 + 1] = 8
    BY DEF Weight
  <2> QED
    BY <1>0, <2>1, BitCounts
<1>11. Counts(BitsOf(n), 10) = Digit(n, 4)
  <2>1. 10 \in 0 .. 12 /\ Weight[10 + 1] = 4
    BY DEF Weight
  <2> QED
    BY <1>0, <2>1, BitCounts
<1>12. Counts(BitsOf(n), 11) = Digit(n, 2)
  <2>1. 11 \in 0 .. 12 /\ Weight[11 + 1] = 2
    BY DEF Weight
  <2> QED
    BY <1>0, <2>1, BitCounts
<1>13. Counts(BitsOf(n), 12) = Digit(n, 1)
  <2>1. 12 \in 0 .. 12 /\ Weight[12 + 1] = 1
    BY DEF Weight
  <2> QED
    BY <1>0, <2>1, BitCounts
<1>14. n = 2 * (n \div 2) + Digit(n, 1)
  BY <1>0, Z3 DEF Digit
<1>15. 2 * (n \div 2) = 4 * (n \div 4) + Digit(n, 2)
  BY <1>0, Z3 DEF Digit
<1>16. 4 * (n \div 4) = 8 * (n \div 8) + Digit(n, 4)
  BY <1>0, Z3 DEF Digit
<1>17. 8 * (n \div 8) = 16 * (n \div 16) + Digit(n, 8)
  BY <1>0, Z3 DEF Digit
<1>18. 16 * (n \div 16) = 32 * (n \div 32) + Digit(n, 16)
  BY <1>0, Z3 DEF Digit
<1>19. 32 * (n \div 32) = 64 * (n \div 64) + Digit(n, 32)
  BY <1>0, Z3 DEF Digit
<1>20. 64 * (n \div 64) = 128 * (n \div 128) + Digit(n, 64)
  BY <1>0, Z3 DEF Digit
<1>21. 128 * (n \div 128) = 256 * (n \div 256) + Digit(n, 128)
  BY <1>0, Z3 DEF Digit
<1>22. 256 * (n \div 256) = 512 * (n \div 512) + Digit(n, 256)
  BY <1>0, Z3 DEF Digit
<1>23. 512 * (n \div 512) = 1024 * (n \div 1024) + Digit(n, 512)
  BY <1>0, Z3 DEF Digit
<1>24. 1024 * (n \div 1024) = 2048 * (n \div 2048) + Digit(n, 1024)
  BY <1>0, Z3 DEF Digit
<1>25. 2048 * (n \div 2048) = 4096 * (n \div 4096) + Digit(n, 2048)
  BY <1>0, Z3 DEF Digit
<1>26. 4096 * (n \div 4096) = Digit(n, 4096)
  BY <1>0, Z3 DEF Digit
<1> QED
  BY <1>1, <1>2, <1>3, <1>4, <1>5, <1>6, <1>7, <1>8, <1>9, <1>10, <1>11, <1>12, <1>13,
     <1>14, <1>15, <1>16, <1>17, <1>18, <1>19, <1>20, <1>21, <1>22, <1>23, <1>24, <1>25, <1>26 DEF Number

-----------------------------------------------------------------------------
(* What the steps of the two halves have to do with each other.            *)

\* The assumption of BitPack holds of the codes that the masks let through.
LEMMA Fits == B!BitPackAssumption
BY CodecAssumption DEF CodecAssumption, B!BitPackAssumption, BitsOf, B!CODE_LENGTH, CODE_LENGTH

\* The two instances of BitPack are one module.
LEMMA SamePack ==
  /\ Pack!PackInit <=> B!PackInit
  /\ Pack!EmitCode <=> B!EmitCode
  /\ Pack!EmitLastCode <=> B!EmitLastCode
  /\ Pack!ReadCode <=> B!ReadCode
  /\ Pack!MoreToRead <=> B!MoreToRead
  /\ Pack!NextCode = B!NextCode
  /\ Pack!packVars = B!packVars
<1>1. Pack!Memory = B!Memory /\ Pack!Widths = B!Widths /\ Pack!CODE_LENGTH = B!CODE_LENGTH
  BY Zenon DEF Pack!Memory, B!Memory, Pack!Widths, B!Widths, Pack!Split, B!Split, Pack!CODE_LENGTH, B!CODE_LENGTH
<1>2. \A v : Pack!Or(v) = B!Or(v)
  BY <1>1, Zenon DEF Pack!Or, B!Or, Pack!Bits, B!Bits
<1>3. \A v : Pack!Put(v) <=> B!Put(v)
  BY <1>1, <1>2, Zenon DEF Pack!Put, B!Put, Pack!Advance, B!Advance
<1>4. \A v : Pack!PutLast(v) <=> B!PutLast(v)
  BY <1>1, <1>2, Zenon DEF Pack!PutLast, B!PutLast, Pack!Pad, B!Pad
<1>5. Pack!NextCode = B!NextCode
  BY <1>1, Zenon DEF Pack!NextCode, B!NextCode
<1>6. Pack!MoreToRead <=> B!MoreToRead
  BY Zenon DEF Pack!MoreToRead, B!MoreToRead
<1>7. Pack!packVars = B!packVars
  BY Zenon DEF Pack!packVars, B!packVars, Pack!writeVars, B!writeVars, Pack!readVars, B!readVars
<1>8. Pack!PackInit <=> B!PackInit
  BY <1>1, Zenon DEF Pack!PackInit, B!PackInit
<1>9. Pack!EmitCode <=> B!EmitCode
  BY <1>3, Zenon DEF Pack!EmitCode, B!EmitCode, Pack!readVars, B!readVars
<1>10. Pack!EmitLastCode <=> B!EmitLastCode
  BY <1>4, Zenon DEF Pack!EmitLastCode, B!EmitLastCode, Pack!readVars, B!readVars
<1>11. Pack!ReadCode <=> B!ReadCode
  BY <1>1, <1>5, <1>6, Zenon DEF Pack!ReadCode, B!ReadCode, Pack!writeVars, B!writeVars
<1> QED
  BY <1>5, <1>6, <1>7, <1>8, <1>9, <1>10, <1>11, Zenon

LEMMA Appended ==
  ASSUME NEW S, NEW s \in Seq(S), NEW x \in S
  PROVE  Append(s, x) = [ k \in 1 .. Len(s) + 1 |-> IF k <= Len(s) THEN s[k] ELSE x ]
<1> DEFINE l == [ k \in 1 .. Len(s) + 1 |-> IF k <= Len(s) THEN s[k] ELSE x ]
<1>1. /\ Append(s, x) \in Seq(S) /\ Len(Append(s, x)) = Len(s) + 1
      /\ \A k \in 1 .. Len(s) : Append(s, x)[k] = s[k]
      /\ Append(s, x)[Len(s) + 1] = x
  BY AppendProperties
<1>2. Len(s) \in Nat
  OBVIOUS
<1>3. l \in Seq(S) /\ Len(l) = Len(s) + 1
  <2>1. l \in [ 1 .. Len(s) + 1 -> S ]
    BY <1>2
  <2> HIDE DEF l
  <2> QED
    BY <1>2, <2>1
<1>4. \A k \in 1 .. Len(s) + 1 : l[k] = Append(s, x)[k]
  BY <1>1, <1>2
<1> HIDE DEF l
<1>5. l = Append(s, x)
  BY <1>1, <1>2, <1>3, <1>4, SeqEqual
<1> QED
  BY <1>5 DEF l

\* A code emitted is a code packed.
LEMMA PackedToo ==
  ASSUME codes \in Seq(Nat)
  PROVE  /\ Len(packed) = Len(codes)
         /\ \A k \in 1 .. Len(codes) : packed[k] = BitsOf(codes[k])
         /\ \A v \in Nat : codes' = Append(codes, v) => packed' = Append(packed, BitsOf(v))
<1>1. Len(packed) = Len(codes) /\ \A k \in 1 .. Len(codes) : packed[k] = BitsOf(codes[k])
  BY DEF packed
<1>2. ASSUME NEW v \in Nat, codes' = Append(codes, v)
      PROVE  packed' = Append(packed, BitsOf(v))
  <2> DEFINE n == Len(codes)
             S == { BitsOf(m) : m \in Nat }
  <2>1. n \in Nat /\ packed \in Seq(S) /\ Len(packed) = n /\ BitsOf(v) \in S
    BY <1>1 DEF packed
  <2>2. codes' = [ k \in 1 .. n + 1 |-> IF k <= n THEN codes[k] ELSE v ] /\ Len(codes') = n + 1
    BY <1>2, Appended
  <2>3. packed' = [ k \in 1 .. n + 1 |-> BitsOf(codes'[k]) ]
    BY <2>2, Zenon DEF packed
  <2> HIDE DEF S
  <2>4. Append(packed, BitsOf(v)) =
          [ k \in 1 .. n + 1 |-> IF k <= n THEN packed[k] ELSE BitsOf(v) ]
    <3>1. PICK s \in Seq(S) : s = packed
      BY <2>1
    <3>2. PICK x \in S : x = BitsOf(v)
      BY <2>1
    <3>3. Append(s, x) = [ k \in 1 .. Len(s) + 1 |-> IF k <= Len(s) THEN s[k] ELSE x ]
      BY Appended
    <3> QED
      BY <2>1, <3>1, <3>2, <3>3, Zenon
  <2>5. ASSUME NEW k \in 1 .. n + 1
        PROVE  BitsOf(codes'[k]) = IF k <= n THEN packed[k] ELSE BitsOf(v)
    <3>1. k <= n => k \in 1 .. n
      BY <2>1
    <3>2. codes'[k] = IF k <= n THEN codes[k] ELSE v
      BY <2>2, Zenon
    <3> QED
      BY <1>1, <3>1, <3>2, Zenon
  <2> QED
    BY <2>3, <2>4, <2>5, Zenon
<1> QED
  BY <1>1, <1>2

\* The encoder's step leaves room for the last code, and emits what fits.
LEMMA Room ==
  ASSUME LzwInv, Emit
  PROVE  ~finished /\ Len(codes) + 1 < Len(chunk)
<1>1. /\ i \in 1 .. Len(chunk) + 1 /\ Len(chunk) \in Nat /\ Len(codes) \in Nat
      /\ Len(p) \in Nat /\ Len(p) >= 1 /\ p \in DOMAIN table
      /\ ~finished => Len(codes) + Len(p) <= Seen
      /\ finished => i = Len(chunk) + 1
      /\ i >= Len(chunk) => p \o c = p
  BY Ahead DEF LzwInv, EncoderInv
<1>2. i <= Len(chunk) /\ p \o c \notin DOMAIN table
  BY DEF Emit, EmitAndInsert
<1>3. i < Len(chunk)
  <2>1. ~(i >= Len(chunk))
    BY <1>1, <1>2, Zenon
  <2> QED
    BY <1>1, <2>1
<1>4. Seen = i
  BY <1>2 DEF Seen
<1> QED
  BY <1>1, <1>3, <1>4

LEMMA Fitting ==
  ASSUME LzwInv
  PROVE  Emitted(p) \in 0 .. CODES - 1 /\ Emitted(p) \in Nat
<1>1. table[p] \in Nat
  BY DEF LzwInv, EncoderInv, TableInv
<1>2. CODES \in Nat /\ CODES > 0
  BY LzwAssumption DEF LzwAssumption
<1> QED
  BY <1>1, <1>2 DEF Emitted

\* Read_code goes on exactly as long as there are codes, and finds the next one.
LEMMA FindsNext ==
  ASSUME CodecInv, finished
  PROVE  /\ B!MoreToRead <=> taken < Len(codes)
         /\ taken < Len(codes) => Number(B!NextCode) = codes[taken + 1]
         /\ Input_position = 13 * taken /\ taken \in Nat /\ Len(codes) >= 1
<1> DEFINE n == Len(codes)
<1>1. codes \in Seq(Nat) /\ n \in Nat
  BY DEF CodecInv, LzwInv, EncoderInv
<1>2. Len(packed) = n /\ \A k \in 1 .. n : packed[k] = BitsOf(codes[k])
  BY <1>1, PackedToo
<1>3. /\ Input_position = 13 * taken /\ taken \in Nat
      /\ taken <= n /\ n >= 1 /\ outlen = (13 * n - 1) \div 8 + 1
      /\ \A k \in 1 .. n : \A j \in 0 .. 12 : B!Bit(13 * (k - 1) + j) <=> j \in packed[k]
  BY <1>1, <1>2 DEF CodecInv, B!PackInv, B!Written, B!Placed
<1> HIDE DEF n
<1>4. ASSUME ~B!MoreToRead PROVE taken = n
  BY <1>2, <1>4, Fits, B!AllRead DEF CodecInv
<1>5. ASSUME taken = n PROVE ~B!MoreToRead
  <2>1. (13 * n) \div 8 >= (13 * n - 1) \div 8
    BY <1>1, <1>3, Z3
  <2> QED
    BY <1>1, <1>3, <1>5, <2>1 DEF B!MoreToRead
<1>6. ASSUME taken < n PROVE Number(B!NextCode) = codes[taken + 1]
  <2>1. taken + 1 \in 1 .. n /\ (taken + 1) - 1 = taken
    BY <1>1, <1>3, <1>6
  <2>2. B!NextCode = { j \in 0 .. 12 : B!Bit(13 * taken + j) }
    BY <1>3 DEF B!NextCode, B!Bit, B!CODE_LENGTH
  <2>3. \A j \in 0 .. 12 : B!Bit(13 * taken + j) <=> j \in BitsOf(codes[taken + 1])
    BY <1>2, <1>3, <2>1, Zenon
  <2>4. BitsOf(codes[taken + 1]) \subseteq 0 .. 12
    BY DEF BitsOf, CODE_LENGTH
  <2>5. B!NextCode = BitsOf(codes[taken + 1])
    BY <2>2, <2>3, <2>4, Zenon
  <2>6. codes[taken + 1] \in 0 .. CODES - 1
    BY <2>1, Zenon DEF CodecInv, n
  <2>7. Number(BitsOf(codes[taken + 1])) = codes[taken + 1]
    BY <2>6, NumberOfBits, Zenon
  <2> QED
    BY <2>5, <2>7, Zenon
<1> QED
  BY <1>1, <1>3, <1>4, <1>5, <1>6 DEF n

-----------------------------------------------------------------------------
(* Every step of Codec is one of Lzw and one of BitPack.                   *)

Refines ==
  /\ [LzwNext]_lzwVars
  /\ [Pack!PackNext]_(Pack!packVars)
  /\ Len(read)' = taken'
  /\ \A k \in 1 .. Len(codes') : codes'[k] \in 0 .. CODES - 1

LEMMA MatchRefines == CodecInv /\ Match => Refines
<1> SUFFICES ASSUME CodecInv, Match PROVE Refines
  OBVIOUS
<1>1. /\ Extend
      /\ UNCHANGED << chunk, codes, finished, taken >>
      /\ UNCHANGED << output_code, outlen, appeartimes, furthest, Input_position, read >>
  BY DEF Match, Extend, decoderVars, bufferVars, inputVars
<1>2. UNCHANGED packed
  BY <1>1 DEF packed
<1>3. UNCHANGED Pack!packVars
  BY <1>1, <1>2 DEF Pack!packVars, Pack!writeVars, Pack!readVars
<1>4. Len(read)' = taken' /\ \A k \in 1 .. Len(codes') : codes'[k] \in 0 .. CODES - 1
  BY <1>1, Zenon DEF CodecInv
<1> QED
  BY <1>1, <1>3, <1>4, Zenon DEF Refines, LzwNext

\* What the two forms of a write have in common.
LEMMA Wrote ==
  ASSUME CodecInv, codes' = Append(codes, Emitted(p)), UNCHANGED << chunk, taken, read >>
  PROVE  /\ packed' = Append(packed, BitsOf(Emitted(p)))
         /\ BitsOf(Emitted(p)) \in { BitsOf(n) : n \in 0 .. CODES - 1 }
         /\ Len(read)' = taken'
         /\ \A k \in 1 .. Len(codes') : codes'[k] \in 0 .. CODES - 1
<1>1. codes \in Seq(Nat) /\ LzwInv /\ Len(read) = taken
      /\ \A k \in 1 .. Len(codes) : codes[k] \in 0 .. CODES - 1
  BY DEF CodecInv, LzwInv, EncoderInv
<1>2. Emitted(p) \in 0 .. CODES - 1 /\ Emitted(p) \in Nat
  BY <1>1, Fitting
<1>3. packed' = Append(packed, BitsOf(Emitted(p)))
  BY <1>1, <1>2, PackedToo, Zenon
<1>4. ASSUME NEW k \in 1 .. Len(codes') PROVE codes'[k] \in 0 .. CODES - 1
  <2>1. codes' = [ j \in 1 .. Len(codes) + 1 |-> IF j <= Len(codes) THEN codes[j] ELSE Emitted(p) ]
        /\ Len(codes') = Len(codes) + 1 /\ Len(codes) \in Nat
    BY <1>1, <1>2, Appended
  <2>2. k <= Len(codes) => k \in 1 .. Len(codes)
    BY <2>1
  <2>3. codes'[k] = IF k <= Len(codes) THEN codes[k] ELSE Emitted(p)
    BY <2>1, Zenon
  <2> QED
    BY <1>1, <1>2, <2>2, <2>3, Zenon
<1> QED
  BY <1>1, <1>2, <1>3, <1>4, Zenon

LEMMA WriteRefines == CodecInv /\ Write => Refines
<1> SUFFICES ASSUME CodecInv, Write PROVE Refines
  OBVIOUS
<1>1. /\ Emit /\ Pack!Put(BitsOf(Emitted(p)))
      /\ codes' = Append(codes, Emitted(p))
      /\ UNCHANGED << chunk, finished, taken >>
      /\ UNCHANGED << Input_position, read >>
  BY DEF Write, Emit, EmitAndInsert, decoderVars, inputVars
<1>2. /\ packed' = Append(packed, BitsOf(Emitted(p)))
      /\ BitsOf(Emitted(p)) \in { BitsOf(n) : n \in 0 .. CODES - 1 }
      /\ Len(read)' = taken'
      /\ \A k \in 1 .. Len(codes') : codes'[k] \in 0 .. CODES - 1
  BY <1>1, Wrote, Zenon
<1>3. ~finished /\ Len(packed) + 1 < Len(chunk)
  BY <1>1, Room, PackedToo DEF CodecInv, LzwInv, EncoderInv
<1>4. UNCHANGED Len(chunk)
  BY <1>1
<1>5. Pack!EmitCode
  BY <1>1, <1>2, <1>3, <1>4, Zenon DEF Pack!EmitCode, Pack!readVars
<1> QED
  BY <1>1, <1>2, <1>5, Zenon DEF Refines, LzwNext, Pack!PackNext

LEMMA WriteLastRefines == CodecInv /\ WriteLast => Refines
<1> SUFFICES ASSUME CodecInv, WriteLast PROVE Refines
  OBVIOUS
<1>1. /\ EmitLast /\ Pack!PutLast(BitsOf(Emitted(p)))
      /\ codes' = Append(codes, Emitted(p))
      /\ ~finished /\ finished' = TRUE
      /\ UNCHANGED << chunk, taken >>
      /\ UNCHANGED << Input_position, read >>
  BY Zenon DEF WriteLast, EmitLast, decoderVars, inputVars
<1>2. /\ packed' = Append(packed, BitsOf(Emitted(p)))
      /\ BitsOf(Emitted(p)) \in { BitsOf(n) : n \in 0 .. CODES - 1 }
      /\ Len(read)' = taken'
      /\ \A k \in 1 .. Len(codes') : codes'[k] \in 0 .. CODES - 1
  BY <1>1, Wrote, Zenon
<1>4. UNCHANGED Len(chunk)
  BY <1>1
<1>5. Pack!EmitLastCode
  BY <1>1, <1>2, <1>4, Zenon DEF Pack!EmitLastCode, Pack!readVars
<1> QED
  BY <1>1, <1>2, <1>5, Zenon DEF Refines, LzwNext, Pack!PackNext

LEMMA FetchRefines == CodecInv /\ (FetchFirst \/ FetchNext) => Refines
<1> SUFFICES ASSUME CodecInv, FetchFirst \/ FetchNext PROVE Refines
  OBVIOUS
<1>1. /\ finished /\ Pack!MoreToRead
      /\ read' = Append(read, Pack!NextCode)
      /\ Input_position' = Input_position + CODE_LENGTH
      /\ UNCHANGED << output_code, outlen, appeartimes, furthest >>
  BY Zenon DEF FetchFirst, FetchNext, Fetch, bufferVars
<1>2. /\ taken < Len(codes) /\ taken \in Nat /\ Len(codes) \in Nat
      /\ Number(Pack!NextCode) = codes[taken + 1]
      /\ Input_position = 13 * taken
  <2>1. Len(codes) \in Nat
    BY DEF CodecInv, LzwInv, EncoderInv
  <2> QED
    BY <1>1, <2>1, FindsNext, SamePack, Zenon
<1>3. /\ taken' = taken + 1
      /\ UNCHANGED << chunk, codes, finished >>
      /\ LzwNext
  <2>1. CASE FetchFirst
    <3>1. taken = 0
      BY <1>2, <2>1 DEF FetchFirst
    <3>2. TakeFirst(codes[1])
      BY <1>2, <2>1, <3>1 DEF FetchFirst
    <3>3. taken' = taken + 1 /\ UNCHANGED << chunk, codes, finished >>
      BY <3>1, <3>2 DEF TakeFirst, encoderVars
    <3> QED
      BY <1>1, <3>1, <3>2, <3>3, Zenon DEF DecodeFirst, LzwNext
  <2>2. CASE FetchNext
    <3>1. taken \in 1 .. Len(codes) - 1
      BY <1>2, <2>2 DEF FetchNext
    <3>2. TakeNext(codes[taken + 1])
      BY <1>2, <2>2, Zenon DEF FetchNext
    <3>3. taken' = taken + 1 /\ UNCHANGED << chunk, codes, finished >>
      BY <3>2, Zenon DEF TakeNext, TakeWith, encoderVars
    <3> QED
      BY <1>1, <3>1, <3>2, <3>3, Zenon DEF DecodeNext, LzwNext
  <2> QED
    BY <2>1, <2>2
<1>4. UNCHANGED << packed, Len(chunk) >>
  BY <1>3, Zenon DEF packed
<1>5. Pack!ReadCode
  BY <1>1, <1>3, <1>4, Zenon DEF Pack!ReadCode, Pack!writeVars, Pack!CODE_LENGTH, CODE_LENGTH
<1>6. Len(read)' = taken'
  <2>1. Len(read) = taken /\ read \in Seq(SUBSET (0 .. 12))
    BY Zenon DEF CodecInv, B!PackInv
  <2> QED
    BY <1>1, <1>3, <2>1
<1>7. \A k \in 1 .. Len(codes') : codes'[k] \in 0 .. CODES - 1
  BY <1>3, Zenon DEF CodecInv
<1> QED
  BY <1>3, <1>5, <1>6, <1>7, Zenon DEF Refines, Pack!PackNext

LEMMA InitRefines == CodecInit => CodecInv /\ LzwInit /\ Pack!PackInit
<1> SUFFICES ASSUME CodecInit PROVE CodecInv
  BY DEF CodecInit
<1>1. LzwInv
  BY InvInit DEF CodecInit
<1>2. B!PackInv
  BY Fits, SamePack, B!InvInit, Zenon DEF CodecInit
<1>3. codes = << >> /\ read = << >> /\ taken = 0
  BY DEF CodecInit, LzwInit, Pack!PackInit
<1>4. Len(read) = taken /\ \A k \in 1 .. Len(codes) : codes[k] \in 0 .. CODES - 1
  BY <1>3
<1> QED
  BY <1>1, <1>2, <1>4, Zenon DEF CodecInv

LEMMA StepRefines == CodecInv /\ [CodecNext]_codecVars => Refines /\ CodecInv'
<1> SUFFICES ASSUME CodecInv, [CodecNext]_codecVars PROVE Refines /\ CodecInv'
  OBVIOUS
<1>1. ASSUME UNCHANGED codecVars PROVE Refines
  <2>1. /\ UNCHANGED lzwVars /\ UNCHANGED << chunk, codes, finished, taken, read >>
        /\ UNCHANGED << output_code, outlen, appeartimes, furthest, Input_position >>
    BY <1>1 DEF codecVars, lzwVars, encoderVars, decoderVars, bufferVars, inputVars
  <2>2. UNCHANGED Pack!packVars
    BY <2>1, Zenon DEF Pack!packVars, Pack!writeVars, Pack!readVars, packed
  <2>3. Len(read)' = taken' /\ \A k \in 1 .. Len(codes') : codes'[k] \in 0 .. CODES - 1
    BY <2>1, Zenon DEF CodecInv
  <2> QED
    BY <2>1, <2>2, <2>3, Zenon DEF Refines
<1>2. Refines
  BY <1>1, MatchRefines, WriteRefines, WriteLastRefines, FetchRefines, Zenon DEF CodecNext
<1>3. LzwInv'
  BY <1>2, InvStep DEF Refines, CodecInv
<1>4. [B!PackNext]_(B!packVars)
  <2>1. Pack!packVars = B!packVars /\ Pack!packVars' = B!packVars'
    BY Zenon DEF Pack!packVars, Pack!writeVars, Pack!readVars, B!packVars, B!writeVars, B!readVars
  <2> QED
    BY <1>2, <2>1, SamePack, Zenon DEF Refines, Pack!PackNext, B!PackNext
<1>5. B!PackInv'
  BY <1>4, Fits, B!InvStep, Zenon DEF CodecInv
<1> QED
  BY <1>2, <1>3, <1>5, Zenon DEF Refines, CodecInv

-----------------------------------------------------------------------------

\* CodecInv holds in every reachable state.
THEOREM CodecInvariant == CodecSpec => []CodecInv
<1>1. CodecInit => CodecInv
  BY InitRefines
<1>2. CodecInv /\ [CodecNext]_codecVars => CodecInv'
  BY StepRefines
<1> QED
  BY <1>1, <1>2, PTL DEF CodecSpec

\* Codec implements Lzw: the bytes between LZW and Decompress carry the codes, in
\* their order and completely, for any chunk and up to 2^13 codes.
THEOREM CodecImplementsLzw == CodecSpec => ImplementsLzw
<1>1. CodecInit => LzwInit
  BY InitRefines
<1>2. CodecInv /\ [CodecNext]_codecVars => [LzwNext]_lzwVars
  BY StepRefines DEF Refines
<1> QED
  BY <1>1, <1>2, CodecInvariant, PTL DEF CodecSpec, ImplementsLzw, LzwSpec

\* Codec implements BitPack: the codes that LZW emits are few enough and short
\* enough for what BitPack assumes of them.
THEOREM CodecImplementsPack == CodecSpec => ImplementsPack
<1>1. CodecInit => Pack!PackInit
  BY InitRefines
<1>2. CodecInv /\ [CodecNext]_codecVars => [Pack!PackNext]_(Pack!packVars)
  BY StepRefines DEF Refines
<1> QED
  BY <1>1, <1>2, CodecInvariant, PTL DEF CodecSpec, ImplementsPack, Pack!PackSpec

\* A chunk of safe length goes through LZW, the bytes and Decompress and comes
\* out as it was.
THEOREM CodecRestores == CodecSpec => []RestoresChunk
BY CodecImplementsLzw, ChunkRestored, PTL DEF ImplementsLzw

\* Through the bytes, too, the decoder's dictionary is the encoder's.
THEOREM CodecTablesAgree == CodecSpec => []TablesAgree
BY CodecImplementsLzw, DictionariesAgree, PTL DEF ImplementsLzw

\* LZW gives BitPack no more codes than the chunk has bytes.
THEOREM CodecFewCodes == CodecSpec => []CodesWithinLength
BY CodecImplementsLzw, FewCodes, PTL DEF ImplementsLzw
=============================================================================
