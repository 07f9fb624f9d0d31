--------------------------- MODULE BitPackProofs ---------------------------
(***************************************************************************)
(* Proofs about BitPack, for chunks of every length and any codes of       *)
(* CODE_LENGTH bits: what the eight branches write is what the bit loop    *)
(* reads.                                                                  *)
(***************************************************************************)
EXTENDS BitPack, SequenceTheorems, TLAPS

\* The bit at position P of the stream, as Read_code finds it.
Bit(P) == (P % 8) \in output_code[P \div 8]

\* The bits there are.
Positions == 0 .. 16 * MAX_CHUNK_LEN + 23

\* The writer is at bit 13 * Len(codes): which byte and branch that is, which
\* bits are the codes, and that nothing is behind them.
Placed ==
  /\ output_code \in [ Memory -> SUBSET (0 .. 7) ]
  /\ \A k \in 1 .. Len(codes) : \A j \in 0 .. 12 : Bit(13 * (k - 1) + j) <=> j \in codes[k]

Writing ==
  /\ Len(codes) < chunk_len
  /\ appeartimes = Len(codes) % 8
  /\ outlen = (13 * Len(codes)) \div 8
  /\ furthest <= outlen + 1
  /\ \A P \in Positions : P >= 13 * Len(codes) => ~Bit(P)
  /\ Len(read) = 0

\* LZW has returned: outlen is the number of bytes that the codes take.
Written ==
  /\ Len(codes) \in 1 .. chunk_len
  /\ outlen = (13 * Len(codes) - 1) \div 8 + 1
  /\ furthest = outlen
  /\ Len(read) <= Len(codes)

PackInv ==
  /\ chunk_len \in 1 .. MAX_CHUNK_LEN
  /\ codes \in Seq(SUBSET (0 .. 12))
  /\ read \in Seq(SUBSET (0 .. 12))
  /\ finished \in BOOLEAN
  /\ Input_position = 13 * Len(read)
  /\ \A k \in 1 .. Len(read) : read[k] = codes[k]
  /\ furthest \in Nat
  /\ Placed
  /\ ~finished => Writing
  /\ finished => Written

-----------------------------------------------------------------------------
(* The table of the branches.                                              *)

\* A code that starts at bit r of a byte has 8 - r bits there, then as many as
\* fit, then the rest.
LEMMA Branch ==
  ASSUME appeartimes \in 0 .. 7, NEW r, r = (5 * appeartimes) % 8
  PROVE  /\ r \in 0 .. 7
         /\ Widths[1] = 8 - r
         /\ r <= 3 => Len(Widths) = 2 /\ Widths[2] = 5 + r
         /\ r > 3 => Len(Widths) = 3 /\ Widths[2] = 8 /\ Widths[3] = r - 3
         /\ r = 3 <=> appeartimes = 7
<1>1. CASE appeartimes = 0
  BY <1>1 DEF Widths, Split
<1>2. CASE appeartimes = 1
  BY <1>2 DEF Widths, Split
<1>3. CASE appeartimes = 2
  BY <1>3 DEF Widths, Split
<1>4. CASE appeartimes = 3
  BY <1>4 DEF Widths, Split
<1>5. CASE appeartimes = 4
  BY <1>5 DEF Widths, Split
<1>6. CASE appeartimes = 5
  BY <1>6 DEF Widths, Split
<1>7. CASE appeartimes = 6
  BY <1>7 DEF Widths, Split
<1>8. CASE appeartimes = 7
  BY <1>8 DEF Widths, Split
<1> QED
  BY <1>1, <1>2, <1>3, <1>4, <1>5, <1>6, <1>7, <1>8

\* Bit x of the k-th byte of a branch is the bit of the code that many places
\* behind its start.
LEMMA BitsAre ==
  ASSUME appeartimes \in 0 .. 7, NEW r, r = (5 * appeartimes) % 8,
         NEW code \in SUBSET (0 .. 12), NEW k \in 1 .. Len(Widths), NEW x \in 0 .. 7
  PROVE  x \in Bits(code, k) <=> 8 * (k - 1) + x - r \in code
<1>1. /\ r \in 0 .. 7 /\ Widths[1] = 8 - r
      /\ r <= 3 => Len(Widths) = 2 /\ Widths[2] = 5 + r
      /\ r > 3 => Len(Widths) = 3 /\ Widths[2] = 8 /\ Widths[3] = r - 3
  BY Branch
<1>0. (Len(Widths) = 2 /\ k \in 1 .. 2) \/ (Len(Widths) = 3 /\ k \in 1 .. 3)
  <2>1. Len(Widths) = 2 \/ Len(Widths) = 3
    BY <1>1
  <2>2. k \in 1 .. Len(Widths)
    OBVIOUS
  <2> QED
    BY <2>1, <2>2, Zenon
<1>2. CASE k = 1
  <2>1. x \in Bits(code, 1) <=> \E bit \in 0 .. (8 - r) - 1 : bit \in code /\ x = r + bit
    BY <1>1 DEF Bits
  <2> QED
    BY <1>1, <1>2, <2>1
<1>3. CASE k = 2
  <2>1. Widths[2] \in {5 + r, 8} /\ (r <= 3 => Widths[2] = 5 + r) /\ (r > 3 => Widths[2] = 8)
    BY <1>1
  <2>2. x \in Bits(code, 2) <=>
          \E bit \in 0 .. Widths[2] - 1 : (8 - r) + bit \in code /\ x = bit
    BY <1>1 DEF Bits
  <2> QED
    BY <1>1, <1>3, <2>1, <2>2
<1>4. CASE k = 3
  <2>1. r > 3 /\ Widths[3] = r - 3
    BY <1>0, <1>1, <1>4
  <2>2. x \in Bits(code, 3) <=>
          \E bit \in 0 .. (r - 3) - 1 : (8 - r) + 8 + bit \in code /\ x = bit
    BY <1>1, <2>1 DEF Bits
  <2> QED
    BY <1>1, <1>4, <2>1, <2>2
<1>5. k = 1 \/ k = 2 \/ k = 3
  BY <1>0
<1> QED
  BY <1>2, <1>3, <1>4, <1>5

\* The n-th code starts at bit r of byte outlen.
LEMMA Remainder ==
  ASSUME NEW n \in Nat, appeartimes = n % 8, outlen = (13 * n) \div 8
  PROVE  /\ appeartimes \in 0 .. 7 /\ outlen \in Nat
         /\ 13 * n = 8 * outlen + ((5 * appeartimes) % 8)
<1> DEFINE r == (5 * appeartimes) % 8
           m == n \div 8
<1>1. /\ appeartimes \in 0 .. 7 /\ r \in 0 .. 7 /\ outlen \in Nat
      /\ m \in Nat /\ n = 8 * m + appeartimes
  BY Z3
<1>2. 13 * n = 104 * m + 13 * appeartimes
  BY <1>1
<1>3. (13 * appeartimes) % 8 = r
  BY <1>1
<1>4. (13 * n) % 8 = (13 * appeartimes) % 8
  BY <1>1, <1>2
<1> HIDE DEF r
<1>5. 13 * n = 8 * outlen + r
  BY <1>1, <1>3, <1>4
<1> QED
  BY <1>1, <1>5 DEF r

\* What ORing the branch's bytes does to each bit of the stream, the writer
\* being at bit 13 * n: it sets those of the code, and no others.
LEMMA OrAt ==
  ASSUME NEW n \in Nat, appeartimes = n % 8, outlen = (13 * n) \div 8,
         NEW code \in SUBSET (0 .. 12),
         NEW P \in Nat, P \div 8 \in Memory
  PROVE  (P % 8) \in Or(code)[P \div 8] <=> Bit(P) \/ P - 13 * n \in code
<1> DEFINE r == (5 * appeartimes) % 8
           b == P \div 8
           x == P % 8
<1>1. /\ appeartimes \in 0 .. 7 /\ r \in 0 .. 7
      /\ b \in Nat /\ x \in 0 .. 7 /\ P = 8 * b + x
      /\ outlen \in Nat
  BY Z3
<1>2. 13 * n = 8 * outlen + r
  BY Remainder
<1> HIDE DEF r
<1>3. /\ Len(Widths) \in {2, 3}
      /\ r + 13 <= 8 * Len(Widths)
  BY <1>1, Branch DEF r
<1>4. Or(code)[b] = IF b - outlen \in 0 .. Len(Widths) - 1
                      THEN output_code[b] \cup Bits(code, b - outlen + 1)
                      ELSE output_code[b]
  BY DEF Or
<1> HIDE DEF b, x
<1>5. CASE b - outlen \in 0 .. Len(Widths) - 1
  <2>1. b - outlen + 1 \in 1 .. Len(Widths)
    BY <1>1, <1>3, <1>5
  <2>2. x \in Bits(code, b - outlen + 1) <=> 8 * ((b - outlen + 1) - 1) + x - r \in code
    BY <1>1, <2>1, BitsAre DEF r
  <2>3. 8 * ((b - outlen + 1) - 1) + x - r = P - 13 * n
    BY <1>1, <1>2
  <2> QED
    BY <1>4, <1>5, <2>2, <2>3 DEF Bit, b, x
<1>6. CASE b - outlen \notin 0 .. Len(Widths) - 1
  <2>1. P - 13 * n \notin 0 .. 12
    BY <1>1, <1>2, <1>3, <1>6
  <2> QED
    BY <1>4, <1>6, <2>1 DEF Bit, b, x
<1> QED
  BY <1>5, <1>6

\* Where the branch leaves outlen, and how far it writes.
LEMMA AdvanceTo ==
  ASSUME NEW n \in Nat, appeartimes = n % 8, outlen = (13 * n) \div 8
  PROVE  /\ Advance = (13 * (n + 1)) \div 8
         /\ outlen + Len(Widths) - 1 = (13 * (n + 1) - 1) \div 8
         /\ Pad(outlen + Len(Widths) - 1) = outlen + Len(Widths)
<1> DEFINE r == (5 * appeartimes) % 8
           last == outlen + Len(Widths) - 1
<1>1. /\ appeartimes \in 0 .. 7 /\ r \in 0 .. 7 /\ outlen \in Nat
      /\ 13 * n = 8 * outlen + r
  BY Remainder
<1>2. /\ r <= 3 => Len(Widths) = 2
      /\ r > 3 => Len(Widths) = 3
      /\ r = 3 <=> appeartimes = 7
  BY <1>1, Branch
<1> HIDE DEF r
<1>s. /\ 13 * (n + 1) = 8 * outlen + (r + 13)
      /\ (13 * (n + 1)) \div 8 = outlen + (r + 13) \div 8
      /\ (13 * (n + 1) - 1) \div 8 = outlen + (r + 12) \div 8
  BY <1>1
<1>t. /\ r < 3 => (r + 13) \div 8 = 1
      /\ r >= 3 => (r + 13) \div 8 = 2
      /\ r <= 3 => (r + 12) \div 8 = 1
      /\ r > 3 => (r + 12) \div 8 = 2
  BY <1>1
<1>u. /\ r < 3 => (13 * (n + 1)) \div 8 = outlen + 1
      /\ r >= 3 => (13 * (n + 1)) \div 8 = outlen + 2
      /\ r <= 3 => (13 * (n + 1) - 1) \div 8 = outlen + 1
      /\ r > 3 => (13 * (n + 1) - 1) \div 8 = outlen + 2
  BY <1>1, <1>s, <1>t
<1>v. /\ r <= 3 => last = outlen + 1
      /\ r > 3 => last = outlen + 2
  <2>1. /\ r <= 3 => last = outlen + 2 - 1
        /\ r > 3 => last = outlen + 3 - 1
    BY <1>2, Zenon
  <2> HIDE DEF last
  <2> QED
    BY <1>1, <2>1
<1>3. Advance = (13 * (n + 1)) \div 8
  <2>1. Advance = IF r = 3 THEN last + 1 ELSE last + 0
    BY <1>2 DEF Advance
  <2> HIDE DEF last
  <2> QED
    BY <1>1, <1>u, <1>v, <2>1
<1>4. last = (13 * (n + 1) - 1) \div 8
  <2> HIDE DEF last
  <2> QED
    BY <1>1, <1>u, <1>v
<1>5. last % 13 # 0
  <2> DEFINE m == n \div 8
  <2>1. m \in Nat /\ n = 8 * m + appeartimes
    BY Z3
  <2> HIDE DEF m, last
  <2>2. 13 * (n + 1) - 1 = 104 * m + (13 * appeartimes + 12)
    BY <1>1, <2>1
  <2>3. last = 13 * m + (13 * appeartimes + 12) \div 8
    BY <1>1, <1>4, <2>1, <2>2
  <2>4. (13 * appeartimes + 12) \div 8 \in 1 .. 12
    BY <1>1
  <2> QED
    BY <2>1, <2>3, <2>4
<1> QED
  BY <1>1, <1>2, <1>3, <1>4, <1>5 DEF Pad

\* A branch writes no bit outside of its bytes.
LEMMA OrType ==
  ASSUME appeartimes \in 0 .. 7, outlen \in Nat, NEW code \in SUBSET (0 .. 12),
         output_code \in [ Memory -> SUBSET (0 .. 7) ]
  PROVE  Or(code) \in [ Memory -> SUBSET (0 .. 7) ]
<1> DEFINE r == (5 * appeartimes) % 8
<1>1. /\ r \in 0 .. 7 /\ Widths[1] = 8 - r
      /\ r <= 3 => Len(Widths) = 2 /\ Widths[2] = 5 + r
      /\ r > 3 => Len(Widths) = 3 /\ Widths[2] = 8 /\ Widths[3] = r - 3
  BY Branch
<1> HIDE DEF r
<1>2. Len(Widths) = 2 \/ Len(Widths) = 3
  BY <1>1
<1>3. ASSUME NEW k \in 1 .. 3, k <= Len(Widths)
      PROVE  Bits(code, k) \subseteq 0 .. 7
  <2>1. k = 1 => Widths[k] \in 1 .. 8
    BY <1>1
  <2>2. k = 2 => Widths[k] \in 1 .. 8
    BY <1>1
  <2>3. k = 3 => Widths[k] \in 1 .. 8
    BY <1>1, <1>3
  <2>4. Widths[k] \in 1 .. 8
    BY <2>1, <2>2, <2>3
  <2> DEFINE width == Widths[k]
  <2> HIDE DEF width
  <2>5. ASSUME NEW x \in Bits(code, k)
        PROVE  x \in 0 .. 7
    <3>1. PICK bit \in 0 .. width - 1 : x = (IF k = 1 THEN 8 - width ELSE 0) + bit
      BY <2>5, Zenon DEF Bits, width
    <3> QED
      BY <2>4, <3>1 DEF width
  <2> QED
    BY <2>5
<1>4. ASSUME NEW b \in Memory
      PROVE  Or(code)[b] \subseteq 0 .. 7
  <2>1. Or(code)[b] = IF b - outlen \in 0 .. Len(Widths) - 1
                        THEN output_code[b] \cup Bits(code, b - outlen + 1)
                        ELSE output_code[b]
    BY DEF Or
  <2>2. output_code[b] \subseteq 0 .. 7
    OBVIOUS
  <2>3. CASE b - outlen \in 0 .. Len(Widths) - 1
    <3>1. b \in Nat
      BY BitPackAssumption DEF Memory, BitPackAssumption
    <3>2. b - outlen + 1 \in 1 .. 3 /\ b - outlen + 1 <= Len(Widths)
      <4>1. CASE Len(Widths) = 2
        <5>1. b - outlen \in 0 .. 2 - 1
          BY <2>3, <4>1, Zenon
        <5> QED
          BY <3>1, <4>1, <5>1
      <4>2. CASE Len(Widths) = 3
        <5>1. b - outlen \in 0 .. 3 - 1
          BY <2>3, <4>2, Zenon
        <5> QED
          BY <3>1, <4>2, <5>1
      <4> QED
        BY <1>2, <4>1, <4>2
    <3>3. Bits(code, b - outlen + 1) \subseteq 0 .. 7
      BY <1>3, <3>2
    <3> QED
      BY <2>1, <2>2, <2>3, <3>3
  <2>4. CASE b - outlen \notin 0 .. Len(Widths) - 1
    BY <2>1, <2>2, <2>4
  <2> QED
    BY <2>3, <2>4
<1> QED
  BY <1>4 DEF Or

\* One more code in its place.
LEMMA PlaceCode ==
  ASSUME PackInv, ~finished, NEW code \in SUBSET (0 .. 12),
         codes' = Append(codes, code),
         output_code' \in [ Memory -> SUBSET (0 .. 7) ],
         \A P \in Positions : Bit(P)' <=> Bit(P) \/ P - 13 * Len(codes) \in code
  PROVE  /\ Placed'
         /\ codes' \in Seq(SUBSET (0 .. 12)) /\ Len(codes') = Len(codes) + 1
         /\ \A k \in 1 .. Len(codes) : codes'[k] = codes[k]
         /\ \A P \in Positions : P >= 13 * Len(codes') => ~Bit(P)'
<1> DEFINE n == Len(codes)
<1>1. /\ n \in Nat /\ n < chunk_len /\ chunk_len \in Nat /\ chunk_len <= MAX_CHUNK_LEN
      /\ MAX_CHUNK_LEN \in Nat
      /\ \A P \in Positions : P >= 13 * n => ~Bit(P)
      /\ \A k \in 1 .. n : \A j \in 0 .. 12 : Bit(13 * (k - 1) + j) <=> j \in codes[k]
  BY BitPackAssumption DEF PackInv, Writing, Placed, BitPackAssumption
<1>2. /\ codes' \in Seq(SUBSET (0 .. 12)) /\ Len(codes') = n + 1
      /\ \A k \in 1 .. n : codes'[k] = codes[k]
      /\ codes'[n + 1] = code
  BY DEF PackInv
<1> HIDE DEF n
<1>3. ASSUME NEW k \in 1 .. n + 1, NEW j \in 0 .. 12
      PROVE  Bit(13 * (k - 1) + j)' <=> j \in codes'[k]
  <2> DEFINE P == 13 * (k - 1) + j
  <2>1. P \in Positions
    BY <1>1 DEF Positions
  <2>2. Bit(P)' <=> Bit(P) \/ P - 13 * n \in code
    BY <2>1 DEF n
  <2>3. CASE k <= n
    <3>1. P - 13 * n \notin code
      BY <1>1, <2>3
    <3>2. Bit(P) <=> j \in codes[k]
      <4>1. k \in 1 .. n
        BY <1>1, <2>3
      <4> QED
        BY <1>1, <4>1, Zenon
    <3>3. codes'[k] = codes[k]
      BY <1>1, <1>2, <2>3
    <3> HIDE DEF P
    <3>4. Bit(P)' <=> j \in codes'[k]
      BY <2>2, <3>1, <3>2, <3>3
    <3> QED
      BY <3>4 DEF P
  <2>4. CASE k = n + 1
    <3>1. P - 13 * n = j /\ P >= 13 * n
      BY <1>1, <2>4
    <3>2. ~Bit(P)
      BY <1>1, <2>1, <3>1
    <3> HIDE DEF P
    <3>3. Bit(P)' <=> j \in codes'[k]
      BY <1>2, <2>2, <2>4, <3>1, <3>2
    <3> QED
      BY <3>3 DEF P
  <2>5. k <= n \/ k = n + 1
    BY <1>1
  <2> QED
    BY <2>3, <2>4, <2>5, Zenon
<1>4. Placed'
  BY <1>2, <1>3 DEF Placed
<1>5. ASSUME NEW P \in Positions, P >= 13 * Len(codes')
      PROVE  ~Bit(P)'
  <2>1. P >= 13 * n /\ P - 13 * n \notin 0 .. 12
    BY <1>1, <1>2, <1>5 DEF Positions
  <2>2. Bit(P)' <=> Bit(P) \/ P - 13 * n \in code
    BY DEF n
  <2> QED
    BY <1>1, <2>1, <2>2
<1> QED
  BY <1>2, <1>4, <1>5 DEF n

-----------------------------------------------------------------------------
(* The invariant is inductive.                                             *)

LEMMA InvInit == PackInit => PackInv
<1> SUFFICES ASSUME PackInit PROVE PackInv
  OBVIOUS
<1>1. Len(codes) = 0 /\ Len(read) = 0 /\ chunk_len \in 1 .. MAX_CHUNK_LEN /\ MAX_CHUNK_LEN \in Nat
  BY BitPackAssumption DEF PackInit, BitPackAssumption
<1>2. Placed
  BY <1>1 DEF PackInit, Placed
<1>3. ASSUME NEW P \in Positions PROVE ~Bit(P)
  <2>1. P \div 8 \in Memory
    BY <1>1 DEF Positions, Memory
  <2> QED
    BY <2>1 DEF PackInit, Bit
<1>4. Writing
  BY <1>1, <1>3 DEF PackInit, Writing
<1>5. Input_position = 0 /\ furthest = 0 /\ codes = << >> /\ read = << >>
  BY DEF PackInit
<1>6. finished = FALSE
  BY Zenon DEF PackInit
<1>7. finished \in BOOLEAN /\ (~finished => Writing) /\ (finished => Written)
  BY <1>4, <1>6, Zenon
<1>8. /\ Input_position = 13 * Len(read) /\ furthest \in Nat
      /\ codes \in Seq(SUBSET (0 .. 12)) /\ read \in Seq(SUBSET (0 .. 12))
      /\ \A k \in 1 .. Len(read) : read[k] = codes[k]
  BY <1>5
<1> QED
  BY <1>1, <1>2, <1>7, <1>8, Zenon DEF PackInv

\* What both forms of a write have in common.
LEMMA WriteBits ==
  ASSUME PackInv, ~finished, NEW code \in SUBSET (0 .. 12)
  PROVE  /\ Or(code) \in [ Memory -> SUBSET (0 .. 7) ]
         /\ \A P \in Positions :
              (P % 8) \in Or(code)[P \div 8] <=> Bit(P) \/ P - 13 * Len(codes) \in code
<1>1. /\ Len(codes) \in Nat /\ appeartimes = Len(codes) % 8 /\ outlen = (13 * Len(codes)) \div 8
      /\ output_code \in [ Memory -> SUBSET (0 .. 7) ]
      /\ MAX_CHUNK_LEN \in Nat
  BY BitPackAssumption DEF PackInv, Writing, Placed, BitPackAssumption
<1>2. appeartimes \in 0 .. 7 /\ outlen \in Nat
  BY <1>1, Remainder
<1>3. Or(code) \in [ Memory -> SUBSET (0 .. 7) ]
  BY <1>1, <1>2, OrType
<1>4. ASSUME NEW P \in Positions
      PROVE  (P % 8) \in Or(code)[P \div 8] <=> Bit(P) \/ P - 13 * Len(codes) \in code
  <2>1. P \in Nat /\ P \div 8 \in Memory
    BY <1>1 DEF Positions, Memory
  <2> QED
    BY <1>1, <2>1, OrAt
<1> QED
  BY <1>3, <1>4

LEMMA EmitCodeInv == PackInv /\ EmitCode => PackInv'
<1> SUFFICES ASSUME PackInv, EmitCode PROVE PackInv'
  OBVIOUS
<1>1. PICK code \in Code : Put(code) /\ codes' = Append(codes, code)
  BY DEF EmitCode
<1>p. output_code' = Or(code)
  BY <1>1 DEF Put
<1>2. /\ ~finished /\ Len(codes) + 1 < chunk_len
      /\ outlen' = Advance /\ furthest' = outlen + Len(Widths) - 1
      /\ appeartimes' = (appeartimes + 1) % 8
      /\ UNCHANGED << chunk_len, finished, Input_position, read >>
  BY <1>1 DEF EmitCode, Put, readVars
<1>3. code \in SUBSET (0 .. 12)
  BY BitPackAssumption DEF BitPackAssumption, CODE_LENGTH
<1>4. /\ output_code' \in [ Memory -> SUBSET (0 .. 7) ]
      /\ \A P \in Positions : Bit(P)' <=> Bit(P) \/ P - 13 * Len(codes) \in code
  BY <1>p, <1>2, <1>3, WriteBits DEF Bit
<1>5. /\ Placed'
      /\ codes' \in Seq(SUBSET (0 .. 12)) /\ Len(codes') = Len(codes) + 1
      /\ \A P \in Positions : P >= 13 * Len(codes') => ~Bit(P)'
  BY <1>1, <1>2, <1>3, <1>4, PlaceCode
<1>6. /\ Len(codes) \in Nat /\ appeartimes = Len(codes) % 8
      /\ outlen = (13 * Len(codes)) \div 8
      /\ Len(read) = 0 /\ read \in Seq(SUBSET (0 .. 12))
      /\ chunk_len \in 1 .. MAX_CHUNK_LEN
  BY <1>2 DEF PackInv, Writing
<1>7. /\ outlen' = (13 * (Len(codes) + 1)) \div 8
      /\ furthest' = (13 * (Len(codes) + 1) - 1) \div 8
  BY <1>2, <1>6, AdvanceTo
<1>8. Writing'
  <2> DEFINE n == Len(codes)
  <2>1. n \in Nat /\ appeartimes = n % 8
    BY <1>6
  <2>2. outlen' = (13 * (n + 1)) \div 8 /\ furthest' = (13 * (n + 1) - 1) \div 8
    BY <1>7
  <2> HIDE DEF n
  <2>3. appeartimes' = (n + 1) % 8 /\ furthest' <= outlen' + 1 /\ furthest' \in Nat
    BY <1>2, <2>1, <2>2
  <2> QED
    BY <1>2, <1>5, <1>6, <2>2, <2>3 DEF Writing, n
<1> QED
  <2>1. furthest' \in Nat
    BY <1>6, <1>7
  <2> QED
    BY <1>2, <1>5, <1>6, <1>8, <2>1 DEF PackInv

LEMMA EmitLastCodeInv == PackInv /\ EmitLastCode => PackInv'
<1> SUFFICES ASSUME PackInv, EmitLastCode PROVE PackInv'
  OBVIOUS
<1> DEFINE last == outlen + Len(Widths) - 1
<1>1. PICK code \in Code : PutLast(code) /\ codes' = Append(codes, code)
  BY DEF EmitLastCode
<1>p. output_code' = IF Pad(last) # last THEN [ Or(code) EXCEPT ![Pad(last)] = {} ] ELSE Or(code)
  BY <1>1 DEF PutLast
<1>2. /\ ~finished /\ finished' = TRUE
      /\ outlen' = Pad(last) /\ furthest' = Pad(last)
      /\ UNCHANGED << chunk_len, appeartimes, Input_position, read >>
  BY <1>1 DEF EmitLastCode, PutLast, readVars
<1>3. code \in SUBSET (0 .. 12)
  BY BitPackAssumption DEF BitPackAssumption, CODE_LENGTH
<1>4. /\ Len(codes) \in Nat /\ appeartimes = Len(codes) % 8
      /\ outlen = (13 * Len(codes)) \div 8
      /\ Len(codes) < chunk_len
      /\ Len(read) = 0 /\ read \in Seq(SUBSET (0 .. 12))
      /\ chunk_len \in 1 .. MAX_CHUNK_LEN /\ MAX_CHUNK_LEN \in Nat
      /\ \A P \in Positions : P >= 13 * Len(codes) => ~Bit(P)
  BY <1>2, BitPackAssumption DEF PackInv, Writing, BitPackAssumption
<1>5. /\ last = (13 * (Len(codes) + 1) - 1) \div 8
      /\ Pad(last) = outlen + Len(Widths)
  BY <1>4, AdvanceTo
<1>6. last \in Nat /\ Pad(last) = last + 1
  <2>1. last \in Nat
    BY <1>4, <1>5
  <2>2. last % 13 # 0 => Pad(last) = last + 1
    BY DEF Pad
  <2>3. last % 13 = 0 => Pad(last) = last
    BY DEF Pad
  <2>4. outlen + Len(Widths) = last + 1
    BY <1>4, Remainder, Branch
  <2> QED
    BY <1>5, <2>1, <2>2, <2>3, <2>4
<1> HIDE DEF last
<1>7. output_code' = [ Or(code) EXCEPT ![last + 1] = {} ]
  BY <1>p, <1>6
<1>8. /\ Or(code) \in [ Memory -> SUBSET (0 .. 7) ]
      /\ \A P \in Positions :
           (P % 8) \in Or(code)[P \div 8] <=> Bit(P) \/ P - 13 * Len(codes) \in code
  BY <1>2, <1>3, WriteBits
<1>9. output_code' \in [ Memory -> SUBSET (0 .. 7) ]
  BY <1>7, <1>8
<1>10. ASSUME NEW P \in Positions
       PROVE  Bit(P)' <=> Bit(P) \/ P - 13 * Len(codes) \in code
  <2>1. P \div 8 \in Memory /\ P \in Nat
    BY <1>4 DEF Positions, Memory
  <2>2. CASE P \div 8 = last + 1
    <3>1. P >= 13 * Len(codes) /\ P - 13 * Len(codes) \notin 0 .. 12
      <4> DEFINE n == Len(codes)
      <4>1. n \in Nat /\ last = (13 * (n + 1) - 1) \div 8
        BY <1>4, <1>5
      <4> HIDE DEF n
      <4>2. P >= 8 * (last + 1)
        BY <1>6, <2>1, <2>2
      <4>3. 8 * (last + 1) > 13 * (n + 1) - 1
        BY <4>1, Z3
      <4>4. P >= 13 * n /\ P - 13 * n \notin 0 .. 12
        BY <1>6, <2>1, <4>1, <4>2, <4>3
      <4> QED
        BY <4>4 DEF n
    <3>2. ~Bit(P)'
      BY <1>7, <1>8, <2>1, <2>2 DEF Bit
    <3> QED
      BY <1>3, <1>4, <3>1, <3>2
  <2>3. CASE P \div 8 # last + 1
    <3>1. output_code'[P \div 8] = Or(code)[P \div 8]
      BY <1>7, <1>8, <2>1, <2>3
    <3> QED
      BY <1>8, <3>1 DEF Bit
  <2> QED
    BY <2>2, <2>3
<1>11. /\ Placed'
       /\ codes' \in Seq(SUBSET (0 .. 12)) /\ Len(codes') = Len(codes) + 1
  BY <1>1, <1>2, <1>3, <1>9, <1>10, PlaceCode
<1>12. Written'
  <2>1. outlen' = (13 * Len(codes') - 1) \div 8 + 1 /\ furthest' = outlen'
    BY <1>2, <1>5, <1>6, <1>11
  <2> QED
    BY <1>2, <1>4, <1>11, <2>1 DEF Written
<1> QED
  <2>1. furthest' \in Nat
    BY <1>2, <1>6
  <2> QED
    BY <1>2, <1>4, <1>11, <1>12, <2>1 DEF PackInv

\* While the reader goes on, a code is left; it finds that one.
LEMMA ReadCodeInv == PackInv /\ ReadCode => PackInv'
<1> SUFFICES ASSUME PackInv, ReadCode PROVE PackInv'
  OBVIOUS
<1> DEFINE n == Len(codes)
           m == Len(read)
           value == { i \in 0 .. 12 : Bit(Input_position + i) }
<1>1. /\ finished /\ MoreToRead
      /\ Input_position' = Input_position + 13
      /\ UNCHANGED << chunk_len, output_code, outlen, appeartimes, codes, furthest, finished >>
  BY DEF ReadCode, writeVars, CODE_LENGTH
<1>2. read' = Append(read, value)
  BY DEF ReadCode, NextCode, CODE_LENGTH, Bit
<1>3. /\ Input_position = 13 * m
      /\ \A k \in 1 .. m : read[k] = codes[k]
      /\ read \in Seq(SUBSET (0 .. 12)) /\ codes \in Seq(SUBSET (0 .. 12))
      /\ m \in Nat /\ n \in Nat
  BY DEF PackInv
<1>4. Written /\ Placed
  BY <1>1 DEF PackInv
<1>5. /\ n >= 1 /\ m <= n /\ outlen = (13 * n - 1) \div 8 + 1
      /\ \A k \in 1 .. n : \A j \in 0 .. 12 : Bit(13 * (k - 1) + j) <=> j \in codes[k]
  BY <1>4 DEF Written, Placed
<1>6. 13 * m = 0 \/ (13 * m) \div 8 < outlen - 1
  BY <1>1, <1>3 DEF MoreToRead
<1> HIDE DEF n, m
<1>7. m < n
  <2>1. CASE m = n
    <3>1. (13 * n) \div 8 >= (13 * n - 1) \div 8
      BY <1>3, <1>5, Z3
    <3> QED
      BY <1>3, <1>5, <1>6, <2>1, <3>1
  <2> QED
    BY <1>3, <1>5, <2>1
<1>8. value = codes[m + 1]
  <2>1. codes[m + 1] \in SUBSET (0 .. 12)
    BY <1>3, <1>7 DEF n
  <2>2. ASSUME NEW j \in 0 .. 12
        PROVE  Bit(Input_position + j) <=> j \in codes[m + 1]
    <3>1. m + 1 \in 1 .. n /\ Input_position + j = 13 * ((m + 1) - 1) + j
      BY <1>3, <1>7
    <3>2. Bit(13 * ((m + 1) - 1) + j) <=> j \in codes[m + 1]
      BY <1>5, <3>1, Zenon
    <3> QED
      BY <3>1, <3>2, Zenon
  <2> QED
    BY <2>1, <2>2
<1>9. value \in SUBSET (0 .. 12)
  OBVIOUS
<1> HIDE DEF value
<1>10. /\ read' \in Seq(SUBSET (0 .. 12)) /\ Len(read') = m + 1
       /\ \A k \in 1 .. m + 1 : read'[k] = codes[k]
  BY <1>2, <1>3, <1>8, <1>9 DEF m
<1>11. Input_position' = 13 * Len(read')
  BY <1>1, <1>3, <1>10
<1>12. Written' /\ Placed'
  <2>1. Len(read') <= Len(codes)
    BY <1>3, <1>7, <1>10 DEF n
  <2> QED
    BY <1>1, <1>4, <2>1 DEF Written, Placed, Bit
<1>13. finished' /\ finished' \in BOOLEAN
  BY <1>1, Zenon DEF PackInv
<1> QED
  BY <1>1, <1>3, <1>10, <1>11, <1>12, <1>13 DEF PackInv

LEMMA InvStep == PackInv /\ [PackNext]_packVars => PackInv'
<1> SUFFICES ASSUME PackInv, [PackNext]_packVars PROVE PackInv'
  OBVIOUS
<1>1. CASE EmitCode
  BY <1>1, EmitCodeInv
<1>2. CASE EmitLastCode
  BY <1>2, EmitLastCodeInv
<1>3. CASE ReadCode
  BY <1>3, ReadCodeInv
<1>4. CASE UNCHANGED packVars
  BY <1>4 DEF packVars, writeVars, readVars, PackInv, Placed, Writing, Written, Bit
<1> QED
  BY <1>1, <1>2, <1>3, <1>4 DEF PackNext

\* PackInv holds in every reachable state: the eight branches of lzw.cpp place
\* every code at 13 times its number, and zeros behind the last one.
THEOREM PackInvariant == PackSpec => []PackInv
BY InvInit, InvStep, PTL DEF PackSpec

-----------------------------------------------------------------------------

\* Where the reader stops it has read every code: the bytes do not end before,
\* and the padding byte is not enough for one more.
LEMMA AllRead ==
  ASSUME PackInv, finished, ~MoreToRead
  PROVE  Len(read) = Len(codes) /\ outlen = (13 * Len(codes) + 7) \div 8
<1> DEFINE n == Len(codes)
           m == Len(read)
<1>1. /\ Input_position = 13 * m /\ m \in Nat /\ n \in Nat
      /\ n >= 1 /\ m <= n /\ outlen = (13 * n - 1) \div 8 + 1
  BY DEF PackInv, Written
<1>2. 13 * m # 0 /\ ~((13 * m) \div 8 < outlen - 1)
  BY <1>1 DEF MoreToRead
<1> HIDE DEF n, m
<1>3. (13 * m) \div 8 >= (13 * n - 1) \div 8
  BY <1>1, <1>2
<1>4. m = n
  <2>1. CASE m < n
    <3>1. 13 * m + 13 <= 13 * n
      BY <1>1, <2>1
    <3>2. 13 * m + 12 >= 8 * ((13 * m) \div 8) + 8
      BY <1>1, Z3
    <3> QED
      BY <1>1, <1>3, <3>1, <3>2, Z3
  <2> QED
    BY <1>1, <2>1
<1>5. (13 * n - 1) \div 8 + 1 = (13 * n + 7) \div 8
  BY <1>1, Z3
<1> QED
  BY <1>1, <1>4, <1>5 DEF n, m

\* Decompress gets back exactly the codes that LZW emitted.
THEOREM ReadsAll == PackSpec => []ReadsWhatWasWritten
<1>1. ASSUME PackInv PROVE ReadsWhatWasWritten
  <2>1. Len(read) <= Len(codes)
    <3>1. CASE finished
      BY <1>1, <3>1 DEF PackInv, Written
    <3>2. CASE ~finished
      BY <1>1, <3>2 DEF PackInv, Writing
    <3> QED
      BY <3>1, <3>2
  <2>2. \A k \in 1 .. Len(read) : read[k] = codes[k]
    BY <1>1 DEF PackInv
  <2>3. finished /\ ~MoreToRead => Len(read) = Len(codes)
    BY <1>1, AllRead
  <2> QED
    BY <2>1, <2>2, <2>3 DEF ReadsWhatWasWritten
<1> QED
  BY <1>1, PackInvariant, PTL

\* Decompress leaves the file at the header of the next record.
THEOREM EndsAtHeader == PackSpec => []StopsAtNextHeader
<1>1. ASSUME PackInv PROVE StopsAtNextHeader
  <2> SUFFICES ASSUME finished, ~MoreToRead PROVE Fetched = outlen
    BY DEF StopsAtNextHeader
  <2>1. Len(read) = Len(codes) /\ outlen = (13 * Len(codes) + 7) \div 8
    BY <1>1, AllRead
  <2>2. Input_position = 13 * Len(read)
    BY <1>1 DEF PackInv
  <2> QED
    BY <2>1, <2>2, Zenon DEF Fetched
<1> QED
  BY <1>1, PackInvariant, PTL

\* LZW writes inside the buffer of encode(), for chunks of three bytes or more.
THEOREM InBuffer == PackSpec => []StaysInBuffer
<1>1. ASSUME PackInv PROVE StaysInBuffer
  <2> SUFFICES ASSUME chunk_len >= 3 PROVE furthest < 2 * chunk_len
    BY DEF StaysInBuffer
  <2>0. chunk_len \in Nat /\ Len(codes) \in Nat /\ MAX_CHUNK_LEN \in Nat
    BY <1>1, BitPackAssumption DEF PackInv, BitPackAssumption
  <2> DEFINE n == Len(codes)
  <2>1. CASE finished
    <3>1. n <= chunk_len /\ n >= 1 /\ furthest = (13 * n - 1) \div 8 + 1
      BY <1>1, <2>1 DEF PackInv, Written
    <3> HIDE DEF n
    <3>2. n \in Nat
      BY <2>0 DEF n
    <3>3. 8 * ((13 * n - 1) \div 8) <= 13 * n - 1
      BY <3>1, <3>2, Z3
    <3> QED
      BY <2>0, <3>1, <3>2, <3>3, Z3
  <2>2. CASE ~finished
    <3>1. n < chunk_len /\ furthest <= (13 * n) \div 8 + 1 /\ furthest \in Nat
      BY <1>1, <2>2 DEF PackInv, Writing
    <3> HIDE DEF n
    <3>2. n \in Nat
      BY <2>0 DEF n
    <3>3. 8 * ((13 * n) \div 8) <= 13 * n
      BY <3>1, <3>2, Z3
    <3> QED
      BY <2>0, <3>1, <3>2, <3>3, Z3
  <2> QED
    BY <2>1, <2>2
<1> QED
  BY <1>1, PackInvariant, PTL

\* A chunk never becomes longer than twice its length, padding included, however
\* short it is: what encode() copies into the output is bounded by its input.
THEOREM AtMostDoubled == PackSpec => [](finished => outlen \in 2 .. 2 * chunk_len)
<1>1. ASSUME PackInv, finished PROVE outlen \in 2 .. 2 * chunk_len
  <2>1. chunk_len \in Nat /\ Len(codes) \in Nat
    BY <1>1, BitPackAssumption DEF PackInv, BitPackAssumption
  <2> DEFINE n == Len(codes)
  <2>2. n \in 1 .. chunk_len /\ outlen = (13 * n - 1) \div 8 + 1
    BY <1>1, <2>1 DEF PackInv, Written
  <2> HIDE DEF n
  <2>3. n \in Nat /\ n >= 1 /\ n <= chunk_len
    BY <2>1, <2>2
  <2>4. /\ 8 * ((13 * n - 1) \div 8) <= 13 * n - 1
        /\ 13 * n - 1 < 8 * ((13 * n - 1) \div 8) + 8
        /\ (13 * n - 1) \div 8 \in Int
    BY <2>3, Z3
  <2> QED
    BY <2>1, <2>2, <2>3, <2>4, Z3
<1> QED
  BY <1>1, PackInvariant, PTL
=============================================================================
